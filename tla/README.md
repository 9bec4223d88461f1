# A verification development for AI4Math

The repository proves theorems in Lean 4 with language models.  A proof attempt
is cheap to generate and worth nothing until Lean has accepted it, so what the
program promises rests on the path from an attempt to Lean and back, and on what
it keeps of the result: transports that write requests to a REPL process and read
its answers, a pool of sessions, the environments a proof is checked in, the daemon
that shares REPL processes between clients, searches that put a proof together from
single tactics, the runner that decides what to report, caches, a message bus, the
stores of what was learned, and the evaluation that counts proofs.  The modules here
model these parts, check them with TLC on small instances and prove what matters
most with TLAPS.  `PROJECT.json` maps every definition to the lines of source it
stands for, and lists the hazards the properties are for.

## 1. Inventory

### What is modelled

| Part | State | Operations | Modules |
|---|---|---|---|
| Local transport, `engine/transport.py` | REPL process, `_send_lock`, alive flag, failure and restart counters, pipes | `start`, `send`, restart, kill, heartbeat, `close`, cancellation | `LocalTransport`, `AnswerService` |
| Session pool, `engine/async_lean_pool.py` | session list, `_busy`, `_is_overflow`, handles of proof states, the two Conditions | acquire, acquire a given session, release, overflow, add, remove, shutdown | `LeanPool` |
| Session environments, same file and the transport's `_known_envs` | base environment, preamble cache, known numbers | verify, load a preamble, `share_lemma`, heartbeat, process replacement | `SessionEnvs` |
| Lean daemon, `docker/lean_daemon.py` | semaphore, warm queue, listed sessions, one handler per connection | prewarm, acquire, serve, release, shutdown | `LeanDaemon` |
| Socket transport, `engine/transport.py` | connection, alive flag, reconnect counter | connect, reconnect, `send`, `close` | `SocketTransport`, with the daemon in `DaemonSystem` |
| Tree search, `engine/search`, `prover/unified/runner.py`, `tactic_apply` | tree of proof states, current and solved node, policy | select, expand by an agent loop with parallel tool calls, backpropagate | `ProofSteps`, `TreeSearch` |
| Agent loop and runner, `agent/runtime/agent_loop.py`, `prover/unified/runner.py` | turn, calls of a message, `shared_state`, last proof, stop reason | whole-proof and step-level loops, automatic verification, parallel mode, report | `ProofRunner` |
| Verification scheduler, compile cache, `engine/async_verification_scheduler.py`, `_core.py` | LRU cache, `_env_version`, lemmas of each session | prefilter, verify, full compilation, `share_lemma`, announcements | `Verification` |
| Broadcast bus, `engine/broadcast.py` | history, fingerprints of the window, queues | publish, subscribe, unsubscribe, render, clear | `Broadcast` |
| Knowledge base and proof context store, `knowledge/`, `engine/proof_context_store.py` | SQLite tables of tactics, errors, lemmas, contexts, traces | deposits by several writers, reinforcement, decay, collection, deletion of contexts | `KnowledgeStore` |
| Lemma bank, `prover/lemma_bank/persistent_bank.py` | rows of the file, hashes and open transaction of each process | open, `add`, failed commits, close | `LemmaBank` |
| Dialog index, `knowledge/dialog_index.py` | entries, retriever, SQLite file | every way entries come in, search, clear, persist, load | `DialogIndex` |
| Backends Lookeng, Kimina, Pantograph, `engine/backends` | running contexts; environments and snapshots of a batch service; proof states of a binding | begin, submit, close; verify a batch; load, tactic, focus, draft | `Lookeng`, `Kimina`, `Pantograph` |
| Synchronous REPL and MCTS evaluation, `prover/verifier/lean_repl.py`, `run_mcts_eval.py` | preamble cache, late answers; tree with visits and tactics to try; trace files | check a path; descend, expand, back up, give up, save, resume | `LeanRepl`, `MctsSearch` |
| Evaluation, `run_eval.py`, `benchmarks/metrics.py` | samples, dialogs on disk, metrics | sample, save, resume, count | `Evaluation` |

How they interact: a tool of the agent loop calls the pool, under the time limit
of `BaseTool.safe_execute`, which *cancels* the call when it expires.  The pool
gives the call a session; the session finds an environment and sends a request
on its transport; the transport writes to its own REPL process or to the daemon,
which writes to a process of its own.  Every layer has a limit of its own on how
long it waits, and what a layer gives up the one below may still be doing.  The
scheduler puts a cache in front of the pool and posts its verdicts on the bus; the
writer deposits what a proof attempt taught in files that other processes have
open; the evaluation calls the runner and reads back, after a restart, the dialogs
it left.

### What makes this code hard

* **Answers carry no identity.**  The REPL answers in order, the transports take
  the next answer for the one they wait for.  Whoever gives up a request leaves
  an answer behind.
* **Cancellation at every `await`.**  Tool time limits cancel tasks that hold a
  lock, wait for one, restart a process or release a session in `finally`.
* **Names that outlive what they name.**  Environment numbers, proof state
  numbers, handles, snapshots and positions in a retriever refer to a process or a
  list; these are replaced without telling the layers above.
* **Parallel tool calls on shared objects**, which read state before an `await`
  and write after it; **threads and processes** that read a row before the
  transaction that overwrites it.
* **Limits**: restarts, reconnects, overflow sessions, permits, nodes, messages,
  cache entries.
* **Loops bounded by a counter that may not move.**
* **A verdict told twice**: live, and from what was saved, by different rules.

### What is not modelled, and why

`PROJECT.json` gives the reason for every component.  In short:

* *Text analysis and numbers*: error intelligence, summaries, integrity patterns,
  world model, premise retrieval, TF-IDF scores, prompts, parsing, exports.  Where
  what they decide matters it is a nondeterministic choice, or a constant (the
  codes `Accepted`, `Filtered`, `Recognised`...).
* *Policy engine and task states*: a task is made in `CREATED` and never moved by
  the program, and the loop looks for action names that the engine does not have
  (`agent_loop.py:375-390`), so the engine never ends a loop.
* *RL samplers*: `ProofEnv` reads `new_env_id`, `goals_after`, `proof_complete` and
  `goals_closed` (`proof_env.py:345-467`), which `VerificationResult` does not have;
  every tactic is applied at the root and no episode succeeds.  A model of it would
  be a model of one state.
* *Hilbert orchestrator*: statements are checked with `:= by sorry` by a verifier
  that rejects `sorry` (`orchestrator.py:323`), so the steps behind a decomposition
  are never reached.
* *Daemon's compile mode*: no state outlives a request but a permit that
  `async with` returns.  *Fallback and mock transports*: no Lean.
* *LLM providers*: a call answers or fails, an action of its callers.
* *Retrieval cache*: one task fills a dictionary.

The map covers the code that keeps state and decides.  The rest, by far the larger
part of the repository, is prompts, parsing, rendering, file formats, command lines
and statistics: a state machine of it would say nothing that the code does not.

### What correctness means for each part

* Transport: answers stay in step with requests; the lock serialises; no process
  is lost; restarts are bounded; calls return.
* Pool: exclusive use of sessions; accurate flags; overflow sessions leave; calls
  return.
* Environments: a proof is checked in the environment of its preamble.
* Daemon: permits and processes are accounted for; a process serves one client; a
  session comes back when the client goes; verdicts come from Lean.
* Search: the tree says what Lean did; its solution is a proof; counts are right;
  the search ends.
* Runner: what is reported as verified is a proof of the theorem; a proof that was
  found ends the loop; the run returns.
* Cache and scheduler: a verdict is of the same proof in the same environment.
* Bus: what was posted is readable within its time; nothing is told twice within
  the window; a full rendering loses the least urgent.
* Stores: counters equal what was deposited; a lemma follows its trace; no lemma
  twice; a search names the dialogs it scored.
* Backends: what is put together compiles together; an answer belongs to its
  question; only Lean completes a proof.
* Evaluation: pass@k is unbiased; what counts as solved is proved; a resumed run
  equals an unbroken one.

## 2. Modules

**`LocalTransport`.**  Processes are numbered in the order they are spawned;
requests and answers of the current one are three counters, `written`,
`answered`, `readUpTo`.  A task's `pc` says where in `send()` it is; `queue` is
the lock with its waiters.  The environment acts through `Consume`, `Answer`
(later than any limit, if it likes) and `Die`.  `Cancel` is the tool's time
limit, at any `await` it can strike.  `Restart` and its uses inline what
`_restart_repl` does in each of its four callers.  History variables (`clean`,
`leaked`) say whether a request was given up and which processes a cancelled step
left; no guard reads them.

**`AnswerService`** is what a transport promises: answers are delivered in the
order of the requests and none twice, and while no call has failed since the last
reset each caller gets the answer to its own request.  `LocalTransport!ImplementsService`
substitutes `written`, `readUpTo` and the requests of the waiting tasks.

**`LeanPool`.**  One action per critical section of the Condition; `Acquire`,
`AcquireSpecific` and `Release` wait for its lock, held across an `await` by the
tasks in `Holders`.  There are two Conditions: `_condition_loop` is None until a session is
first acquired, and that acquisition replaces the Condition of `__init__`, which
`add_session` and `remove_idle_session` use as they find it and may then still hold
(`bound`, `first`).  `remove_idle_session` pops the position it found before it
waited for the session to close (`index`, `Popped`), whatever is there by then.
`Shutdown` takes no lock, as in the code.  The transport may do to a session what it
does to any (`TransportRestarts`, `TransportGivesUp`); a handle is a session and the
process its proof state was made in.  All tasks run in one event loop, so the
Condition is replaced once, and the pool is not started again after a `shutdown()`.

**`SessionEnvs`.**  An environment is the set of commands it was made from, and
its number is its place in the process's sequence.  Numbers survive in `base`,
`cache` and `known` when the process is replaced.  A preamble is a sequence of
commands; `startswith` compares text, so a preamble extends the loaded one by what
is left of it, and the transport drops the environment of commands that import.  Any
calls of `share_lemma` overlap: each reads the base before it waits and writes it
back after the answer.
`start_proof` resolves its environment as `Verify` does.

**`Connections`, `LeanDaemon`, `SocketTransport`, `DaemonSystem`.**  The two
ends share `Connections`; `DaemonSystem` interleaves them.  The daemon starts with
any number of warm sessions, each alive or dead, with or without a late answer to
its preamble.  Writing a request and `drain()`, which has no time limit, are two steps:
a handler may stay in `draining` for as long as the process does not read.  A line
longer than `readline()` takes is an error, after which the rest of it may be in the
stream (`cut`) and be read, as one or several further lines, for later requests
(`RestRead`).  `Verdicts` is the session's reading of a response.

**`ProofSteps`, `TreeSearch`.**  Lean is a function from a proof state and a
tactic to a proof state or `Fails`.  The LLM names any tactic and any node, also
one past the last.  A tool call is two steps: `Ask` resolves the proof state of
every call of a message, `Applied` or `Rejected` ends one.  The number of a node is a
number of the process that made it, and a call sends it to any idle session: what it is
applied to is that node's proof state if the pool has one session whose process is never
replaced (`OneProcess`), any proof state otherwise (`AppliedTo`); the history variable
`astray` says that a number was applied to another proof state than its node's, or named
a node that did not exist.  Scores are exact
integers (twentieths); the UCB policy, which takes logarithms and roots, chooses
any leaf that the other policies could be offered.

**`ProofRunner`.**  One agent per profile; `Boot`, the turns (`AnswerText` or
`AnswerCalls`, one step for the end of each call, `TurnEnds`), the automatic
verification, `Report`.  A code
is a member of `Codes`: what Lean accepts as a whole, a block whose last proof alone
is accepted, a declaration that is not the target.  `shared` is the step-level
agent's `shared_state`, which overlapping calls read and write.

**`Broadcast`, `Verification`.**  A message is its topic and time; its fingerprint is a
function of the topic (`Fingerprint`), which is not one to one: of a discovery the code
keeps the first 50 characters (`broadcast.py:423`).
`Verification` extends the bus by the tasks that verify proofs: `Submit` computes
the cache key, `Check` is Lean's verdict in the session it got and puts it in the
cache, `Answer` announces it, `Compile` is L2; `share_lemma` injects into one session
after the other.

**`KnowledgeStore`, `LemmaBank`, `DialogIndex`, `Stores`.**  Three stores that
share nothing; `Stores` lets each of them move, and the run one at a time.  An
operation of the knowledge base is a SELECT and a later transaction, by a thread
that the cancellation of its coroutine does not stop; deleting a context deletes its
traces, whose numbers stay in the lemmas that name them.  The bank's processes learn
the hashes of a file when they open it, and keep the row of a failed commit in their
open transaction (`pending`), which a later commit writes with its own.  The index keeps its retriever with what it
was built over.

**`Lookeng`, `Kimina`, `Pantograph`, `Backends`.**  `Backends` chooses one of the
three, which is how a session is configured.  `Kimina`'s service answers a batch in
any order, in part, or late; `Pantograph`'s binding has any set of methods.  Its calls
run in threads that take the number of a new proof state without a lock (`Overwrite`),
its goals may be read in part or not at all (`Keep`), and a focus or a draft may name a
number that was never given, which the model calls 0.

**`LeanRepl`, `MctsSearch`.**  An exchange with the process is one step; late
answers and replaced processes are as in `LocalTransport`.  `MctsSearch` is one
worker over the dataset, its program stopped anywhere and started again.  The PUCT
values are left out: a descent prefers any live child.

**`Evaluation`.**  A sample is a run of `ProofRunner` seen from outside: the code
it ends with, what was said of it, and the codes that `lean_verify` accepted in the
message that ended it, in the order of the calls.

The `MC` modules give the constants that a configuration cannot write: functions,
sequences, symmetry; some bound the next-state relation, as section 3 says.

## 3. Runs

| Run | What it shows | Instance |
|---|---|---|
| `transport` | lock, pipe, processes, restarts; refinement of `AnswerService`; calls return | 2 callers and the heartbeat, 1 restart, 3 calls, requests longer than the pipe |
| `pool` | exclusive use, flags, overflow, calls return | 2 tasks, 1 regular session, 2 sessions ever, 2 processes per session, 1 handle |
| `session_envs` | known numbers exist; proofs in their environment, and lemmas stay shared, while nothing was given up | 4 preambles (none, one that extends the loaded one by an `open`, one by an `import`, another import), 2 lemmas whose calls overlap, 1 restart, 1 timeout, 4 environments |
| `daemon` | permits, processes, dedication, step, release | 1 client, 3 connections one after the other, 2 permits, 1 warm session, 3 sessions, 2 reconnects, 2 requests |
| `daemon_refusal` | expected violation, section 6 | as `daemon` |
| `search` | tree, first solution, counts, bound, progress | 3 policies, 4 nodes + overshoot, depth 3, beam 1, 2 turns, 2 parallel calls, 4 proof states any of which a call may be applied to |
| `prover` | verified reports are proofs; a proof ends the loop; runs return | a whole-proof and a step-level agent, 2 turns, 2 calls per message, 4 codes, a theorem of two tactics |
| `verification` | verdicts are current; messages readable, not repeated, lost last | 1 task that verifies, 2 directions, 1 reader, 4 topics of which two have one fingerprint, 2 sessions, 3 proofs, cache of 1, 1 shared lemma, window 0, life 1, time up to 2 |
| `stores` | counters, lemmas and traces, twins, dialogs | 2 writers, 1 key, 2 kinds of attempt, 3 operations, 1 context, 2 upkeeps; 2 adders in one process and 1 in another, 2 statements, 3 rows; 1 theorem, 1 file, 1 row, 2 entries |
| `backends` | contexts compile, verdicts and snapshots match, completions earned | 4 lemmas of two names, 2 lemmas per context, 2 contexts; batches of 2 by 2 clients; 3 proof states made, any methods |
| `mcts` | traces replay, given up means unprovable, no circles | 2 theorems with a preamble each, depth 2, 5 nodes, 7 visits, 2 faults, 1 restart, 1 heartbeat, 2 runs |
| `evaluation` | pass@k, what counts as solved, resumption | 2 problems, 2 samples, k in {1, 2}, 3 codes, up to 2 accepted in a message, 2 processes |

**Bounds.**  Two callers are enough for every race over the lock: a holder and a
waiter, the heartbeat being a third.  One restart reaches both the restart and its
refusal, and three calls let an answer that was given up meet a later request and
a third one find the pipe again in step.  In the pool, one regular and one
overflow session with two processes each make every kind of session busy, free,
dead, replaced and closed; a third session would be another overflow session.  Two
tasks are enough for both Conditions to be held at once.
Two permits and three connections let a client hold one session, lose a second
and wait for the third.  In the search, the shortest theorem needs three tactics;
a bound of four nodes with two turns of two calls lets the tree reach seven, overshoot `max_nodes`
and solve the theorem twice in one expansion.  In the prover two turns and two
calls let a tactic overlap another, a proof come with a failure in the same message
and a loop end by its text, its budget and its proof.  The cache of one entry evicts
at the second proof, and `uses` is the proof whose verdict a shared lemma changes; in
the bus each bound is smaller than what the senders can post, and time passes the
window and the life of a message.  Two writers with three operations let a read
meet another's write and an upkeep between; three rows let two threads, or two
processes, insert one statement, and a commit that failed be written after another
thread has added its statement again.  The four lemmas include one name twice, one that
needs another and one that is a bare statement; contexts of two are full at once.
For `mcts`, five nodes and seven visits are the least with which a root is given up
after a complete search of depth two, the second run resumes from traces of both
kinds.  Two problems and two samples let a process stop between samples, between a
sample and its dialog, and between two dialogs.

Four `MC` modules bound the next-state relation.  `MCStores`: the three stores share no
variable, so two of them stay as they were at the start; a joint behaviour shows nothing
more.  `MCSessionEnvs`: the second lemma is shared only while the first one is and
nothing else is under way, and from then on no request is given up and no process
replaced.  `MCTreeSearch`: one call of a search is applied to another node's proof state,
alone in its message.  `MCEvaluation`: every dialog is drawn for the first problem of the
first process, plain ones elsewhere.  The theorems are about the relations without these
bounds.

The bounds `MaxCalls`,
`MaxSessions`, `MaxProcesses`, `MaxHandles`, `MaxEnvs`, `MaxTimeouts`, `MaxRequests`,
`Slots`, `MaxTime`, `MaxShares`, `MaxOps`, `MaxUpkeep`, `MaxRows`, `MaxEntries`,
`MaxContexts`, `MaxBatch`, `MaxSnapshots`, `MaxImports`, `MaxStates`, `MaxVisits`,
`MaxFaults`, `MaxBeats`, `MaxAccepted`, `MaxRuns` belong to the models only; the others are
parameters of the code.

*Symmetry* is over sessions (`verification`), over the callers of the backends and
over the writers in `stores` (`MCSymmetry` of each); these runs check no liveness.

Deadlock is not checked: calls, restarts, connections, nodes, operations and runs are
used up, and the systems then stop.

**Fairness.**  asyncio runs each ready task and fires each timer, so a task's own
steps are weakly fair.  Nothing else is: the REPL need not answer, and nobody need
call, cancel or close.  The pool's steps are strongly fair because asyncio's locks
are first come, first served: a task that can take the lock again and again does.
Its sessions' calls return by `CallsReturnOrClog` of the transport.  In the daemon
only the handlers are fair, and of these not the wait in `drain()`, which ends when the
process reads.  In the search every call ends because tools and LLM
clients have time limits; so do those of `prover`, whose fair steps are the start of
an agent (or its failure), the LLM's answer, the end of each call, of each turn and of
the automatic verification, and the report.

**Combined invariants.**  `TransportInv`, `PoolInv`, `EnvInv`, `DaemonInv`, `TreeInv`,
`ReportsProve`, `CountsAgree` and the invariants of `verification`, `stores` and
`backends` are conjunctions of named parts, the type invariant among them; each
part's comment says what it is about.  That of the knowledge base is in `LemmaHasTrace`.

## 4. Proofs

The modules `*_proofs` prove, for any value of the constants, what the runs check on
small ones.  Assumed are only the named assumptions on constants, which TLC evaluates
in every run.  Every safety property that a passing run checks is the subject of a
theorem.

| Module | Proofs about |
|---|---|
| `LocalTransport_proofs` | `LocalTransport` and its refinement of `AnswerService` |
| `LeanPool_proofs` | `LeanPool`; then `Verification` with `Broadcast`, and `Evaluation` |
| `SessionEnvs_proofs` | `SessionEnvs` |
| `DaemonSystem_proofs` | `LeanDaemon`, `SocketTransport` and their composition |
| `TreeSearch_proofs` | `TreeSearch` over `ProofSteps` |
| `ProofRunner_proofs` | `ProofRunner`; then `MctsSearch` over `LeanRepl` |
| `Stores_proofs` | `KnowledgeStore`, `LemmaBank`, `DialogIndex` |
| `Backends_proofs` | `Lookeng`, `Kimina`, `Pantograph` |

What the models define by recursion (visits of a node, the replay of a path, pass@k,
the answers of a fold) is a recursive *function* on a set of numbers, and so can be
proved about: a least number at which a claim fails (`LeastNumber`) has a predecessor at
which it holds.  Each such induction is a lemma on the function, and the step proofs
cite it.

*Transport.*  `PipeInv` is not inductive: that the pipe is in step depends on
the reader being the only writer, that is on the lock, and on where each task is
in a restart.  The inductive invariant joins the types, the lock (the queue has
no duplicates, its head is the only task past the lock), the pipe (counters in
order; while `clean`, at most the request being read is unanswered) and the
processes (each running one is the current one, is being killed, or is leaked by
a cancelled step).  Each conjunct is preserved action by action; removing a waiter
from the middle of the queue is a lemma of its own.  `OwnAnswer` and
`GivenUpStaysGivenUp` are action properties that follow from it, `TransportHolds` is
the run's invariant, and `Refinement` shows that every step is a step of
`AnswerService` or leaves its variables alone.

*Pool.*  Exclusive use follows from an invariant that relates `pc`, `use` and
`busy`: a session in use is busy; two tasks are in critical sections across an `await`
only under different Conditions, and under the first of them only `add_session` and
`remove_idle_session` (`OneHolder`); a session being started or closed is handled by
that task alone, and none is listed twice (`HolderInv`).  Exclusive use does not need the
Condition, as no `await` comes between the test of `_busy` and its setting.  That a
session in use stays listed does: the position a task is about to pop is that of the
session it closed, unless an entry left the list meanwhile (`PlaceInv`).  `BusyFlag` and `OverflowLeaves` need the history set `lost` of
sessions whose release was cancelled.  `PoolHolds` is the run's invariant.

*Environments.*  That a checked proof was in its environment says nothing of the
numbers under way: the inductive invariant says, of each number in the base, the
cache, a request in the pipe or an answer, that it exists on its process and, while
nothing was given up, names the environment of what it is kept for
(`RightWhenClean`), and how far the task has come (`StageInv`).  From it follow
`EnvHolds`, `CheckedHolds` and `CachedHolds`.  `SharedLemmasStay` needs, of any number of
overlapping calls, that each of them was sent in an environment with every lemma that
must stay (`SharesInv`): a lemma must stay when its call is answered and no other call
is under way, so whichever call began later has it in the environment it will extend,
and whichever overlapped it makes no claim.

*Daemon.*  A session in the queue, in a handler or found dead holds a permit, and no
session is in two of these places (`Owners`); a process is started only after its
session's acquisition ended, and killed before its permit returns (`OnPermit`).  So
the running processes are those of sessions with permits, and the limit follows
from `PermitsAccounted`.  The types of the connections need that a handler which
waits has a request in its pipe.

`AnswersInStep` follows a request over three hops.  `FlightInv` says that a connection
belongs to one client and what is written to a closed end is lost (`LinksOwn`,
`EndsClosed`); that a session on which nothing timed out has in its pipe the request of
the handler that waits, or none (`PipesShort`, which rests on the sessions being
dedicated); and that, as long as nobody gave up (`InStep`), the request the client waits
for is in one place only: on the wire, with the process, or answered on the wire back
(`OneInFlight`).  The one other thing on its way may be the daemon's refusal.  A
process with the rest of a line in its stream is marked as slipped (`CutMarked`).

*Search.*  `EdgesSound` is not inductive because of the calls under way: `CallsInv`
says that each was applied to the proof state of the node its own node will be put
below, unless a call went astray.
`NodesBounded` counts the calls under way in advance (`BudgetInv`).  `SolvedIsFirst`
needs only the nodes.  `SearchCorrect` is the run's whole invariant.  A node's parent has
a smaller number, so the ancestors of a node are defined by recursion along the tree and
do not change as it grows; `CountInv` counts the nodes there were before the expansion
under way, and settling it counts each new node at its ancestors, once.  The replay of the
solved path is an induction along the tree too, with `EdgesSound` at each edge.

*Stores.*  `CountsAgree` compares counters with the deposits made, and breaks at a
writer that read before another wrote; `ReadsOld` says what such a writer holds: what
it read is of an older row, and while that row is there it was told at least what was
read.  Lemmas never go, so a writer that read one finds one (`ReadsMade`).  In the bank
an open process knows what the file held when it opened it and what it added, but for
statements that are exposed (`KnowsFile`); what a thread is about to insert is new to
the others (`AddsNew`), what a failed commit left in a transaction is exposed
(`PendingExposed`), and so a statement has one row (`OneRow`).

For `LemmaHasTrace`, what a writer has still to do is sound (`PlanSound`): it rests on no
trace, on one the writer will record before, or on the one it has recorded, which is of
a successful attempt with a have-step for the lemma.  So a writer may fail, be cancelled or crash between any
two operations.  For `DialogsSound`, the retriever was built over the candidates there are
unless it is marked out of date (`BuiltOver`), and what is read back from the file has one
row for each theorem and source (`OneRowEach`); the folds over entries and rows are typed
by induction (`Among`, `Written`).

*Cache and bus.*  `BusInv`: the fingerprints are the end of the history (`EndOf`), and
unless one was dropped for want of room, what the history and the queues hold of the
window is known to them (`Known`) and apart by a window (`Apart`).  So a message with a
fingerprint that is refused is there until it expires, and no fingerprint is told twice.  A rendering sorts by priority, and
that the sorted queue is the queue in another order is a lemma: the ranks are a
bijection.  `VerdictInv`: an entry of the cache holds a verdict that Lean gave with the
lemmas of at least its version (`EntrySound`), a call under way was begun at a version
no greater than the current one, and its verdict is no older (`CallSound`); and while
lemmas are being shared the version is behind them, for `share_lemma` raises it last.

*Evaluation.*  `EvaluationInv` says of each dialog on disk which samples solved its
problem, and of each trace that it was made of samples of this process or of the dialog
that was there.  pass@k: the choices of k samples without a correct one are counted by
Pascal's rule (`SubsetsCounted`), and the quotient of the falling products that the code
computes is their share.

*MCTS.*  `MctsInv` joins what is on its way to the process and back, the tree, and the
traces.  While the run is clean, the reply is about the path that was asked for, and a
node says what Lean says of its path; a tactic of a batch is pending or has a child; and
a node was given up for a reason that is true of it: an error, the greatest depth, the
goals of a node with a shorter path, or children that were all given up.  `GivenUpRight`
then descends: a proof below a given-up node passes through a child, which was given up
too, and has a tactic less; where a node repeats goals from above, the same proof is
nearer to the root.  `CleanRun` requires, besides a process that is in step and the
first one, that the theorem was sent with the environment of its preamble: when that
could not be made, `_env_for` returns none (`lean_repl.py:171-173`) and the theorem is
sent bare.

*Runner.*  That a reported list of tactics replays needs the calls under way:
`PathsLead` says that, until two calls of an agent overlap, its tactics lead from the
theorem to the proof state it is in, and a call that completed a proof holds tactics
that do.  `EndsProve` carries this to the result, and says that code waits for the
runner's verdict first; `ReportedInv` says where a reported proof is until its loop has
ended.

*Backends.*  Lookeng: a submission under way was put behind the first lemmas of its
context (`SentBehind`), so if nothing came in meanwhile the new context is what was
compiled; the limit counts the submissions under way in advance (`Room`).  Kimina: the
requests of a batch have one preamble and name snapshots of it (`PostedMatch`), and an
answer until it is read is about a request of its batch (`ReplyMatches`).  Pantograph: a
call under way is of a method there is, on a proof state the engine made (`AskedLive`);
each proof state was earned from the one it was made from, and one that two threads wrote
is set apart by then (`AllEarned`).

*Only model-checked:* liveness under fairness (`CallsReturnOrClog`, `CallsReturn`,
`SessionsReturned`, `ReturnsOrBarren`, `RunReturns`), which is beyond this prover.

## 5. What the checks show, and what they do not

Many properties name exceptions.  Each exception is something the code really does.

* `OwnAnswerWhenClean`, `CheckedWhenClean`, `CachedWhenClean`, `InStepReceives` and
  `TracesReplay` hold *while no request was given up*.  Time limits and
  cancellations are normal in this program, so they delimit what a user may rely
  on; they do not say that answers are right after a timeout.
* `InStepReceives` also exempts a session in whose stream the rest of a line was left
  (`lean_daemon.py:107`).  In `LocalTransport` such a rest needs no exception: `send` takes
  it for the beginning of the next answer, which then is not JSON, and that request times
  out and is given up.
* `CallsReturnOrClog` and `SessionsReturned` have an exception: a process that does not
  read its input, for which `drain()` waits without limit.
* `InUseStaysListed` exempts what `remove_idle_session` pops after an entry left the list
  while it waited; in the code that may be a session in use, which then is used and
  released outside the list.
* `SharedStays` is about lemmas shared by a call that no other call was under way with
  when it was answered.
* `PostedVisible` and `NoRepeats` speak of fingerprints: a different discovery with the
  same first 50 characters is answered "posted" and is nowhere.
* `ReturnsOrBarren` has an exception: expansions that add no node.
* `EdgesSound` and the replay of the solved path need that no call went astray: named a
  node that did not exist, or was applied in a process where its number is another proof
  state's.  With one session whose process is not replaced only the first can happen;
  with several, every call may be the second, and the code does not notice.  `RootHolds`
  assumes that the number the search starts from names the theorem's proof state, which
  `_init_root_state` does not establish.
* `CachedWhenClean` exempts a preamble that extends the loaded one by an `import`, once
  a lemma is shared: it is cut to the import (`async_lean_pool.py:147-153`) and
  elaborated in no environment (`transport.py:257`), and cached for good.
* `ReportsProve` exempts the automatic verification that raised (`runner.py:1215`),
  blocks of which only the last proof was checked, and step-level proofs whose calls
  overlapped.
* `CountsAgree` exempts counts of tactics written by one who had read an older row;
  `NoTwins` statements added by two threads at once, under another process, or by a
  commit that failed; `DialogsSound` queries with the other `solved_only`;
  `ContextsCompile` bare statements and crossed submissions; `CompletionEarned` proof
  states made without the engine, or from a number never given, those whose goals could
  not all be read and those whose number two threads took.
* `LemmaHasTrace` says that a lemma names the trace it was taken from: the step it was
  taken from may have reported an error, and the trace goes with its context.
* `SolvedIsProved` and `ResumeKeepsVerdict` name what the saved dialog does not tell:
  whether Lean was there, and on which proof its verdict was; of several accepted calls
  in one message a resumed run may count a later one than the loop ended with.
* Lean's verdicts are taken as given throughout.

## 6. Where the code does other than it says

`daemon_refusal` is a violation run and a finding in `PROJECT.json`: the daemon's
refusal of a connection is read as a verified proof.

Observed while modelling.  Each is described where a reader of the code will look
for it; those that bear on a property are its exceptions above.

*Transport and daemon.*  After a cancelled or timed-out request `send` returns the late
answer to the next call (`transport.py:286`); the first timeout leaves the stuck
process in service (`:308`); `send()` after `close()` starts a process (`:247`).
`SocketTransport` marks itself dead at the end of its stream and does not reconnect
for the call (`:522`).  A warm session found dead is dropped with its permit
(`lean_daemon.py:196`).  `drain()` is outside the time limit of a request
(`lean_daemon.py:104`), and the rest of a line that is too long for `readline()` answers
the next request (`:107-121`).

*Pool and environments.*  The list is not "protected by" one Condition, as
`async_lean_pool.py:745` and `:764` say: the first acquisition replaces it (`:824-835`),
whoever holds the old one; and `remove_idle_session` pops an index from before its
`await` (`:771`).  Numbers that are no handles are sent to any idle session
(`:588-612`).  A bound session is returned although its process was replaced
(`async_lean_pool.py:873`); with a lazily loaded preamble environment 0 is taken for
the empty one (`:160`); a release cancelled at its lock leaves the session busy (`:892`);
`shutdown()` drops a session that was added while it ran (`:782`); `start_proof` on an
overflow session returns a handle to a session it closes (`:582`); a late answer is
cached as a preamble's environment (`:176`); overlapping calls of `share_lemma` lose a
lemma (`:708`).

*Search.*  It selects one node for ever if its expansions add nothing
(`search/runner.py:62`); a call that guesses the number of a parallel call's node is
put below it and applied elsewhere (`search/core.py:93`); with more than one session a
node's number is applied in whatever process is idle (`async_lean_pool.py:588-612`);
`max_nodes` and `max_depth`
are exceeded by calls that name nodes; the beam prunes leaves of all depths together.

*Runner.*  Profiles with `auto_inject_lean_compile` off report an unverified success; a
`lean_verify` that rejects is a successful tool call; a verification that raises leaves
the unverified success (`runner.py:1215`).  `tactic_apply` of Pantograph without the
runner's bootstrap is not modelled.

*Cache, scheduler, bus.*  Errors other than timeouts are cached as verdicts;
`AsyncCompileCache` has no caller; L2 drops the proof of a theorem that contains `:=`.
A discovery whose first 50 characters are those of another is dropped and answered
"posted" (`broadcast.py:270`, `:423`).  Nobody in `src/` subscribes to the bus; of the tool's kinds only "positive" works,
"negative" raises a `TypeError` and "lemma" and "partial_proof" fail in
`_compute_fingerprint` (`tools_extra.py:222-231`).

*Stores.*  `_export_batch_sync` names a column that does not exist (`store.py:926`), so
the export is empty; a step that reported an error but has an environment gives a lemma
(`writer.py:240-243`); deleting a context deletes the traces that lemmas name
(`proof_context_store.py:230`, `:386`); a failure that was fixed counts twice; a collected lemma that is
added again stays stale; `reinforce`, `decay_all`, `gc_stale` and
`ingest_proof_result` have callers in tests only; an in-memory database is not
modelled.  In the lemma bank a proposal without proof keeps a later proof of the same
statement out, and a failed commit is not rolled back: a later one writes its row
(`persistent_bank.py:157-173`).  The index's retriever is kept by `_dirty` although it was built over
the candidates of one `solved_only` (`dialog_index.py:817`); the command line's index
is always `None`, for `load_dialog_index` calls an instance method on the class
(`factory.py:139`); of entries with equal scores the earliest is kept, not "the latest
solved entry"; persisting lets a later unsolved entry overwrite a solved one.

*Backends.*  Lookeng's `_compose_lemma` brings a bare statement into form, but
`render_for_compiler` pastes it raw, after which nothing compiles; an empty proof
becomes an accepted `sorry`; the transport is always sent environment 0.  Kimina's
`_handle_command` ignores `result.success`; no root is ever registered as a proof state,
so every tactic is of an "unknown proofState".  A tactic on a proof state that Pantograph
moved locally, or under a version without `goal_tactic`, completes the proof.  Goals that
cannot be read are none (`pantograph.py:378-398`); threads take the number of a new proof
state without a lock (`:348`); and `focus_mvar` of a number that was never given makes a
proof state without goals (`:494-502`).

*MCTS.*  When the first request for a preamble times out, the first tactic reads an
import's answer and is reported solved (`lean_repl.py:70-73`, `:150-152`, although the
file says that it does not fake success, `:26-27`).  After a restart the cached
environment numbers name other preambles (`:167`).  A preamble that cannot be made is
not "inlined per call", as the warning says (`:172-173`): the theorem is sent without
it.  The solved root, `no_candidates`, `no_progress` and "exhausted" are unreachable: a
search whose tree is exhausted goes on until its time is over.  Saving a trace is not
atomic.

*Evaluation.*  A dialog of a run without Lean counts as solved in a resumed run that is
labelled "lean4"; a proof of one word (`positivity`) is a success live and not when
resumed, as it does not look like code; what is saved is the last success, not a
confirmed one; when the first of several accepted calls in a message is not recognised,
a resumed run takes a later one for the proof (`run_eval.py:191-216`); a resumed trace
has one attempt, so its pass@k differs; a problem whose
samples all failed is done when resumed; `--cache-all` makes samples equal that
`run_eval.py:381` calls independent.

*Not modelled but read.*  `fail()` moves a terminal task to `FAILED`, and the recovery
count grows only on leaving `BLOCKED` (policy engine).  A replayed rollout ignores
`done` for its later candidates, and one without a candidate selects one node for
ever (`tree_rollout_sampler.py:152`).  Nested decompositions reuse the names `aux1`,
`aux2` (Hilbert).  The LLM cache has no single flight.

## 7. Plan

Done: every component whose state others depend on, and a theorem for every safety
property of the runs.

Left, in the order of what it would add:

1. An abstract specification of the daemon ("one REPL per client, at most so many at
   a time") and its refinement by `DaemonSystem`.
2. The safety part of the liveness properties: that from every state in which a call is
   under way some step of it, or of the daemon, is enabled.
3. The samplers and the Hilbert orchestrator, when the code they stand on runs.
