---------------------------- MODULE SessionEnvs ----------------------------
(***************************************************************************)
(* The environments of one AsyncLeanSession (engine/async_lean_pool.py)    *)
(* over a LocalTransport.  The REPL numbers the environments it creates    *)
(* from 0, anew in every process.  The session remembers such numbers      *)
(* across requests: a base environment, which share_lemma moves, and a     *)
(* cache from preambles to environments.  The transport replaces the       *)
(* process, and returns late answers, without telling the session.         *)
(*                                                                         *)
(* A preamble is a sequence of commands, an environment the set of the     *)
(* commands it was made by.  A declaration leaves the set alone.  Requests *)
(* are served one at a time (LocalTransport!LockInv); the environment a    *)
(* request names is read when it is made, before it waits for its turn.    *)
(***************************************************************************)
EXTENDS Integers, Sequences, SequencesExt

CONSTANTS
  Loaded,     \* the preamble the session is started with
  Preambles,  \* the preambles of the proofs it checks
  Imports,    \* commands that begin with "import "
  User,       \* the task that uses the session (LeanPool!OneUserPerSession)
  Heartbeat,  \* the heartbeat task of the transport
  Sharers,    \* calls of share_lemma; each shares the lemma of its name
  MaxRestarts, MaxTimeouts, MaxEnvs  \* bounds of the model

ASSUME TasksAssumption == User \notin Sharers /\ Heartbeat \notin Sharers \cup {User}
ASSUME BoundsAssumption == MaxRestarts \in Nat /\ MaxTimeouts \in Nat /\ MaxEnvs \in Nat \ {0}

\* Preambles are sequences of commands, and a shared lemma is not an import.
ASSUME CodeAssumption ==
  /\ \A p \in Preambles \cup {Loaded} : p \in Seq(Range(p))
  /\ Sharers \cap Imports = {}

Tasks == {User, Heartbeat} \cup Sharers

Commands == Imports \cup Sharers \cup UNION {Range(p) : p \in Preambles \cup {Loaded}}

VARIABLES
  envs,      \* environments of the current process; number n is at n + 1
  known,     \* _known_envs of the transport
  late,      \* answers in the pipe to requests that were given up
  failures,  \* _stats.consecutive_failures
  restarts,  \* _stats.total_restarts
  alive,     \* is_alive of the transport
  base,      \* _base_env_id
  loaded,    \* whether _loaded_preamble is set
  cache,     \* _preamble_env_cache; None where there is no entry
  kept,      \* history: lemmas shared by a call that no other call was under way with
             \* when it was answered
  stage,     \* what each task has asked: "idle", "load", "check", "share" or "beat"
  request,   \* its request: the code and the environment it names
  preamble,  \* the preamble of the proof the user checks, <<>> when it checks none
  checked,   \* history: the proof the last verify_complete() reported correct
  timeouts,  \* history: number of timeouts
  clean      \* history: no request was given up, no process replaced

replVars == <<envs, known, late>>
linkVars == <<failures, restarts, alive, timeouts, clean>>
sessionVars == <<base, loaded, cache, kept>>
taskVars == <<stage, request, preamble, checked>>
vars == <<replVars, linkVars, sessionVars, taskVars>>

None == -1
Numbers == 0..(MaxEnvs - 1)
Nothing == [code |-> <<>>, env |-> 0]

\* The proofs reported to be correct: for which preamble, in which environment
\* the declaration was checked, and whether the report is the answer to it.
Unchecked == [preamble |-> <<>>, within |-> {}, own |-> TRUE]

TypeOK ==
  /\ \A i \in 1..Len(envs) : envs[i] \subseteq Commands
  /\ known \subseteq Numbers
  /\ late \in Seq(Numbers)
  /\ failures \in Nat /\ restarts \in 0..MaxRestarts /\ timeouts \in 0..MaxTimeouts
  /\ alive \in BOOLEAN /\ clean \in BOOLEAN /\ loaded \in BOOLEAN
  /\ base \in Numbers
  /\ cache \in [Preambles \cup {Loaded} -> Numbers \cup {None}]
  /\ stage \in [Tasks -> {"idle", "load", "check", "share", "beat"}]
  /\ \A t \in Tasks : request[t].env \in Numbers
  /\ preamble \in Preambles \cup {<<>>}
  /\ checked.within \subseteq Commands
  /\ kept \subseteq Sharers

-----------------------------------------------------------------------------
\* start(): the preamble is loaded, or its request was lost, or there is none.
Init ==
  /\ loaded \in {Loaded # <<>>, FALSE}
  /\ envs = IF loaded THEN <<Range(Loaded)>> ELSE <<>>
  /\ known = IF loaded THEN {0} ELSE {}
  /\ base = 0
  /\ cache = [p \in Preambles \cup {Loaded} |->
                IF loaded /\ p = Loaded THEN 0 ELSE None]
  /\ late = <<>> /\ failures = 0 /\ restarts = 0 /\ timeouts = 0
  /\ alive = TRUE /\ clean = TRUE
  /\ stage = [t \in Tasks |-> "idle"]
  /\ request = [t \in Tasks |-> Nothing]
  /\ preamble = <<>>
  /\ checked = Unchecked
  /\ kept = {}

Ask(t, what, code, env) ==
  /\ stage' = [stage EXCEPT ![t] = what]
  /\ request' = [request EXCEPT ![t] = [code |-> code, env |-> env]]

Done(t) ==
  /\ stage' = [stage EXCEPT ![t] = "idle"]
  /\ request' = [request EXCEPT ![t] = Nothing]
  /\ preamble' = IF t = User THEN <<>> ELSE preamble

\* The declaration is sent in environment env.
Declare(env) == Ask(User, "check", <<>>, env)

-----------------------------------------------------------------------------
(* verify_complete() and start_proof(): _env_for_preamble first.            *)

\* Mutant: every preamble is cut to its suffix.
CutAnyway(p) == loaded /\ base > 0

\* (The suffix is never empty: the session's own preamble is in the cache.)
Extends(p) == loaded /\ base > 0 /\ IsPrefix(Loaded, p)

\* Mutant: the cache is not keyed by the preamble.
FindAnyEnv(p) ==
  /\ preamble' = p
  /\ \/ \E q \in Preambles : cache[q] # None /\ Declare(cache[q])
     \/ (\A q \in Preambles : cache[q] = None) /\ Ask(User, "load", p, base)
  /\ UNCHANGED cache

FindEnv(p) ==
  /\ preamble' = p
  /\ \/ p = <<>> /\ Declare(base) /\ UNCHANGED cache
     \/ p # <<>> /\ cache[p] # None /\ Declare(cache[p]) /\ UNCHANGED cache
     \/ /\ p # <<>> /\ cache[p] = None /\ Extends(p)
        /\ Ask(User, "load", SubSeq(p, Len(Loaded) + 1, Len(p)), base)
        /\ UNCHANGED cache
     \/ /\ p # <<>> /\ cache[p] = None /\ ~Extends(p)
        /\ Ask(User, "load", p, base)
        /\ UNCHANGED cache

Verify ==
  /\ stage[User] = "idle" /\ alive
  /\ \E p \in Preambles : FindEnv(p)
  /\ checked' = Unchecked
  /\ UNCHANGED <<replVars, linkVars, base, loaded, kept>>

Share(t) ==
  /\ t \in Sharers /\ stage[t] = "idle" /\ alive
  /\ Ask(t, "share", <<t>>, base)
  /\ UNCHANGED <<replVars, linkVars, sessionVars, preamble, checked>>

\* "#check Nat" in environment 0.
Beat ==
  /\ stage[Heartbeat] = "idle" /\ alive
  /\ Ask(Heartbeat, "beat", <<>>, 0)
  /\ UNCHANGED <<replVars, linkVars, sessionVars, preamble, checked>>

-----------------------------------------------------------------------------
(* One exchange with the REPL, in _send_repl.                               *)

\* Mutant: environment 0 counts as no environment.
NamesNonzero(t) ==
  /\ request[t].env \in known /\ request[t].env > 0
  /\ request[t].code # <<>> => Head(request[t].code) \notin Imports

\* The request names an environment the transport knows, and does not import.
NamesEnv(t) ==
  /\ request[t].env \in known
  /\ request[t].code # <<>> => Head(request[t].code) \notin Imports

\* The environment the request of t is elaborated in, and what comes of it.
Within(t) == IF NamesEnv(t) THEN envs[request[t].env + 1] ELSE {}

Elaborated(t) ==
  /\ Len(envs) < MaxEnvs
  /\ envs' = Append(envs, Within(t) \cup Range(request[t].code))

\* No other call of share_lemma is under way.
SharesAlone(t) == \A s \in Sharers \ {t} : stage[s] # "share"

\* The caller's part: what it does with an answer that names environment n.
Use(t, n) ==
  \/ /\ stage[t] = "load"
     /\ cache' = [cache EXCEPT ![preamble] = n]
     /\ Declare(n)
     /\ UNCHANGED <<base, kept, preamble, checked>>
  \/ /\ stage[t] = "share"
     /\ base' = n
     /\ kept' = IF SharesAlone(t) THEN kept \cup {t} ELSE kept
     /\ Done(t)
     /\ UNCHANGED <<cache, checked>>
  \/ /\ stage[t] = "check"
     /\ checked' = [preamble |-> preamble, within |-> Within(t), own |-> late = <<>>]
     /\ Done(t)
     /\ UNCHANGED <<base, cache, kept>>
  \/ /\ stage[t] = "beat"
     /\ Done(t)
     /\ UNCHANGED <<base, cache, kept, checked>>

\* An answer that reports an error.
Refused(t) ==
  /\ Done(t)
  /\ UNCHANGED <<base, cache, kept, checked>>

\* The next answer in the pipe, late or not, is taken for the answer.
Answered(t) ==
  /\ stage[t] # "idle"
  /\ Elaborated(t)
  /\ LET answers == Append(late, Len(envs)) IN
     /\ late' = Tail(answers)
     /\ known' = known \cup {Head(answers)}
     /\ Use(t, Head(answers)) \/ Refused(t)
  /\ failures' = 0
  /\ UNCHANGED <<restarts, alive, timeouts, clean, loaded>>

\* Mutant: the environments of the old process stay known.
KeepKnown ==
  /\ envs' = <<>> /\ late' = <<>>
  /\ UNCHANGED known
  /\ clean' = FALSE

\* A new process: it has no environment.
Replace ==
  /\ envs' = <<>> /\ late' = <<>>
  /\ known' = {}
  /\ clean' = FALSE

\* _restart_repl, in the middle of an exchange.
Restart ==
  IF restarts < MaxRestarts
    THEN Replace /\ restarts' = restarts + 1 /\ UNCHANGED alive
    ELSE alive' = FALSE /\ UNCHANGED <<replVars, restarts, clean>>

\* The first timeout leaves the process alone: its answer will come late.
FirstTimeout(t) ==
  /\ stage[t] # "idle" /\ failures = 0 /\ timeouts < MaxTimeouts
  /\ Elaborated(t)
  /\ late' = Append(late, Len(envs))
  /\ failures' = 1 /\ timeouts' = timeouts + 1 /\ clean' = FALSE
  /\ Done(t)
  /\ UNCHANGED <<known, restarts, alive, sessionVars, checked>>

\* A crash, a second timeout or a broken pipe.
Lost(t) ==
  /\ stage[t] # "idle"
  /\ Restart
  /\ failures' = failures + 1
  /\ Done(t)
  /\ UNCHANGED <<timeouts, sessionVars, checked>>

\* The process had died before the request: it is sent to a new one.
RestartBefore(t) ==
  /\ stage[t] # "idle"
  /\ restarts < MaxRestarts
  /\ Restart
  /\ UNCHANGED <<failures, timeouts, sessionVars, taskVars>>

Next ==
  \/ Verify \/ Beat
  \/ \E t \in Sharers : Share(t)
  \/ \E t \in Tasks : Answered(t) \/ FirstTimeout(t) \/ Lost(t) \/ RestartBefore(t)

Spec == Init /\ [][Next]_vars

-----------------------------------------------------------------------------
(* Properties.                                                              *)

\* The transport never names an environment the current process does not have,
\* whatever numbers the session remembers from earlier processes.
KnownExist == \A n \in known : n < Len(envs)

\* What every state of the session satisfies: the types, and that.
EnvInv == TypeOK /\ KnownExist

\* The environment is the one of preamble p: all of p, and nothing but p, the
\* session's own preamble and shared lemmas.
IsEnvOf(p, env) == Range(p) \subseteq env /\ env \subseteq Range(p) \cup Range(Loaded) \cup Sharers

\* A preamble that extends the session's own by imports.  Once a lemma is shared it is
\* cut to them, and an import is elaborated in no environment: what the session had
\* loaded is missing.
ExtendsByImport(p) ==
  IsPrefix(Loaded, p) /\ Len(p) > Len(Loaded) /\ p[Len(Loaded) + 1] \in Imports

\* While the preamble of start() is loaded, no request given up and no process
\* replaced, a proof reported to be correct was checked in the environment of its
\* preamble, although lemmas are shared and preambles cached in the meantime, unless
\* the preamble extends the session's own by imports.
CheckedWhenClean ==
  clean /\ loaded =>
    /\ checked.own
    /\ IsEnvOf(checked.preamble, checked.within) \/ ExtendsByImport(checked.preamble)

CacheRight(p) ==
  cache[p] # None =>
    /\ cache[p] < Len(envs)
    /\ IsEnvOf(p, envs[cache[p] + 1]) \/ ExtendsByImport(p)

\* And the cache leads from each preamble to an environment of it, with that exception.
CachedWhenClean ==
  clean /\ loaded => \A p \in DOMAIN cache : CacheRight(p)

\* Until a request is given up or the process replaced, a shared lemma stays in the base,
\* although lemmas are shared at the same time and each call writes back an environment
\* made from the base it read before.  Only a lemma whose call was answered while another
\* call was under way may be lost: that call had read the base without it.
SharedStays ==
  clean /\ kept # {} => base < Len(envs) /\ kept \subseteq envs[base + 1]

=============================================================================
