---------------------------- MODULE Verification ----------------------------
(***************************************************************************)
(* A proof on its way through the AsyncVerificationScheduler               *)
(* (engine/async_verification_scheduler.py): the prefilter (L0), the pool  *)
(* with its compile cache (L1; verify_complete and share_lemma of          *)
(* engine/async_lean_pool.py, CompileCache of engine/_core.py), a full     *)
(* compilation when it is asked for (L2), and the news on the bus.         *)
(*                                                                         *)
(* share_lemma adds a lemma to every session and then raises the           *)
(* environment version, which is part of the cache key.                    *)
(***************************************************************************)
EXTENDS Broadcast, SequencesExt

CONSTANTS
  Tasks, Sessions,
  Proofs,
  Filtered,   \* the proofs the prefilter rejects
  Valid,      \* those Lean accepts
  UsesLemma,  \* those of them that need the first lemma shared
  CacheSize,  \* maxsize
  MaxShares,  \* bound of the model: calls of share_lemma
  Avoid, Verified, Certified  \* the topics of the scheduler's messages

ASSUME VerificationAssumption ==
  /\ Filtered \subseteq Proofs /\ Valid \subseteq Proofs /\ UsesLemma \subseteq Valid
  /\ CacheSize \in Nat \ {0} /\ MaxShares \in Nat
  /\ {Avoid, Verified, Certified} \subseteq Topics

VARIABLES
  task,     \* of each task: the proof, where it is, the version its key names
  cache,    \* verdicts by key, the least recently used first
  version,  \* _env_version
  lemmas,   \* of each session: the number of the last share_lemma it took
  sharing,  \* the sessions share_lemma still waits for, and whether one succeeded
  shares    \* the calls of share_lemma so far

verVars == <<task, cache, version, lemmas, sharing, shares>>
verificationVars == <<busVars, verVars>>

Idle == [at |-> "idle"]

VerificationTypeOK ==
  /\ BusTypeOK
  /\ \A t \in Tasks :
       /\ task[t].at \in {"idle", "check", "answered", "compile"}
       /\ task[t] # Idle => /\ task[t].proof \in Proofs /\ task[t].full \in BOOLEAN
                            /\ task[t].version \in 0..version
  /\ Len(cache) <= CacheSize
  /\ \A i, j \in 1..Len(cache) : cache[i].key = cache[j].key => i = j
  /\ version \in 0..shares /\ shares \in 0..MaxShares
  /\ lemmas \in [Sessions -> SUBSET (1..shares)]
  /\ sharing.open \subseteq Sessions /\ sharing.taken \in BOOLEAN

VerificationInit ==
  /\ BusInit
  /\ task = [t \in Tasks |-> Idle]
  /\ cache = <<>> /\ version = 0
  /\ lemmas = [s \in Sessions |-> {}]
  /\ sharing = [on |-> FALSE, open |-> {}, taken |-> FALSE] /\ shares = 0

-----------------------------------------------------------------------------
(* The compile cache.                                                       *)

\* Mutant: the key does not name the environment.
KeyOfProof(p, v) == <<0, p>>

Key(p, v) == <<v, p>>

Cached(key) == \E i \in 1..Len(cache) : cache[i].key = key
PlaceOf(key) == CHOOSE i \in 1..Len(cache) : cache[i].key = key
EntryOf(key) == cache[PlaceOf(key)]
Without(key) ==
  IF Cached(key) THEN RemoveAt(cache, PlaceOf(key)) ELSE cache

\* put(): the newest entry is the last; the first ones leave.
Put(key, ok) ==
  LastOf(Append(Without(key), [key |-> key, ok |-> ok, since |-> version]), CacheSize)

-----------------------------------------------------------------------------
(* Verification.                                                            *)

\* L0 rejects at once and tells the others; or the verdict is in the cache; or a
\* session is asked.
Submit(t, p, full) ==
  /\ task[t] = Idle
  /\ LET key == Key(p, version)
         call(at, ok, since) == [at |-> at, proof |-> p, full |-> full, version |-> version,
                                 ok |-> ok, since |-> since]
     IN IF p \in Filtered
        THEN /\ Publish(Avoid, t)
             /\ UNCHANGED <<task, cache>>
        ELSE /\ IF Cached(key)
                THEN /\ task' = [task EXCEPT ![t] = call("answered", EntryOf(key).ok,
                                                         EntryOf(key).since)]
                     /\ cache' = Append(Without(key), EntryOf(key))
                ELSE /\ task' = [task EXCEPT ![t] = call("check", FALSE, 0)]
                     /\ UNCHANGED cache
             /\ UNCHANGED <<recent, fresh, queues, crowded>>
  /\ UNCHANGED <<now, version, lemmas, sharing, shares>>

Accepts(s, p) == p \in Valid /\ (p \in UsesLemma => 1 \in lemmas[s])

\* Lean's verdict in one session, or an error, which is cached like a verdict.
Check(t, s) ==
  /\ task[t].at = "check"
  /\ \E ok \in {FALSE, Accepts(s, task[t].proof)} :
       /\ cache' = Put(Key(task[t].proof, task[t].version), ok)
       /\ task' = [task EXCEPT ![t] = [@ EXCEPT !.at = "answered", !.ok = ok,
                                               !.since = version]]
  /\ UNCHANGED <<busVars, version, lemmas, sharing, shares>>

\* A timeout is no verdict, and not cached.
CheckTimesOut(t) ==
  /\ task[t].at = "check"
  /\ task' = [task EXCEPT ![t] = [@ EXCEPT !.at = "answered", !.since = version]]
  /\ UNCHANGED <<busVars, cache, version, lemmas, sharing, shares>>

\* The answer of L1; with require_l2 the compilation follows, whatever it says.
Answer(t) ==
  /\ task[t].at = "answered"
  /\ IF task[t].full
     THEN /\ task' = [task EXCEPT ![t] = [@ EXCEPT !.at = "compile"]]
          /\ UNCHANGED <<recent, fresh, queues, crowded>>
     ELSE /\ task' = [task EXCEPT ![t] = Idle]
          /\ IF task[t].ok THEN Publish(Verified, t)
             ELSE UNCHANGED <<recent, fresh, queues, crowded>>
  /\ UNCHANGED <<now, cache, version, lemmas, sharing, shares>>

\* The file compiled at L2 holds the proof alone.  Compiling may also fail or time out.
Compile(t) ==
  /\ task[t].at = "compile"
  /\ task' = [task EXCEPT ![t] = Idle]
  /\ \/ /\ task[t].proof \in Valid \ UsesLemma
        /\ Publish(Certified, t)
     \/ UNCHANGED <<recent, fresh, queues, crowded>>
  /\ UNCHANGED <<now, cache, version, lemmas, sharing, shares>>

-----------------------------------------------------------------------------
(* share_lemma.                                                             *)

ShareLemma ==
  /\ ~sharing.on /\ shares < MaxShares
  /\ shares' = shares + 1
  /\ sharing' = [on |-> TRUE, open |-> Sessions, taken |-> FALSE]
  /\ UNCHANGED <<busVars, task, cache, version, lemmas>>

\* Each session takes the lemma, or does not.
Inject(s) ==
  /\ s \in sharing.open
  /\ \E taken \in BOOLEAN :
       /\ sharing' = [sharing EXCEPT !.open = @ \ {s}, !.taken = @ \/ taken]
       /\ lemmas' = IF taken THEN [lemmas EXCEPT ![s] = @ \cup {shares}] ELSE lemmas
  /\ UNCHANGED <<busVars, task, cache, version, shares>>

ShareEnds ==
  /\ sharing.on /\ sharing.open = {}
  /\ version' = IF sharing.taken THEN version + 1 ELSE version
  /\ sharing' = [sharing EXCEPT !.on = FALSE, !.taken = FALSE]
  /\ UNCHANGED <<busVars, task, cache, lemmas, shares>>

Bus == BusNext /\ UNCHANGED verVars

VerificationNext ==
  \/ Bus \/ ShareLemma \/ ShareEnds
  \/ \E s \in Sessions : Inject(s)
  \/ \E t \in Tasks :
       \/ \E p \in Proofs, full \in BOOLEAN : Submit(t, p, full)
       \/ \E s \in Sessions : Check(t, s)
       \/ CheckTimesOut(t) \/ Answer(t) \/ Compile(t)

VerificationSpec == VerificationInit /\ [][VerificationNext]_verificationVars

-----------------------------------------------------------------------------
(* Properties.                                                              *)

\* A verdict is never older than the last share_lemma that was over when the call
\* began, from the cache or from a session, also when the lemma was shared while the
\* proof was checked (engine/async_lean_pool.py, verify_complete).
VerdictCurrent ==
  /\ VerificationTypeOK
  /\ \A t \in Tasks : task[t].at \in {"answered", "compile"} =>
                        task[t].since >= task[t].version
=============================================================================
