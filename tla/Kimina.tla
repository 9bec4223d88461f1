------------------------------- MODULE Kimina -------------------------------
(***************************************************************************)
(* KiminaServerBackend and its client (engine/backends/kimina_server.py).  *)
(* Whole proofs are verified by an HTTP service, alone or in batches, each *)
(* behind a preamble; the service answers a batch in any order, and its    *)
(* snapshot of a preamble can be named in later requests.  The backend     *)
(* translates the REPL protocol: import commands only make environments,   *)
(* which are preambles; everything else is verified as a batch of one.     *)
(*                                                                         *)
(* proofState commands are all refused: no command registers a first proof *)
(* state.                                                                  *)
(***************************************************************************)
EXTENDS Integers, Sequences, FiniteSets, SequencesExt

CONSTANTS
  Clients,    \* tasks that verify proofs
  Goods,      \* proofs the service accepts
  Bads,       \* proofs it rejects
  Imports,    \* import and open commands
  Default,    \* the default preamble's command
  MaxBatch,   \* bounds of the model: proofs in a batch,
  MaxEnvs,    \* environments,
  MaxSnapshots, \* snapshots of the service,
  MaxImports  \* and commands in a preamble

ASSUME KiminaAssumption ==
  /\ Default \in Imports /\ MaxEnvs \in Nat \ {0}
  /\ MaxBatch \in Nat /\ MaxSnapshots \in Nat /\ MaxImports \in Nat
  /\ Goods \cap Bads = {}

VARIABLES
  envs,      \* _env_preambles: the preamble of environment n is envs[n + 1]
  replay,    \* _replay_handles: preamble -> snapshot
  posted,    \* the batch each client waits for
  reply,     \* what the service has sent back
  told,      \* what the client's caller learns of each proof
  snapshots  \* of the service: the preamble of each

kiminaVars == <<envs, replay, posted, reply, told, snapshots>>

Preambles == {envs[i] : i \in 1..Len(envs)}
NoBatch == <<>>

\* What the service says of one request; "silent" is a failure without a message.
Item(i, says, snapshot) == [id |-> i, says |-> says, snapshot |-> snapshot]

KiminaTypeOK ==
  /\ Len(envs) <= MaxEnvs
  /\ \A i \in 1..Len(envs) : envs[i] \in Seq(Imports)
  /\ DOMAIN replay \subseteq Preambles
  /\ \A c \in Clients : /\ Len(posted[c]) <= MaxBatch
                        /\ Len(told[c]) \in {0, Len(posted[c])}

KiminaInit ==
  /\ envs = <<<<Default>>>> /\ replay = [p \in {} |-> 0]
  /\ posted = [c \in Clients |-> NoBatch]
  /\ reply = [c \in Clients |-> NoBatch] /\ told = [c \in Clients |-> NoBatch]
  /\ snapshots = <<>>

\* A command of imports alone: a new environment, its preamble put behind that of
\* its parent.  Nothing is sent (but for a warm-up, a request like any other).
ImportCommand(env, command) ==
  /\ Len(envs) < MaxEnvs /\ Len(envs[env]) < MaxImports
  /\ envs' = Append(envs, Append(envs[env], command))
  /\ UNCHANGED <<replay, posted, reply, told, snapshots>>

\* Mutant: it names the last snapshot of any preamble.
RequestOfAny(proof, preamble) ==
  [proof |-> proof, preamble |-> preamble,
   handle |-> IF replay = [p \in {} |-> 0] THEN 0 ELSE Max({replay[p] : p \in DOMAIN replay})]

\* The request for a proof names the last snapshot of its preamble.
RequestOf(proof, preamble) ==
  [proof |-> proof, preamble |-> preamble,
   handle |-> IF preamble \in DOMAIN replay THEN replay[preamble] ELSE 0]

\* verify_batch, of a tool or of a command (then of one proof).
Post(c, proofs, env) ==
  /\ posted[c] = NoBatch /\ told[c] = NoBatch
  /\ posted' = [posted EXCEPT ![c] =
                  [i \in 1..Len(proofs) |-> RequestOf(proofs[i], envs[env])]]
  /\ UNCHANGED <<envs, replay, reply, told, snapshots>>

\* Some or all of n requests, in some order.
Orders(n) == UNION {Injection(1..k, 1..n) : k \in 1..n}

\* The service verifies the requests in some order and answers some or all of them,
\* the accepted ones with a snapshot.
Serve(c) ==
  /\ posted[c] # NoBatch /\ reply[c] = NoBatch /\ told[c] = NoBatch
  /\ \E order \in Orders(Len(posted[c])), silent \in BOOLEAN :
       LET says(i) == IF posted[c][i].proof \in Goods THEN "accepted"
                      ELSE IF silent THEN "silent" ELSE "rejected"
           kept(k) == {j \in 1..k : says(order[j]) = "accepted"}
           number(k) == IF k \in kept(k) THEN Len(snapshots) + Cardinality(kept(k)) ELSE 0
       IN /\ snapshots' = snapshots \o [n \in 1..Cardinality(kept(Len(order))) |->
                                         posted[c][1].preamble]
          /\ Len(snapshots') <= MaxSnapshots
          /\ reply' = [reply EXCEPT ![c] =
               [k \in 1..Len(order) |-> Item(order[k], says(order[k]), number(k))]]
  /\ UNCHANGED <<envs, replay, posted, told>>

\* Mutant: the results are taken in the order they come in.
AtPosition(c, i) == IF i <= Len(reply[c]) THEN {reply[c][i]} ELSE {}

\* The item with the id of request i.
ItemFor(c, i) == {reply[c][k] : k \in {k \in 1..Len(reply[c]) : reply[c][k].id = i}}

Missing == "no result"

\* The result of request i, and the snapshot made for it.
Result(c, i) ==
  IF ItemFor(c, i) = {} THEN Item(i, Missing, 0) ELSE CHOOSE item \in ItemFor(c, i) : TRUE

\* The results, put in the order of the requests; the last snapshot is kept for the
\* preamble.
Received(c) ==
  /\ reply[c] # NoBatch
  /\ told' = [told EXCEPT ![c] = [i \in 1..Len(posted[c]) |-> Result(c, i).says]]
  /\ LET p == posted[c][1].preamble
         made == {i \in 1..Len(posted[c]) : Result(c, i).snapshot # 0}
     IN \/ made = {} /\ UNCHANGED replay
        \/ \E i \in made :
             /\ \A j \in made : j <= i
             /\ replay' = [q \in DOMAIN replay \cup {p} |->
                             IF q = p THEN Result(c, i).snapshot ELSE replay[q]]
  /\ reply' = [reply EXCEPT ![c] = NoBatch]
  /\ UNCHANGED <<envs, posted, snapshots>>

\* A timeout, an HTTP error, a response that is no list: an error for each request.
PostFails(c) ==
  /\ posted[c] # NoBatch /\ told[c] = NoBatch
  /\ told' = [told EXCEPT ![c] = [i \in 1..Len(posted[c]) |-> Missing]]
  /\ reply' = [reply EXCEPT ![c] = NoBatch]
  /\ UNCHANGED <<envs, replay, posted, snapshots>>

\* The caller has its results.  A command makes an environment with the preamble it
\* was checked behind, and not with what it declares.
Return(c) ==
  /\ told[c] # NoBatch
  /\ posted' = [posted EXCEPT ![c] = NoBatch]
  /\ told' = [told EXCEPT ![c] = NoBatch]
  /\ \/ UNCHANGED envs
     \/ /\ Len(posted[c]) = 1 /\ Len(envs) < MaxEnvs
        /\ envs' = Append(envs, posted[c][1].preamble)
  /\ UNCHANGED <<replay, reply, snapshots>>

Batches == UNION {[1..n -> Goods \cup Bads] : n \in 1..MaxBatch}

KiminaNext ==
  \/ \E env \in 1..Len(envs), command \in Imports : ImportCommand(env, command)
  \/ \E c \in Clients :
       \/ \E env \in 1..Len(envs), proofs \in Batches : Post(c, proofs, env)
       \/ Serve(c) \/ Received(c) \/ PostFails(c) \/ Return(c)

-----------------------------------------------------------------------------
(* Properties.                                                              *)

\* No proof is reported with another one's result, in whatever order the service
\* answers, and whatever it leaves out: a proof without an error message was accepted,
\* or rejected without one (engine/backends/kimina_server.py, verify_batch).
VerdictsOwn ==
  \A c \in Clients : \A i \in 1..Len(told[c]) :
    told[c][i] # Missing => (told[c][i] = "accepted") = (posted[c][i].proof \in Goods)

\* A request names only a snapshot the service made of the same preamble, although
\* snapshots arrive late and replace one another (engine/backends/kimina_server.py,
\* verify_batch, last_used_id).
HandlesMatch ==
  /\ KiminaTypeOK
  /\ \A p \in DOMAIN replay : snapshots[replay[p]] = p
  /\ \A c \in Clients : \A i \in 1..Len(posted[c]) :
       LET r == posted[c][i] IN r.handle # 0 => snapshots[r.handle] = r.preamble
=============================================================================
