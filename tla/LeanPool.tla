------------------------------ MODULE LeanPool ------------------------------
(***************************************************************************)
(* AsyncLeanPool of engine/async_lean_pool.py: asyncio tasks share a list  *)
(* of REPL sessions.  A task marks a free session busy, uses it over one   *)
(* or more awaits, and releases it in a finally block.  A Condition        *)
(* protects the list; most of its critical sections contain no await and   *)
(* are one step here, the others (starting or closing a session) hold the  *)
(* lock while they wait.                                                   *)
(*                                                                         *)
(* There are two Conditions: the first call that acquires a session        *)
(* replaces the one of __init__, because _condition_loop is None until     *)
(* then.  add_session and remove_idle_session use the one they find, and   *)
(* one of them may still hold, or wait for, the lock of the first.  (All   *)
(* tasks run in one event loop, so it is replaced once.)                   *)
(*                                                                         *)
(* A session is its transport's state: whether it is alive, and which of   *)
(* the processes it started is the current one (LocalTransport replaces    *)
(* the process of a session without telling the pool).                     *)
(***************************************************************************)
EXTENDS Integers, FiniteSets, Sequences, SequencesExt

CONSTANTS
  Callers,      \* tasks that use the pool
  PoolSize,     \* pool_size of __init__
  MaxSessions,  \* bound of the model: sessions ever created
  MaxProcesses, \* bound of the model: processes a session ever starts
  MaxHandles    \* bound of the model: proofState handles ever created

ASSUME PoolSizeAssumption == MaxSessions \in Nat \ {0} /\ PoolSize \in 0..MaxSessions
ASSUME BoundsAssumption == MaxProcesses \in Nat /\ MaxHandles \in Nat

Ids == 1..MaxSessions

VARIABLES
  sessions,  \* _sessions
  created,   \* sessions constructed so far (_next_session_id)
  alive,     \* is_alive of each session's transport
  process,   \* number of each session's current process
  states,    \* proofStates the current process of each session has
  busy,      \* _busy
  overflow,  \* _is_overflow
  pc,        \* where each caller is
  use,       \* the session it holds, starts, closes or waits for
  arg,       \* the proofState a tactic is applied to
  bound,     \* _condition_loop is set: the first Condition has been replaced
  first,     \* callers that use the first Condition
  index,     \* position in the list of the session a caller removes
  handles,   \* _proof_state_sessions: handles and the states they stand for
  stopping,  \* shutdown() is closing the sessions
  (* history *)
  lost,      \* sessions whose release was cancelled
  crossed    \* an entry left the list while remove_idle_session waited

sessionVars == <<alive, process, states>>
flagVars == <<busy, overflow>>
lockVars == <<bound, first>>
vars == <<sessions, created, sessionVars, flagVars, pc, arg, use, handles,
          stopping, lost, lockVars, index, crossed>>

Listed == ToSet(sessions)

\* Places in which a task waits while it holds the Condition's lock.
Holders == {"starting", "closing", "adding", "removing"}
Places == {"idle", "waiting", "waitingFor", "toAdd", "toRemove", "using", "releasing"}
            \cup Holders

\* A proofState: its session, the process that created it, its number there.
ProofStates == [session : Ids, process : Nat, number : Nat]

NoState == [session |-> 1, process |-> 0, number |-> 0]

TypeOK ==
  /\ sessions \in Seq(Ids)
  /\ created \in 0..MaxSessions
  /\ alive \in [Ids -> BOOLEAN]
  /\ process \in [Ids -> Nat]
  /\ states \in [Ids -> Nat]
  /\ busy \in [Ids -> BOOLEAN]
  /\ overflow \in [Ids -> BOOLEAN]
  /\ pc \in [Callers -> Places]
  /\ use \in [Callers -> 0..MaxSessions]
  /\ arg \in [Callers -> ProofStates]
  /\ handles \subseteq ProofStates
  /\ stopping \in BOOLEAN
  /\ bound \in BOOLEAN /\ first \subseteq Callers
  /\ index \in [Callers -> Nat]
  /\ lost \subseteq Ids /\ crossed \in BOOLEAN

\* The pool after start(): every session of the initial size that started.
Init ==
  /\ created = PoolSize
  /\ sessions \in SeqOf(1..PoolSize, PoolSize)
  /\ \A i, j \in DOMAIN sessions : i < j => sessions[i] < sessions[j]
  /\ alive = [s \in Ids |-> s \in Listed]
  /\ process = [s \in Ids |-> IF s \in Listed THEN 1 ELSE 0]
  /\ states = [s \in Ids |-> 0]
  /\ busy = [s \in Ids |-> FALSE]
  /\ overflow = [s \in Ids |-> FALSE]
  /\ pc = [c \in Callers |-> "idle"]
  /\ use = [c \in Callers |-> 0]
  /\ arg = [c \in Callers |-> NoState]
  /\ handles = {}
  /\ stopping = FALSE
  /\ bound = FALSE /\ first = {} /\ index = [c \in Callers |-> 0]
  /\ lost = {} /\ crossed = FALSE

\* Nobody holds the lock of the Condition, the first one (old) or the second.
LockFree(old) == \A c \in Callers : pc[c] \in Holders => (c \in first <=> ~old)

Goto(c, place) == pc' = [pc EXCEPT ![c] = place]

\* The call is over.
Return(c) ==
  /\ Goto(c, "idle")
  /\ use' = [use EXCEPT ![c] = 0]
  /\ arg' = [arg EXCEPT ![c] = NoState]
  /\ first' = first \ {c}
  /\ index' = [index EXCEPT ![c] = 0]

-----------------------------------------------------------------------------
(* Calls.                                                                   *)

\* start_proof(), verify_complete() past its cache, or a tactic with a raw env id.
Call(c) ==
  /\ pc[c] = "idle"
  /\ Goto(c, "waiting")
  /\ bound' = TRUE
  /\ UNCHANGED <<sessions, created, sessionVars, flagVars, arg, use, handles,
                 stopping, first, index, lost, crossed>>

\* try_tactic() with a handle: only the session bound to it will do.
CallTactic(c) ==
  /\ pc[c] = "idle"
  /\ \E h \in handles : /\ arg' = [arg EXCEPT ![c] = h]
                        /\ use' = [use EXCEPT ![c] = h.session]
  /\ Goto(c, "waitingFor")
  /\ bound' = TRUE
  /\ UNCHANGED <<sessions, created, sessionVars, flagVars, handles, stopping, first,
                 index, lost, crossed>>

-----------------------------------------------------------------------------
(* _acquire_session and _acquire_specific_session.                          *)

\* Mutant: a session in use is handed out again.
AliveOnly(s) == alive[s]

Available(s) == alive[s] /\ ~busy[s]

\* The scans of _sessions: from the head to acquire, from the tail to remove.
IsHead(i) == /\ i \in DOMAIN sessions /\ Available(sessions[i])
             /\ \A j \in DOMAIN sessions : Available(sessions[j]) => i <= j

IsTail(i) == /\ i \in DOMAIN sessions /\ Available(sessions[i])
             /\ \A j \in DOMAIN sessions : Available(sessions[j]) => j <= i

Take(c, s) ==
  /\ busy' = [busy EXCEPT ![s] = TRUE]
  /\ use' = [use EXCEPT ![c] = s]
  /\ Goto(c, "using")

Acquire(c) ==
  /\ pc[c] = "waiting" /\ LockFree(FALSE)
  /\ \E i \in DOMAIN sessions : IsHead(i) /\ Take(c, sessions[i])
  /\ UNCHANGED <<sessions, created, sessionVars, overflow, arg, handles,
                 stopping, lockVars, index, lost, crossed>>

\* The deadline passed and no session is free: start one more, holding the lock.
StartOverflow(c) ==
  /\ pc[c] = "waiting" /\ LockFree(FALSE)
  /\ \A s \in Listed : ~Available(s)
  /\ created < MaxSessions
  /\ created' = created + 1
  /\ use' = [use EXCEPT ![c] = created + 1]
  /\ Goto(c, "starting")
  /\ UNCHANGED <<sessions, sessionVars, flagVars, arg, handles, stopping, lockVars,
                 index, lost, crossed>>

\* The outcome of start() is ignored: a session that failed to start is used too.
OverflowStarted(c) ==
  /\ pc[c] = "starting"
  /\ \E ok \in BOOLEAN : alive' = [alive EXCEPT ![use[c]] = ok]
  /\ process' = [process EXCEPT ![use[c]] = 1]
  /\ sessions' = Append(sessions, use[c])
  /\ overflow' = [overflow EXCEPT ![use[c]] = TRUE]
  /\ Take(c, use[c])
  /\ UNCHANGED <<created, states, arg, handles, stopping, lockVars, index, lost, crossed>>

AcquireSpecific(c) ==
  /\ pc[c] = "waitingFor" /\ LockFree(FALSE)
  /\ Available(use[c])
  /\ Take(c, use[c])
  /\ UNCHANGED <<sessions, created, sessionVars, overflow, arg, handles,
                 stopping, lockVars, index, lost, crossed>>

\* Mutant: the deadline is computed anew in every turn of the loop.
WaitOn(c) ==
  /\ pc[c] = "waitingFor" /\ LockFree(FALSE)
  /\ ~Available(use[c])
  /\ UNCHANGED vars

\* TimeoutError: the session of the proofState was busy, or dead, all along.
GiveUp(c) ==
  /\ pc[c] = "waitingFor" /\ LockFree(FALSE)
  /\ ~Available(use[c])
  /\ Return(c)
  /\ UNCHANGED <<sessions, created, sessionVars, flagVars, handles,
                 stopping, bound, lost, crossed>>

-----------------------------------------------------------------------------
(* Use and release.                                                         *)

\* The session answers.  A new proofState gets a handle.
Finish(c) ==
  /\ pc[c] = "using"
  /\ Goto(c, "releasing")
  /\ \/ UNCHANGED <<states, handles>>
     \/ LET s == use[c] IN
        /\ alive[s]
        /\ arg[c] # NoState => arg[c].number < states[s]
        /\ Cardinality(handles) < MaxHandles
        /\ states' = [states EXCEPT ![s] = @ + 1]
        /\ handles' = handles \cup {[session |-> s, process |-> process[s],
                                     number |-> states[s]]}
  /\ UNCHANGED <<sessions, created, alive, process, flagVars, arg, use,
                 stopping, lockVars, index, lost, crossed>>

\* Release of an overflow session closes it while the lock is held.
AfterRelease(c) ==
  IF overflow[use[c]]
    THEN /\ Goto(c, "closing")
         /\ alive' = [alive EXCEPT ![use[c]] = FALSE]
         /\ UNCHANGED <<use, arg, first, index>>
    ELSE Return(c) /\ UNCHANGED alive

\* Mutant: the flag is reset for the sessions that stay in the pool only.
FreeRegular(c) == [busy EXCEPT ![use[c]] = overflow[use[c]]]

Freed(c) == [busy EXCEPT ![use[c]] = FALSE]

Release(c) ==
  /\ pc[c] = "releasing" /\ LockFree(FALSE)
  /\ busy' = Freed(c)
  /\ AfterRelease(c)
  /\ UNCHANGED <<sessions, created, process, states, overflow, handles, stopping,
                 bound, lost, crossed>>

\* An entry that leaves the list moves those behind it, which others may be about to pop.
Crosses(others) ==
  crossed' = (crossed \/ (/\ Len(sessions') < Len(sessions)
                          /\ \E d \in others : pc[d] = "removing"))

\* A closed session leaves the list, whatever close() raised.
Closed(c) ==
  /\ pc[c] = "closing"
  /\ sessions' = RemoveFirst(sessions, use[c])
  /\ Crosses(Callers \ {c})
  /\ Return(c)
  /\ UNCHANGED <<created, sessionVars, flagVars, handles, stopping, bound, lost>>

(* The caller is cancelled at an await.  While it uses a session, the       *)
(* finally block still releases it; while it waits for the lock in order to *)
(* release, or while it closes an overflow session under the lock, nothing  *)
(* else does.                                                               *)
Cancel(c) ==
  /\ \/ pc[c] \in Places \ {"idle", "releasing"}
     \/ pc[c] = "releasing" /\ ~LockFree(FALSE)
  /\ IF pc[c] = "using"
       THEN Goto(c, "releasing") /\ UNCHANGED <<use, arg, first, index>>
       ELSE Return(c)
  /\ lost' = IF pc[c] \in {"releasing", "closing"} THEN lost \cup {use[c]} ELSE lost
  /\ IF pc[c] \in {"starting", "adding"}
       THEN \E up \in BOOLEAN : alive' = [alive EXCEPT ![use[c]] = up]
       ELSE UNCHANGED alive
  /\ UNCHANGED <<sessions, created, process, states, flagVars, handles, stopping, bound,
                 crossed>>

-----------------------------------------------------------------------------
(* add_session, remove_idle_session and shutdown.                           *)

\* The lock that a call that is not waiting yet, or one that is, will take.
Old(c) == IF pc[c] = "idle" THEN ~bound ELSE c \in first

\* One of them waits for the lock, if it is not free.
Queue(c, place) ==
  /\ pc[c] = "idle" /\ ~LockFree(Old(c))
  /\ Goto(c, place)
  /\ first' = IF bound THEN first ELSE first \cup {c}
  /\ UNCHANGED <<sessions, created, sessionVars, flagVars, use, arg, handles, stopping,
                 bound, index, lost, crossed>>

\* It takes the lock, at once or when it is free.
Enter(c, place, next) ==
  /\ pc[c] \in {"idle", place} /\ LockFree(Old(c))
  /\ Goto(c, next)
  /\ first' = IF Old(c) THEN first \cup {c} ELSE first

AddSession(c) ==
  /\ Enter(c, "toAdd", "adding")
  /\ created < MaxSessions
  /\ created' = created + 1
  /\ use' = [use EXCEPT ![c] = created + 1]
  /\ UNCHANGED <<sessions, sessionVars, flagVars, arg, handles, stopping, bound, index,
                 lost, crossed>>

Added(c) ==
  /\ pc[c] = "adding"
  /\ Return(c)
  /\ \/ /\ sessions' = Append(sessions, use[c])
        /\ alive' = [alive EXCEPT ![use[c]] = TRUE]
        /\ process' = [process EXCEPT ![use[c]] = 1]
     \/ UNCHANGED <<sessions, alive, process>>
  /\ UNCHANGED <<created, states, flagVars, handles, stopping, bound, lost, crossed>>

RemoveIdle(c) ==
  /\ Enter(c, "toRemove", "removing")
  /\ \E i \in DOMAIN sessions :
       /\ IsTail(i)
       /\ use' = [use EXCEPT ![c] = sessions[i]]
       /\ index' = [index EXCEPT ![c] = i]
       /\ alive' = [alive EXCEPT ![sessions[i]] = FALSE]
  /\ UNCHANGED <<sessions, created, process, states, flagVars, arg, handles,
                 stopping, bound, lost, crossed>>

\* No session is idle.
NothingIdle(c) ==
  /\ pc[c] = "toRemove" /\ LockFree(Old(c))
  /\ \A s \in Listed : ~Available(s)
  /\ Return(c)
  /\ UNCHANGED <<sessions, created, sessionVars, flagVars, handles, stopping, bound, lost,
                 crossed>>

\* Mutant: the last entry, not the one that was closed.
PopLast(c) == IF sessions = <<>> THEN sessions ELSE Front(sessions)

\* pop(i), with the position found before the session was closed: another entry, or an
\* IndexError, if the list has become shorter.
Popped(c) == IF index[c] \in DOMAIN sessions THEN RemoveAt(sessions, index[c]) ELSE sessions

Removed(c) ==
  /\ pc[c] = "removing"
  /\ sessions' = Popped(c)
  /\ Crosses(Callers \ {c})
  /\ Return(c)
  /\ UNCHANGED <<created, sessionVars, flagVars, handles, stopping, bound, lost>>

\* shutdown() takes no lock: it closes the sessions listed when it begins, and
\* clears the list as it is when they are closed.
Shutdown ==
  /\ ~stopping /\ sessions # <<>>
  /\ stopping' = TRUE
  /\ alive' = [s \in Ids |-> alive[s] /\ s \notin Listed]
  /\ UNCHANGED <<sessions, created, process, states, flagVars, pc, arg, use,
                 handles, lockVars, index, lost, crossed>>

ShutdownEnds ==
  /\ stopping
  /\ stopping' = FALSE
  /\ sessions' = <<>>
  /\ Crosses(Callers)
  /\ UNCHANGED <<created, sessionVars, flagVars, pc, arg, use, handles, lockVars, index,
                 lost>>

-----------------------------------------------------------------------------
(* The transport of a session replaces its process (in a send of a caller,  *)
(* or of the heartbeat, which close() cancels), or gives it up.             *)
TransportRestarts(s) ==
  /\ alive[s] \/ \E c \in Callers : pc[c] = "using" /\ use[c] = s
  /\ process[s] < MaxProcesses
  /\ process' = [process EXCEPT ![s] = @ + 1]
  /\ states' = [states EXCEPT ![s] = 0]
  /\ alive' = [alive EXCEPT ![s] = TRUE]
  /\ UNCHANGED <<sessions, created, flagVars, pc, arg, use, handles, stopping,
                 lockVars, index, lost, crossed>>

TransportGivesUp(s) ==
  /\ alive[s]
  /\ alive' = [alive EXCEPT ![s] = FALSE]
  /\ UNCHANGED <<sessions, created, process, states, flagVars, pc, arg, use,
                 handles, stopping, lockVars, index, lost, crossed>>

-----------------------------------------------------------------------------
Step(c) ==
  \/ Acquire(c) \/ StartOverflow(c) \/ OverflowStarted(c)
  \/ AcquireSpecific(c) \/ GiveUp(c)
  \/ Finish(c) \/ Release(c) \/ Closed(c) \/ Added(c) \/ Removed(c) \/ NothingIdle(c)
  \/ pc[c] # "idle" /\ (AddSession(c) \/ RemoveIdle(c))

Next ==
  \/ \E c \in Callers :
       \/ Call(c) \/ CallTactic(c) \/ Queue(c, "toAdd") \/ Queue(c, "toRemove")
       \/ AddSession(c) \/ RemoveIdle(c) \/ Step(c) \/ Cancel(c)
  \/ \E s \in Ids : TransportRestarts(s) \/ TransportGivesUp(s)
  \/ Shutdown \/ ShutdownEnds

Spec == Init /\ [][Next]_vars

\* Starting, closing and using a session are calls of a transport, which return
\* (LocalTransport!CallsReturnOrClog, where no pipe is clogged), and the Condition's
\* lock is first come, first served: a task that can take it again and again does.
FairSpec == Spec /\ \A c \in Callers : SF_vars(Step(c))

-----------------------------------------------------------------------------
(* Properties.                                                              *)

Using(c) == pc[c] \in {"using", "releasing"}

\* At most one task holds a Condition's lock across an await, and two tasks hold one only
\* if one of them is an add_session or remove_idle_session that began before any session
\* was acquired: but for these, the critical sections of add_session,
\* remove_idle_session, an overflow start and an overflow close never overlap.
OneHolder ==
  /\ \A c, d \in Callers : pc[c] \in Holders /\ pc[d] \in Holders /\ c # d
                             => (c \in first <=> d \notin first)
  /\ \A c \in first : pc[c] \in {"toAdd", "toRemove", "adding", "removing"}

\* No two tasks use one session at a time, from _acquire_session or
\* _acquire_specific_session until _release_session has run, whatever is
\* cancelled, restarted, removed or shut down meanwhile.
OneUserPerSession ==
  \A c, d \in Callers : Using(c) /\ Using(d) /\ use[c] = use[d] => c = d

\* A session in use is marked _busy, and only a release that was cancelled
\* leaves one marked that nobody uses.
BusyAccounted ==
  /\ \A c \in Callers : Using(c) => busy[use[c]]
  /\ \A s \in Ids : busy[s] => s \in lost \/ \E c \in Callers : Using(c) /\ use[c] = s

\* An overflow session is in the list only while its task uses or closes it
\* ("used once, then closed"): the list does not grow under load, unless the
\* release of one is cancelled.
OverflowTemporary ==
  \A s \in Listed :
    overflow[s] => \/ s \in lost
                   \/ \E c \in Callers : (Using(c) \/ pc[c] = "closing") /\ use[c] = s

\* What every state of the pool satisfies: the types, the lock held by one task, the
\* flags that say which sessions are in use, and the overflow sessions listed.
PoolInv == TypeOK /\ OneHolder /\ BusyAccounted /\ OverflowTemporary

\* A session in use leaves the list only when shutdown() clears it: neither
\* remove_idle_session nor the release of another session drops it, unless an entry left
\* the list while remove_idle_session waited for its session to close, by a shutdown() or
\* under the other Condition: its position may then be another session's.
InUseStaysListed ==
  [][\A c \in Callers : Using(c) /\ use[c] \in Listed
       => use[c] \in Listed' \/ (stopping /\ ~stopping') \/ crossed]_vars

\* Every call returns: a free session, an overflow session or TimeoutError ends
\* the wait of _acquire_session and _acquire_specific_session, and no release,
\* close or start keeps the lock, although others take it meanwhile.  (Where the
\* bound of the model stops overflow sessions, a call may wait for one in use, and
\* add_session, whatever its Condition.)
CallsReturn ==
  \A c \in Callers :
    /\ pc[c] \notin {"idle", "waiting", "toAdd"} ~> pc[c] = "idle"
    /\ pc[c] = "toAdd" ~> pc[c] = "idle" \/ created = MaxSessions
    /\ pc[c] = "waiting" ~> \/ pc[c] = "idle"
                            \/ created = MaxSessions /\ \A s \in Listed : ~Available(s)

=============================================================================
