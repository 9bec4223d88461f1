--------------------------- MODULE LocalTransport ---------------------------
(***************************************************************************)
(* LocalTransport of engine/transport.py: one Lean REPL subprocess, talked *)
(* to over stdin/stdout by several asyncio tasks (callers of send() and    *)
(* the heartbeat loop) under one asyncio.Lock.                             *)
(*                                                                         *)
(* A task is interrupted only at an await, so one action is the code from  *)
(* one await to the next.  The pipe to the process is first-in first-out,  *)
(* and requests are numbered in the order they are written; hence counters *)
(* describe its contents: of the requests written to the current process,  *)
(* those in readUpTo+1..answered wait in stdout to be read and those in    *)
(* answered+1..written are still to be answered.                           *)
(***************************************************************************)
EXTENDS Integers, Sequences

CONSTANTS
  Callers,      \* tasks that call send()
  Heartbeat,    \* the task of _heartbeat_loop
  MaxRestarts,  \* max_restarts of __init__
  LongRequests, \* whether a request may be longer than the stdin pipe takes
  MaxCalls      \* bound of the model: calls of send() in a behaviour

ASSUME CallersAssumption ==
  /\ Heartbeat \notin Callers
  /\ "close" \notin Callers \cup {Heartbeat}   \* its place in `target'
ASSUME MaxRestartsAssumption == MaxRestarts \in Nat
ASSUME LongRequestsAssumption == LongRequests \in BOOLEAN
ASSUME MaxCallsAssumption == MaxCalls \in Nat

Tasks == Callers \cup {Heartbeat}

\* consecutive_failures >= 2, line 308
FailureThreshold == 2

VARIABLES
  mode,      \* "new" before start(), then "repl", "single" or "fallback"
  alive,     \* _alive
  closing,   \* progress of close(): open, cancelling, killing, closed
  handle,    \* the process _process refers to, 0 for None
  running,   \* REPL processes the operating system runs
  spawned,   \* number of processes started; the last one owns the pipe
  restarts,  \* _stats.total_restarts
  failures,  \* _stats.consecutive_failures
  queue,     \* _send_lock: the holder, then the waiting tasks in order
  pc,        \* where each task is in _send_repl
  resume,    \* what a restart is for: "send" the request, or "fail" the call
  target,    \* the process a task inside _kill_process is killing
  req,       \* number of the request a task wrote last
  written, answered, readUpTo,   \* the pipe of process `spawned'
  clogged,   \* processes whose stdin holds bytes they have not read yet
  clean,     \* history: no request was given up on the current process
  leaked,    \* history: processes whose kill was cancelled half way
  calls      \* history: calls made so far (bounded by MaxCalls)

procVars == <<handle, running, spawned, restarts>>
pipeVars == <<req, written, answered, readUpTo, clean>>
taskVars == <<queue, pc, resume, target>>
vars == <<mode, alive, closing, procVars, failures, taskVars, pipeVars,
          clogged, leaked, calls>>

Places == {"idle", "lock", "kill", "spawn", "drain", "read", "single"}

TypeOK ==
  /\ mode \in {"new", "repl", "single", "fallback"}
  /\ alive \in BOOLEAN
  /\ closing \in {"open", "cancelling", "killing", "closed"}
  /\ spawned \in Nat
  /\ handle \in 0..spawned
  /\ running \subseteq 1..spawned
  /\ restarts \in 0..MaxRestarts
  /\ failures \in Nat
  /\ queue \in Seq(Tasks)
  /\ pc \in [Tasks -> Places]
  /\ resume \in [Tasks -> {"send", "fail"}]
  /\ target \in [Tasks \cup {"close"} -> Nat]
  /\ req \in [Tasks -> Nat]
  /\ written \in Nat /\ answered \in Nat /\ readUpTo \in Nat
  /\ clean \in BOOLEAN
  /\ clogged \subseteq Nat
  /\ leaked \subseteq Nat
  /\ calls \in 0..MaxCalls

Init ==
  /\ mode = "new"
  /\ alive = FALSE
  /\ closing = "open"
  /\ handle = 0 /\ running = {} /\ spawned = 0 /\ restarts = 0
  /\ failures = 0
  /\ queue = <<>>
  /\ pc = [t \in Tasks |-> "idle"]
  /\ resume = [t \in Tasks |-> "send"]
  /\ target = [t \in Tasks \cup {"close"} |-> 0]
  /\ req = [t \in Tasks |-> 0]
  /\ written = 0 /\ answered = 0 /\ readUpTo = 0
  /\ clean = TRUE
  /\ clogged = {}
  /\ leaked = {}
  /\ calls = 0

-----------------------------------------------------------------------------
(* start(): a missing project directory or a machine without Lean ends in   *)
(* fallback mode, a machine with `lean' only in single-shot mode.           *)
Start ==
  /\ mode = "new"
  /\ alive' = TRUE
  /\ \/ /\ mode' = "repl"
        /\ handle' = 1 /\ running' = {1} /\ spawned' = 1
     \/ /\ mode' \in {"single", "fallback"}
        /\ UNCHANGED <<handle, running, spawned>>
  /\ UNCHANGED <<closing, restarts, failures, taskVars, pipeVars, clogged, leaked, calls>>

(* send() in REPL mode, up to the lock.  The heartbeat calls it only while  *)
(* the transport is alive and has a process.                                *)
Begin(t) ==
  /\ mode = "repl"
  /\ pc[t] = "idle"
  /\ calls < MaxCalls
  /\ t = Heartbeat => alive /\ handle # 0 /\ closing = "open"
  /\ calls' = calls + 1
  /\ queue' = Append(queue, t)
  /\ pc' = [pc EXCEPT ![t] = "lock"]
  /\ UNCHANGED <<mode, alive, closing, procVars, failures, resume, target,
                 pipeVars, clogged, leaked>>

\* The task returns from _send_repl and releases the lock.
Return(t) ==
  /\ pc' = [pc EXCEPT ![t] = "idle"]
  /\ queue' = Tail(queue)
  /\ UNCHANGED <<resume, target>>

(* _restart_repl up to its first await.  Out of restarts, the transport is  *)
(* marked dead and the call returns None; else the process is detached and  *)
(* its kill begins (with no process there is nothing to wait for).          *)
OutOfRestarts(t) ==
  /\ restarts >= MaxRestarts
  /\ alive' = FALSE
  /\ Return(t)
  /\ UNCHANGED <<handle, restarts>>

\* Mutant: the process is forgotten without being killed.
DetachOnly(t) ==
  /\ handle' = 0
  /\ pc' = [pc EXCEPT ![t] = "spawn"]
  /\ restarts' = restarts + 1
  /\ UNCHANGED target

BeginKill(t) ==
  /\ handle' = 0
  /\ target' = [target EXCEPT ![t] = handle]
  /\ IF handle = 0
       THEN pc' = [pc EXCEPT ![t] = "spawn"] /\ restarts' = restarts + 1
       ELSE pc' = [pc EXCEPT ![t] = "kill"] /\ UNCHANGED restarts

\* Mutant: the transport is marked dead but restarted all the same.
RestartPastLimit(t, why) ==
  /\ BeginKill(t)
  /\ alive' = (alive /\ restarts < MaxRestarts)
  /\ resume' = [resume EXCEPT ![t] = why]
  /\ UNCHANGED queue

Restart(t, why) ==
  \/ OutOfRestarts(t)
  \/ /\ restarts < MaxRestarts
     /\ BeginKill(t)
     /\ resume' = [resume EXCEPT ![t] = why]
     /\ UNCHANGED <<alive, queue>>

HasLock(t) == queue # <<>> /\ Head(queue) = t

(* The lock holder finds no process, or one whose returncode is set, and    *)
(* restarts it before sending.                                              *)
RestartBeforeSend(t) ==
  /\ HasLock(t) /\ pc[t] = "lock"
  /\ handle \notin running
  /\ Restart(t, "send")
  /\ failures' = IF restarts >= MaxRestarts THEN failures + 1 ELSE failures
  /\ UNCHANGED <<mode, closing, running, spawned, pipeVars, clogged, leaked, calls>>

(* The request goes to process p.  A request the pipe does not take at once  *)
(* leaves the task in drain(), which has no timeout.                         *)
WriteTo(t, p) ==
  /\ written' = written + 1
  /\ req' = [req EXCEPT ![t] = written + 1]
  /\ \/ /\ p \notin clogged
        /\ pc' = [pc EXCEPT ![t] = "read"]
        /\ UNCHANGED clogged
     \/ /\ LongRequests
        /\ pc' = [pc EXCEPT ![t] = "drain"]
        /\ clogged' = clogged \cup {p}

(* The lock holder writes its request.  The process may have died without   *)
(* its returncode being set yet.                                            *)
Write(t) ==
  /\ HasLock(t) /\ pc[t] = "lock"
  /\ handle # 0
  /\ WriteTo(t, handle)
  /\ UNCHANGED <<mode, alive, closing, procVars, failures, queue, resume,
                 target, answered, readUpTo, clean, leaked, calls>>

\* drain() returns: the process has read its input.
Drained(t) ==
  /\ pc[t] = "drain"
  /\ spawned \notin clogged
  /\ pc' = [pc EXCEPT ![t] = "read"]
  /\ UNCHANGED <<mode, alive, closing, procVars, failures, queue, resume,
                 target, pipeVars, clogged, leaked, calls>>

\* _kill_process first waits, without a timeout, until the process has read what
\* its stdin holds; only then it sends the kill signal.
CanKill(p) == p \notin clogged \/ p \notin running

\* _kill_process has reaped the process.
Killed(t) ==
  /\ pc[t] = "kill"
  /\ CanKill(target[t])
  /\ running' = running \ {target[t]}
  /\ restarts' = restarts + 1
  /\ pc' = [pc EXCEPT ![t] = "spawn"]
  /\ UNCHANGED <<mode, alive, closing, handle, spawned, failures, queue,
                 resume, target, pipeVars, clogged, leaked, calls>>

\* Mutant: what the old process had written is still read after the restart.
OldPipe == UNCHANGED <<answered, readUpTo>>

NewPipe ==
  /\ answered' = written
  /\ readUpTo' = written

(* create_subprocess_exec returns: the new process has a new, empty pipe.   *)
(* The call then goes on to write its request, or returns None.             *)
Spawned(t) ==
  /\ pc[t] = "spawn"
  /\ spawned' = spawned + 1
  /\ handle' = spawned + 1
  /\ running' = running \cup {spawned + 1}
  /\ alive' = TRUE
  /\ NewPipe
  /\ clean' = TRUE
  /\ IF resume[t] = "send"
       THEN WriteTo(t, spawned + 1) /\ UNCHANGED <<queue, resume, target>>
       ELSE Return(t) /\ UNCHANGED <<written, req, clogged>>
  /\ UNCHANGED <<mode, closing, restarts, failures, leaked, calls>>

SpawnFails(t) ==
  /\ pc[t] = "spawn"
  /\ Return(t)
  /\ failures' = IF resume[t] = "send" THEN failures + 1 ELSE failures
  /\ UNCHANGED <<mode, alive, closing, procVars, pipeVars, clogged, leaked, calls>>

-----------------------------------------------------------------------------
(* Outcomes of the read.                                                    *)

\* The next answer in stdout, whichever request it answers, is the result.
ReadAnswer(t) ==
  /\ pc[t] = "read"
  /\ readUpTo < answered
  /\ readUpTo' = readUpTo + 1
  /\ failures' = 0
  /\ Return(t)
  /\ UNCHANGED <<mode, alive, closing, procVars, req, written, answered, clean,
                 clogged, leaked, calls>>

\* readline() raises ValueError on an over-long line: no handler catches it, the
\* line is dropped and no statistic changes.
OverlongAnswer(t) ==
  /\ pc[t] = "read"
  /\ readUpTo < answered
  /\ readUpTo' = readUpTo + 1
  /\ Return(t)
  /\ UNCHANGED <<mode, alive, closing, procVars, failures, req, written,
                 answered, clean, clogged, leaked, calls>>

\* close() cleared _process while the task was between two lines of its answer.
StreamGone(t) ==
  /\ pc[t] = "read"
  /\ handle = 0
  /\ Return(t)
  /\ clean' = FALSE
  /\ UNCHANGED <<mode, alive, closing, procVars, failures, req, written,
                 answered, readUpTo, clogged, leaked, calls>>

(* The request times out.  The first timeout in a row leaves the process    *)
(* running with the request unanswered in its pipe; the second restarts it. *)
Timeout(t) ==
  /\ pc[t] = "read"
  /\ readUpTo = answered
  /\ failures' = failures + 1
  /\ clean' = FALSE
  /\ IF failures + 1 >= FailureThreshold
       THEN Restart(t, "fail")
       ELSE Return(t) /\ UNCHANGED <<alive, handle, restarts>>
  /\ UNCHANGED <<mode, closing, running, spawned, req, written, answered,
                 readUpTo, clogged, leaked, calls>>

\* End of file on stdout or a broken pipe: the process that owned it is gone.
ConnectionLost(t) ==
  /\ pc[t] \in {"drain", "read"}
  /\ spawned \notin running
  /\ failures' = failures + 1
  /\ clean' = FALSE
  /\ Restart(t, "fail")
  /\ UNCHANGED <<mode, closing, running, spawned, req, written, answered,
                 readUpTo, clogged, leaked, calls>>

\* The lock's queue when task t leaves it, from whatever place.
Dequeued(t) ==
  LET i == CHOOSE j \in 1..Len(queue) : queue[j] = t
  IN  [j \in 1..(Len(queue) - 1) |-> queue[IF j < i THEN j ELSE j + 1]]

\* Mutant: the lock is released on return but not on cancellation.
KeepsLock(t) == IF pc[t] = "lock" THEN Dequeued(t) ELSE queue

QueueWithout(t) == Dequeued(t)

(* The task is cancelled at an await: a tool's deadline (safe_execute in    *)
(* agent/tools/base.py) cancels a caller, close() cancels the heartbeat.    *)
(* CancelledError passes every handler and releases the lock.               *)
Cancel(t) ==
  /\ pc[t] \in {"lock", "kill", "spawn", "drain", "read"}
  /\ t = Heartbeat => closing = "cancelling"
  /\ pc' = [pc EXCEPT ![t] = "idle"]
  /\ queue' = QueueWithout(t)
  /\ clean' = (clean /\ pc[t] \notin {"drain", "read"})
  /\ IF pc[t] = "kill"
       THEN \/ running' = running \ {target[t]} /\ UNCHANGED leaked
            \/ leaked' = leaked \cup {target[t]} /\ UNCHANGED running
       ELSE UNCHANGED <<running, leaked>>
  /\ UNCHANGED <<mode, alive, closing, handle, spawned, restarts, failures,
                 resume, target, req, written, answered, readUpTo, clogged, calls>>

-----------------------------------------------------------------------------
(* close(), which does not take the lock.                                   *)
CloseBegin ==
  /\ mode # "new" /\ closing = "open"
  /\ alive' = FALSE
  /\ closing' = "cancelling"
  /\ UNCHANGED <<mode, procVars, failures, taskVars, pipeVars, clogged, leaked, calls>>

CloseKill ==
  /\ closing = "cancelling"
  /\ pc[Heartbeat] = "idle"
  /\ closing' = "killing"
  /\ handle' = 0
  /\ target' = [target EXCEPT !["close"] = handle]
  /\ UNCHANGED <<mode, alive, running, spawned, restarts, failures, queue, pc,
                 resume, pipeVars, clogged, leaked, calls>>

CloseEnd ==
  /\ closing = "killing"
  /\ CanKill(target["close"])
  /\ closing' = "closed"
  /\ running' = running \ {target["close"]}
  /\ UNCHANGED <<mode, alive, handle, spawned, restarts, failures, taskVars,
                 pipeVars, clogged, leaked, calls>>

-----------------------------------------------------------------------------
(* The REPL process: it reads its input, answers requests in order, and may *)
(* stop doing so, or die.                                                   *)
Answer ==
  /\ spawned \in running
  /\ spawned \notin clogged
  /\ answered < written
  /\ answered' = answered + 1
  /\ UNCHANGED <<mode, alive, closing, procVars, failures, taskVars, req,
                 written, readUpTo, clean, clogged, leaked, calls>>

Consume ==
  /\ \E p \in clogged \cap running : clogged' = clogged \ {p}
  /\ UNCHANGED <<mode, alive, closing, procVars, failures, taskVars, pipeVars,
                 leaked, calls>>

Die ==
  /\ \E p \in running : running' = running \ {p}
  /\ UNCHANGED <<mode, alive, closing, handle, spawned, restarts, failures,
                 taskVars, pipeVars, clogged, leaked, calls>>

(* _send_single_shot: a process of its own per request, nothing shared but  *)
(* the statistics.                                                          *)
SingleShot(t) ==
  /\ mode = "single"
  /\ \/ /\ pc[t] = "idle" /\ t # Heartbeat
        /\ calls < MaxCalls
        /\ calls' = calls + 1
        /\ pc' = [pc EXCEPT ![t] = "single"]
        /\ UNCHANGED failures
     \/ /\ pc[t] = "single"
        /\ pc' = [pc EXCEPT ![t] = "idle"]
        /\ failures' \in {0, failures + 1}
        /\ UNCHANGED calls
  /\ UNCHANGED <<mode, alive, closing, procVars, queue, resume, target,
                 pipeVars, clogged, leaked>>

-----------------------------------------------------------------------------
Step(t) ==
  \/ RestartBeforeSend(t) \/ Write(t) \/ Drained(t)
  \/ Killed(t) \/ Spawned(t) \/ SpawnFails(t)
  \/ ReadAnswer(t) \/ OverlongAnswer(t) \/ StreamGone(t)
  \/ Timeout(t) \/ ConnectionLost(t)

Close == CloseBegin \/ CloseKill \/ CloseEnd

Next ==
  \/ Start \/ Close \/ Consume \/ Answer \/ Die
  \/ \E t \in Tasks : Begin(t) \/ Step(t) \/ Cancel(t) \/ SingleShot(t)

Spec == Init /\ [][Next]_vars

\* The event loop runs every ready task and fires every timer; nothing makes the
\* REPL answer, a process die, or anybody call, cancel or close.
FairSpec == Spec /\ \A t \in Tasks : WF_vars(Step(t))

-----------------------------------------------------------------------------
(* Properties.                                                              *)

Holding(t) == pc[t] \in {"kill", "spawn", "drain", "read"}

\* The task's request is written and has no outcome yet.
Waiting(t) == pc[t] \in {"drain", "read"}

\* The lock serialises the callers (send_lock, line 244): only its holder is past
\* it, every waiting task is queued once, and nobody else is queued, whatever
\* cancellations, restarts and failures happened.
LockInv ==
  /\ \A t \in Tasks : Holding(t) => HasLock(t)
  /\ \A i \in 1..Len(queue) : pc[queue[i]] = "lock" \/ Holding(queue[i])
  /\ \A i, j \in 1..Len(queue) : queue[i] = queue[j] => i = j
  /\ \A t \in Tasks : pc[t] = "lock" => \E i \in 1..Len(queue) : queue[i] = t

\* The pipe is in step with the callers until a request is given up: the only
\* answer still to be read is that of the request being read, which is the last
\* one written.
PipeInv ==
  /\ readUpTo <= answered /\ answered <= written
  /\ \A t \in Tasks : Waiting(t) => req[t] = written /\ readUpTo < written
  /\ clean => \/ written = readUpTo
              \/ written = readUpTo + 1 /\ \E t \in Tasks : Waiting(t)

\* While no request was given up on the current process, each call that gets an
\* answer gets the answer to its own command.
OwnAnswerWhenClean ==
  [][\A t \in Tasks :
       (pc[t] = "read" /\ readUpTo' = readUpTo + 1 /\ clean)
         => readUpTo' = req[t]]_vars

\* No process is lost track of: each running one is the current one, is being
\* killed by a restart or by close(), or had its kill cancelled half way.
ProcessAccounted ==
  \A p \in running :
    \/ p = handle
    \/ \E t \in Tasks : pc[t] = "kill" /\ target[t] = p
    \/ closing = "killing" /\ target["close"] = p
    \/ p \in leaked

\* Restarts are limited over the transport's whole life, by max_restarts.
RestartsLimited == spawned <= restarts + 1 /\ restarts <= MaxRestarts

\* What every state of the transport satisfies: the types, the lock, the pipe, the
\* processes and the restarts, with all their interleavings and cancellations.
TransportInv ==
  TypeOK /\ LockInv /\ PipeInv /\ ProcessAccounted /\ RestartsLimited

\* A transport that gave up (max restarts reached) is never reported alive again,
\* so the pool does not hand a session to it that it had written off.
GivenUpIsFinal ==
  [][(mode = "repl" /\ ~alive /\ closing = "open") => ~alive']_vars

\* Every call returns, or waits for ever behind one that is stuck in drain(), which
\* has no time limit: the lock is released on every other path.
CallsReturnOrClog ==
  \A t \in Tasks : (pc[t] = "lock") ~> (pc[t] = "idle" \/ \E u \in Tasks : pc[u] = "drain")

\* The transport implements the answer service: a request is issued when it is
\* written, delivered when its reader returns an answer.
Service == INSTANCE AnswerService WITH
  Clients <- Tasks,
  issued <- written,
  last <- readUpTo,
  own <- [t \in Tasks |-> IF Waiting(t) THEN req[t] ELSE 0]

ImplementsService == Service!ServiceSpec
=============================================================================
