----------------------- MODULE LocalTransport_proofs -----------------------
(***************************************************************************)
(* Proofs about LocalTransport for any set of callers, any restart limit   *)
(* and any number of calls.                                                *)
(***************************************************************************)
EXTENDS LocalTransport, SequenceTheorems, TLAPS

\* Facts about the tasks in the middle of a restart that TypeOK, LockInv and
\* PipeInv rest on.
RestartInv ==
  /\ RestartsLimited
  /\ \A t \in Tasks : pc[t] = "kill" => restarts < MaxRestarts
  /\ \A t \in Tasks : pc[t] = "spawn" => spawned <= restarts
  /\ \A t \in Tasks : pc[t] \in {"kill", "spawn"} => handle = 0
  /\ mode = "new" => /\ spawned = 0
                     /\ \A t \in Tasks : pc[t] = "idle"

\* A transport that is not alive, and was not closed, has used up its restarts
\* and no task is restarting it.
GivenUpInv ==
  (mode = "repl" /\ ~alive /\ closing = "open")
    => /\ restarts >= MaxRestarts
       /\ \A t \in Tasks : pc[t] \notin {"kill", "spawn"}

IInv == TypeOK /\ LockInv /\ PipeInv /\ RestartInv /\ GivenUpInv

-----------------------------------------------------------------------------
(* How the lock's queue and the tasks' places change together.              *)

QueueOK == queue \in Seq(Tasks) /\ pc \in [Tasks -> Places]

USE DEF Places, Holding, Waiting

LEMMA EnterQueue ==
  ASSUME QueueOK, LockInv, NEW t \in Tasks, pc[t] = "idle",
         queue' = Append(queue, t), pc' = [pc EXCEPT ![t] = "lock"]
  PROVE  QueueOK' /\ LockInv'
<1>1. QueueOK'
  BY DEF QueueOK
<1>2. /\ Len(queue') = Len(queue) + 1
      /\ \A i \in 1..Len(queue) : queue'[i] = queue[i]
      /\ queue'[Len(queue) + 1] = t
  BY DEF QueueOK
<1>3. \A i \in 1..Len(queue) : queue[i] # t
  BY DEF QueueOK, LockInv
<1>4. \A u \in Tasks : Holding(u)' => HasLock(u)'
  BY <1>2 DEF QueueOK, LockInv, HasLock
<1>5. QED
  BY <1>1, <1>2, <1>3, <1>4 DEF QueueOK, LockInv, HasLock

LEMMA LeaveQueue ==
  ASSUME QueueOK, LockInv, NEW t \in Tasks, HasLock(t), Return(t)
  PROVE  QueueOK' /\ LockInv'
<1>1. /\ queue' = Tail(queue) /\ pc' = [pc EXCEPT ![t] = "idle"]
      /\ queue \in Seq(Tasks) /\ queue # <<>> /\ queue[1] = t
  BY DEF QueueOK, HasLock, Return
<1>2. /\ Len(queue') = Len(queue) - 1 /\ queue' \in Seq(Tasks)
      /\ \A i \in 1..Len(queue') : queue'[i] = queue[i + 1]
  BY <1>1
<1>3. QueueOK'
  BY <1>1, <1>2 DEF QueueOK
<1>4. \A u \in Tasks : ~Holding(u)'
  BY <1>1 DEF QueueOK, LockInv, HasLock
<1>5. \A i \in 1..Len(queue') : queue'[i] # t /\ pc'[queue'[i]] = pc[queue[i + 1]]
  BY <1>1, <1>2 DEF QueueOK, LockInv
<1>6. \A u \in Tasks : pc'[u] = "lock" => \E i \in 1..Len(queue') : queue'[i] = u
  <2> SUFFICES ASSUME NEW u \in Tasks, pc'[u] = "lock"
               PROVE  \E i \in 1..Len(queue') : queue'[i] = u
    OBVIOUS
  <2>1. u # t /\ pc[u] = "lock"
    BY <1>1 DEF QueueOK
  <2>2. PICK j \in 1..Len(queue) : queue[j] = u
    BY <2>1 DEF LockInv
  <2>3. j - 1 \in 1..Len(queue')
    BY <1>1, <1>2, <2>1, <2>2
  <2>4. queue'[j - 1] = queue[(j - 1) + 1] /\ (j - 1) + 1 = j
    BY <1>2, <2>3
  <2>5. QED
    BY <2>2, <2>3, <2>4
<1>7. QED
  BY <1>2, <1>3, <1>4, <1>5, <1>6 DEF LockInv

LEMMA KeepQueue ==
  ASSUME QueueOK, LockInv, NEW t \in Tasks, HasLock(t), pc[t] \notin {"idle", "single"},
         NEW p \in {"kill", "spawn", "drain", "read"},
         queue' = queue, pc' = [pc EXCEPT ![t] = p]
  PROVE  QueueOK' /\ LockInv'
BY DEF QueueOK, LockInv, HasLock

LEMMA CancelQueue ==
  ASSUME QueueOK, LockInv, NEW t \in Tasks,
         pc[t] \in {"lock", "kill", "spawn", "drain", "read"},
         queue' = QueueWithout(t), pc' = [pc EXCEPT ![t] = "idle"]
  PROVE  QueueOK' /\ LockInv'
<1> DEFINE n == Len(queue)
           i == CHOOSE j \in 1..n : queue[j] = t
           f == [j \in 1..(n - 1) |-> queue[IF j < i THEN j ELSE j + 1]]
<1>1. n \in Nat /\ \E j \in 1..n : queue[j] = t
  BY DEF QueueOK, LockInv, HasLock
<1>2. i \in 1..n /\ queue[i] = t
  BY <1>1
<1>3. queue' = f
  BY DEF QueueWithout, Dequeued
<1> HIDE DEF i
<1>4. f \in Seq(Tasks) /\ Len(f) = n - 1
  <2>1. n - 1 \in Nat /\ \A j \in 1..(n - 1) : queue[IF j < i THEN j ELSE j + 1] \in Tasks
    BY <1>1, <1>2 DEF QueueOK
  <2>2. QED
    BY <2>1, IsASeq
<1>5. QueueOK'
  BY <1>3, <1>4 DEF QueueOK
<1>6. \A j \in 1..(n - 1) : f[j] # t /\ pc'[f[j]] = pc[f[j]]
  BY <1>1, <1>2 DEF QueueOK, LockInv
<1>7. \A j \in 1..(n - 1) : pc'[f[j]] \in {"lock", "kill", "spawn", "drain", "read"}
  BY <1>1, <1>2, <1>6 DEF QueueOK, LockInv
<1>8. \A j, k \in 1..(n - 1) : f[j] = f[k] => j = k
  BY <1>1, <1>2 DEF QueueOK, LockInv
<1>9. \A u \in Tasks : pc'[u] = "lock" => \E j \in 1..(n - 1) : f[j] = u
  <2> SUFFICES ASSUME NEW u \in Tasks, pc'[u] = "lock"
               PROVE  \E j \in 1..(n - 1) : f[j] = u
    OBVIOUS
  <2>1. u # t /\ pc[u] = "lock"
    BY DEF QueueOK
  <2>2. PICK j \in 1..n : queue[j] = u
    BY <2>1 DEF LockInv
  <2>3. CASE j < i
    BY <1>1, <1>2, <2>2, <2>3
  <2>4. CASE j > i
    <3>1. j - 1 \in 1..(n - 1) /\ f[j - 1] = u
      BY <1>1, <1>2, <2>2, <2>4
    <3>2. QED
      BY <3>1
  <2>5. QED
    BY <1>1, <1>2, <2>1, <2>2, <2>3, <2>4
<1>10. \A u \in Tasks : Holding(u)' => HasLock(u)'
  <2> SUFFICES ASSUME NEW u \in Tasks, Holding(u)'
               PROVE  HasLock(u)'
    OBVIOUS
  <2>1. u # t /\ Holding(u) /\ queue[1] = u /\ queue # <<>>
    BY DEF QueueOK, LockInv, HasLock
  <2>2. i > 1
    BY <1>1, <1>2, <2>1
  <2>3. n - 1 >= 1 /\ f[1] = u
    BY <1>1, <1>2, <2>1, <2>2
  <2> HIDE DEF f
  <2>4. queue' \in Seq(Tasks) /\ Len(queue') >= 1 /\ queue'[1] = u
    BY <1>1, <1>3, <1>4, <2>3
  <2>5. queue' # <<>> /\ Head(queue') = u
    BY <2>4
  <2>6. QED
    BY <2>5 DEF HasLock
<1> HIDE DEF f
<1>11. Len(queue') = n - 1
  BY <1>3, <1>4
<1> HIDE DEF n
<1>12. /\ \A j \in 1..Len(queue') : pc'[queue'[j]] \in {"lock", "kill", "spawn", "drain", "read"}
       /\ \A j, k \in 1..Len(queue') : queue'[j] = queue'[k] => j = k
       /\ \A u \in Tasks : pc'[u] = "lock" => \E j \in 1..Len(queue') : queue'[j] = u
  BY <1>3, <1>7, <1>8, <1>9, <1>11
<1>13. QED
  BY <1>5, <1>10, <1>12 DEF LockInv

LEMMA SameQueue ==
  ASSUME LockInv, UNCHANGED <<queue, pc>>
  PROVE  LockInv'
<1>1. queue' = queue /\ pc' = pc
  OBVIOUS
<1>2. \A t \in Tasks : Holding(t)' => HasLock(t)'
  BY <1>1 DEF LockInv, HasLock
<1>3. QED
  BY <1>1, <1>2 DEF LockInv

\* Only the head of the queue is past the lock.
LEMMA OneHolder ==
  ASSUME LockInv, NEW t \in Tasks, HasLock(t)
  PROVE  \A u \in Tasks : Holding(u) => u = t
BY DEF LockInv, HasLock

\* A restart keeps the holder at the head of the queue, or sends it home.
LEMMA RestartQueue ==
  ASSUME QueueOK, LockInv, NEW t \in Tasks, HasLock(t),
         pc[t] \notin {"idle", "single"}, NEW why, Restart(t, why)
  PROVE  QueueOK' /\ LockInv'
<1>1. CASE OutOfRestarts(t)
  BY <1>1, LeaveQueue DEF OutOfRestarts
<1>2. CASE BeginKill(t) /\ UNCHANGED queue
  <2>1. PICK p \in {"kill", "spawn"} : pc' = [pc EXCEPT ![t] = p]
    BY <1>2 DEF BeginKill
  <2>2. QED
    BY <1>2, <2>1, KeepQueue
<1>3. QED
  BY <1>1, <1>2 DEF Restart

-----------------------------------------------------------------------------
(* The inductive invariant.                                                 *)

LEMMA InitIInv == Init => IInv
<1> SUFFICES ASSUME Init PROVE IInv
  OBVIOUS
<1>1. TypeOK
  <2>1. queue \in Seq(Tasks) /\ target \in [Tasks \cup {"close"} -> Nat]
    BY DEF Init
  <2>2. pc \in [Tasks -> Places]
    BY DEF Init
  <2>3. resume \in [Tasks -> {"send", "fail"}] /\ req \in [Tasks -> Nat]
    BY DEF Init
  <2>4. handle \in 0..spawned /\ running \subseteq 1..spawned
    BY DEF Init
  <2>5. restarts \in 0..MaxRestarts /\ calls \in 0..MaxCalls
    BY MaxRestartsAssumption, MaxCallsAssumption DEF Init
  <2>6. QED
    BY <2>1, <2>2, <2>3, <2>4, <2>5 DEF Init, TypeOK
<1>2. LockInv
  <2>1. queue = <<>> /\ \A t \in Tasks : pc[t] = "idle"
    BY DEF Init
  <2>2. QED
    BY <2>1 DEF LockInv, HasLock
<1>3. PipeInv
  BY DEF Init, PipeInv
<1>4. RestartInv
  BY MaxRestartsAssumption DEF Init, RestartInv, RestartsLimited
<1>5. GivenUpInv
  BY DEF Init, GivenUpInv
<1>6. QED
  BY <1>1, <1>2, <1>3, <1>4, <1>5 DEF IInv

LEMMA StartStep ==
  ASSUME IInv, Start
  PROVE  IInv'
<1>1. TypeOK'
  <2>1. spawned = 0
    BY DEF IInv, TypeOK, RestartInv, Start
  <2>2. spawned' \in Nat /\ handle' \in 0..spawned' /\ running' \subseteq 1..spawned'
    <3>1. CASE handle' = 1 /\ running' = {1} /\ spawned' = 1
      BY <3>1
    <3>2. CASE UNCHANGED <<handle, running, spawned>>
      BY <3>2 DEF IInv, TypeOK
    <3>3. QED
      BY <3>1, <3>2 DEF Start
  <2>3. QED
    BY <2>1, <2>2 DEF IInv, TypeOK, Start, taskVars, pipeVars
<1>2. LockInv'
  BY SameQueue DEF IInv, Start, taskVars, pipeVars, procVars
<1>3. PipeInv'
  BY DEF IInv, TypeOK, PipeInv, Start, taskVars, pipeVars, procVars
<1>4. RestartInv'
  BY DEF IInv, TypeOK, RestartInv, RestartsLimited, Start, taskVars, pipeVars, procVars
<1>5. GivenUpInv'
  BY DEF IInv, GivenUpInv, Start, taskVars, pipeVars, procVars
<1>6. QED
  BY <1>1, <1>2, <1>3, <1>4, <1>5 DEF IInv

LEMMA CloseBeginStep ==
  ASSUME IInv, CloseBegin
  PROVE  IInv'
<1>1. TypeOK'
  BY DEF IInv, TypeOK, CloseBegin, taskVars, pipeVars, procVars
<1>2. LockInv'
  BY SameQueue DEF IInv, CloseBegin, taskVars, pipeVars, procVars
<1>3. PipeInv'
  BY DEF IInv, TypeOK, PipeInv, CloseBegin, taskVars, pipeVars, procVars
<1>4. RestartInv'
  BY DEF IInv, TypeOK, RestartInv, RestartsLimited, CloseBegin, taskVars, pipeVars, procVars
<1>5. GivenUpInv'
  BY DEF IInv, GivenUpInv, CloseBegin, taskVars, pipeVars, procVars
<1>6. QED
  BY <1>1, <1>2, <1>3, <1>4, <1>5 DEF IInv

LEMMA CloseKillStep ==
  ASSUME IInv, CloseKill
  PROVE  IInv'
<1>1. TypeOK'
  BY DEF IInv, TypeOK, CloseKill, taskVars, pipeVars, procVars
<1>2. LockInv'
  BY SameQueue DEF IInv, CloseKill, taskVars, pipeVars, procVars
<1>3. PipeInv'
  BY DEF IInv, TypeOK, PipeInv, CloseKill, taskVars, pipeVars, procVars
<1>4. RestartInv'
  BY DEF IInv, TypeOK, RestartInv, RestartsLimited, CloseKill, taskVars, pipeVars, procVars
<1>5. GivenUpInv'
  BY DEF IInv, GivenUpInv, CloseKill, taskVars, pipeVars, procVars
<1>6. QED
  BY <1>1, <1>2, <1>3, <1>4, <1>5 DEF IInv

LEMMA CloseEndStep ==
  ASSUME IInv, CloseEnd
  PROVE  IInv'
<1>1. TypeOK'
  BY DEF IInv, TypeOK, CloseEnd, taskVars, pipeVars, procVars
<1>2. LockInv'
  BY SameQueue DEF IInv, CloseEnd, taskVars, pipeVars, procVars
<1>3. PipeInv'
  BY DEF IInv, TypeOK, PipeInv, CloseEnd, taskVars, pipeVars, procVars
<1>4. RestartInv'
  BY DEF IInv, TypeOK, RestartInv, RestartsLimited, CloseEnd, taskVars, pipeVars, procVars
<1>5. GivenUpInv'
  BY DEF IInv, GivenUpInv, CloseEnd, taskVars, pipeVars, procVars
<1>6. QED
  BY <1>1, <1>2, <1>3, <1>4, <1>5 DEF IInv

LEMMA AnswerStep ==
  ASSUME IInv, Answer
  PROVE  IInv'
<1>1. TypeOK'
  BY DEF IInv, TypeOK, Answer, taskVars, pipeVars, procVars
<1>2. LockInv'
  BY SameQueue DEF IInv, Answer, taskVars, pipeVars, procVars
<1>3. PipeInv'
  BY DEF IInv, TypeOK, PipeInv, Answer, taskVars, pipeVars, procVars
<1>4. RestartInv'
  BY DEF IInv, TypeOK, RestartInv, RestartsLimited, Answer, taskVars, pipeVars, procVars
<1>5. GivenUpInv'
  BY DEF IInv, GivenUpInv, Answer, taskVars, pipeVars, procVars
<1>6. QED
  BY <1>1, <1>2, <1>3, <1>4, <1>5 DEF IInv

LEMMA ConsumeStep ==
  ASSUME IInv, Consume
  PROVE  IInv'
<1>1. TypeOK'
  BY DEF IInv, TypeOK, Consume, taskVars, pipeVars, procVars
<1>2. LockInv'
  BY SameQueue DEF IInv, Consume, taskVars, pipeVars, procVars
<1>3. PipeInv'
  BY DEF IInv, PipeInv, Consume, taskVars, pipeVars, procVars
<1>4. RestartInv'
  BY DEF IInv, TypeOK, RestartInv, RestartsLimited, Consume, taskVars, pipeVars, procVars
<1>5. GivenUpInv'
  BY DEF IInv, GivenUpInv, Consume, taskVars, pipeVars, procVars
<1>6. QED
  BY <1>1, <1>2, <1>3, <1>4, <1>5 DEF IInv

LEMMA DieStep ==
  ASSUME IInv, Die
  PROVE  IInv'
<1>1. TypeOK'
  BY DEF IInv, TypeOK, Die, taskVars, pipeVars, procVars
<1>2. LockInv'
  BY SameQueue DEF IInv, Die, taskVars, pipeVars, procVars
<1>3. PipeInv'
  BY DEF IInv, TypeOK, PipeInv, Die, taskVars, pipeVars, procVars
<1>4. RestartInv'
  BY DEF IInv, TypeOK, RestartInv, RestartsLimited, Die, taskVars, pipeVars, procVars
<1>5. GivenUpInv'
  BY DEF IInv, GivenUpInv, Die, taskVars, pipeVars, procVars
<1>6. QED
  BY <1>1, <1>2, <1>3, <1>4, <1>5 DEF IInv

LEMMA SingleShotStep ==
  ASSUME IInv, NEW t \in Tasks, SingleShot(t)
  PROVE  IInv'
<1>1. TypeOK'
  <2>1. calls' \in 0..MaxCalls /\ failures' \in Nat
    BY MaxCallsAssumption DEF IInv, TypeOK, SingleShot
  <2>2. pc' \in [Tasks -> Places]
    BY DEF IInv, TypeOK, SingleShot
  <2>3. QED
    BY <2>1, <2>2 DEF IInv, TypeOK, SingleShot, taskVars, pipeVars, procVars
<1>2. LockInv'
  <2>1. queue' = queue /\ \A u \in Tasks : \/ pc'[u] = pc[u]
                                            \/ /\ pc[u] \in {"idle", "single"}
                                               /\ pc'[u] \in {"idle", "single"}
    BY DEF IInv, TypeOK, SingleShot
  <2>2. \A i \in 1..Len(queue) : queue[i] \in Tasks
    BY DEF IInv, TypeOK
  <2>3. \A u \in Tasks : Holding(u)' => HasLock(u)'
    BY <2>1 DEF IInv, LockInv, HasLock
  <2>4. QED
    BY <2>1, <2>2, <2>3 DEF IInv, LockInv
<1>3. PipeInv'
  BY DEF IInv, TypeOK, PipeInv, SingleShot, taskVars, pipeVars, procVars
<1>4. RestartInv'
  BY DEF IInv, TypeOK, RestartInv, RestartsLimited, SingleShot, taskVars, pipeVars, procVars
<1>5. GivenUpInv'
  BY DEF IInv, GivenUpInv, SingleShot, taskVars, pipeVars, procVars
<1>6. QED
  BY <1>1, <1>2, <1>3, <1>4, <1>5 DEF IInv

LEMMA BeginStep ==
  ASSUME IInv, NEW t \in Tasks, Begin(t)
  PROVE  IInv'
<1>1. TypeOK'
  BY MaxCallsAssumption DEF IInv, TypeOK, Begin, taskVars, pipeVars, procVars
<1>2. LockInv'
  BY EnterQueue DEF IInv, TypeOK, QueueOK, Begin
<1>3. PipeInv'
  BY DEF IInv, TypeOK, PipeInv, Begin, taskVars, pipeVars, procVars
<1>4. RestartInv'
  BY DEF IInv, TypeOK, RestartInv, RestartsLimited, Begin, taskVars, pipeVars, procVars
<1>5. GivenUpInv'
  BY DEF IInv, GivenUpInv, Begin, taskVars, pipeVars, procVars
<1>6. QED
  BY <1>1, <1>2, <1>3, <1>4, <1>5 DEF IInv

LEMMA WriteStep ==
  ASSUME IInv, NEW t \in Tasks, Write(t)
  PROVE  IInv'
<1>1. PICK p \in {"drain", "read"} : pc' = [pc EXCEPT ![t] = p]
  BY DEF Write, WriteTo
<1>2. /\ HasLock(t) /\ pc[t] = "lock" /\ queue' = queue
      /\ written' = written + 1 /\ req' = [req EXCEPT ![t] = written + 1]
      /\ \A u \in Tasks : pc'[u] = IF u = t THEN p ELSE pc[u]
  BY <1>1 DEF IInv, TypeOK, Write, WriteTo
<1>3. TypeOK'
  <2>1. clogged' \subseteq Nat
    <3>1. clogged' \subseteq clogged \cup {handle}
      BY DEF Write, WriteTo
    <3>2. QED
      BY <3>1 DEF IInv, TypeOK
  <2>2. /\ written' \in Nat /\ req' \in [Tasks -> Nat] /\ pc' \in [Tasks -> Places]
        /\ queue' \in Seq(Tasks)
    BY <1>1, <1>2 DEF IInv, TypeOK
  <2>3. QED
    BY <2>1, <2>2 DEF IInv, TypeOK, Write, procVars
<1>4. LockInv'
  BY <1>1, <1>2, KeepQueue DEF IInv, TypeOK, QueueOK
<1>5. PipeInv'
  <2>1. \A u \in Tasks : ~Waiting(u) /\ (Waiting(u)' <=> u = t)
    BY <1>2, OneHolder DEF IInv
  <2>2. req'[t] = written'
    BY <1>2 DEF IInv, TypeOK
  <2>3. readUpTo' = readUpTo /\ answered' = answered /\ clean' = clean
    BY DEF Write
  <2>4. QED
    BY <1>2, <2>1, <2>2, <2>3 DEF IInv, TypeOK, PipeInv
<1>6. RestartInv'
  BY <1>2 DEF IInv, RestartInv, RestartsLimited, Write, procVars
<1>7. GivenUpInv'
  BY <1>2 DEF IInv, GivenUpInv, Write, procVars
<1>8. QED
  BY <1>3, <1>4, <1>5, <1>6, <1>7 DEF IInv

LEMMA DrainedStep ==
  ASSUME IInv, NEW t \in Tasks, Drained(t)
  PROVE  IInv'
<1>1. /\ HasLock(t) /\ pc' = [pc EXCEPT ![t] = "read"] /\ pc[t] = "drain"
      /\ pc \in [Tasks -> Places]
  BY DEF IInv, TypeOK, LockInv, Drained
<1>2. TypeOK'
  BY DEF IInv, TypeOK, Drained, procVars, pipeVars
<1>3. LockInv'
  BY <1>1, KeepQueue DEF IInv, TypeOK, QueueOK, Drained
<1>4. \A u \in Tasks : /\ Waiting(u)' <=> Waiting(u)
                      /\ pc'[u] # pc[u] => pc'[u] = "read" /\ pc[u] = "drain"
  BY <1>1
<1>5. PipeInv'
  BY <1>4 DEF IInv, PipeInv, Drained, pipeVars
<1>6. RestartInv' /\ GivenUpInv'
  BY <1>4 DEF IInv, RestartInv, RestartsLimited, GivenUpInv, Drained, procVars
<1>7. QED
  BY <1>2, <1>3, <1>5, <1>6 DEF IInv

LEMMA KilledStep ==
  ASSUME IInv, NEW t \in Tasks, Killed(t)
  PROVE  IInv'
<1>1. TypeOK'
  <2>1. restarts' \in 0..MaxRestarts
    BY MaxRestartsAssumption DEF IInv, TypeOK, RestartInv, Killed
  <2>2. pc' \in [Tasks -> Places]
    BY DEF IInv, TypeOK, Killed
  <2>3. QED
    BY <2>1, <2>2 DEF IInv, TypeOK, Killed, pipeVars
<1>2. LockInv'
  BY KeepQueue DEF IInv, TypeOK, LockInv, QueueOK, Killed
<1>3. PipeInv'
  BY DEF IInv, TypeOK, PipeInv, Killed, taskVars, pipeVars, procVars
<1>4. RestartInv'
  <2>1. HasLock(t) /\ \A u \in Tasks : pc'[u] \in {"kill", "spawn"} => u = t
    BY OneHolder DEF IInv, TypeOK, LockInv, Killed
  <2>2. pc'[t] = "spawn" /\ restarts' = restarts + 1 /\ restarts < MaxRestarts
    BY DEF IInv, TypeOK, RestartInv, Killed
  <2>3. QED
    BY <2>1, <2>2, MaxRestartsAssumption
       DEF IInv, TypeOK, RestartInv, RestartsLimited, Killed
<1>5. GivenUpInv'
  BY DEF IInv, GivenUpInv, Killed, taskVars, pipeVars, procVars
<1>6. QED
  BY <1>1, <1>2, <1>3, <1>4, <1>5 DEF IInv

-----------------------------------------------------------------------------
(* Steps of the lock's holder that end its call or restart the process.     *)

LEMMA AfterReturn ==
  ASSUME IInv, NEW t \in Tasks, Holding(t), Return(t)
  PROVE  /\ QueueOK' /\ LockInv'
         /\ resume' = resume /\ target' = target
         /\ \A u \in Tasks : ~Holding(u)' /\ (pc[u] = "idle" => pc'[u] = "idle")
<1>1. HasLock(t) /\ QueueOK /\ LockInv
  BY DEF IInv, TypeOK, QueueOK, LockInv
<1>2. QueueOK' /\ LockInv'
  BY <1>1, LeaveQueue
<1>3. \A u \in Tasks : Holding(u) => u = t
  BY <1>1, OneHolder
<1>4. \A u \in Tasks : ~Holding(u)' /\ (pc[u] = "idle" => pc'[u] = "idle")
  BY <1>1, <1>3 DEF Return, QueueOK
<1>5. QED
  BY <1>2, <1>4 DEF Return

\* At that await the transport is given up, or it still had a restart.
GivenUpOrNot ==
  \/ /\ alive' = FALSE /\ restarts' >= MaxRestarts
     /\ \A u \in Tasks : pc'[u] \notin {"kill", "spawn"}
  \/ alive' = alive /\ restarts < MaxRestarts

\* What _restart_repl leaves behind at its first await: nobody reads, at most
\* one task is restarting, and the transport is given up or still has a restart.
RestartOutcome ==
  /\ resume' \in [Tasks -> {"send", "fail"}]
  /\ target' \in [Tasks \cup {"close"} -> Nat]
  /\ restarts' \in 0..MaxRestarts /\ spawned <= restarts' + 1
  /\ \A u \in Tasks : /\ ~Waiting(u)'
                      /\ pc'[u] = "kill" => restarts' < MaxRestarts
                      /\ pc'[u] = "spawn" => spawned <= restarts'
                      /\ pc'[u] \in {"kill", "spawn"} => handle' = 0
                      /\ pc[u] = "idle" => pc'[u] = "idle"
  /\ handle' \in {0, handle}
  /\ GivenUpOrNot

LEMMA AfterRestart ==
  ASSUME IInv, NEW t \in Tasks, HasLock(t), pc[t] \in {"lock", "drain", "read"},
         NEW why \in {"send", "fail"}, Restart(t, why)
  PROVE  QueueOK' /\ LockInv' /\ RestartOutcome
<1>1. QueueOK' /\ LockInv'
  BY RestartQueue DEF IInv, TypeOK, QueueOK
<1>2. \A u \in Tasks : u # t => ~Holding(u)
  BY OneHolder DEF IInv
<1>3. /\ restarts \in 0..MaxRestarts /\ spawned \in Nat /\ spawned <= restarts + 1
      /\ pc \in [Tasks -> Places]
      /\ handle \in Nat /\ resume \in [Tasks -> {"send", "fail"}]
      /\ target \in [Tasks \cup {"close"} -> Nat] /\ MaxRestarts \in Nat
  BY MaxRestartsAssumption DEF IInv, TypeOK, RestartInv, RestartsLimited
<1>4. CASE OutOfRestarts(t)
  <2>1. pc' = [pc EXCEPT ![t] = "idle"]
    BY <1>4 DEF OutOfRestarts, Return
  <2>2. \A u \in Tasks : pc'[u] = (IF u = t THEN "idle" ELSE pc[u])
    BY <2>1, <1>3
  <2>3. \A u \in Tasks : /\ pc'[u] # "kill" /\ pc'[u] # "spawn" /\ ~Waiting(u)'
                         /\ pc[u] = "idle" => pc'[u] = "idle"
    BY <2>2, <1>2
  <2>4. /\ restarts' = restarts /\ handle' = handle /\ restarts >= MaxRestarts
        /\ alive' = FALSE /\ resume' = resume /\ target' = target
    BY <1>4 DEF OutOfRestarts, Return
  <2>5. /\ resume' \in [Tasks -> {"send", "fail"}]
        /\ target' \in [Tasks \cup {"close"} -> Nat]
    BY <1>3, <2>4
  <2>6. /\ restarts' \in 0..MaxRestarts /\ spawned <= restarts' + 1
        /\ handle' \in {0, handle} /\ restarts' >= MaxRestarts
    BY <1>3, <2>4
  <2>7. GivenUpOrNot
    <3>1. \A u \in Tasks : pc'[u] \notin {"kill", "spawn"}
      BY <2>3
    <3>2. alive' = FALSE
      BY <2>4
    <3>3. restarts' >= MaxRestarts
      BY <2>6
    <3>4. QED
      BY <3>1, <3>2, <3>3, Zenon DEF GivenUpOrNot
  <2>8. QED
    BY <1>1, <2>3, <2>5, <2>6, <2>7 DEF RestartOutcome
<1>5. CASE /\ restarts < MaxRestarts /\ BeginKill(t)
           /\ resume' = [resume EXCEPT ![t] = why] /\ alive' = alive
  <2>1. /\ handle' = 0 /\ target' = [target EXCEPT ![t] = handle]
        /\ \/ pc' = [pc EXCEPT ![t] = "spawn"] /\ restarts' = restarts + 1
           \/ pc' = [pc EXCEPT ![t] = "kill"] /\ restarts' = restarts
    BY <1>5 DEF BeginKill
  <2>2. \A u \in Tasks \ {t} : pc'[u] = pc[u] /\ ~Holding(u)'
    BY <2>1, <1>2, <1>3
  <2>3. \/ pc'[t] = "spawn" /\ restarts' = restarts + 1
        \/ pc'[t] = "kill" /\ restarts' = restarts
    BY <2>1, <1>3
  <2>4. /\ resume' \in [Tasks -> {"send", "fail"}]
        /\ target' \in [Tasks \cup {"close"} -> Nat]
    BY <1>3, <1>5, <2>1
  <2>5. /\ restarts' \in 0..MaxRestarts /\ spawned <= restarts' + 1
        /\ pc'[t] = "kill" => restarts' < MaxRestarts
        /\ pc'[t] = "spawn" => spawned <= restarts'
    BY <1>3, <1>5, <2>3
  <2>6. GivenUpOrNot
    BY <1>5, Zenon DEF GivenUpOrNot
  <2>7. QED
    BY <1>1, <2>1, <2>2, <2>3, <2>4, <2>5, <2>6 DEF RestartOutcome
<1>6. QED
  BY <1>4, <1>5 DEF Restart

LEMMA SpawnFailsStep ==
  ASSUME IInv, NEW t \in Tasks, SpawnFails(t)
  PROVE  IInv'
<1>0. /\ QueueOK' /\ LockInv' /\ resume' = resume /\ target' = target
      /\ \A u \in Tasks : ~Holding(u)' /\ (pc[u] = "idle" => pc'[u] = "idle")
  BY AfterReturn DEF SpawnFails
<1>1. TypeOK'
  BY <1>0 DEF IInv, TypeOK, QueueOK, SpawnFails, pipeVars, procVars
<1>2. LockInv'
  BY <1>0
<1>3. PipeInv'
  <2>1. \A u \in Tasks : ~Waiting(u) /\ ~Waiting(u)'
    BY <1>0, OneHolder DEF IInv, LockInv, SpawnFails
  <2>2. QED
    BY <2>1 DEF IInv, PipeInv, SpawnFails, pipeVars
<1>4. RestartInv'
  BY <1>0 DEF IInv, RestartInv, RestartsLimited, SpawnFails, procVars
<1>5. GivenUpInv'
  BY <1>0 DEF IInv, GivenUpInv, SpawnFails, procVars
<1>6. QED
  BY <1>1, <1>2, <1>3, <1>4, <1>5 DEF IInv

LEMMA ReadAnswerStep ==
  ASSUME IInv, NEW t \in Tasks, ReadAnswer(t)
  PROVE  IInv'
<1>0. /\ QueueOK' /\ LockInv' /\ resume' = resume /\ target' = target
      /\ \A u \in Tasks : ~Holding(u)' /\ (pc[u] = "idle" => pc'[u] = "idle")
  BY AfterReturn DEF ReadAnswer
<1>1. TypeOK'
  BY <1>0 DEF IInv, TypeOK, QueueOK, ReadAnswer, pipeVars, procVars
<1>2. LockInv'
  BY <1>0
<1>3. PipeInv'
  BY <1>0 DEF IInv, TypeOK, PipeInv, ReadAnswer, pipeVars
<1>4. RestartInv'
  BY <1>0 DEF IInv, RestartInv, RestartsLimited, ReadAnswer, procVars
<1>5. GivenUpInv'
  BY <1>0 DEF IInv, GivenUpInv, ReadAnswer, procVars
<1>6. QED
  BY <1>1, <1>2, <1>3, <1>4, <1>5 DEF IInv

LEMMA OverlongAnswerStep ==
  ASSUME IInv, NEW t \in Tasks, OverlongAnswer(t)
  PROVE  IInv'
<1>0. /\ QueueOK' /\ LockInv' /\ resume' = resume /\ target' = target
      /\ \A u \in Tasks : ~Holding(u)' /\ (pc[u] = "idle" => pc'[u] = "idle")
  BY AfterReturn DEF OverlongAnswer
<1>1. TypeOK'
  BY <1>0 DEF IInv, TypeOK, QueueOK, OverlongAnswer, pipeVars, procVars
<1>2. LockInv'
  BY <1>0
<1>3. PipeInv'
  BY <1>0 DEF IInv, TypeOK, PipeInv, OverlongAnswer, pipeVars
<1>4. RestartInv'
  BY <1>0 DEF IInv, RestartInv, RestartsLimited, OverlongAnswer, procVars
<1>5. GivenUpInv'
  BY <1>0 DEF IInv, GivenUpInv, OverlongAnswer, procVars
<1>6. QED
  BY <1>1, <1>2, <1>3, <1>4, <1>5 DEF IInv

LEMMA StreamGoneStep ==
  ASSUME IInv, NEW t \in Tasks, StreamGone(t)
  PROVE  IInv'
<1>0. /\ QueueOK' /\ LockInv' /\ resume' = resume /\ target' = target
      /\ \A u \in Tasks : ~Holding(u)' /\ (pc[u] = "idle" => pc'[u] = "idle")
  BY AfterReturn DEF StreamGone
<1>1. TypeOK'
  BY <1>0 DEF IInv, TypeOK, QueueOK, StreamGone, pipeVars, procVars
<1>2. LockInv'
  BY <1>0
<1>3. PipeInv'
  BY <1>0 DEF IInv, TypeOK, PipeInv, StreamGone, pipeVars
<1>4. RestartInv'
  BY <1>0 DEF IInv, RestartInv, RestartsLimited, StreamGone, procVars
<1>5. GivenUpInv'
  BY <1>0 DEF IInv, GivenUpInv, StreamGone, procVars
<1>6. QED
  BY <1>1, <1>2, <1>3, <1>4, <1>5 DEF IInv

LEMMA RestartBeforeSendStep ==
  ASSUME IInv, NEW t \in Tasks, RestartBeforeSend(t)
  PROVE  IInv'
<1>0. QueueOK' /\ LockInv' /\ RestartOutcome
  BY AfterRestart DEF IInv, LockInv, RestartBeforeSend
<1>1. TypeOK'
  <2>1. handle' \in 0..spawned /\ failures' \in Nat
    BY <1>0 DEF IInv, TypeOK, RestartOutcome, RestartBeforeSend
  <2>2. alive' \in BOOLEAN
    BY <1>0, Zenon DEF IInv, TypeOK, RestartOutcome, GivenUpOrNot
  <2>3. QED
    BY <1>0, <2>1, <2>2 DEF IInv, TypeOK, QueueOK, RestartOutcome, RestartBeforeSend, pipeVars
<1>2. LockInv'
  BY <1>0
<1>3. PipeInv'
  <2>1. \A u \in Tasks : ~Waiting(u) /\ ~Waiting(u)'
    BY <1>0, OneHolder DEF IInv, RestartBeforeSend, RestartOutcome
  <2>2. QED
    BY <2>1 DEF IInv, PipeInv, RestartBeforeSend, pipeVars
<1>4. RestartInv'
  BY <1>0, MaxRestartsAssumption
     DEF IInv, RestartInv, RestartsLimited, RestartOutcome, RestartBeforeSend
<1>5. GivenUpInv'
  <2>1. CASE alive' = FALSE /\ restarts' >= MaxRestarts
             /\ \A u \in Tasks : pc'[u] \notin {"kill", "spawn"}
    BY <2>1 DEF GivenUpInv
  <2>2. CASE alive' = alive /\ restarts < MaxRestarts
    <3>1. ~(restarts >= MaxRestarts)
      BY <2>2, MaxRestartsAssumption DEF IInv, TypeOK
    <3>2. QED
      BY <2>2, <3>1, Zenon DEF IInv, GivenUpInv, RestartBeforeSend
  <2>3. QED
    BY <1>0, <2>1, <2>2, Zenon DEF RestartOutcome, GivenUpOrNot
<1>6. QED
  BY <1>1, <1>2, <1>3, <1>4, <1>5 DEF IInv

LEMMA ConnectionLostStep ==
  ASSUME IInv, NEW t \in Tasks, ConnectionLost(t)
  PROVE  IInv'
<1>0. QueueOK' /\ LockInv' /\ RestartOutcome
  BY AfterRestart DEF IInv, LockInv, ConnectionLost
<1>1. TypeOK'
  <2>1. handle' \in 0..spawned /\ failures' \in Nat
    BY <1>0 DEF IInv, TypeOK, RestartOutcome, ConnectionLost
  <2>2. alive' \in BOOLEAN
    BY <1>0, Zenon DEF IInv, TypeOK, RestartOutcome, GivenUpOrNot
  <2>3. QED
    BY <1>0, <2>1, <2>2 DEF IInv, TypeOK, QueueOK, RestartOutcome, ConnectionLost, pipeVars
<1>2. LockInv'
  BY <1>0
<1>3. PipeInv'
  <2>1. (\A u \in Tasks : ~Waiting(u)') /\ clean' = FALSE
    BY <1>0 DEF ConnectionLost, RestartOutcome
  <2>2. QED
    BY <2>1 DEF IInv, PipeInv, ConnectionLost
<1>4. RestartInv'
  BY <1>0, MaxRestartsAssumption
     DEF IInv, RestartInv, RestartsLimited, RestartOutcome, ConnectionLost
<1>5. GivenUpInv'
  <2>1. CASE alive' = FALSE /\ restarts' >= MaxRestarts
             /\ \A u \in Tasks : pc'[u] \notin {"kill", "spawn"}
    BY <2>1 DEF GivenUpInv
  <2>2. CASE alive' = alive /\ restarts < MaxRestarts
    <3>1. ~(restarts >= MaxRestarts)
      BY <2>2, MaxRestartsAssumption DEF IInv, TypeOK
    <3>2. QED
      BY <2>2, <3>1, Zenon DEF IInv, GivenUpInv, ConnectionLost
  <2>3. QED
    BY <1>0, <2>1, <2>2, Zenon DEF RestartOutcome, GivenUpOrNot
<1>6. QED
  BY <1>1, <1>2, <1>3, <1>4, <1>5 DEF IInv

LEMMA TimeoutStep ==
  ASSUME IInv, NEW t \in Tasks, Timeout(t)
  PROVE  IInv'
<1>1. CASE Restart(t, "fail")
  <2>0. QueueOK' /\ LockInv' /\ RestartOutcome
    BY <1>1, AfterRestart DEF IInv, LockInv, Timeout
  <2>1. TypeOK'
    <3>1. handle' \in 0..spawned /\ failures' \in Nat
      BY <2>0 DEF IInv, TypeOK, RestartOutcome, Timeout
    <3>2. alive' \in BOOLEAN
      BY <2>0, Zenon DEF IInv, TypeOK, RestartOutcome, GivenUpOrNot
    <3>3. QED
      BY <2>0, <3>1, <3>2 DEF IInv, TypeOK, QueueOK, RestartOutcome, Timeout
  <2>2. PipeInv'
    <3>1. (\A u \in Tasks : ~Waiting(u)') /\ clean' = FALSE
      BY <2>0 DEF Timeout, RestartOutcome
    <3>2. QED
      BY <3>1 DEF IInv, PipeInv, Timeout
  <2>3. RestartInv'
    BY <2>0, MaxRestartsAssumption
       DEF IInv, RestartInv, RestartsLimited, RestartOutcome, Timeout
  <2>4. GivenUpInv'
    <3>1. CASE alive' = FALSE /\ restarts' >= MaxRestarts
               /\ \A u \in Tasks : pc'[u] \notin {"kill", "spawn"}
      BY <3>1 DEF GivenUpInv
    <3>2. CASE alive' = alive /\ restarts < MaxRestarts
      <4>1. ~(restarts >= MaxRestarts)
        BY <3>2, MaxRestartsAssumption DEF IInv, TypeOK
      <4>2. QED
        BY <3>2, <4>1, Zenon DEF IInv, GivenUpInv, Timeout
    <3>3. QED
      BY <2>0, <3>1, <3>2, Zenon DEF RestartOutcome, GivenUpOrNot
  <2>5. QED
    BY <2>0, <2>1, <2>2, <2>3, <2>4 DEF IInv
<1>2. CASE Return(t) /\ UNCHANGED <<alive, handle, restarts>>
  <2>0. /\ QueueOK' /\ LockInv' /\ resume' = resume /\ target' = target
        /\ \A u \in Tasks : ~Holding(u)' /\ (pc[u] = "idle" => pc'[u] = "idle")
    BY <1>2, AfterReturn DEF Timeout
  <2>1. TypeOK'
    <3>1. failures' \in Nat /\ clean' = FALSE
      BY DEF IInv, TypeOK, Timeout
    <3>2. QED
      BY <1>2, <2>0, <3>1 DEF IInv, TypeOK, QueueOK, Timeout
  <2>2. PipeInv'
    BY <1>2, <2>0 DEF IInv, PipeInv, Timeout
  <2>3. RestartInv'
    BY <1>2, <2>0 DEF IInv, RestartInv, RestartsLimited, Timeout
  <2>4. GivenUpInv'
    BY <1>2, <2>0 DEF IInv, GivenUpInv, Timeout
  <2>5. QED
    BY <2>0, <2>1, <2>2, <2>3, <2>4 DEF IInv
<1>3. QED
  BY <1>1, <1>2 DEF Timeout

LEMMA SpawnedStep ==
  ASSUME IInv, NEW t \in Tasks, Spawned(t)
  PROVE  IInv'
<1>1. /\ HasLock(t) /\ spawned <= restarts /\ spawned \in Nat /\ written \in Nat
      /\ \A u \in Tasks : Holding(u) => u = t
  BY OneHolder DEF IInv, TypeOK, LockInv, RestartInv, Spawned
<1>2. /\ QueueOK' /\ LockInv' /\ resume' = resume /\ target' = target
      /\ req' \in [Tasks -> Nat] /\ written' \in {written, written + 1}
      /\ clogged' \subseteq Nat
      /\ \A u \in Tasks : /\ pc'[u] \notin {"kill", "spawn"}
                          /\ pc[u] = "idle" => pc'[u] = "idle"
                          /\ Waiting(u)' => u = t /\ req'[u] = written' /\ written' = written + 1
      /\ written' = written \/ Waiting(t)'
  <2>1. CASE resume[t] = "send"
    <3>1. PICK q \in {"drain", "read"} : pc' = [pc EXCEPT ![t] = q]
      BY <2>1 DEF Spawned, WriteTo
    <3>2. /\ queue' = queue /\ resume' = resume /\ target' = target
          /\ written' = written + 1 /\ req' = [req EXCEPT ![t] = written + 1]
      BY <2>1 DEF Spawned, WriteTo
    <3>3. QueueOK' /\ LockInv'
      BY <1>1, <3>1, <3>2, KeepQueue DEF IInv, TypeOK, QueueOK, Spawned
    <3>4. \A u \in Tasks : pc'[u] = IF u = t THEN q ELSE pc[u]
      BY <3>1 DEF IInv, TypeOK
    <3>5. req' \in [Tasks -> Nat] /\ req'[t] = written + 1
      BY <1>1, <3>2 DEF IInv, TypeOK
    <3>6. clogged' \subseteq clogged \cup {spawned + 1}
      BY <2>1 DEF Spawned, WriteTo
    <3>7. clogged' \subseteq Nat
      BY <1>1, <3>6 DEF IInv, TypeOK
    <3>8. QED
      BY <1>1, <3>2, <3>3, <3>4, <3>5, <3>7 DEF Spawned
  <2>2. CASE Return(t) /\ UNCHANGED <<written, req, clogged>>
    <3>1. /\ QueueOK' /\ LockInv' /\ resume' = resume /\ target' = target
          /\ \A u \in Tasks : ~Holding(u)' /\ (pc[u] = "idle" => pc'[u] = "idle")
      BY <2>2, AfterReturn DEF Spawned
    <3>2. QED
      BY <2>2, <3>1 DEF IInv, TypeOK
  <2>3. QED
    BY <2>1, <2>2 DEF Spawned
<1>3. answered' = written /\ readUpTo' = written /\ mode' = mode
  BY DEF Spawned, NewPipe
<1>4. TypeOK'
  <2>1. spawned' \in Nat /\ handle' \in 0..spawned' /\ running' \subseteq 1..spawned'
    BY <1>1 DEF IInv, TypeOK, Spawned
  <2>2. written' \in Nat /\ answered' \in Nat /\ readUpTo' \in Nat
    BY <1>1, <1>2, <1>3
  <2>3. QED
    BY <1>2, <2>1, <2>2 DEF IInv, TypeOK, QueueOK, Spawned
<1>5. PipeInv'
  BY <1>1, <1>2, <1>3 DEF PipeInv
<1>6. RestartInv'
  <2>1. /\ spawned' = spawned + 1 /\ restarts' = restarts /\ restarts <= MaxRestarts
    BY DEF IInv, RestartInv, RestartsLimited, Spawned
  <2>2. mode # "new"
    BY DEF IInv, RestartInv, Spawned
  <2>3. restarts \in Nat /\ spawned' <= restarts' + 1
    BY <1>1, <2>1 DEF IInv, TypeOK
  <2>4. QED
    BY <1>2, <1>3, <2>1, <2>2, <2>3 DEF RestartInv, RestartsLimited
<1>7. GivenUpInv'
  BY DEF GivenUpInv, Spawned
<1>8. QED
  BY <1>2, <1>4, <1>5, <1>6, <1>7 DEF IInv

LEMMA CancelStep ==
  ASSUME IInv, NEW t \in Tasks, Cancel(t)
  PROVE  IInv'
<1>1. QueueOK' /\ LockInv'
  BY CancelQueue DEF IInv, TypeOK, QueueOK, Cancel
<1>2. \A u \in Tasks : pc'[u] = IF u = t THEN "idle" ELSE pc[u]
  BY DEF IInv, TypeOK, Cancel
<1>3. TypeOK'
  <2>1. running' \subseteq 1..spawned /\ leaked' \subseteq Nat
    <3>1. CASE pc[t] = "kill" /\ leaked' = leaked \cup {target[t]} /\ running' = running
      BY <3>1 DEF IInv, TypeOK
    <3>2. QED
      BY <3>1 DEF IInv, TypeOK, Cancel
  <2>2. QED
    BY <1>1, <2>1 DEF IInv, TypeOK, QueueOK, Cancel
<1>4. PipeInv'
  <2>1. CASE Waiting(t)
    BY <1>2, <2>1 DEF IInv, PipeInv, Cancel
  <2>2. CASE ~Waiting(t)
    <3>1. (\A u \in Tasks : Waiting(u)' <=> Waiting(u)) /\ clean' = clean
      BY <1>2, <2>2 DEF IInv, TypeOK, Cancel
    <3>2. QED
      BY <3>1 DEF IInv, PipeInv, Cancel
  <2>3. QED
    BY <2>1, <2>2
<1>5. RestartInv'
  BY <1>2 DEF IInv, RestartInv, RestartsLimited, Cancel
<1>6. GivenUpInv'
  BY <1>2 DEF IInv, GivenUpInv, Cancel
<1>7. QED
  BY <1>1, <1>3, <1>4, <1>5, <1>6 DEF IInv

LEMMA StutterStep == IInv /\ UNCHANGED vars => IInv'
<1> SUFFICES ASSUME IInv, UNCHANGED vars PROVE IInv'
  OBVIOUS
<1> USE DEF vars, procVars, taskVars, pipeVars
<1>1. TypeOK' /\ RestartInv' /\ GivenUpInv'
  BY DEF IInv, TypeOK, RestartInv, RestartsLimited, GivenUpInv
<1>2. LockInv'
  BY SameQueue DEF IInv
<1>3. PipeInv'
  BY DEF IInv, PipeInv
<1>4. QED
  BY <1>1, <1>2, <1>3 DEF IInv

LEMMA NextStep == IInv /\ [Next]_vars => IInv'
<1> SUFFICES ASSUME IInv, [Next]_vars PROVE IInv'
  OBVIOUS
<1>1. CASE Start \/ Close \/ Consume \/ Answer \/ Die
  BY <1>1, StartStep, CloseBeginStep, CloseKillStep, CloseEndStep, AnswerStep,
     ConsumeStep, DieStep DEF Close
<1>2. ASSUME NEW t \in Tasks, Begin(t) \/ Step(t) \/ Cancel(t) \/ SingleShot(t)
      PROVE  IInv'
  <2>1. CASE Step(t)
    BY <2>1, RestartBeforeSendStep, WriteStep, DrainedStep, KilledStep, SpawnedStep,
       SpawnFailsStep, ReadAnswerStep, OverlongAnswerStep, StreamGoneStep,
       TimeoutStep, ConnectionLostStep DEF Step
  <2>2. QED
    BY <1>2, <2>1, BeginStep, CancelStep, SingleShotStep
<1>3. CASE UNCHANGED vars
  BY <1>3, StutterStep
<1>4. QED
  BY <1>1, <1>2, <1>3 DEF Next

\* IInv holds in every reachable state.
THEOREM Invariance == Spec => []IInv
<1>1. Init => IInv
  BY InitIInv
<1>2. IInv /\ [Next]_vars => IInv'
  BY NextStep
<1>3. QED
  BY <1>1, <1>2, PTL DEF Spec

-----------------------------------------------------------------------------
(* The properties.                                                          *)

\* Every variable keeps its type; in particular the pipe's counters, the restart
\* count and the lock's queue of engine/transport.py stay well formed.
THEOREM TypeCorrect == Spec => []TypeOK
<1>1. IInv => TypeOK
  BY DEF IInv
<1>2. QED
  BY <1>1, Invariance, PTL

\* _send_lock serialises send(), whatever is cancelled, restarted or closed.
THEOREM LockSerialises == Spec => []LockInv
<1>1. IInv => LockInv
  BY DEF IInv
<1>2. QED
  BY <1>1, Invariance, PTL

\* The stdin/stdout pipe is in step with the callers until a request is given up.
THEOREM PipeInStep == Spec => []PipeInv
<1>1. IInv => PipeInv
  BY DEF IInv
<1>2. QED
  BY <1>1, Invariance, PTL

\* _restart_repl starts at most max_restarts processes after the first.
THEOREM RestartsBounded == Spec => []RestartsLimited
<1>1. IInv => RestartsLimited
  BY DEF IInv, RestartInv
<1>2. QED
  BY <1>1, Invariance, PTL

\* A step keeps every process accounted for if a process it adds is the current
\* one, and whatever accounted for another process still does.
LEMMA StillAccounted ==
  ASSUME ProcessAccounted,
         running' \subseteq running \cup {handle'},
         handle' = handle \/ handle \notin running,
         target' = target, leaked \subseteq leaked',
         \/ closing # "killing" \/ closing' = "killing"
         \/ target["close"] \notin running',
         \A u \in Tasks : pc[u] = "kill"
           => pc'[u] = "kill" \/ target[u] \notin running' \/ target[u] \in leaked'
  PROVE  ProcessAccounted'
<1> SUFFICES ASSUME NEW p \in running'
             PROVE  \/ p = handle'
                    \/ \E t \in Tasks : pc'[t] = "kill" /\ target'[t] = p
                    \/ closing' = "killing" /\ target'["close"] = p
                    \/ p \in leaked'
  BY DEF ProcessAccounted
<1>1. CASE p = handle'
  BY <1>1
<1>2. CASE p \in running /\ p # handle'
  BY <1>2 DEF ProcessAccounted
<1>3. QED
  BY <1>1, <1>2

\* The detached process of a restart is the one its task kills.
LEMMA RestartAccounted ==
  ASSUME IInv, ProcessAccounted, NEW t \in Tasks, pc[t] \in {"lock", "drain", "read"},
         NEW why, Restart(t, why), UNCHANGED <<closing, running, leaked>>
  PROVE  ProcessAccounted'
<1>1. pc \in [Tasks -> Places]
      /\ target \in [Tasks \cup {"close"} -> Nat] /\ running \subseteq 1..spawned
      /\ spawned \in Nat
  BY DEF IInv, TypeOK
<1>2. CASE OutOfRestarts(t)
  <2>1. handle' = handle /\ target' = target
        /\ \A u \in Tasks : pc[u] = "kill" => pc'[u] = "kill"
    BY <1>1, <1>2 DEF OutOfRestarts, Return
  <2>2. QED
    BY <2>1, StillAccounted
<1>3. CASE BeginKill(t)
  <2>1. /\ target'["close"] = target["close"] /\ target'[t] = handle
        /\ \A u \in Tasks \ {t} : pc'[u] = pc[u] /\ target'[u] = target[u]
        /\ handle # 0 => pc'[t] = "kill"
    BY <1>1, <1>3, CallersAssumption DEF BeginKill, Tasks
  <2>2. 0 \notin running
    BY <1>1
  <2>3. QED
    BY <2>1, <2>2 DEF ProcessAccounted
<1>4. QED
  BY <1>2, <1>3 DEF Restart

LEMMA AccountedStep == IInv /\ ProcessAccounted /\ [Next]_vars => ProcessAccounted'
<1> SUFFICES ASSUME IInv, ProcessAccounted, [Next]_vars
             PROVE  ProcessAccounted'
  OBVIOUS
<1>1. pc \in [Tasks -> Places]
      /\ target \in [Tasks \cup {"close"} -> Nat] /\ running \subseteq 1..spawned
      /\ spawned \in Nat /\ 0 \notin running
  BY DEF IInv, TypeOK
<1>2. CASE Start
  <2>1. spawned = 0
    BY <1>2 DEF IInv, RestartInv, Start
  <2>2. \A p \in running : FALSE
    BY <1>1, <2>1
  <2>3. running' \subseteq running \cup {handle'}
    BY <1>2, <2>2 DEF Start
  <2>4. /\ closing' = closing /\ leaked' = leaked /\ pc' = pc /\ target' = target
    BY <1>2 DEF Start, taskVars
  <2>5. handle' = handle \/ handle \notin running
    BY <2>2
  <2>6. QED
    BY <2>3, <2>4, <2>5, StillAccounted
<1>3. CASE CloseBegin \/ CloseEnd
  BY <1>3, StillAccounted DEF CloseBegin, CloseEnd, taskVars, procVars
<1>4. CASE CloseKill
  <2>1. /\ target'["close"] = handle /\ closing' = "killing" /\ handle' = 0
        /\ closing = "cancelling" /\ leaked' = leaked
        /\ running' = running /\ pc' = pc
        /\ \A u \in Tasks : target'[u] = target[u]
    BY <1>1, <1>4, CallersAssumption DEF CloseKill, Tasks
  <2>2. QED
    BY <2>1 DEF ProcessAccounted
<1>5. CASE Consume \/ Answer \/ Die \/ UNCHANGED vars
  BY <1>5, StillAccounted DEF Consume, Answer, Die, vars, procVars, taskVars
<1>6. ASSUME NEW t \in Tasks, Begin(t) \/ SingleShot(t) \/ Write(t) \/ Drained(t)
      PROVE  ProcessAccounted'
  <2>1. \A u \in Tasks : pc[u] = "kill" => pc'[u] = "kill"
    BY <1>1, <1>6 DEF Begin, SingleShot, Write, WriteTo, Drained
  <2>2. QED
    BY <1>6, <2>1, StillAccounted DEF Begin, SingleShot, Write, WriteTo, Drained, procVars, taskVars
<1>7. ASSUME NEW t \in Tasks, RestartBeforeSend(t) \/ ConnectionLost(t)
      PROVE  ProcessAccounted'
  BY <1>7, RestartAccounted DEF RestartBeforeSend, ConnectionLost
<1>8. ASSUME NEW t \in Tasks, Killed(t) \/ Cancel(t)
      PROVE  ProcessAccounted'
  <2>1. \A u \in Tasks : pc[u] = "kill"
           => pc'[u] = "kill" \/ target[u] \notin running' \/ target[u] \in leaked'
    BY <1>1, <1>8 DEF Killed, Cancel
  <2>2. running' \subseteq running /\ leaked \subseteq leaked'
    BY <1>8 DEF Killed, Cancel
  <2>3. QED
    BY <1>8, <2>1, <2>2, StillAccounted DEF Killed, Cancel
<1>9. ASSUME NEW t \in Tasks, Spawned(t)
      PROVE  ProcessAccounted'
  <2>1. /\ running' = running \cup {handle'} /\ handle = 0 /\ target' = target
        /\ leaked' = leaked /\ closing' = closing
    BY <1>9 DEF IInv, Spawned, WriteTo, Return, RestartInv
  <2>2. \A u \in Tasks : pc[u] = "kill" => pc'[u] = "kill"
    BY <1>1, <1>9 DEF Spawned, WriteTo, Return
  <2>3. QED
    BY <1>1, <2>1, <2>2, StillAccounted
<1>10. ASSUME NEW t \in Tasks, pc[t] # "kill", Return(t),
              UNCHANGED <<closing, handle, running, leaked>>
       PROVE  ProcessAccounted'
  <2>1. \A u \in Tasks : pc[u] = "kill" => pc'[u] = "kill"
    BY <1>1, <1>10 DEF Return
  <2>2. QED
    BY <1>10, <2>1, StillAccounted DEF Return
<1>11. ASSUME NEW t \in Tasks,
              SpawnFails(t) \/ ReadAnswer(t) \/ OverlongAnswer(t) \/ StreamGone(t)
       PROVE  ProcessAccounted'
  BY <1>10, <1>11 DEF SpawnFails, ReadAnswer, OverlongAnswer, StreamGone, procVars
<1>12. ASSUME NEW t \in Tasks, Timeout(t)
       PROVE  ProcessAccounted'
  BY <1>10, <1>12, RestartAccounted DEF Timeout
<1>13. QED
  BY <1>2, <1>3, <1>4, <1>5, <1>6, <1>7, <1>8, <1>9, <1>11, <1>12 DEF Next, Step, Close

\* A running REPL process is the current one, is being killed, or had its kill
\* cancelled: nothing else escapes _kill_process.
THEOREM NoProcessLost == Spec => []ProcessAccounted
<1>1. Init => ProcessAccounted
  BY DEF Init, ProcessAccounted
<1>2. IInv /\ ProcessAccounted /\ [Next]_vars => ProcessAccounted'
  BY AccountedStep
<1>3. QED
  BY <1>1, <1>2, Invariance, PTL DEF Spec

\* Everything the runs check of a single state of the transport, for any callers and
\* any bounds.
THEOREM TransportHolds == Spec => []TransportInv
<1>1. TypeOK /\ LockInv /\ PipeInv /\ ProcessAccounted /\ RestartsLimited => TransportInv
  BY DEF TransportInv
<1>2. QED
  BY <1>1, TypeCorrect, LockSerialises, PipeInStep, NoProcessLost, RestartsBounded, PTL

\* An answer read while no request was given up is the reader's own: send() pairs
\* answers with commands although the wire carries no request number.
THEOREM OwnAnswer == Spec => OwnAnswerWhenClean
<1>1. ASSUME IInv, NEW t \in Tasks, pc[t] = "read", readUpTo' = readUpTo + 1, clean
      PROVE  readUpTo' = req[t]
  BY <1>1 DEF IInv, TypeOK, PipeInv
<1>2. IInv => [\A t \in Tasks :
                 (pc[t] = "read" /\ readUpTo' = readUpTo + 1 /\ clean)
                   => readUpTo' = req[t]]_vars
  BY <1>1
<1>3. QED
  BY <1>2, Invariance, PTL DEF OwnAnswerWhenClean

\* After _restart_repl ran out of restarts the transport is never alive again.
THEOREM GivenUpStaysGivenUp == Spec => GivenUpIsFinal
<1>1. ASSUME IInv, [Next]_vars, mode = "repl", ~alive, closing = "open"
      PROVE  ~alive'
  <2>1. \A t \in Tasks : ~Spawned(t)
    BY <1>1 DEF IInv, GivenUpInv, Spawned
  <2>2. alive' = alive \/ alive' = FALSE
    <3>1. ASSUME NEW t \in Tasks, NEW why, Restart(t, why)
          PROVE  alive' = alive \/ alive' = FALSE
      BY <3>1, Zenon DEF Restart, OutOfRestarts
    <3>2. ASSUME NEW t \in Tasks, Step(t)
          PROVE  alive' = alive \/ alive' = FALSE
      BY <2>1, <3>1, <3>2, Zenon
         DEF Step, RestartBeforeSend, Write, Drained, Killed, SpawnFails, ReadAnswer,
             OverlongAnswer, StreamGone, Timeout, ConnectionLost
    <3>3. ASSUME NEW t \in Tasks, Begin(t) \/ Cancel(t) \/ SingleShot(t)
          PROVE  alive' = alive \/ alive' = FALSE
      BY <3>3, Zenon DEF Begin, Cancel, SingleShot
    <3>4. CASE Close \/ Consume \/ Answer \/ Die \/ UNCHANGED vars
      BY <3>4, Zenon DEF Close, CloseBegin, CloseKill, CloseEnd, Consume, Answer, Die, vars
    <3>5. ~Start
      BY <1>1 DEF Start
    <3>6. QED
      BY <1>1, <3>2, <3>3, <3>4, <3>5, Zenon DEF Next
  <2>3. QED
    BY <1>1, <2>2, Zenon
<1>2. IInv /\ [Next]_vars
        => [(mode = "repl" /\ ~alive /\ closing = "open") => ~alive']_vars
  BY <1>1, Zenon
<1>3. QED
  BY <1>2, Invariance, PTL DEF Spec, GivenUpIsFinal

-----------------------------------------------------------------------------
(* The transport implements AnswerService.                                  *)

WaitsFor == [t \in Tasks |-> IF Waiting(t) THEN req[t] ELSE 0]

\* A task that starts to read waits for its request, which nobody else does.
LEMMA StartWait ==
  ASSUME IInv, NEW t \in Tasks, HasLock(t), ~Waiting(t),
         NEW p \in {"drain", "read"}, pc' = [pc EXCEPT ![t] = p],
         req' = [req EXCEPT ![t] = written + 1]
  PROVE  /\ \A d \in Tasks : WaitsFor[d] = 0
         /\ WaitsFor' = [WaitsFor EXCEPT ![t] = written + 1]
<1>1. pc \in [Tasks -> Places]
      /\ req \in [Tasks -> Nat]
  BY DEF IInv, TypeOK
<1>2. \A u \in Tasks : ~Waiting(u)
  BY OneHolder DEF IInv
<1>3. QED
  BY <1>1, <1>2 DEF WaitsFor

\* A reader that stops waits no more; until then it waits for the last request.
LEMMA StopWait ==
  ASSUME IInv, NEW t \in Tasks, Waiting(t), req' = req,
         \A u \in Tasks : ~Waiting(u)'
  PROVE  /\ WaitsFor[t] = written /\ written \in Nat /\ written # 0
         /\ WaitsFor' = [WaitsFor EXCEPT ![t] = 0]
<1>1. HasLock(t) /\ \A u \in Tasks : Waiting(u) => u = t
  BY OneHolder DEF IInv, LockInv
<1>2. req[t] = written /\ readUpTo < written /\ written \in Nat /\ readUpTo \in Nat
  BY DEF IInv, TypeOK, PipeInv
<1>3. WaitsFor[t] = written /\ written # 0
  BY <1>2 DEF WaitsFor
<1>4. \A u \in Tasks \ {t} : WaitsFor[u] = 0
  BY <1>1 DEF WaitsFor
<1>5. WaitsFor' = [u \in Tasks |-> 0]
  BY DEF WaitsFor
<1>6. [WaitsFor EXCEPT ![t] = 0] = [u \in Tasks |-> 0]
  BY <1>4 DEF WaitsFor
<1>7. QED
  BY <1>2, <1>3, <1>5, <1>6

\* An answer delivered: ReadAnswer, and OverlongAnswer which drops it.
LEMMA DeliverStep ==
  ASSUME IInv, NEW t \in Tasks, pc[t] = "read", Return(t), readUpTo < answered,
         readUpTo' = readUpTo + 1, UNCHANGED <<req, written, clean>>
  PROVE  Service!Deliver(t)
<1>1. \A u \in Tasks : ~Waiting(u)'
  BY AfterReturn
<1>2. /\ WaitsFor[t] = written /\ written # 0
      /\ WaitsFor' = [WaitsFor EXCEPT ![t] = 0]
  BY <1>1, StopWait
<1>3. /\ readUpTo + 1 \in (readUpTo + 1)..written
      /\ clean => readUpTo + 1 = written
  BY DEF IInv, TypeOK, PipeInv
<1>4. QED
  BY <1>2, <1>3 DEF WaitsFor, Service!Deliver

LEMMA FailStep ==
  ASSUME IInv, NEW t \in Tasks, Waiting(t), \A u \in Tasks : ~Waiting(u)',
         clean' = FALSE, UNCHANGED <<req, written, readUpTo>>
  PROVE  Service!Fail(t)
<1>1. /\ WaitsFor[t] # 0 /\ WaitsFor' = [WaitsFor EXCEPT ![t] = 0]
  BY StopWait
<1>2. QED
  BY <1>1 DEF WaitsFor, Service!Fail

LEMMA ResetStep ==
  ASSUME IInv, NEW t \in Tasks, Spawned(t)
  PROVE  Service!Reset
<1>1. HasLock(t) /\ pc[t] = "spawn" /\ readUpTo' = written /\ clean' = TRUE
  BY DEF IInv, LockInv, Spawned, NewPipe
<1>2. CASE resume[t] = "send"
  <2>1. /\ \E p \in {"drain", "read"} : pc' = [pc EXCEPT ![t] = p]
        /\ written' = written + 1 /\ req' = [req EXCEPT ![t] = written + 1]
    BY <1>2 DEF Spawned, WriteTo
  <2>2. /\ \A d \in Tasks : WaitsFor[d] = 0
        /\ WaitsFor' = [WaitsFor EXCEPT ![t] = written + 1]
    BY <1>1, <2>1, StartWait
  <2>3. QED
    BY <1>1, <2>1, <2>2 DEF WaitsFor, Service!Reset
<1>3. CASE Return(t) /\ UNCHANGED <<written, req>>
  <2>1. \A u \in Tasks : ~Waiting(u) /\ ~Waiting(u)'
    BY <1>1, <1>3, AfterReturn, OneHolder DEF IInv
  <2>2. WaitsFor' = WaitsFor /\ \A d \in Tasks : WaitsFor[d] = 0
    BY <2>1 DEF WaitsFor
  <2>3. QED
    BY <1>1, <1>3, <2>2 DEF WaitsFor, Service!Reset
<1>4. QED
  BY <1>2, <1>3 DEF Spawned

LEMMA RefinementInit == Init => Service!ServiceInit
BY DEF Init, Service!ServiceInit

LEMMA RefinementStep ==
  ASSUME IInv, [Next]_vars
  PROVE  Service!ServiceNext \/ UNCHANGED Service!serviceVars
<1>1. pc \in [Tasks -> Places]
  BY DEF IInv, TypeOK
<1>2. ASSUME UNCHANGED <<req, written, readUpTo, clean>>,
             \A u \in Tasks : Waiting(u) <=> Waiting(u)'
      PROVE  UNCHANGED Service!serviceVars
  <2>1. WaitsFor' = WaitsFor
    BY <1>2 DEF WaitsFor
  <2>2. QED
    BY <1>2, <2>1 DEF WaitsFor, Service!serviceVars
<1>3. CASE Start \/ Close \/ Consume \/ Answer \/ Die \/ UNCHANGED vars
  BY <1>2, <1>3 DEF Start, Close, CloseBegin, CloseKill, CloseEnd, Consume, Answer, Die, vars,
                    taskVars, pipeVars
<1>4. ASSUME NEW t \in Tasks, Begin(t) \/ SingleShot(t) \/ Drained(t) \/ Killed(t)
      PROVE  UNCHANGED Service!serviceVars
  <2>1. /\ UNCHANGED <<req, written, readUpTo, clean>>
        /\ \A u \in Tasks : Waiting(u) <=> Waiting(u)'
    BY <1>1, <1>4 DEF Begin, SingleShot, Drained, Killed, pipeVars
  <2>2. QED
    BY <1>2, <2>1
<1>5. ASSUME NEW t \in Tasks, Write(t)
      PROVE  Service!Issue(t)
  <2>1. /\ \A d \in Tasks : WaitsFor[d] = 0
        /\ WaitsFor' = [WaitsFor EXCEPT ![t] = written + 1]
    BY <1>5, StartWait DEF Write, WriteTo
  <2>2. QED
    BY <1>5, <2>1 DEF WaitsFor, Service!Issue, Write, WriteTo
<1>6. ASSUME NEW t \in Tasks, RestartBeforeSend(t) \/ SpawnFails(t)
      PROVE  UNCHANGED Service!serviceVars
  <2>1. HasLock(t) /\ ~Waiting(t)
    BY <1>6 DEF IInv, LockInv, RestartBeforeSend, SpawnFails
  <2>2. \A u \in Tasks : ~Waiting(u)
    BY <2>1, OneHolder DEF IInv
  <2>3. \A u \in Tasks : ~Waiting(u)'
    <3>1. CASE RestartBeforeSend(t)
      BY <3>1, AfterRestart DEF RestartBeforeSend, RestartOutcome
    <3>2. CASE SpawnFails(t)
      BY <3>2, AfterReturn DEF SpawnFails
    <3>3. QED
      BY <1>6, <3>1, <3>2
  <2>4. QED
    BY <1>2, <1>6, <2>2, <2>3 DEF RestartBeforeSend, SpawnFails, pipeVars
<1>7. ASSUME NEW t \in Tasks, ReadAnswer(t) \/ OverlongAnswer(t)
      PROVE  Service!Deliver(t)
  BY <1>7, DeliverStep DEF ReadAnswer, OverlongAnswer
<1>8. ASSUME NEW t \in Tasks, StreamGone(t) \/ Timeout(t) \/ ConnectionLost(t)
      PROVE  Service!Fail(t)
  <2>1. HasLock(t) /\ Waiting(t)
    BY <1>8 DEF IInv, LockInv, StreamGone, Timeout, ConnectionLost
  <2>2. \A u \in Tasks : ~Waiting(u)'
    <3>1. CASE Return(t)
      BY <2>1, <3>1, AfterReturn
    <3>2. CASE Restart(t, "fail")
      BY <2>1, <3>2, AfterRestart DEF RestartOutcome
    <3>3. QED
      BY <1>8, <3>1, <3>2 DEF StreamGone, Timeout, ConnectionLost
  <2>3. QED
    BY <1>8, <2>1, <2>2, FailStep DEF StreamGone, Timeout, ConnectionLost
<1>9. ASSUME NEW t \in Tasks, Cancel(t)
      PROVE  Service!Fail(t) \/ UNCHANGED Service!serviceVars
  <2>1. pc' = [pc EXCEPT ![t] = "idle"] /\ UNCHANGED <<req, written, readUpTo>>
    BY <1>9 DEF Cancel
  <2>2. CASE Waiting(t)
    <3>1. \A u \in Tasks : Waiting(u) => u = t
      BY <2>2, OneHolder DEF IInv, LockInv
    <3>2. \A u \in Tasks : ~Waiting(u)'
      BY <1>1, <2>1, <3>1
    <3>3. clean' = FALSE
      BY <1>9, <2>2 DEF Cancel
    <3>4. QED
      BY <2>1, <2>2, <3>2, <3>3, FailStep
  <2>3. CASE ~Waiting(t)
    <3>1. \A u \in Tasks : Waiting(u) <=> Waiting(u)'
      BY <1>1, <2>1, <2>3
    <3>2. clean' = clean
      BY <1>9, <2>3 DEF Cancel, IInv, TypeOK
    <3>3. QED
      BY <1>2, <2>1, <3>1, <3>2
  <2>4. QED
    BY <2>2, <2>3
<1>10. QED
  BY <1>3, <1>4, <1>5, <1>6, <1>7, <1>8, <1>9, ResetStep
     DEF Next, Step, Service!ServiceNext

\* send() implements the answer service, whatever is cancelled, times out, dies or
\* is restarted under it.
THEOREM Refinement == Spec => ImplementsService
<1>1. Init => Service!ServiceInit
  BY RefinementInit
<1>2. IInv /\ [Next]_vars => [Service!ServiceNext]_(Service!serviceVars)
  BY RefinementStep
<1>3. QED
  BY <1>1, <1>2, Invariance, PTL DEF Spec, ImplementsService, Service!ServiceSpec
=============================================================================
