------------------------- MODULE DaemonSystem_proofs -------------------------
(***************************************************************************)
(* Proofs about the daemon and its clients, for any clients, connections   *)
(* and bounds: the permits, the processes and the sessions of connections, *)
(* and the way of requests and answers.                                    *)
(***************************************************************************)
EXTENDS DaemonSystem, FiniteSetTheorems, TLAPS

\* The types of the daemon's variables that the proofs use.
Types ==
  /\ permits \in Nat /\ created \in 0..MaxSessions
  /\ warm \in Seq(Sessions) /\ Range(warm) \subseteq 1..created
  /\ listed \subseteq 1..created /\ running \subseteq 1..created
  /\ dropped \subseteq 1..created
  /\ handler \in [Conns -> {"new", "acquiring", "starting", "reading", "draining",
                            "sending", "releasing", "done"}]
  /\ session \in [Conns -> Sessions \cup {None}]
  /\ \A k \in Conns : session[k] # None => session[k] \in 1..created

Held == {session[k] : k \in {j \in Conns : Holds(j)}}

\* A handler has a session from its acquisition to its release; sessions are with one
\* handler, in the queue once, or dropped.
Owners ==
  /\ \A k \in Conns : handler[k] \in {"new", "acquiring"} => session[k] = None
  /\ \A k \in Conns : handler[k] \notin {"new", "acquiring"} => session[k] # None
  /\ SessionsDedicated
  /\ \A i, j \in 1..Len(warm) : warm[i] = warm[j] => i = j
  /\ dropped \cap (Range(warm) \cup Held) = {}

\* A process runs on a permit: it is not started before the acquisition ends and it is
\* killed before the permit is returned.
OnPermit ==
  /\ running \subseteq Range(warm) \cup Held
  /\ \A k \in Conns : handler[k] \in {"starting", "releasing"} =>
                        session[k] \notin running

IInv == Types /\ Owners /\ OnPermit /\ PermitsAccounted

-----------------------------------------------------------------------------
(* Permits and sets of sessions.                                            *)

LEMMA PermittedFinite ==
  ASSUME Types
  PROVE  /\ Permitted = Range(warm) \cup dropped \cup Held
         /\ Permitted \subseteq 1..created /\ IsFiniteSet(Permitted)
         /\ Cardinality(Permitted) \in Nat
  <1>1. Permitted = Range(warm) \cup dropped \cup Held
    BY DEF Permitted, Held
  <1>2. Held \subseteq 1..created
    BY DEF Held, Holds, Types
  <1>3. Permitted \subseteq 1..created
    BY <1>1, <1>2 DEF Types
  <1>4. IsFiniteSet(1..created)
    BY FS_Interval, DaemonAssumption DEF Types
  <1> QED
    BY <1>1, <1>3, <1>4, FS_Subset, FS_CardinalityType

\* What does not touch the pool, the handlers or their sessions may end processes and
\* take sessions off the list.
LEMMA Untouched ==
  ASSUME IInv, UNCHANGED <<permits, warm, created, handler, session, dropped>>,
         listed' \subseteq listed, running' \subseteq running
  PROVE  IInv'
  <1>1. Held' = Held /\ Permitted' = Permitted
    BY DEF Held, Holds, Permitted
  <1>2. Types'
    BY DEF IInv, Types
  <1>3. Owners'
    BY <1>1 DEF IInv, Owners, SessionsDedicated, Holds
  <1>4. OnPermit'
    BY <1>1 DEF IInv, OnPermit
  <1>5. PermitsAccounted'
    BY <1>1 DEF IInv, PermitsAccounted
  <1> QED
    BY <1>2, <1>3, <1>4, <1>5 DEF IInv

\* A handler with a session goes on with it: its process may have started, and has
\* been killed when the session is to be released.
LEMMA GoesOn ==
  ASSUME IInv, NEW k \in Conns, NEW where \in {"reading", "draining", "sending", "releasing"},
         handler[k] \in {"starting", "reading", "draining", "sending"},
         HandlerAt(k, where),
         UNCHANGED <<permits, warm, created, session, dropped>>,
         listed' \subseteq listed \cup {session[k]},
         running' \subseteq running \cup {session[k]},
         where = "releasing" => session[k] \notin running'
  PROVE  IInv'
  <1>1. /\ handler' = [handler EXCEPT ![k] = where] /\ handler'[k] = where
        /\ \A j \in Conns \ {k} : handler'[j] = handler[j]
    BY DEF HandlerAt, IInv, Types
  <1>2. Holds(k) /\ session[k] \in 1..created
    BY DEF IInv, Owners, Types, Holds
  <1>3. \A j \in Conns : (session'[j] # None /\ handler'[j] # "done") <=> Holds(j)
    BY <1>1, <1>2 DEF Holds
  <1>4. Held' = Held /\ Permitted' = Permitted
    BY <1>3 DEF Held, Permitted, Holds
  <1>5. Types'
    BY <1>1, <1>2 DEF IInv, Types
  <1>6. SessionsDedicated'
    BY <1>3 DEF IInv, Owners, SessionsDedicated, Holds
  <1>7. Owners'
    BY <1>1, <1>4, <1>6 DEF IInv, Owners
  <1>8. OnPermit'
    <2>1. session[k] \in Held
      BY <1>2 DEF Held
    <2>2. running' \subseteq Range(warm') \cup Held'
      BY <1>4, <2>1 DEF IInv, OnPermit
    <2>3. \A j \in Conns : handler'[j] \in {"starting", "releasing"} =>
                             session'[j] \notin running'
      <3> SUFFICES ASSUME NEW j \in Conns, j # k,
                          handler[j] \in {"starting", "releasing"}
                   PROVE  session[j] \notin running'
        BY <1>1
      <3>1. Holds(j) /\ session[j] \notin running
        BY DEF IInv, Owners, OnPermit, Holds
      <3>2. session[j] # session[k]
        BY <1>2, <3>1 DEF IInv, Owners, SessionsDedicated
      <3> QED
        BY <3>1, <3>2
    <2> QED
      BY <2>2, <2>3 DEF OnPermit
  <1>9. PermitsAccounted'
    BY <1>4 DEF IInv, PermitsAccounted
  <1> QED
    BY <1>5, <1>7, <1>8, <1>9 DEF IInv

LEMMA Entries ==
  ASSUME NEW q \in Seq(Sessions)
  PROVE  Range(q) = {q[i] : i \in 1..Len(q)}
  <1>1. DOMAIN q = 1..Len(q)
    OBVIOUS
  <1>2. Range(q) = {q[i] : i \in DOMAIN q}
    BY DEF Range
  <1> QED
    BY <1>1, <1>2

\* The head of the queue is the only one of its number.
LEMMA HeadOnce ==
  ASSUME Types, Owners, warm # <<>>
  PROVE  /\ Head(warm) \in 1..created
         /\ Range(warm) = Range(Tail(warm)) \cup {Head(warm)}
         /\ Head(warm) \notin Range(Tail(warm))
         /\ Tail(warm) \in Seq(Sessions)
         /\ \A i, j \in 1..Len(Tail(warm)) : Tail(warm)[i] = Tail(warm)[j] => i = j
  <1>1. /\ warm \in Seq(Sessions) /\ Len(warm) \in Nat \ {0} /\ Head(warm) = warm[1]
        /\ Len(Tail(warm)) = Len(warm) - 1 /\ Tail(warm) \in Seq(Sessions)
        /\ \A i \in 1..Len(Tail(warm)) : Tail(warm)[i] = warm[i + 1]
    BY DEF Types
  <1>2. Range(warm) = {warm[i] : i \in 1..Len(warm)}
    BY <1>1, Entries
  <1> DEFINE rest == Tail(warm)
  <1>t. rest \in Seq(Sessions)
    BY <1>1
  <1> HIDE DEF rest
  <1>r. Range(rest) = {rest[i] : i \in 1..Len(rest)}
    BY <1>t, Entries
  <1>3. Range(Tail(warm)) = {Tail(warm)[i] : i \in 1..Len(Tail(warm))}
    BY <1>r DEF rest
  <1>4. Head(warm) \in Range(warm)
    BY <1>1, <1>2
  <1>5. \A x \in Range(Tail(warm)) : x \in Range(warm) /\ x # Head(warm)
    BY <1>1, <1>2, <1>3 DEF Owners
  <1>6. \A x \in Range(warm) : x = Head(warm) \/ x \in Range(Tail(warm))
    <2> SUFFICES ASSUME NEW i \in 1..Len(warm), i # 1
                 PROVE  warm[i] \in Range(Tail(warm))
      BY <1>1, <1>2
    <2>1. i - 1 \in 1..Len(Tail(warm)) /\ Tail(warm)[i - 1] = warm[i]
      BY <1>1
    <2> QED
      BY <1>3, <2>1
  <1>7. \A i, j \in 1..Len(Tail(warm)) : Tail(warm)[i] = Tail(warm)[j] => i = j
    BY <1>1 DEF Owners
  <1> QED
    BY <1>1, <1>4, <1>5, <1>6, <1>7 DEF Types

-----------------------------------------------------------------------------
(* Acquisition and release.                                                 *)

LEMMA TakeWarmStep ==
  ASSUME IInv, NEW k \in Conns, TakeWarm(k)
  PROVE  IInv'
  <1> DEFINE s == Head(warm)
  <1>1. /\ handler[k] = "new" /\ session[k] = None /\ warm # <<>> /\ warm' = Tail(warm)
        /\ UNCHANGED <<permits, listed, created, running, dropped>>
        /\ session'[k] = s /\ handler'[k] = "reading"
        /\ \A j \in Conns \ {k} : session'[j] = session[j] /\ handler'[j] = handler[j]
    BY DEF TakeWarm, HandlerAt, IInv, Owners, Types
  <1>2. /\ s \in 1..created /\ s \in Sessions /\ s # None
        /\ Range(warm) = Range(warm') \cup {s} /\ s \notin Range(warm')
        /\ warm' \in Seq(Sessions)
        /\ \A i, j \in 1..Len(warm') : warm'[i] = warm'[j] => i = j
    <2>1. /\ s \in 1..created /\ Range(warm) = Range(warm') \cup {s}
          /\ s \notin Range(warm') /\ warm' \in Seq(Sessions)
          /\ \A i, j \in 1..Len(warm') : warm'[i] = warm'[j] => i = j
      BY <1>1, HeadOnce DEF IInv
    <2>2. created \in 0..MaxSessions /\ MaxSessions \in Nat
      BY DaemonAssumption DEF IInv, Types
    <2> HIDE DEF s
    <2>3. s \in Sessions /\ s # None
      BY <2>1, <2>2 DEF Sessions, None
    <2> QED
      BY <2>1, <2>3
  <1>3. \A j \in Conns : (session'[j] # None /\ handler'[j] # "done")
                           <=> (Holds(j) \/ j = k)
    BY <1>1, <1>2 DEF Holds
  <1>4. ~Holds(k)
    BY <1>1 DEF Holds
  <1>5. Held' = Held \cup {s}
    BY <1>1, <1>3, <1>4 DEF Held, Holds
  <1>6. Types'
    BY <1>1, <1>2 DEF TakeWarm, HandlerAt, IInv, Types
  <1>7. \A j \in Conns : Holds(j) => session[j] # s /\ session[j] \notin Range(warm')
    BY <1>2 DEF IInv, Owners, SessionsDedicated
  <1>8. SessionsDedicated'
    BY <1>1, <1>2, <1>3, <1>7 DEF IInv, Owners, SessionsDedicated, Holds
  <1>9. Owners'
    BY <1>1, <1>2, <1>5, <1>8 DEF IInv, Owners
  <1>10. OnPermit'
    BY <1>1, <1>2, <1>5 DEF IInv, OnPermit
  <1>11. Permitted' = Permitted
    BY <1>1, <1>2, <1>5, <1>6, PermittedFinite DEF Permitted, Held
  <1> QED
    BY <1>1, <1>6, <1>9, <1>10, <1>11 DEF IInv, PermitsAccounted

LEMMA TakeNoneStep ==
  ASSUME IInv, NEW k \in Conns, TakeNone(k)
  PROVE  IInv'
  <1>1. /\ handler[k] = "new" /\ handler'[k] = "acquiring"
        /\ UNCHANGED <<permits, listed, created, session, running>>
        /\ \A j \in Conns \ {k} : handler'[j] = handler[j]
        /\ handler' = [handler EXCEPT ![k] = "acquiring"]
    BY DEF TakeNone, HandlerAt, IInv, Types
  <1>2. \A j \in Conns : (session'[j] # None /\ handler'[j] # "done") <=> Holds(j)
    BY <1>1 DEF Holds
  <1>3. Held' = Held
    BY <1>1, <1>2 DEF Held, Holds
  <1>4. /\ warm' \in Seq(Sessions) /\ Range(warm') \subseteq Range(warm)
        /\ \A i, j \in 1..Len(warm') : warm'[i] = warm'[j] => i = j
        /\ Range(warm') \cup dropped' = Range(warm) \cup dropped
        /\ dropped' \cap Range(warm') = {}
        /\ dropped' \cap Held = {} /\ dropped' \subseteq 1..created
        /\ running \subseteq Range(warm') \cup Held
    <2>1. CASE UNCHANGED <<warm, dropped>>
      BY <2>1 DEF IInv, Types, Owners, OnPermit
    <2>2. CASE /\ warm # <<>> /\ Head(warm) \notin running
               /\ warm' = Tail(warm) /\ dropped' = dropped \cup {Head(warm)}
      <3>1. /\ Head(warm) \in 1..created
            /\ Range(warm) = Range(warm') \cup {Head(warm)}
            /\ Head(warm) \notin Range(warm') /\ warm' \in Seq(Sessions)
            /\ \A i, j \in 1..Len(warm') : warm'[i] = warm'[j] => i = j
        BY <2>2, HeadOnce DEF IInv
      <3>2. Head(warm) \notin Held
        BY <3>1 DEF IInv, Owners, SessionsDedicated, Held
      <3>3. dropped' \cap (Range(warm') \cup Held) = {}
        BY <2>2, <3>1, <3>2 DEF IInv, Owners
      <3>4. dropped' \subseteq 1..created /\ running \subseteq Range(warm') \cup Held
        BY <2>2, <3>1 DEF IInv, Types, OnPermit
      <3>5. Range(warm') \cup dropped' = Range(warm) \cup dropped
        BY <2>2, <3>1
      <3> QED
        BY <3>1, <3>3, <3>4, <3>5
    <2> QED
      BY <2>1, <2>2 DEF TakeNone
  <1>5. Types'
    BY <1>1, <1>4 DEF IInv, Types
  <1>6. SessionsDedicated'
    BY <1>1, <1>2, <1>4 DEF IInv, Owners, SessionsDedicated, Holds
  <1>7. Owners'
    BY <1>1, <1>3, <1>4, <1>6 DEF IInv, Owners
  <1>8. OnPermit'
    BY <1>1, <1>3, <1>4 DEF IInv, OnPermit
  <1>9. Permitted' = Permitted
    BY <1>3, <1>4 DEF Permitted, Held
  <1> QED
    BY <1>1, <1>5, <1>7, <1>8, <1>9 DEF IInv, PermitsAccounted

LEMMA AcquireStep ==
  ASSUME IInv, NEW k \in Conns, Acquire(k)
  PROVE  IInv'
  <1> DEFINE s == created + 1
  <1>1. /\ handler[k] = "acquiring" /\ session[k] = None /\ permits > 0
        /\ created < MaxSessions /\ permits' = permits - 1 /\ created' = s
        /\ UNCHANGED <<warm, listed, running, dropped>>
        /\ session' = [session EXCEPT ![k] = s]
        /\ handler' = [handler EXCEPT ![k] = "starting"]
    BY DEF Acquire, HandlerAt, IInv, Owners
  <1>2. /\ session'[k] = s /\ handler'[k] = "starting"
        /\ \A j \in Conns \ {k} : session'[j] = session[j] /\ handler'[j] = handler[j]
    BY <1>1 DEF IInv, Types
  <1>3. /\ s \in 1..s /\ s \in Sessions /\ s # None /\ s \in 0..MaxSessions
        /\ s \notin 1..created /\ 1..created \subseteq 1..s /\ permits' \in Nat
    BY <1>1, DaemonAssumption DEF IInv, Types, Sessions, None
  <1> HIDE DEF s
  <1>4. \A j \in Conns : (session'[j] # None /\ handler'[j] # "done")
                           <=> (Holds(j) \/ j = k)
    BY <1>2, <1>3 DEF Holds
  <1>5. ~Holds(k)
    BY <1>1 DEF Holds
  <1>6. Held' = Held \cup {s}
    BY <1>2, <1>4, <1>5 DEF Held, Holds
  <1>7. Types'
    BY <1>1, <1>2, <1>3 DEF IInv, Types
  <1>8. \A j \in Conns : Holds(j) => session[j] # s /\ session[j] \notin Range(warm)
    BY <1>3 DEF IInv, Owners, SessionsDedicated, Types, Holds
  <1>9. s \notin Range(warm) /\ s \notin dropped /\ s \notin running
    BY <1>3 DEF IInv, Types
  <1>10. SessionsDedicated'
    BY <1>1, <1>2, <1>4, <1>8, <1>9 DEF IInv, Owners, SessionsDedicated, Holds
  <1>11. Owners'
    BY <1>1, <1>2, <1>3, <1>6, <1>9, <1>10 DEF IInv, Owners
  <1>12. OnPermit'
    BY <1>1, <1>2, <1>6, <1>9 DEF IInv, OnPermit
  <1>13. PermitsAccounted'
    <2>1. Permitted' = Permitted \cup {s}
      BY <1>1, <1>6 DEF Permitted, Held
    <2>2. s \notin Permitted /\ IsFiniteSet(Permitted) /\ Cardinality(Permitted) \in Nat
      BY <1>3, PermittedFinite DEF IInv
    <2>3. Cardinality(Permitted') = Cardinality(Permitted) + 1
      BY <2>1, <2>2, FS_AddElement
    <2> QED
      BY <1>1, <2>2, <2>3 DEF IInv, PermitsAccounted, Types
  <1> QED
    BY <1>7, <1>11, <1>12, <1>13 DEF IInv

\* The end of a handler: its permit is returned when its process does not run.
LEMMA GivesBack ==
  ASSUME IInv, NEW k \in Conns, handler[k] \in {"starting", "releasing"},
         HandlerAt(k, "done"), permits' = permits + 1, listed' \subseteq listed,
         UNCHANGED <<warm, created, session, running, dropped>>
  PROVE  IInv'
  <1>1. /\ handler' = [handler EXCEPT ![k] = "done"] /\ handler'[k] = "done"
        /\ \A j \in Conns \ {k} : handler'[j] = handler[j]
    BY DEF HandlerAt, IInv, Types
  <1>2. Holds(k) /\ session[k] \notin running
    BY DEF IInv, Owners, OnPermit, Holds
  <1>3. \A j \in Conns : (session'[j] # None /\ handler'[j] # "done")
                           <=> (Holds(j) /\ j # k)
    BY <1>1 DEF Holds
  <1>4. \A j \in Conns \ {k} : Holds(j) => session[j] # session[k]
    BY <1>2 DEF IInv, Owners, SessionsDedicated
  <1>5. Held' = Held \ {session[k]} /\ session[k] \in Held
    BY <1>2, <1>3, <1>4 DEF Held, Holds
  <1>6. Types'
    BY <1>1 DEF IInv, Types
  <1>7. SessionsDedicated'
    BY <1>3 DEF IInv, Owners, SessionsDedicated, Holds
  <1>8. Owners'
    BY <1>1, <1>2, <1>5, <1>7 DEF IInv, Owners
  <1>9. OnPermit'
    BY <1>1, <1>2, <1>5 DEF IInv, OnPermit
  <1>10. PermitsAccounted'
    <2>1. session[k] \notin Range(warm) /\ session[k] \notin dropped
      BY <1>2, <1>5 DEF IInv, Owners, SessionsDedicated
    <2>2. /\ session[k] \in Permitted /\ IsFiniteSet(Permitted)
          /\ Cardinality(Permitted) \in Nat
      BY <1>5, PermittedFinite DEF IInv
    <2>3. Permitted' = Permitted \ {session[k]}
      BY <1>5, <2>1 DEF Permitted, Held
    <2>4. Cardinality(Permitted') = Cardinality(Permitted) - 1
      BY <2>2, <2>3, FS_RemoveElement
    <2> QED
      BY <2>2, <2>4 DEF IInv, PermitsAccounted, Types
  <1> QED
    BY <1>6, <1>8, <1>9, <1>10 DEF IInv

-----------------------------------------------------------------------------
(* The invariant.                                                           *)

LEMMA InitHolds == Init => IInv
  <1> SUFFICES ASSUME DaemonInit PROVE IInv
    BY DEF Init
  <1>1. /\ created \in 0..Prewarm /\ created \in Nat /\ created <= MaxSessions
        /\ created <= MaxConcurrent /\ MaxConcurrent \in Nat
        /\ permits = MaxConcurrent - created
        /\ warm = [i \in 1..created |-> i] /\ listed = 1..created
        /\ running \subseteq 1..created /\ dropped = {}
        /\ handler = [k \in Conns |-> "new"] /\ session = [k \in Conns |-> None]
    BY DaemonAssumption DEF DaemonInit
  <1>2. /\ warm \in Seq(Sessions) /\ Len(warm) = created
        /\ Range(warm) = 1..created
    <2>1. \A i \in 1..created : i \in Sessions
      BY <1>1, DaemonAssumption DEF Sessions
    <2>2. warm \in Seq(Sessions) /\ Len(warm) = created
      BY <1>1, <2>1
    <2>3. DOMAIN warm = 1..created /\ \A i \in 1..created : warm[i] = i
      BY <1>1
    <2> QED
      BY <2>2, <2>3 DEF Range
  <1>3. Held = {}
    BY <1>1 DEF Held, Holds
  <1>4. Types
    BY <1>1, <1>2 DEF Types
  <1>5. Owners
    BY <1>1, <1>2, <1>3 DEF Owners, SessionsDedicated, Holds
  <1>6. OnPermit
    BY <1>1, <1>2 DEF OnPermit
  <1>7. PermitsAccounted
    <2>1. Permitted = 1..created
      BY <1>1, <1>2, <1>3 DEF Permitted, Held
    <2>2. Cardinality(1..created) = created
      BY <1>1, FS_Interval
    <2> QED
      BY <1>1, <2>1, <2>2 DEF PermitsAccounted
  <1> QED
    BY <1>4, <1>5, <1>6, <1>7 DEF IInv

LEMMA HandlerKeeps ==
  ASSUME IInv, NEW k \in Conns, HandlerStep(k)
  PROVE  IInv'
  <1>1. CASE Started(k)
    BY <1>1, GoesOn DEF Started
  <1>2. CASE ReadRequest(k)
    <2>1. CASE handler' = handler
      BY <1>2, <2>1, Untouched DEF ReadRequest, poolVars
    <2>2. ASSUME NEW where \in {"sending", "draining"}, HandlerAt(k, where) PROVE IInv'
      BY <1>2, <2>2, GoesOn DEF ReadRequest, poolVars
    <2> QED
      BY <1>2, <2>1, <2>2 DEF ReadRequest
  <1>3. CASE Answered(k)
    BY <1>3, GoesOn DEF Answered, poolVars
  <1>4. CASE Unanswered(k)
    BY <1>4, GoesOn DEF Unanswered, poolVars
  <1>5. CASE Ends(k)
    BY <1>5, GoesOn DEF Ends, Kill, poolVars
  <1>6. CASE StartFails(k)
    BY <1>6, GivesBack DEF StartFails
  <1>7. CASE Released(k)
    BY <1>7, GivesBack DEF Released
  <1>8. CASE DrainFails(k)
    BY <1>8, GoesOn DEF DrainFails, poolVars
  <1>9. CASE RestRead(k)
    BY <1>9, GoesOn DEF RestRead, poolVars
  <1> QED
    BY <1>1, <1>2, <1>3, <1>4, <1>5, <1>6, <1>7, <1>8, <1>9, TakeWarmStep,
       TakeNoneStep, AcquireStep DEF HandlerStep

LEMMA StepHolds == IInv /\ [Next]_vars => IInv'
  <1> SUFFICES ASSUME IInv, [Next]_vars PROVE IInv'
    OBVIOUS
  <1>1. CASE \E k \in Conns : HandlerStep(k)
    BY <1>1, HandlerKeeps
  <1>2. CASE \E s \in Sessions : Crash(s)
    BY <1>2, Untouched DEF Crash, Kill, poolVars, handlerVars
  <1>3. CASE Shutdown
    BY <1>3, Untouched DEF Shutdown, Kill, handlerVars
  <1>4. CASE LoopStops
    BY <1>4, Untouched DEF LoopStops, Kill, poolVars, handlerVars
  <1>5. CASE UNCHANGED daemonVars
    BY <1>5, Untouched DEF daemonVars, poolVars, handlerVars
  <1>6. CASE UNCHANGED vars
    BY <1>5, <1>6 DEF vars
  <1>7. ASSUME NEW k \in Conns, Drains(k) PROVE IInv'
    BY <1>7, GoesOn DEF Drains, poolVars
  <1> QED
    BY <1>1, <1>2, <1>3, <1>4, <1>5, <1>6, <1>7 DEF Next, DaemonNext

\* The invariant holds in every state.
THEOREM Inductive == Spec => []IInv
  BY InitHolds, StepHolds, PTL DEF Spec

\* Every permit is free or held by one session, however connections begin, fail and
\* end (docker/lean_daemon.py, acquire and release).
THEOREM PermitsHold == Spec => []PermitsAccounted
  <1>1. IInv => PermitsAccounted
    BY DEF IInv
  <1> QED
    BY <1>1, Inductive, PTL

\* Each connection has a REPL process of its own (docker/lean_daemon.py,
\* handle_client_repl).
THEOREM DedicatedHolds == Spec => []SessionsDedicated
  <1>1. IInv => SessionsDedicated
    BY DEF IInv, Owners
  <1> QED
    BY <1>1, Inductive, PTL

\* LEAN_MAX_CONCURRENT limits the processes that run.
THEOREM LimitHolds == Spec => []ProcessesLimited
  <1>1. IInv => ProcessesLimited
    <2> SUFFICES ASSUME IInv PROVE ProcessesLimited
      OBVIOUS
    <2>1. running \subseteq Permitted
      BY PermittedFinite DEF IInv, OnPermit
    <2>2. IsFiniteSet(Permitted) /\ Cardinality(Permitted) \in Nat
      BY PermittedFinite DEF IInv
    <2>3. /\ Cardinality(running) \in Nat
          /\ Cardinality(running) <= Cardinality(Permitted)
      BY <2>1, <2>2, FS_Subset, FS_CardinalityType
    <2> QED
      BY <2>2, <2>3, DaemonAssumption DEF IInv, Types, PermitsAccounted, ProcessesLimited
  <1> QED
    BY <1>1, Inductive, PTL

-----------------------------------------------------------------------------
(* The types of the rest: what is on the connections and in the pipes.      *)

Requests == Nat \ {0}

Responses == [kind : {"answer", "failed", "refused"}, of : Nat] \cup {Rest}

ChannelTypes ==
  /\ listening \in BOOLEAN /\ dialed \in Nat
  /\ clientEnd \in [Conns -> BOOLEAN] /\ daemonEnd \in [Conns -> BOOLEAN]
  /\ inbox \in [Conns -> Seq(Requests)] /\ outbox \in [Conns -> Seq(Responses)]

\* What a handler does that has written a request and not read the answer.
Waiting == {"draining", "sending"}

USE DEF Waiting

\* A handler that waits for its process has left a request in the pipe.
PipeTypes ==
  /\ pipe \in [Sessions -> Seq(Nat)]
  /\ \A k \in Conns : handler[k] \in Waiting /\ session[k] \in running =>
                        pipe[session[k]] # <<>>

\* A client that waits has a connection.
ClientTypes ==
  /\ ClientTypeOK
  /\ \A c \in Clients : call[c] = "wait" => link[c] # None

\* The rest of a line is left by a process that runs, on a session marked for it.
CutMarked == cut \subseteq running \cap slipped

LEMMA QueueTypes ==
  ASSUME NEW S, NEW q \in Seq(S), NEW e \in S
  PROVE  Append(q, e) \in Seq(S) /\ Append(q, e) # <<>>
  <1>1. Append(q, e) \in Seq(S) /\ Len(Append(q, e)) = Len(q) + 1 /\ Len(q) \in Nat
    OBVIOUS
  <1>2. Len(<<>>) = 0
    OBVIOUS
  <1> QED
    BY <1>1, <1>2

LEMMA EntryTypes ==
  ASSUME NEW S, NEW q \in Seq(S), NEW i \in 1..Len(q)
  PROVE  q[i] \in S
  OBVIOUS

LEMMA RunningSessions ==
  ASSUME IInv
  PROVE  running \subseteq Sessions
  BY DaemonAssumption DEF IInv, Types, Sessions

LEMMA TailTypes ==
  ASSUME NEW S, NEW q \in Seq(S), q # <<>>
  PROVE  Head(q) \in S /\ Tail(q) \in Seq(S)
  OBVIOUS

LEMMA ResponseTypes ==
  /\ Failure \in Responses /\ Refusal \in Responses /\ Rest \in Responses
  /\ \A n \in Nat : Response("answer", n) \in Responses
  BY DEF Failure, Refusal, Rest, Response, Responses, None

LEMMA Responded ==
  ASSUME ChannelTypes, NEW k \in Conns, NEW r \in Responses, Respond(k, r)
  PROVE  outbox' \in [Conns -> Seq(Responses)]
  <1>1. outbox[k] \in Seq(Responses) /\ Append(outbox[k], r) \in Seq(Responses)
    BY QueueTypes DEF ChannelTypes
  <1> QED
    BY <1>1 DEF Respond, ChannelTypes

LEMMA HangupTypes ==
  ASSUME ChannelTypes, NEW k \in Conns, Hangup(k)
  PROVE  /\ daemonEnd' \in [Conns -> BOOLEAN]
         /\ inbox' \in [Conns -> Seq(Requests)]
  BY DEF Hangup, ChannelTypes

LEMMA KillTypes ==
  ASSUME PipeTypes, NEW ss, Kill(ss)
  PROVE  /\ pipe' \in [Sessions -> Seq(Nat)] /\ running' = running \ ss
         /\ \A s \in Sessions \ ss : pipe'[s] = pipe[s]
  <1>1. \A s \in Sessions : pipe'[s] = IF s \in ss THEN <<>> ELSE pipe[s]
    BY DEF Kill
  <1>2. \A s \in Sessions : pipe'[s] \in Seq(Nat)
    <2>1. \A s \in Sessions : pipe[s] \in Seq(Nat)
      BY DEF PipeTypes
    <2>2. <<>> \in Seq(Nat)
      OBVIOUS
    <2> QED
      BY <1>1, <2>1, <2>2
  <1>3. pipe' = [s \in Sessions |-> pipe'[s]]
    BY DEF Kill
  <1> QED
    BY <1>1, <1>2, <1>3 DEF Kill

\* The pipes of the processes that go on keep what the handlers wait for.
LEMMA PipesKept ==
  ASSUME IInv, PipeTypes, UNCHANGED <<handler, session>>, running' \subseteq running,
         pipe' \in [Sessions -> Seq(Nat)], \A s \in running' : pipe'[s] = pipe[s]
  PROVE  PipeTypes'
  BY DEF PipeTypes

\* A handler's step that leaves the pipes alone and does not begin to wait.
LEMMA PipesIdle ==
  ASSUME IInv, PipeTypes, NEW k \in Conns, UNCHANGED <<running, pipe>>,
         NEW where, where \notin Waiting, HandlerAt(k, where),
         \A j \in Conns \ {k} : session'[j] = session[j]
  PROVE  PipeTypes'
  <1>1. /\ handler'[k] = where
        /\ \A j \in Conns \ {k} : handler'[j] = handler[j]
    BY DEF HandlerAt, IInv, Types
  <1> QED
    BY <1>1 DEF PipeTypes

LEMMA ReadRequestTypes ==
  ASSUME IInv, ChannelTypes, PipeTypes, NEW k \in Conns, ReadRequest(k)
  PROVE  ChannelTypes' /\ PipeTypes'
  <1>1. /\ inbox[k] \in Seq(Requests) /\ inbox[k] # <<>>
        /\ Head(inbox[k]) \in Requests /\ Tail(inbox[k]) \in Seq(Requests)
    BY TailTypes DEF ReadRequest, ChannelTypes
  <1>2. /\ inbox' \in [Conns -> Seq(Requests)]
        /\ UNCHANGED <<listening, dialed, clientEnd, daemonEnd, session, running>>
    BY <1>1 DEF ReadRequest, ChannelTypes
  <1>3. CASE session[k] \in running
    <2> DEFINE s == session[k]
    <2>1. /\ pipe' = [pipe EXCEPT ![s] = Append(@, Head(inbox[k]))]
          /\ HandlerAt(k, "sending") \/ HandlerAt(k, "draining")
          /\ UNCHANGED outbox
      BY <1>3 DEF ReadRequest
    <2>2. s \in Sessions /\ pipe[s] \in Seq(Nat)
      BY <1>3, RunningSessions DEF PipeTypes
    <2>3. /\ Append(pipe[s], Head(inbox[k])) \in Seq(Nat)
          /\ Append(pipe[s], Head(inbox[k])) # <<>>
      BY <1>1, <2>2, QueueTypes DEF Requests
    <2>4. pipe' \in [Sessions -> Seq(Nat)] /\ pipe'[s] # <<>>
      BY <2>1, <2>2, <2>3 DEF PipeTypes
    <2>5. \A x \in Sessions \ {s} : pipe'[x] = pipe[x]
      BY <2>1 DEF PipeTypes
    <2>6. \A j \in Conns \ {k} : handler'[j] = handler[j]
      BY <2>1 DEF HandlerAt, IInv, Types
    <2>7. \A j \in Conns : session[j] \in running => session[j] \in Sessions
      BY RunningSessions
    <2>8. PipeTypes'
      BY <1>2, <2>4, <2>5, <2>6, <2>7 DEF PipeTypes
    <2> QED
      BY <1>2, <2>1, <2>8 DEF ChannelTypes
  <1>4. CASE session[k] \notin running
    <2>1. Respond(k, Failure) /\ UNCHANGED <<pipe, handler>>
      BY <1>4 DEF ReadRequest
    <2>2. outbox' \in [Conns -> Seq(Responses)]
      BY <2>1, Responded, ResponseTypes
    <2> QED
      BY <1>2, <2>1, <2>2 DEF ChannelTypes, PipeTypes
  <1> QED
    BY <1>3, <1>4

LEMMA AnsweredTypes ==
  ASSUME IInv, ChannelTypes, PipeTypes, NEW k \in Conns, Answered(k)
  PROVE  ChannelTypes' /\ PipeTypes'
  <1> DEFINE s == session[k]
  <1>1. /\ handler[k] \in Waiting /\ s \in running /\ s \in Sessions
        /\ pipe[s] # <<>> /\ pipe[s] \in Seq(Nat)
    BY RunningSessions DEF Answered, PipeTypes
  <1>2. Head(pipe[s]) \in Nat /\ Tail(pipe[s]) \in Seq(Nat)
    BY <1>1, TailTypes
  <1>3. /\ pipe' = [pipe EXCEPT ![s] = Tail(@)] /\ HandlerAt(k, "reading")
        /\ UNCHANGED <<listening, dialed, clientEnd, daemonEnd, inbox, session, running>>
    BY DEF Answered
  <1>4. pipe' \in [Sessions -> Seq(Nat)] /\ \A x \in Sessions \ {s} : pipe'[x] = pipe[x]
    BY <1>1, <1>2, <1>3 DEF PipeTypes
  <1>5. outbox' \in [Conns -> Seq(Responses)]
    BY <1>2, Responded, ResponseTypes DEF Answered
  <1>6. /\ handler'[k] = "reading"
        /\ \A j \in Conns \ {k} : handler'[j] = handler[j]
    BY <1>3 DEF HandlerAt, IInv, Types
  <1>7. \A j \in Conns \ {k} : handler[j] \in Waiting => session[j] # s
    BY <1>1 DEF IInv, Owners, SessionsDedicated, Holds
  <1>8. \A j \in Conns : session[j] \in running => session[j] \in Sessions
    BY RunningSessions
  <1>9. PipeTypes'
    BY <1>3, <1>4, <1>6, <1>7, <1>8 DEF PipeTypes
  <1> QED
    BY <1>3, <1>5, <1>9 DEF ChannelTypes

LEMMA StartedTypes ==
  ASSUME IInv, ChannelTypes, PipeTypes, NEW k \in Conns, Started(k)
  PROVE  ChannelTypes' /\ PipeTypes'
  <1>1. /\ UNCHANGED <<channelVars, session, pipe>>
        /\ running' = running \cup {session[k]} /\ handler[k] = "starting"
        /\ handler'[k] = "reading" /\ \A j \in Conns \ {k} : handler'[j] = handler[j]
    BY DEF Started, HandlerAt, IInv, Types
  <1>2. \A j \in Conns \ {k} : handler[j] \in Waiting => session[j] # session[k]
    BY <1>1 DEF IInv, Owners, SessionsDedicated, Holds
  <1>3. PipeTypes'
    BY <1>1, <1>2 DEF PipeTypes
  <1> QED
    BY <1>1, <1>3 DEF ChannelTypes, channelVars

LEMMA EndsTypes ==
  ASSUME IInv, ChannelTypes, PipeTypes, NEW k \in Conns, Ends(k)
  PROVE  ChannelTypes' /\ PipeTypes'
  <1>1. /\ UNCHANGED <<channelVars, session>> /\ Kill({session[k]})
        /\ handler'[k] = "releasing" /\ \A j \in Conns \ {k} : handler'[j] = handler[j]
    BY DEF Ends, HandlerAt, IInv, Types
  <1>2. /\ pipe' \in [Sessions -> Seq(Nat)] /\ running' = running \ {session[k]}
        /\ \A s \in Sessions \ {session[k]} : pipe'[s] = pipe[s]
    BY <1>1, KillTypes
  <1>3. \A j \in Conns : session[j] \in running => session[j] \in Sessions
    BY RunningSessions
  <1>4. PipeTypes'
    BY <1>1, <1>2, <1>3 DEF PipeTypes
  <1> QED
    BY <1>1, <1>4 DEF ChannelTypes, channelVars

LEMMA HandlerTypes ==
  ASSUME IInv, ChannelTypes, PipeTypes, NEW k \in Conns, HandlerStep(k)
  PROVE  ChannelTypes' /\ PipeTypes'
  <1>1. CASE TakeWarm(k) \/ TakeNone(k) \/ Acquire(k)
    <2>1. UNCHANGED <<channelVars, running, pipe>>
      BY <1>1 DEF TakeWarm, TakeNone, Acquire
    <2>2. \A j \in Conns \ {k} : session'[j] = session[j]
      BY <1>1 DEF TakeWarm, TakeNone, Acquire, IInv, Types
    <2>3. PipeTypes'
      BY <1>1, <2>1, <2>2, PipesIdle DEF TakeWarm, TakeNone, Acquire
    <2> QED
      BY <2>1, <2>3 DEF ChannelTypes, channelVars
  <1>2. CASE StartFails(k)
    <2>1. PipeTypes'
      BY <1>2, PipesIdle DEF StartFails
    <2>2. outbox' \in [Conns -> Seq(Responses)]
      BY <1>2, Responded, ResponseTypes DEF StartFails
    <2>3. daemonEnd' \in [Conns -> BOOLEAN] /\ inbox' \in [Conns -> Seq(Requests)]
      BY <1>2, HangupTypes DEF StartFails
    <2> QED
      BY <1>2, <2>1, <2>2, <2>3 DEF StartFails, ChannelTypes
  <1>3. CASE DrainFails(k) \/ RestRead(k) \/ Unanswered(k)
    <2>1. /\ Respond(k, Failure) /\ HandlerAt(k, "reading")
          /\ UNCHANGED <<listening, dialed, clientEnd, daemonEnd, inbox, session,
                         running, pipe>>
      BY <1>3 DEF DrainFails, RestRead, Unanswered
    <2>2. PipeTypes'
      BY <2>1, PipesIdle
    <2>3. outbox' \in [Conns -> Seq(Responses)]
      BY <2>1, Responded, ResponseTypes
    <2> QED
      BY <2>1, <2>2, <2>3 DEF ChannelTypes
  <1>4. CASE Released(k)
    <2>1. PipeTypes'
      BY <1>4, PipesIdle DEF Released
    <2>2. daemonEnd' \in [Conns -> BOOLEAN] /\ inbox' \in [Conns -> Seq(Requests)]
      BY <1>4, HangupTypes DEF Released
    <2> QED
      BY <1>4, <2>1, <2>2 DEF Released, ChannelTypes
  <1> QED
    BY <1>1, <1>2, <1>3, <1>4, ReadRequestTypes, AnsweredTypes, StartedTypes,
       EndsTypes DEF HandlerStep

LEMMA DaemonTypes ==
  ASSUME IInv, ChannelTypes, PipeTypes, DaemonNext
  PROVE  ChannelTypes' /\ PipeTypes'
  <1>0. running \subseteq Sessions
    BY RunningSessions
  <1>1. ASSUME NEW s \in Sessions, Crash(s) PROVE ChannelTypes' /\ PipeTypes'
    <2>1. Kill({s}) /\ UNCHANGED <<channelVars, handler, session>>
      BY <1>1 DEF Crash, handlerVars
    <2> QED
      BY <1>0, <2>1, KillTypes, PipesKept DEF ChannelTypes, channelVars
  <1>2. CASE Shutdown
    <2>1. /\ Kill(listed) /\ UNCHANGED <<handler, session>> /\ listening' = FALSE
          /\ UNCHANGED <<dialed, clientEnd, daemonEnd, inbox, outbox>>
      BY <1>2 DEF Shutdown, handlerVars
    <2>2. PipeTypes'
      BY <1>0, <2>1, KillTypes, PipesKept
    <2> QED
      BY <2>1, <2>2 DEF ChannelTypes
  <1>3. CASE LoopStops
    <2>1. /\ Kill(running) /\ UNCHANGED <<handler, session>>
          /\ daemonEnd' = [k \in Conns |-> FALSE] /\ inbox' = [k \in Conns |-> <<>>]
          /\ UNCHANGED <<listening, dialed, clientEnd, outbox>>
      BY <1>3 DEF LoopStops, handlerVars
    <2>2. PipeTypes'
      BY <1>0, <2>1, KillTypes, PipesKept
    <2> QED
      BY <2>1, <2>2 DEF ChannelTypes
  <1>4. ASSUME NEW k \in Conns, Drains(k) PROVE ChannelTypes' /\ PipeTypes'
    <2>1. /\ UNCHANGED <<channelVars, session, running, pipe>>
          /\ handler[k] = "draining" /\ handler'[k] = "sending"
          /\ \A j \in Conns \ {k} : handler'[j] = handler[j]
      BY <1>4 DEF Drains, HandlerAt, IInv, Types
    <2> QED
      BY <2>1 DEF ChannelTypes, PipeTypes, channelVars
  <1> QED
    BY <1>1, <1>2, <1>3, <1>4, HandlerTypes DEF DaemonNext

LEMMA ClosedTypes ==
  ASSUME ChannelTypes, NEW c \in Clients
  PROVE  /\ UnreadBy(c) \in [Conns -> Seq(Responses)]
         /\ ClosedBy(c) \in [Conns -> BOOLEAN]
  <1>1. [outbox EXCEPT ![link[c]] = <<>>] \in [Conns -> Seq(Responses)]
    <2>1. <<>> \in Seq(Responses)
      OBVIOUS
    <2> QED
      BY <2>1 DEF ChannelTypes
  <1>2. [clientEnd EXCEPT ![link[c]] = FALSE] \in [Conns -> BOOLEAN]
    BY DEF ChannelTypes
  <1> QED
    BY <1>1, <1>2 DEF UnreadBy, ClosedBy, ChannelTypes

LEMMA DialTypes ==
  ASSUME ChannelTypes, ClientTypes, NEW c \in Clients, Dial(c)
  PROVE  /\ ChannelTypes'
         /\ link' \in [Clients -> Conns \cup {None}]
         /\ is_alive' \in [Clients -> BOOLEAN]
         /\ \A a \in Clients : link[a] # None => link'[a] # None
  <1>1. UnreadBy(c) \in [Conns -> Seq(Responses)] /\ ClosedBy(c) \in [Conns -> BOOLEAN]
    BY ClosedTypes
  <1>2. CASE listening /\ dialed + 1 \in Conns
    <2>1. dialed + 1 # None
      BY <1>2, ConnsAssumption DEF None
    <2>2. /\ dialed' = dialed + 1 /\ UNCHANGED <<inbox, listening>>
          /\ clientEnd' = [ClosedBy(c) EXCEPT ![dialed + 1] = TRUE]
          /\ daemonEnd' = [daemonEnd EXCEPT ![dialed + 1] = TRUE]
          /\ link' = [link EXCEPT ![c] = dialed + 1]
          /\ is_alive' = [is_alive EXCEPT ![c] = TRUE]
          /\ outbox' = UnreadBy(c)
      BY <1>2 DEF Dial
    <2> HIDE DEF ClosedBy, UnreadBy
    <2> QED
      BY <1>1, <1>2, <2>1, <2>2 DEF ChannelTypes, ClientTypes, ClientTypeOK
  <1>3. CASE ~(listening /\ dialed + 1 \in Conns)
    BY <1>1, <1>3 DEF Dial, ChannelTypes, ClientTypes, ClientTypeOK
  <1> QED
    BY <1>2, <1>3

LEMMA ClientStepTypes ==
  ASSUME ChannelTypes, ClientTypes, ClientNext
  PROVE  ChannelTypes' /\ ClientTypes'
  <1> PICK c \in Clients :
        \/ Start(c) \/ Redial(c) \/ RedialRefused(c) \/ Send(c) \/ Write(c)
        \/ Receive(c) \/ TooLong(c) \/ Unreadable(c) \/ EndOfStream(c) \/ GiveUp(c)
        \/ Close(c)
    BY DEF ClientNext
  <1>1. CASE Start(c)
    BY <1>1, DialTypes DEF Start, ClientTypes, ClientTypeOK
  <1>2. CASE Redial(c)
    <2>1. /\ ChannelTypes' /\ link' \in [Clients -> Conns \cup {None}]
          /\ is_alive' \in [Clients -> BOOLEAN]
          /\ \A a \in Clients : link[a] # None => link'[a] # None
      BY <1>2, DialTypes DEF Redial
    <2>2. reconnects' \in [Clients -> 0..MaxReconnects]
      BY <1>2, ClientAssumption DEF Redial, ClientTypes, ClientTypeOK
    <2> QED
      BY <1>2, <2>1, <2>2, ClientAssumption
      DEF Redial, Goto, Return, ClientTypes, ClientTypeOK, None
  <1>3. CASE RedialRefused(c)
    BY <1>3, ClientAssumption
    DEF RedialRefused, Return, Goto, ChannelTypes, channelVars, ClientTypes,
        ClientTypeOK, None
  <1>4. CASE Send(c)
    BY <1>4 DEF Send, Goto, ChannelTypes, channelVars, ClientTypes, ClientTypeOK
  <1>5. CASE Write(c)
    <2>1. asked + 1 \in Requests /\ asked + 1 \in 0..MaxRequests
      BY <1>5, ClientAssumption DEF Write, ClientTypes, ClientTypeOK, Requests
    <2>2. inbox' \in [Conns -> Seq(Requests)]
      <3>1. CASE UNCHANGED inbox
        BY <3>1 DEF ChannelTypes
      <3>2. CASE Writable(c) /\ inbox' = [inbox EXCEPT ![link[c]] = Append(@, asked + 1)]
        <4>1. link[c] \in Conns /\ inbox[link[c]] \in Seq(Requests)
          BY <3>2 DEF Writable, ClientTypes, ClientTypeOK, ChannelTypes
        <4>2. Append(inbox[link[c]], asked + 1) \in Seq(Requests)
          BY <2>1, <4>1, QueueTypes
        <4> QED
          BY <3>2, <4>1, <4>2 DEF ChannelTypes
      <3> QED
        BY <1>5, <3>1, <3>2 DEF Write
    <2>3. ChannelTypes'
      BY <1>5, <2>2 DEF Write, ChannelTypes
    <2> QED
      BY <1>5, <2>1, <2>3 DEF Write, Goto, Writable, ClientTypes, ClientTypeOK
  <1>6. CASE Receive(c)
    <2>1. link[c] \in Conns /\ outbox[link[c]] \in Seq(Responses) /\ outbox[link[c]] # <<>>
      BY <1>6 DEF Receive, ClientTypes, ClientTypeOK, ChannelTypes
    <2>2. Head(outbox[link[c]]) \in Responses /\ Tail(outbox[link[c]]) \in Seq(Responses)
      BY <2>1, TailTypes
    <2>3. Verdicts(Head(outbox[link[c]])) \subseteq {"verified", "failed"}
      <3>1. \A r \in Responses \ {Rest} : Verdicts(r) \subseteq {"verified", "failed"}
        BY DEF Responses, Verdicts
      <3>2. Head(outbox[link[c]]) # Rest
        BY <1>6 DEF Receive
      <3> QED
        BY <2>2, <3>1, <3>2
    <2>4. PICK v \in {"verified", "failed"} : Return(c, v)
      BY <1>6, <2>3 DEF Receive
    <2>5. ChannelTypes'
      BY <1>6, <2>1, <2>2 DEF Receive, ChannelTypes
    <2> QED
      BY <1>6, <2>4, <2>5, ClientAssumption
      DEF Receive, Return, Goto, ClientTypes, ClientTypeOK, None
  <1>a. CASE TooLong(c) \/ Unreadable(c)
    <2>1. link[c] \in Conns /\ outbox[link[c]] \in Seq(Responses) /\ outbox[link[c]] # <<>>
      BY <1>a DEF TooLong, Unreadable, ClientTypes, ClientTypeOK, ChannelTypes
    <2>2. Tail(outbox[link[c]]) \in Seq(Responses)
      BY <2>1, TailTypes
    <2>3. <<Rest>> \o Tail(outbox[link[c]]) \in Seq(Responses)
      BY <2>2, ResponseTypes
    <2>4. /\ outbox' \in [Conns -> Seq(Responses)]
          /\ gaveUp' = gaveUp \/ gaveUp' = gaveUp \cup {link[c]}
          /\ UNCHANGED <<dialed, clientEnd, daemonEnd, inbox, listening, link, asked,
                         reconnects>>
      BY <1>a, <2>1, <2>2, <2>3 DEF TooLong, Unreadable, ChannelTypes
    <2>5. CASE TooLong(c)
      BY <2>1, <2>4, <2>5, ClientAssumption
      DEF TooLong, Return, Goto, ChannelTypes, ClientTypes, ClientTypeOK, None
    <2>6. CASE Unreadable(c)
      BY <2>1, <2>4, <2>6, ClientAssumption
      DEF Unreadable, Goto, ChannelTypes, ClientTypes, ClientTypeOK, None
    <2> QED
      BY <1>a, <2>5, <2>6
  <1>7. CASE EndOfStream(c)
    BY <1>7, ClientAssumption
    DEF EndOfStream, Return, Goto, ChannelTypes, channelVars, ClientTypes,
        ClientTypeOK, None
  <1>8. CASE GiveUp(c)
    BY <1>8, ClientAssumption
    DEF GiveUp, Return, Goto, ChannelTypes, channelVars, ClientTypes, ClientTypeOK, None
  <1>9. CASE Close(c)
    <2>1. /\ clientEnd' \in [Conns -> BOOLEAN] /\ outbox' \in [Conns -> Seq(Responses)]
      BY <1>9, ClosedTypes DEF Close
    <2> QED
      BY <1>9, <2>1 DEF Close, ChannelTypes, ClientTypes, ClientTypeOK
  <1> QED
    BY <1>1, <1>2, <1>3, <1>4, <1>5, <1>6, <1>7, <1>8, <1>9, <1>a

LEMMA CutKept ==
  ASSUME CutMarked, DaemonNext
  PROVE  CutMarked'
  <1>1. ASSUME NEW k \in Conns, HandlerStep(k) \/ Drains(k) PROVE CutMarked'
    BY <1>1 DEF HandlerStep, TakeWarm, TakeNone, Acquire, Started, StartFails,
       ReadRequest, Drains, DrainFails, Answered, RestRead, Unanswered, Ends, Released,
       Kill, CutMarked
  <1>2. CASE (\E s \in Sessions : Crash(s)) \/ Shutdown \/ LoopStops
    BY <1>2 DEF Crash, Shutdown, LoopStops, Kill, CutMarked
  <1> QED
    BY <1>1, <1>2 DEF DaemonNext

AllTypes == ChannelTypes /\ PipeTypes /\ ClientTypes /\ CutMarked

LEMMA AllTypesInit == Init => AllTypes
  <1> SUFFICES ASSUME ConnsInit, DaemonInit, ClientInit PROVE AllTypes
    BY DEF Init
  <1>1. ChannelTypes
    BY DEF ConnsInit, ChannelTypes
  <1>2. PipeTypes
    <2>1. \A s \in Sessions : AfterPreamble(s) \in Seq(Nat)
      BY DEF AfterPreamble, None
    <2> QED
      BY <2>1 DEF DaemonInit, PipeTypes
  <1>3. ClientTypes
    BY ClientAssumption DEF ClientInit, ClientTypes, ClientTypeOK, None
  <1>4. CutMarked
    BY DEF DaemonInit, CutMarked
  <1> QED
    BY <1>1, <1>2, <1>3, <1>4 DEF AllTypes

LEMMA AllTypesStep == IInv /\ AllTypes /\ [Next]_vars => AllTypes'
  <1> SUFFICES ASSUME IInv, AllTypes, [Next]_vars PROVE AllTypes'
    OBVIOUS
  <1>1. CASE DaemonNext /\ UNCHANGED clientVars
    BY <1>1, DaemonTypes, CutKept DEF AllTypes, clientVars, ClientTypes, ClientTypeOK
  <1>2. CASE ClientNext /\ UNCHANGED daemonVars
    BY <1>2, ClientStepTypes DEF AllTypes, daemonVars, handlerVars, PipeTypes, CutMarked
  <1>3. CASE UNCHANGED vars
    BY <1>3 DEF AllTypes, vars, channelVars, daemonVars, clientVars, handlerVars,
       ChannelTypes, PipeTypes, ClientTypes, ClientTypeOK, CutMarked
  <1> QED
    BY <1>1, <1>2, <1>3 DEF Next

\* What the run checks of the daemon and its clients, for any of them: the types, the
\* permits, the limit on the processes, the sessions dedicated.
THEOREM DaemonHolds == Spec => []DaemonInv
  <1>1. IInv /\ AllTypes => TypeOK
    <2> SUFFICES ASSUME IInv, AllTypes PROVE TypeOK
      OBVIOUS
    <2>1. ConnsTypeOK
      <3>1. \A k \in Conns : inbox[k] \in Seq(Requests) /\ outbox[k] \in Seq(Responses)
        BY DEF AllTypes, ChannelTypes
      <3>2. \A k \in Conns : \A i \in 1..Len(inbox[k]) : inbox[k][i] \in Nat \ {0}
        BY <3>1, EntryTypes DEF Requests
      <3>3. \A k \in Conns : \A i \in 1..Len(outbox[k]) : outbox[k][i].of \in Nat
        <4> TAKE k \in Conns
        <4> TAKE i \in 1..Len(outbox[k])
        <4>1. outbox[k][i] \in Responses
          BY <3>1, EntryTypes
        <4> QED
          BY <4>1 DEF Responses, Rest, Response, None
      <3> QED
        BY <3>2, <3>3 DEF AllTypes, ChannelTypes, ConnsTypeOK
    <2>2. permits \in 0..MaxConcurrent
      BY PermittedFinite, DaemonAssumption DEF IInv, Types, PermitsAccounted
    <2>3. DaemonTypeOK
      BY <2>2 DEF IInv, Types, DaemonTypeOK, AllTypes, CutMarked
    <2> QED
      BY <2>1, <2>3 DEF TypeOK, AllTypes, ClientTypes
  <1>2. Spec => []AllTypes
    BY AllTypesInit, AllTypesStep, Inductive, PTL DEF Spec
  <1>3. TypeOK /\ PermitsAccounted /\ ProcessesLimited /\ SessionsDedicated => DaemonInv
    BY DEF DaemonInv
  <1> QED
    BY <1>1, <1>2, <1>3, Inductive, PermitsHold, DedicatedHolds, LimitHolds, PTL

-----------------------------------------------------------------------------
(* Requests and answers: what is on its way between a client and the REPL   *)
(* process of its connection.                                               *)

\* A connection that was not made is untouched; each client has connections of its own.
LinksOwn ==
  /\ \A k \in Conns : k > dialed => /\ inbox[k] = <<>> /\ handler[k] = "new"
                                    /\ ~clientEnd[k] /\ ~daemonEnd[k]
  /\ \A c \in Clients : link[c] <= dialed
  /\ \A c, d \in Clients : link[c] = link[d] /\ link[c] # None => c = d

\* Nothing is written to an end that is closed, or before there is a session.
EndsClosed ==
  /\ \A k \in Conns : ~clientEnd[k] \/ handler[k] \in {"new", "acquiring", "starting"}
                        => outbox[k] = <<>>
  /\ \A k \in Conns : ~daemonEnd[k] => inbox[k] = <<>>

\* A session on which nothing timed out has been sent the request of its handler, or none.
PipesShort ==
  /\ slipped \subseteq Sessions
  /\ \A s \in Sessions \ slipped :
       pipe[s] # <<>> => /\ s \in running
                         /\ \E k \in Conns : handler[k] \in Waiting /\ session[k] = s
  /\ \A k \in Conns : handler[k] \in Waiting /\ session[k] \in running \ slipped
                        => \E m \in Nat \ {0} : pipe[session[k]] = <<m>>

\* Nobody gave up on the connection of client c, nor on a request of its session.
InStep(c) ==
  /\ link[c] # None /\ clientEnd[link[c]]
  /\ link[c] \notin gaveUp /\ session[link[c]] \notin slipped

\* Then what is on its way is the request the client waits for, or the answer to it: on
\* the wire, with the REPL, or on the wire back.
OneInFlight(c) ==
  LET k == link[c]
  IN /\ inbox[k] = <<>> \/ (inbox[k] = <<mine[c]>> /\ outbox[k] = <<>>)
     /\ \/ outbox[k] = <<>>
        \/ \E r \in Responses : outbox[k] = <<r>> /\ (r.kind = "answer" => r.of = mine[c])
     /\ inbox[k] # <<>> => call[c] = "wait"
     /\ outbox[k] # <<>> => call[c] = "wait" \/ (~daemonEnd[k] /\ outbox[k] = <<Refusal>>)
     /\ daemonEnd[k] /\ handler[k] \in Waiting =>
          /\ call[c] = "wait" /\ inbox[k] = <<>> /\ outbox[k] = <<>>
          /\ session[k] \in running => pipe[session[k]] = <<mine[c]>>

FlightInv ==
  /\ LinksOwn /\ EndsClosed /\ PipesShort
  /\ \A c \in Clients : InStep(c) => OneInFlight(c)

-----------------------------------------------------------------------------
(* The steps of one handler.                                                *)

\* What a step of the handler of connection k leaves to the other handlers.
Beside(k) ==
  /\ UNCHANGED <<clientVars, clientEnd, dialed>>
  /\ \A j \in Conns \ {k} : /\ inbox'[j] = inbox[j] /\ outbox'[j] = outbox[j]
                            /\ daemonEnd'[j] = daemonEnd[j]
                            /\ handler'[j] = handler[j] /\ session'[j] = session[j]
  /\ slipped \subseteq slipped' /\ slipped' \subseteq Sessions
  /\ \A j \in Conns \ {k} : handler[j] \in Waiting /\ session[j] \in running' =>
       session[j] \in running /\ pipe'[session[j]] = pipe[session[j]]

\* What was in step after it was in step before it.
LEMMA InStepBefore ==
  ASSUME FlightInv, NEW k \in Conns, Beside(k), session[k] # None => session'[k] = session[k],
         NEW c \in Clients, ClientTypes, InStep(c)'
  PROVE  InStep(c)
  <1>1. link' = link /\ gaveUp' = gaveUp /\ clientEnd' = clientEnd
    BY DEF Beside, clientVars
  <1>2. link[c] \in Conns
    BY <1>1 DEF InStep, ClientTypes, ClientTypeOK
  <1>3. session[link[c]] \notin slipped
    <2>1. CASE session[link[c]] = None
      BY <2>1 DEF FlightInv, PipesShort, Sessions, None
    <2>2. CASE session[link[c]] # None
      <3>1. session'[link[c]] = session[link[c]]
        BY <1>2, <2>2 DEF Beside
      <3> QED
        BY <1>1, <3>1 DEF InStep, Beside
    <2> QED
      BY <2>1, <2>2
  <1> QED
    BY <1>1, <1>3 DEF InStep

LEMMA OthersInFlight ==
  ASSUME FlightInv, NEW k \in Conns, Beside(k), session[k] # None => session'[k] = session[k],
         NEW c \in Clients, ClientTypes, InStep(c)', link[c] # k
  PROVE  OneInFlight(c)'
  <1>1. /\ link' = link /\ call' = call /\ mine' = mine
    BY DEF Beside, clientVars
  <1>2. link[c] \in Conns \ {k}
    BY <1>1 DEF InStep, ClientTypes, ClientTypeOK
  <1>3. OneInFlight(c)
    BY InStepBefore DEF FlightInv
  <1>4. /\ inbox'[link[c]] = inbox[link[c]] /\ outbox'[link[c]] = outbox[link[c]]
        /\ daemonEnd'[link[c]] = daemonEnd[link[c]]
        /\ handler'[link[c]] = handler[link[c]] /\ session'[link[c]] = session[link[c]]
        /\ handler[link[c]] \in Waiting /\ session[link[c]] \in running' =>
             /\ session[link[c]] \in running
             /\ pipe'[session[link[c]]] = pipe[session[link[c]]]
    BY <1>2 DEF Beside
  <1> QED
    BY <1>1, <1>3, <1>4 DEF OneInFlight

LEMMA HandlerFlight ==
  ASSUME FlightInv, ClientTypes, NEW k \in Conns, Beside(k), daemonEnd[k],
         session[k] # None => session'[k] = session[k],
         ~clientEnd[k] \/ handler'[k] \in {"new", "acquiring", "starting"}
           => outbox'[k] = <<>>,
         ~daemonEnd'[k] => inbox'[k] = <<>>,
         PipesShort',
         \A c \in Clients : link[c] = k /\ InStep(c)' => OneInFlight(c)'
  PROVE  FlightInv'
  <1>1. link' = link /\ dialed' = dialed /\ clientEnd' = clientEnd
    BY DEF Beside, clientVars
  <1>2. ~(k > dialed)
    BY DEF FlightInv, LinksOwn
  <1>3. LinksOwn'
    BY <1>1, <1>2 DEF FlightInv, LinksOwn, Beside
  <1>4. EndsClosed'
    BY <1>1 DEF FlightInv, EndsClosed, Beside
  <1>5. \A c \in Clients : InStep(c)' => OneInFlight(c)'
    BY OthersInFlight
  <1> QED
    BY <1>3, <1>4, <1>5 DEF FlightInv

\* A handler that does not wait for its process leaves the pipes as short as they were.
LEMMA ShortKept ==
  ASSUME FlightInv, NEW k \in Conns, Beside(k), pipe' = pipe, running \subseteq running',
         handler'[k] \notin Waiting,
         handler[k] \in Waiting => session[k] \in slipped' \/ session[k] \notin running
  PROVE  PipesShort'
  <1>1. slipped' \subseteq Sessions /\ slipped \subseteq slipped'
    BY DEF Beside
  <1>2. \A s \in Sessions \ slipped' :
          pipe'[s] # <<>> => /\ s \in running'
                             /\ \E j \in Conns : handler'[j] \in Waiting /\ session'[j] = s
    <2> SUFFICES ASSUME NEW s \in Sessions \ slipped', pipe[s] # <<>>
                 PROVE  /\ s \in running'
                        /\ \E j \in Conns : handler'[j] \in Waiting /\ session'[j] = s
      OBVIOUS
    <2>1. s \in running /\ \E j \in Conns : handler[j] \in Waiting /\ session[j] = s
      BY <1>1 DEF FlightInv, PipesShort
    <2>2. PICK j \in Conns : handler[j] \in Waiting /\ session[j] = s
      BY <2>1
    <2>3. j # k
      BY <2>1, <2>2
    <2> QED
      BY <2>1, <2>2, <2>3 DEF Beside
  <1>3. \A j \in Conns : handler'[j] \in Waiting /\ session'[j] \in running' \ slipped'
                           => \E m \in Nat \ {0} : pipe'[session'[j]] = <<m>>
    BY <1>1 DEF Beside, FlightInv, PipesShort
  <1> QED
    BY <1>1, <1>2, <1>3 DEF PipesShort

\* A handler that has not begun with the requests of its client.
LEMMA BeginsInFlight ==
  ASSUME FlightInv, ClientTypes, NEW k \in Conns, Beside(k),
         handler[k] \in {"new", "acquiring", "starting"}, handler'[k] \notin Waiting,
         session[k] # None => session'[k] = session[k],
         inbox'[k] = inbox[k], outbox'[k] = outbox[k], daemonEnd'[k] = daemonEnd[k]
  PROVE  \A c \in Clients : link[c] = k /\ InStep(c)' => OneInFlight(c)'
  <1> SUFFICES ASSUME NEW c \in Clients, link[c] = k, InStep(c)' PROVE OneInFlight(c)'
    OBVIOUS
  <1>1. OneInFlight(c)
    BY InStepBefore DEF FlightInv
  <1>2. link' = link /\ call' = call /\ mine' = mine
    BY DEF Beside, clientVars
  <1> QED
    BY <1>1, <1>2 DEF OneInFlight

\* A step that only the handler of k, its session and the pool know of.
LEMMA PoolStepFlight ==
  ASSUME IInv, FlightInv, ClientTypes, NEW k \in Conns,
         TakeWarm(k) \/ TakeNone(k) \/ Acquire(k) \/ Started(k), UNCHANGED clientVars
  PROVE  FlightInv'
  <1>1. UNCHANGED <<channelVars, pipe, slipped>> /\ daemonEnd[k]
    BY DEF TakeWarm, TakeNone, Acquire, Started
  <1>2. /\ handler[k] \in {"new", "acquiring", "starting"}
        /\ handler'[k] \in {"acquiring", "starting", "reading"}
        /\ \A j \in Conns \ {k} : handler'[j] = handler[j] /\ session'[j] = session[j]
    BY DEF TakeWarm, TakeNone, Acquire, Started, HandlerAt, IInv, Types
  <1>3. session[k] # None => session'[k] = session[k]
    BY DEF TakeWarm, TakeNone, Acquire, Started, IInv, Owners
  <1>4. running' = running \/ (handler[k] = "starting" /\ running' = running \cup {session[k]})
    BY DEF TakeWarm, TakeNone, Acquire, Started
  <1>5. \A j \in Conns \ {k} : handler[j] \in Waiting /\ session[j] \in running'
                                 => session[j] \in running
    BY <1>4 DEF IInv, Owners, SessionsDedicated, Holds
  <1>6. Beside(k)
    BY <1>1, <1>2, <1>5 DEF Beside, channelVars, FlightInv, PipesShort
  <1>7. PipesShort'
    BY <1>1, <1>2, <1>4, <1>6, ShortKept
  <1>8. \A c \in Clients : link[c] = k /\ InStep(c)' => OneInFlight(c)'
    BY <1>1, <1>2, <1>3, <1>6, BeginsInFlight DEF channelVars
  <1>9. outbox'[k] = <<>>
    BY <1>1, <1>2 DEF FlightInv, EndsClosed, channelVars
  <1> QED
    BY <1>1, <1>3, <1>6, <1>7, <1>8, <1>9, HandlerFlight DEF channelVars

LEMMA StartFailsFlight ==
  ASSUME IInv, ChannelTypes, FlightInv, ClientTypes, NEW k \in Conns, StartFails(k),
         UNCHANGED clientVars
  PROVE  FlightInv'
  <1>1. /\ handler[k] = "starting" /\ daemonEnd[k] /\ handler'[k] = "done"
        /\ \A j \in Conns \ {k} : handler'[j] = handler[j]
        /\ UNCHANGED <<dialed, clientEnd, session, running, pipe, slipped>>
    BY DEF StartFails, HandlerAt, IInv, Types
  <1>2. /\ ~daemonEnd'[k] /\ inbox'[k] = <<>>
        /\ \A j \in Conns \ {k} : daemonEnd'[j] = daemonEnd[j] /\ inbox'[j] = inbox[j]
    BY DEF StartFails, Hangup, ChannelTypes
  <1>3. outbox[k] = <<>>
    BY <1>1 DEF FlightInv, EndsClosed
  <1>4. /\ outbox'[k] = IF clientEnd[k] THEN <<Refusal>> ELSE <<>>
        /\ \A j \in Conns \ {k} : outbox'[j] = outbox[j]
    BY <1>3 DEF StartFails, Respond, ChannelTypes
  <1>5. Beside(k)
    BY <1>1, <1>2, <1>4 DEF Beside, FlightInv, PipesShort
  <1>6. PipesShort'
    BY <1>1, <1>5, ShortKept
  <1>7. \A c \in Clients : link[c] = k /\ InStep(c)' => OneInFlight(c)'
    <2> SUFFICES ASSUME NEW c \in Clients, link[c] = k PROVE OneInFlight(c)'
      OBVIOUS
    <2>1. link' = link
      BY DEF clientVars
    <2>2. Refusal \in Responses /\ Refusal.kind # "answer"
      BY ResponseTypes DEF Refusal, Response
    <2>3. \E r \in Responses : <<Refusal>> = <<r>> /\ r.kind # "answer"
      BY <2>2
    <2> QED
      BY <1>1, <1>2, <1>4, <2>1, <2>3 DEF OneInFlight
  <1> QED
    BY <1>1, <1>2, <1>4, <1>5, <1>6, <1>7, HandlerFlight

\* The response to a request of which nothing else is on its way.
LEMMA RespondFlight ==
  ASSUME IInv, ChannelTypes, FlightInv, ClientTypes, NEW k \in Conns, Beside(k),
         daemonEnd[k], UNCHANGED <<daemonEnd, session>>,
         handler'[k] = "reading", PipesShort',
         NEW r \in Responses, Respond(k, r),
         \A c \in Clients : link[c] = k /\ InStep(c)' =>
           /\ outbox[k] = <<>> /\ call[c] = "wait" /\ inbox'[k] = <<>>
           /\ r.kind = "answer" => r.of = mine[c]
  PROVE  FlightInv'
  <1>1. link' = link /\ call' = call /\ mine' = mine /\ clientEnd' = clientEnd
    BY DEF Beside, clientVars
  <1>2. ~clientEnd[k] => outbox'[k] = <<>>
    BY DEF Respond, ChannelTypes, FlightInv, EndsClosed
  <1>3. \A c \in Clients : link[c] = k /\ InStep(c)' => OneInFlight(c)'
    <2> SUFFICES ASSUME NEW c \in Clients, link[c] = k, InStep(c)' PROVE OneInFlight(c)'
      OBVIOUS
    <2>1. /\ outbox[k] = <<>> /\ call[c] = "wait" /\ inbox'[k] = <<>>
          /\ r.kind = "answer" => r.of = mine[c]
      OBVIOUS
    <2>2. Append(<<>>, r) = <<r>>
      OBVIOUS
    <2>3. outbox' = [outbox EXCEPT
                       ![k] = IF clientEnd[k] THEN Append(outbox[k], r) ELSE outbox[k]]
      BY DEF Respond
    <2>4. outbox'[k] = IF clientEnd[k] THEN Append(outbox[k], r) ELSE outbox[k]
      BY <2>3 DEF ChannelTypes
    <2>5. outbox'[k] = <<r>> \/ outbox'[k] = <<>>
      BY <2>1, <2>2, <2>4
    <2> QED
      BY <1>1, <2>1, <2>5 DEF OneInFlight
  <1> QED
    BY <1>2, <1>3, HandlerFlight

\* A request is read, and written to a process that waits for none or found to have none.
LEMMA ReadRequestFlight ==
  ASSUME IInv, ChannelTypes, PipeTypes, FlightInv, ClientTypes, NEW k \in Conns,
         ReadRequest(k), UNCHANGED clientVars
  PROVE  FlightInv'
  <1> DEFINE s == session[k]
             n == Head(inbox[k])
  <1>1. /\ handler[k] = "reading" /\ daemonEnd[k] /\ inbox[k] # <<>>
        /\ UNCHANGED <<dialed, clientEnd, daemonEnd, session, running, slipped>>
        /\ inbox' = [inbox EXCEPT ![k] = Tail(@)]
    BY DEF ReadRequest
  <1>2. /\ inbox'[k] = Tail(inbox[k]) /\ \A j \in Conns \ {k} : inbox'[j] = inbox[j]
        /\ inbox[k] \in Seq(Requests) /\ n \in Requests
    BY <1>1, TailTypes DEF ChannelTypes
  <1>3. s # None /\ \A j \in Conns \ {k} : Holds(j) => session[j] # s
    BY <1>1 DEF IInv, Owners, SessionsDedicated, Holds
  <1>4. \A j \in Conns \ {k} : handler[j] \in Waiting => session[j] # s
    BY <1>3 DEF IInv, Owners, Holds
  <1>5. s \notin slipped /\ s \in Sessions => pipe[s] = <<>>
    BY <1>1, <1>4 DEF FlightInv, PipesShort
  <1>6. ASSUME NEW c \in Clients, link[c] = k, InStep(c), OneInFlight(c)
        PROVE  /\ outbox[k] = <<>> /\ call[c] = "wait" /\ n = mine[c]
               /\ Tail(inbox[k]) = <<>> /\ s \notin slipped
    <2>1. inbox[k] = <<mine[c]>> /\ outbox[k] = <<>> /\ call[c] = "wait"
      BY <1>1, <1>6 DEF OneInFlight
    <2>2. s \notin slipped
      BY <1>6 DEF InStep
    <2>3. Head(<<mine[c]>>) = mine[c] /\ Tail(<<mine[c]>>) = <<>>
      OBVIOUS
    <2> QED
      BY <2>1, <2>2, <2>3
  <1>7. CASE s \in running
    <2>1. /\ pipe' = [pipe EXCEPT ![s] = Append(@, n)] 
          /\ HandlerAt(k, "sending") \/ HandlerAt(k, "draining")
          /\ UNCHANGED outbox
      BY <1>7 DEF ReadRequest
    <2>2. s \in Sessions
      BY <1>7, RunningSessions
    <2>3. /\ handler'[k] \in Waiting
          /\ \A j \in Conns \ {k} : handler'[j] = handler[j]
      BY <2>1 DEF HandlerAt, IInv, Types
    <2>4. /\ pipe'[s] = Append(pipe[s], n)
          /\ \A x \in Sessions \ {s} : pipe'[x] = pipe[x]
      BY <2>1, <2>2 DEF PipeTypes
    <2>5. s \notin slipped => pipe'[s] = <<n>>
      <3>1. Append(<<>>, n) = <<n>>
        BY <1>2
      <3> QED
        BY <1>5, <2>2, <2>4, <3>1
    <2>6. running \subseteq Sessions
      BY RunningSessions
    <2>7. Beside(k)
      BY <1>1, <1>2, <1>4, <2>1, <2>3, <2>4, <2>6 DEF Beside, FlightInv, PipesShort
    <2>8. PipesShort'
      <3>1. \A x \in Sessions \ slipped :
              pipe'[x] # <<>> =>
                /\ x \in running
                /\ \E j \in Conns : handler'[j] \in Waiting /\ session[j] = x
        <4> SUFFICES ASSUME NEW x \in Sessions \ slipped, pipe'[x] # <<>>, x # s
                     PROVE  /\ x \in running
                            /\ \E j \in Conns : handler'[j] \in Waiting /\ session[j] = x
          BY <1>7, <2>3
        <4>1. /\ x \in running
              /\ \E j \in Conns : handler[j] \in Waiting /\ session[j] = x
          BY <2>4 DEF FlightInv, PipesShort
        <4>2. PICK j \in Conns : handler[j] \in Waiting /\ session[j] = x
          BY <4>1
        <4> QED
          BY <4>1, <4>2, <2>3
      <3>2. \A j \in Conns : handler'[j] \in Waiting /\ session[j] \in running \ slipped
                               => \E m \in Nat \ {0} : pipe'[session[j]] = <<m>>
        <4> SUFFICES ASSUME NEW j \in Conns, handler'[j] \in Waiting,
                            session[j] \in running \ slipped
                     PROVE  \E m \in Nat \ {0} : pipe'[session[j]] = <<m>>
          OBVIOUS
        <4>1. CASE j = k
          BY <4>1, <1>2, <2>5 DEF Requests
        <4>2. CASE j # k
          <5>1. handler[j] \in Waiting /\ session[j] \in Sessions \ {s}
            BY <4>2, <1>4, <2>3, <2>6
          <5>2. pipe'[session[j]] = pipe[session[j]]
            BY <2>4, <5>1
          <5> QED
            BY <5>1, <5>2 DEF FlightInv, PipesShort
        <4> QED
          BY <4>1, <4>2
      <3> QED
        BY <1>1, <3>1, <3>2 DEF FlightInv, PipesShort
    <2>9. \A c \in Clients : link[c] = k /\ InStep(c)' => OneInFlight(c)'
      <3> SUFFICES ASSUME NEW c \in Clients, link[c] = k, InStep(c)' PROVE OneInFlight(c)'
        OBVIOUS
      <3>1. InStep(c) /\ OneInFlight(c)
        BY <1>1, <2>7, InStepBefore DEF FlightInv
      <3>2. link' = link /\ call' = call /\ mine' = mine
        BY DEF clientVars
      <3> QED
        BY <1>1, <1>2, <1>6, <2>1, <2>3, <2>5, <3>1, <3>2 DEF OneInFlight
    <2>10. ~clientEnd[k] => outbox'[k] = <<>>
      BY <2>1 DEF FlightInv, EndsClosed
    <2> QED
      BY <1>1, <2>3, <2>7, <2>8, <2>9, <2>10, HandlerFlight
  <1>8. CASE s \notin running
    <2>1. Respond(k, Failure) /\ UNCHANGED <<pipe, handler>>
      BY <1>8 DEF ReadRequest
    <2>2. \A j \in Conns \ {k} : outbox'[j] = outbox[j]
      BY <2>1 DEF Respond, ChannelTypes
    <2>3. Beside(k)
      BY <1>1, <1>2, <2>1, <2>2 DEF Beside, FlightInv, PipesShort
    <2>4. PipesShort'
      BY <1>1, <2>1, <2>3, ShortKept
    <2>5. \A c \in Clients : link[c] = k /\ InStep(c)' =>
            /\ outbox[k] = <<>> /\ call[c] = "wait" /\ inbox'[k] = <<>>
            /\ Failure.kind = "answer" => Failure.of = mine[c]
      <3> SUFFICES ASSUME NEW c \in Clients, link[c] = k, InStep(c)'
                   PROVE  outbox[k] = <<>> /\ call[c] = "wait" /\ inbox'[k] = <<>>
        BY DEF Failure, Response
      <3>1. InStep(c) /\ OneInFlight(c)
        BY <1>1, <2>3, InStepBefore DEF FlightInv
      <3> QED
        BY <1>2, <1>6, <3>1
    <2> QED
      BY <1>1, <2>1, <2>3, <2>4, <2>5, ResponseTypes, RespondFlight
  <1> QED
    BY <1>7, <1>8

\* The answer of a process that nothing timed out on is the answer to the request.
LEMMA AnsweredFlight ==
  ASSUME IInv, ChannelTypes, PipeTypes, FlightInv, ClientTypes, NEW k \in Conns,
         Answered(k), UNCHANGED clientVars
  PROVE  FlightInv'
  <1> DEFINE s == session[k]
  <1>1. /\ handler[k] \in Waiting /\ daemonEnd[k] /\ s \in running
        /\ UNCHANGED <<dialed, clientEnd, daemonEnd, inbox, session, running>>
        /\ slipped' = slipped \/ slipped' = slipped \cup {s}
        /\ pipe' = [pipe EXCEPT ![s] = Tail(@)] /\ HandlerAt(k, "reading")
    BY DEF Answered
  <1>2. s \in Sessions /\ s # None /\ running \subseteq Sessions
    BY <1>1, RunningSessions DEF Sessions, None
  <1>3. /\ handler'[k] = "reading"
        /\ \A j \in Conns \ {k} : handler'[j] = handler[j]
    BY <1>1 DEF HandlerAt, IInv, Types
  <1>4. \A j \in Conns \ {k} : handler[j] \in Waiting => session[j] # s
    BY <1>1 DEF IInv, Owners, SessionsDedicated, Holds
  <1>5. pipe'[s] = Tail(pipe[s]) /\ \A x \in Sessions \ {s} : pipe'[x] = pipe[x]
    BY <1>1, <1>2 DEF PipeTypes
  <1>6. PICK r \in Responses : /\ Respond(k, r)
                               /\ r.kind = "answer" => r.of = Head(pipe[s])
    <2>1. Head(pipe[s]) \in Nat
      BY <1>1, <1>2, TailTypes DEF PipeTypes
    <2>2. CASE Respond(k, Response("answer", Head(pipe[s])))
      <3>1. Response("answer", Head(pipe[s])) \in Responses
        BY <2>1, ResponseTypes
      <3>2. Response("answer", Head(pipe[s])).of = Head(pipe[s])
        BY DEF Response
      <3> QED
        BY <2>2, <3>1, <3>2
    <2>3. CASE Respond(k, Failure)
      <3>1. Failure \in Responses /\ Failure.kind # "answer"
        BY ResponseTypes DEF Failure, Response
      <3> QED
        BY <2>3, <3>1
    <2> QED
      BY <2>2, <2>3 DEF Answered
  <1>7. \A j \in Conns \ {k} : outbox'[j] = outbox[j]
    BY <1>6 DEF Respond, ChannelTypes
  <1>8. Beside(k)
    BY <1>1, <1>2, <1>3, <1>4, <1>5, <1>7 DEF Beside, FlightInv, PipesShort
  <1>9. PipesShort'
    <2>1. s \notin slipped => pipe'[s] = <<>>
      <3> SUFFICES ASSUME s \notin slipped PROVE pipe'[s] = <<>>
        OBVIOUS
      <3>1. PICK m \in Nat \ {0} : pipe[s] = <<m>>
        BY <1>1 DEF FlightInv, PipesShort
      <3>2. Tail(<<m>>) = <<>>
        OBVIOUS
      <3> QED
        BY <1>5, <3>1, <3>2
    <2>2. \A x \in Sessions \ slipped' :
            pipe'[x] # <<>> => /\ x \in running
                               /\ \E j \in Conns : handler'[j] \in Waiting /\ session[j] = x
      <3> SUFFICES ASSUME NEW x \in Sessions \ slipped, pipe'[x] # <<>>, x # s
                   PROVE  /\ x \in running
                          /\ \E j \in Conns : handler'[j] \in Waiting /\ session[j] = x
        BY <1>1, <2>1
      <3>1. x \in running /\ \E j \in Conns : handler[j] \in Waiting /\ session[j] = x
        BY <1>5 DEF FlightInv, PipesShort
      <3>2. PICK j \in Conns : handler[j] \in Waiting /\ session[j] = x
        BY <3>1
      <3> QED
        BY <3>1, <3>2, <1>3, <1>5
    <2>3. \A j \in Conns : handler'[j] \in Waiting /\ session[j] \in running \ slipped'
                             => \E m \in Nat \ {0} : pipe'[session[j]] = <<m>>
      <3> SUFFICES ASSUME NEW j \in Conns, handler'[j] \in Waiting,
                          session[j] \in running \ slipped'
                   PROVE  \E m \in Nat \ {0} : pipe'[session[j]] = <<m>>
        OBVIOUS
      <3>1. j # k /\ handler[j] \in Waiting /\ session[j] # s
        BY <1>3, <1>4
      <3>2. session[j] \in running \ slipped
        BY <1>1
      <3>3. pipe'[session[j]] = pipe[session[j]]
        BY <1>2, <1>5, <3>1, <3>2
      <3> QED
        BY <3>1, <3>2, <3>3 DEF FlightInv, PipesShort
    <2>4. slipped' \subseteq Sessions
      BY <1>1, <1>2 DEF FlightInv, PipesShort
    <2> QED
      BY <1>1, <2>2, <2>3, <2>4 DEF PipesShort
  <1>10. \A c \in Clients : link[c] = k /\ InStep(c)' =>
           /\ outbox[k] = <<>> /\ call[c] = "wait" /\ inbox'[k] = <<>>
           /\ r.kind = "answer" => r.of = mine[c]
    <2> SUFFICES ASSUME NEW c \in Clients, link[c] = k, InStep(c)'
                 PROVE  /\ outbox[k] = <<>> /\ call[c] = "wait" /\ inbox'[k] = <<>>
                        /\ r.kind = "answer" => r.of = mine[c]
      OBVIOUS
    <2>1. OneInFlight(c)
      BY <1>1, <1>8, InStepBefore DEF FlightInv
    <2>2. /\ call[c] = "wait" /\ inbox[k] = <<>> /\ outbox[k] = <<>>
          /\ pipe[s] = <<mine[c]>>
      BY <1>1, <2>1 DEF OneInFlight
    <2>3. Head(<<mine[c]>>) = mine[c]
      OBVIOUS
    <2> QED
      BY <1>1, <1>6, <2>2, <2>3
  <1> QED
    BY <1>1, <1>3, <1>6, <1>8, <1>9, <1>10, RespondFlight

\* The request's time limit ends it, or what comes is the rest of a line.
LEMMA UnansweredFlight ==
  ASSUME IInv, ChannelTypes, CutMarked, FlightInv, ClientTypes, NEW k \in Conns,
         Unanswered(k) \/ RestRead(k), UNCHANGED clientVars
  PROVE  FlightInv'
  <1>1. /\ handler[k] \in Waiting /\ daemonEnd[k] /\ Respond(k, Failure)
        /\ slipped' = slipped \cup {session[k]}
        /\ handler'[k] = "reading" /\ \A j \in Conns \ {k} : handler'[j] = handler[j]
        /\ UNCHANGED <<dialed, clientEnd, daemonEnd, inbox, session, running, pipe>>
    BY DEF Unanswered, RestRead, CutMarked, HandlerAt, IInv, Types
  <1>2. session[k] \in Sessions
    BY <1>1 DEF IInv, Owners, Types
  <1>3. \A j \in Conns \ {k} : outbox'[j] = outbox[j]
    BY <1>1 DEF Respond, ChannelTypes
  <1>4. Beside(k)
    BY <1>1, <1>2, <1>3 DEF Beside, FlightInv, PipesShort
  <1>5. PipesShort'
    BY <1>1, <1>4, ShortKept
  <1>6. \A c \in Clients : link[c] = k => ~InStep(c)'
    BY <1>1 DEF InStep, clientVars
  <1> QED
    BY <1>1, <1>4, <1>5, <1>6, ResponseTypes, RespondFlight

\* The process ended while drain() waited: its pipe has gone.
LEMMA DrainFailsFlight ==
  ASSUME IInv, ChannelTypes, FlightInv, ClientTypes, NEW k \in Conns, DrainFails(k),
         UNCHANGED clientVars
  PROVE  FlightInv'
  <1>1. /\ handler[k] \in Waiting /\ daemonEnd[k] /\ Respond(k, Failure)
        /\ session[k] \notin running
        /\ handler'[k] = "reading" /\ \A j \in Conns \ {k} : handler'[j] = handler[j]
        /\ UNCHANGED <<dialed, clientEnd, daemonEnd, inbox, session, running, pipe, slipped>>
    BY DEF DrainFails, HandlerAt, IInv, Types
  <1>2. \A j \in Conns \ {k} : outbox'[j] = outbox[j]
    BY <1>1 DEF Respond, ChannelTypes
  <1>3. Beside(k)
    BY <1>1, <1>2 DEF Beside, FlightInv, PipesShort
  <1>4. PipesShort'
    BY <1>1, <1>3, ShortKept
  <1>5. \A c \in Clients : link[c] = k /\ InStep(c)' =>
          /\ outbox[k] = <<>> /\ call[c] = "wait" /\ inbox'[k] = <<>>
          /\ Failure.kind = "answer" => Failure.of = mine[c]
    <2> SUFFICES ASSUME NEW c \in Clients, link[c] = k, InStep(c)'
                 PROVE  outbox[k] = <<>> /\ call[c] = "wait" /\ inbox'[k] = <<>>
      BY DEF Failure, Response
    <2>1. OneInFlight(c)
      BY <1>1, <1>3, InStepBefore DEF FlightInv
    <2> QED
      BY <1>1, <2>1 DEF OneInFlight
  <1> QED
    BY <1>1, <1>3, <1>4, <1>5, ResponseTypes, RespondFlight

\* The process read its input, and the handler waits for the answer.
LEMMA DrainsFlight ==
  ASSUME IInv, ChannelTypes, FlightInv, ClientTypes, NEW k \in Conns, Drains(k),
         UNCHANGED clientVars
  PROVE  FlightInv'
  <1>1. /\ handler[k] \in Waiting /\ daemonEnd[k] /\ handler'[k] \in Waiting
        /\ \A j \in Conns \ {k} : handler'[j] = handler[j]
        /\ UNCHANGED <<channelVars, session, running, pipe, slipped>>
    BY DEF Drains, HandlerAt, IInv, Types
  <1>2. Beside(k)
    BY <1>1 DEF Beside, channelVars, FlightInv, PipesShort
  <1>3. PipesShort'
    BY <1>1 DEF FlightInv, PipesShort
  <1>4. \A c \in Clients : link[c] = k /\ InStep(c)' => OneInFlight(c)'
    <2> SUFFICES ASSUME NEW c \in Clients, link[c] = k, InStep(c)' PROVE OneInFlight(c)'
      OBVIOUS
    <2>1. OneInFlight(c)
      BY <1>1, <1>2, InStepBefore DEF FlightInv
    <2>2. link' = link /\ call' = call /\ mine' = mine
      BY DEF clientVars
    <2> QED
      BY <1>1, <2>1, <2>2 DEF OneInFlight, channelVars
  <1>5. ~clientEnd[k] \/ handler'[k] \in {"new", "acquiring", "starting"} => outbox'[k] = <<>>
    BY <1>1 DEF FlightInv, EndsClosed, channelVars
  <1> QED
    BY <1>1, <1>2, <1>3, <1>4, <1>5, HandlerFlight DEF channelVars

\* The end of the handler, of its process and of its connection.
LEMMA EndsFlight ==
  ASSUME IInv, ChannelTypes, PipeTypes, FlightInv, ClientTypes, NEW k \in Conns,
         Ends(k), UNCHANGED clientVars
  PROVE  FlightInv'
  <1>1. /\ handler[k] = "reading" /\ daemonEnd[k]
        /\ Kill({session[k]}) /\ UNCHANGED <<channelVars, session, slipped>>
        /\ handler'[k] = "releasing" /\ \A j \in Conns \ {k} : handler'[j] = handler[j]
    BY DEF Ends, HandlerAt, IInv, Types
  <1>2. /\ running' = running \ {session[k]}
        /\ \A s \in Sessions \ {session[k]} : pipe'[s] = pipe[s]
        /\ session[k] \in Sessions => pipe'[session[k]] = <<>>
    BY <1>1 DEF Kill
  <1>3. running \subseteq Sessions
    BY RunningSessions
  <1>4. Beside(k)
    BY <1>1, <1>2, <1>3 DEF Beside, channelVars, FlightInv, PipesShort
  <1>5. PipesShort'
    <2>1. \A x \in Sessions \ slipped :
            pipe'[x] # <<>> => /\ x \in running'
                               /\ \E j \in Conns : handler'[j] \in Waiting /\ session[j] = x
      <3> SUFFICES ASSUME NEW x \in Sessions \ slipped, pipe'[x] # <<>>
                   PROVE  /\ x \in running'
                          /\ \E j \in Conns : handler'[j] \in Waiting /\ session[j] = x
        OBVIOUS
      <3>1. pipe[x] # <<>> /\ x # session[k]
        BY <1>2
      <3>2. x \in running /\ \E j \in Conns : handler[j] \in Waiting /\ session[j] = x
        BY <3>1 DEF FlightInv, PipesShort
      <3>3. PICK j \in Conns : handler[j] \in Waiting /\ session[j] = x
        BY <3>2
      <3> QED
        BY <3>1, <3>2, <3>3, <1>1, <1>2
    <2>2. \A j \in Conns : handler'[j] \in Waiting /\ session[j] \in running' \ slipped
                             => \E m \in Nat \ {0} : pipe'[session[j]] = <<m>>
      BY <1>1, <1>2, <1>3 DEF FlightInv, PipesShort
    <2> QED
      BY <1>1, <2>1, <2>2 DEF FlightInv, PipesShort
  <1>6. \A c \in Clients : link[c] = k /\ InStep(c)' => OneInFlight(c)'
    <2> SUFFICES ASSUME NEW c \in Clients, link[c] = k, InStep(c)' PROVE OneInFlight(c)'
      OBVIOUS
    <2>1. OneInFlight(c)
      BY <1>1, <1>4, InStepBefore DEF FlightInv
    <2>2. link' = link /\ call' = call /\ mine' = mine
      BY DEF clientVars
    <2> QED
      BY <1>1, <2>1, <2>2 DEF OneInFlight, channelVars
  <1>7. ~clientEnd[k] => outbox'[k] = <<>>
    BY <1>1 DEF FlightInv, EndsClosed, channelVars
  <1> QED
    BY <1>1, <1>4, <1>5, <1>6, <1>7, HandlerFlight DEF channelVars

LEMMA ReleasedFlight ==
  ASSUME IInv, ChannelTypes, FlightInv, ClientTypes, NEW k \in Conns, Released(k),
         UNCHANGED clientVars
  PROVE  FlightInv'
  <1>1. /\ handler[k] = "releasing" /\ daemonEnd[k] /\ handler'[k] = "done"
        /\ \A j \in Conns \ {k} : handler'[j] = handler[j]
        /\ UNCHANGED <<dialed, clientEnd, outbox, session, running, pipe, slipped>>
    BY DEF Released, HandlerAt, IInv, Types
  <1>2. /\ ~daemonEnd'[k] /\ inbox'[k] = <<>>
        /\ \A j \in Conns \ {k} : daemonEnd'[j] = daemonEnd[j] /\ inbox'[j] = inbox[j]
    BY DEF Released, Hangup, ChannelTypes
  <1>3. Beside(k)
    BY <1>1, <1>2 DEF Beside, FlightInv, PipesShort
  <1>4. PipesShort'
    BY <1>1, <1>3, ShortKept
  <1>5. \A c \in Clients : link[c] = k /\ InStep(c)' => OneInFlight(c)'
    <2> SUFFICES ASSUME NEW c \in Clients, link[c] = k, InStep(c)' PROVE OneInFlight(c)'
      OBVIOUS
    <2>1. OneInFlight(c)
      BY <1>1, <1>3, InStepBefore DEF FlightInv
    <2>2. link' = link /\ call' = call /\ mine' = mine
      BY DEF clientVars
    <2> QED
      BY <1>1, <1>2, <2>1, <2>2 DEF OneInFlight
  <1>6. ~clientEnd[k] => outbox'[k] = <<>>
    BY <1>1 DEF FlightInv, EndsClosed
  <1> QED
    BY <1>1, <1>2, <1>3, <1>4, <1>5, <1>6, HandlerFlight

\* Processes end: at a crash, at a shutdown, or when the event loop stops.
LEMMA KilledFlight ==
  ASSUME IInv, FlightInv, ClientTypes, NEW ss, Kill(ss),
         UNCHANGED <<clientVars, dialed, clientEnd, outbox, handler, session, slipped>>,
         \A k \in Conns : \/ daemonEnd'[k] = daemonEnd[k] /\ inbox'[k] = inbox[k]
                          \/ ~daemonEnd'[k] /\ inbox'[k] = <<>>
  PROVE  FlightInv'
  <1>1. /\ running' = running \ ss
        /\ \A s \in Sessions : pipe'[s] = IF s \in ss THEN <<>> ELSE pipe[s]
    BY DEF Kill
  <1>2. running \subseteq Sessions
    BY RunningSessions
  <1>3. LinksOwn' /\ EndsClosed'
    BY DEF FlightInv, LinksOwn, EndsClosed, clientVars
  <1>4. PipesShort'
    <2>1. \A x \in Sessions \ slipped :
            pipe'[x] # <<>> => /\ x \in running'
                               /\ \E j \in Conns : handler[j] \in Waiting /\ session[j] = x
      BY <1>1 DEF FlightInv, PipesShort
    <2>2. \A j \in Conns : handler[j] \in Waiting /\ session[j] \in running' \ slipped
                             => \E m \in Nat \ {0} : pipe'[session[j]] = <<m>>
      BY <1>1, <1>2 DEF FlightInv, PipesShort
    <2> QED
      BY <2>1, <2>2 DEF FlightInv, PipesShort
  <1>5. ASSUME NEW c \in Clients, InStep(c)' PROVE OneInFlight(c)'
    <2>1. link' = link /\ call' = call /\ mine' = mine
      BY DEF clientVars
    <2>2. InStep(c) /\ link[c] \in Conns
      BY <1>5 DEF InStep, clientVars, ClientTypes, ClientTypeOK
    <2>3. OneInFlight(c)
      BY <2>2 DEF FlightInv
    <2>4. session[link[c]] \in running' =>
            session[link[c]] \in running /\ pipe'[session[link[c]]] = pipe[session[link[c]]]
      BY <1>1, <1>2
    <2> QED
      BY <2>1, <2>2, <2>3, <2>4 DEF OneInFlight
  <1> QED
    BY <1>3, <1>4, <1>5 DEF FlightInv

LEMMA DaemonFlight ==
  ASSUME IInv, ChannelTypes, PipeTypes, CutMarked, FlightInv, ClientTypes, DaemonNext,
         UNCHANGED clientVars
  PROVE  FlightInv'
  <1>1. ASSUME NEW s \in Sessions, Crash(s) PROVE FlightInv'
    <2>1. /\ Kill({s})
          /\ UNCHANGED <<dialed, clientEnd, daemonEnd, inbox, outbox, handler, session,
                         slipped>>
      BY <1>1 DEF Crash, channelVars, handlerVars
    <2> QED
      BY <2>1, KilledFlight
  <1>2. CASE Shutdown
    <2>1. /\ Kill(listed)
          /\ UNCHANGED <<dialed, clientEnd, daemonEnd, inbox, outbox, handler, session,
                         slipped>>
      BY <1>2 DEF Shutdown, handlerVars
    <2> QED
      BY <2>1, KilledFlight
  <1>3. CASE LoopStops
    <2>1. /\ Kill(running)
          /\ UNCHANGED <<dialed, clientEnd, outbox, handler, session, slipped>>
          /\ \A k \in Conns : ~daemonEnd'[k] /\ inbox'[k] = <<>>
      BY <1>3 DEF LoopStops, handlerVars
    <2> QED
      BY <2>1, KilledFlight
  <1>4. ASSUME NEW k \in Conns, HandlerStep(k) PROVE FlightInv'
    BY <1>4, PoolStepFlight, StartFailsFlight, ReadRequestFlight, AnsweredFlight,
       UnansweredFlight, DrainFailsFlight, EndsFlight, ReleasedFlight DEF HandlerStep
  <1>5. ASSUME NEW k \in Conns, Drains(k) PROVE FlightInv'
    BY <1>5, DrainsFlight
  <1> QED
    BY <1>1, <1>2, <1>3, <1>4, <1>5 DEF DaemonNext

-----------------------------------------------------------------------------
(* The steps of one client.                                                 *)

\* What a step of client c leaves to the daemon and to the other clients.
Apart(c) ==
  /\ UNCHANGED daemonVars
  /\ \A d \in Clients \ {c} : link'[d] = link[d] /\ call'[d] = call[d] /\ mine'[d] = mine[d]
  /\ \A k \in Conns \ {link[c], link'[c]} :
       /\ inbox'[k] = inbox[k] /\ outbox'[k] = outbox[k]
       /\ clientEnd'[k] = clientEnd[k] /\ daemonEnd'[k] = daemonEnd[k]
  /\ gaveUp \subseteq gaveUp'

\* A client that keeps its connection, which was made, and does not open it again.
LEMMA KeepsLink ==
  ASSUME ChannelTypes, FlightInv, ClientTypes, NEW c \in Clients, Apart(c),
         link'[c] = link[c], dialed' = dialed,
         link[c] \in Conns =>
           /\ daemonEnd'[link[c]] = daemonEnd[link[c]]
           /\ clientEnd'[link[c]] => clientEnd[link[c]]
           /\ ~clientEnd'[link[c]] \/ handler[link[c]] \in {"new", "acquiring", "starting"}
                => outbox'[link[c]] = <<>>
           /\ ~daemonEnd[link[c]] => inbox'[link[c]] = <<>>,
         InStep(c)' => OneInFlight(c)'
  PROVE  FlightInv'
  <1>1. /\ UNCHANGED <<handler, session, running, pipe, slipped>>
        /\ \A d \in Clients : link'[d] = link[d] /\ link[d] \in Conns \cup {None}
    BY DEF Apart, daemonVars, handlerVars, ClientTypes, ClientTypeOK
  <1>2. \A k \in Conns : link[c] = k => k <= dialed
    BY DEF FlightInv, LinksOwn
  <1>3. LinksOwn'
    <2>1. \A k \in Conns : k > dialed => k # link[c]
      BY <1>2, ConnsAssumption DEF ChannelTypes
    <2> QED
      BY <1>1, <2>1 DEF FlightInv, LinksOwn, Apart
  <1>4. EndsClosed'
    BY <1>1 DEF FlightInv, EndsClosed, Apart
  <1>5. PipesShort'
    BY <1>1 DEF FlightInv, PipesShort
  <1>6. ASSUME NEW d \in Clients \ {c}, InStep(d)' PROVE OneInFlight(d)'
    <2>1. link'[d] = link[d] /\ link[d] \in Conns /\ link[d] # link[c]
      BY <1>1, <1>6 DEF InStep, FlightInv, LinksOwn
    <2>2. /\ inbox'[link[d]] = inbox[link[d]] /\ outbox'[link[d]] = outbox[link[d]]
          /\ clientEnd'[link[d]] = clientEnd[link[d]]
          /\ daemonEnd'[link[d]] = daemonEnd[link[d]]
          /\ call'[d] = call[d] /\ mine'[d] = mine[d]
      BY <2>1 DEF Apart
    <2>3. OneInFlight(d)
      BY <1>1, <1>6, <2>1, <2>2 DEF InStep, Apart, FlightInv
    <2> QED
      BY <1>1, <2>1, <2>2, <2>3 DEF OneInFlight
  <1> QED
    BY <1>3, <1>4, <1>5, <1>6 DEF FlightInv

\* A client that has no connection, or closes the one it has, and makes a new one or not.
LEMMA DialFlight ==
  ASSUME ChannelTypes, FlightInv, ClientTypes, NEW c \in Clients, Dial(c),
         UNCHANGED daemonVars, gaveUp \subseteq gaveUp',
         \A d \in Clients \ {c} : call'[d] = call[d] /\ mine'[d] = mine[d]
  PROVE  FlightInv'
  <1>1. /\ UNCHANGED <<handler, session, running, pipe, slipped, inbox>>
        /\ link[c] \in Conns \cup {None} /\ (\A k \in Conns : k # None)
    BY ConnsAssumption DEF daemonVars, handlerVars, Dial, ClientTypes, ClientTypeOK, None
  <1>2. /\ outbox' = UnreadBy(c) /\ \A k \in Conns : k # link[c] => UnreadBy(c)[k] = outbox[k]
        /\ link[c] \in Conns => UnreadBy(c)[link[c]] = <<>>
    BY <1>1 DEF Dial, UnreadBy, ChannelTypes
  <1>3. /\ ClosedBy(c) \in [Conns -> BOOLEAN]
        /\ \A k \in Conns : k # link[c] => ClosedBy(c)[k] = clientEnd[k]
        /\ link[c] \in Conns => ~ClosedBy(c)[link[c]]
    BY <1>1 DEF ClosedBy, ChannelTypes
  <1> HIDE DEF ClosedBy, UnreadBy
  <1>4. CASE listening /\ dialed + 1 \in Conns
    <2> DEFINE new == dialed + 1
    <2>1. /\ dialed' = new /\ clientEnd' = [ClosedBy(c) EXCEPT ![new] = TRUE]
          /\ daemonEnd' = [daemonEnd EXCEPT ![new] = TRUE]
          /\ link' = [link EXCEPT ![c] = new]
      BY <1>4 DEF Dial
    <2>2. /\ link'[c] = new /\ \A d \in Clients \ {c} : link'[d] = link[d]
      BY <2>1 DEF ClientTypes, ClientTypeOK
    <2>3. /\ new \in Nat /\ new > dialed /\ new \in Conns
          /\ \A d \in Clients : link[d] # new
      BY <1>4 DEF ChannelTypes, FlightInv, LinksOwn
    <2>4. /\ inbox[new] = <<>> /\ outbox'[new] = <<>> /\ handler[new] = "new"
          /\ clientEnd'[new] /\ daemonEnd'[new]
      <3>1. inbox[new] = <<>> /\ handler[new] = "new" /\ ~clientEnd[new]
        BY <2>3 DEF FlightInv, LinksOwn
      <3>2. outbox[new] = <<>>
        BY <2>3, <3>1 DEF FlightInv, EndsClosed
      <3>3. clientEnd'[new] /\ daemonEnd'[new]
        BY <1>3, <2>1, <2>3 DEF ChannelTypes
      <3> QED
        BY <1>2, <2>3, <3>1, <3>2, <3>3
    <2>5. \A k \in Conns : k # new => /\ clientEnd'[k] = ClosedBy(c)[k]
                                      /\ daemonEnd'[k] = daemonEnd[k]
      BY <1>3, <2>1, <2>3 DEF ChannelTypes
    <2>6. LinksOwn'
      <3>1. \A k \in Conns : k > new => k > dialed /\ k # new /\ k # link[c]
        BY <2>3, ConnsAssumption DEF ChannelTypes, FlightInv, LinksOwn
      <3>2. \A k \in Conns : k > new => /\ inbox[k] = <<>> /\ handler[k] = "new"
                                        /\ ~clientEnd'[k] /\ ~daemonEnd'[k]
        BY <3>1, <1>3, <2>5 DEF FlightInv, LinksOwn
      <3>3. \A d \in Clients : link'[d] <= new
        <4> TAKE d \in Clients
        <4>1. link[d] <= dialed /\ link[d] \in Nat /\ dialed \in Nat
          <5>1. link[d] \in Conns \cup {None} /\ dialed \in Nat
            BY DEF ChannelTypes, ClientTypes, ClientTypeOK
          <5>2. link[d] <= dialed
            BY DEF FlightInv, LinksOwn
          <5>3. Conns \subseteq Nat /\ None \in Nat
            BY ConnsAssumption DEF None
          <5> QED
            BY <5>1, <5>2, <5>3
        <4> QED
          BY <2>2, <4>1
      <3>4. \A d, e \in Clients : link'[d] = link'[e] /\ link'[d] # None => d = e
        BY <2>2, <2>3 DEF FlightInv, LinksOwn
      <3> QED
        BY <1>1, <2>1, <3>2, <3>3, <3>4 DEF LinksOwn
    <2>7. EndsClosed'
      <3>1. \A k \in Conns : ~clientEnd'[k] \/ handler[k] \in {"new", "acquiring", "starting"}
                               => outbox'[k] = <<>>
        BY <1>2, <1>3, <2>4, <2>5 DEF FlightInv, EndsClosed
      <3>2. \A k \in Conns : ~daemonEnd'[k] => inbox[k] = <<>>
        BY <2>4, <2>5 DEF FlightInv, EndsClosed
      <3> QED
        BY <1>1, <3>1, <3>2 DEF EndsClosed
    <2>8. PipesShort'
      BY <1>1 DEF FlightInv, PipesShort
    <2>9. OneInFlight(c)'
      BY <1>1, <2>2, <2>4 DEF OneInFlight
    <2>10. ASSUME NEW d \in Clients \ {c}, InStep(d)' PROVE OneInFlight(d)'
      <3>1. /\ link'[d] = link[d] /\ link[d] \in Conns /\ link[d] # link[c] /\ link[d] # new
        BY <2>2, <2>3, <2>10 DEF InStep, FlightInv, LinksOwn, ClientTypes, ClientTypeOK
      <3>2. /\ outbox'[link[d]] = outbox[link[d]] /\ clientEnd'[link[d]] = clientEnd[link[d]]
            /\ daemonEnd'[link[d]] = daemonEnd[link[d]]
        BY <1>2, <1>3, <2>5, <3>1
      <3>3. OneInFlight(d)
        BY <1>1, <2>10, <3>1, <3>2 DEF InStep, FlightInv
      <3> QED
        BY <1>1, <3>1, <3>2, <3>3 DEF OneInFlight
    <2> QED
      BY <2>6, <2>7, <2>8, <2>9, <2>10 DEF FlightInv
  <1>5. CASE ~(listening /\ dialed + 1 \in Conns)
    <2>1. clientEnd' = ClosedBy(c) /\ UNCHANGED <<dialed, daemonEnd, link>>
      BY <1>5 DEF Dial
    <2>2. Apart(c)
      BY <1>1, <1>2, <1>3, <2>1 DEF Apart
    <2>3. ~InStep(c)'
      BY <1>1, <1>3, <2>1 DEF InStep
    <2> QED
      BY <1>1, <1>2, <1>3, <2>1, <2>2, <2>3, KeepsLink DEF FlightInv, EndsClosed
  <1> QED
    BY <1>4, <1>5

\* A response is the last thing on the connection of the client that takes it.
LEMMA LastOnTheWay ==
  ASSUME FlightInv, NEW c \in Clients, InStep(c), outbox[link[c]] # <<>>
  PROVE  /\ inbox[link[c]] = <<>>
         /\ \E r \in Responses : /\ outbox[link[c]] = <<r>>
                                 /\ r.kind = "answer" => r.of = mine[c]
         /\ daemonEnd[link[c]] => handler[link[c]] \notin Waiting
  <1>1. OneInFlight(c)
    BY DEF FlightInv
  <1>2. inbox[link[c]] = <<>> \/ (inbox[link[c]] = <<mine[c]>> /\ outbox[link[c]] = <<>>)
    BY <1>1 DEF OneInFlight
  <1>3. \/ outbox[link[c]] = <<>>
        \/ \E r \in Responses : /\ outbox[link[c]] = <<r>>
                                /\ (r.kind = "answer" => r.of = mine[c])
    BY <1>1 DEF OneInFlight
  <1>4. daemonEnd[link[c]] /\ handler[link[c]] \in Waiting => outbox[link[c]] = <<>>
    BY <1>1 DEF OneInFlight
  <1> QED
    BY <1>2, <1>3, <1>4

LEMMA ClientFlight ==
  ASSUME ChannelTypes, FlightInv, ClientTypes, ClientNext, UNCHANGED daemonVars
  PROVE  FlightInv'
  <1> PICK c \in Clients :
        \/ Start(c) \/ Redial(c) \/ RedialRefused(c) \/ Send(c) \/ Write(c)
        \/ Receive(c) \/ TooLong(c) \/ Unreadable(c) \/ EndOfStream(c) \/ GiveUp(c)
        \/ Close(c)
    BY DEF ClientNext
  <1> DEFINE k == link[c]
  <1>0. /\ UNCHANGED <<handler, session, running, pipe, slipped>>
        /\ k \in Conns \cup {None}
    BY DEF daemonVars, handlerVars, ClientTypes, ClientTypeOK
  <1>1. CASE Start(c)
    BY <1>1, DialFlight DEF Start
  <1>2. CASE Redial(c)
    <2>1. Dial(c) /\ gaveUp' = gaveUp
      BY <1>2 DEF Redial
    <2>2. \A d \in Clients \ {c} : call'[d] = call[d] /\ mine'[d] = mine[d]
      BY <1>2 DEF Redial, Goto, Return, ClientTypes, ClientTypeOK
    <2> QED
      BY <2>1, <2>2, DialFlight
  <1>3. CASE RedialRefused(c) \/ Send(c)
    <2>1. /\ UNCHANGED <<channelVars, link, gaveUp>> /\ call[c] # "wait"
          /\ \A d \in Clients \ {c} : call'[d] = call[d] /\ mine'[d] = mine[d]
      BY <1>3 DEF RedialRefused, Send, Goto, Return, ClientTypes, ClientTypeOK
    <2>2. Apart(c)
      BY <2>1 DEF Apart, channelVars
    <2>3. InStep(c)' => OneInFlight(c)'
      <3> SUFFICES ASSUME InStep(c)' PROVE OneInFlight(c)'
        OBVIOUS
      <3>1. OneInFlight(c)
        BY <1>0, <2>1 DEF InStep, FlightInv, channelVars
      <3>2. /\ Refusal.kind # "answer"
            /\ \A r \in Responses : <<Refusal>> = <<r>> => r = Refusal
        BY DEF Refusal, Response
      <3>3. /\ inbox[k] = <<>> /\ ~(daemonEnd[k] /\ handler[k] \in Waiting)
            /\ outbox[k] # <<>> => ~daemonEnd[k] /\ outbox[k] = <<Refusal>>
        BY <2>1, <3>1 DEF OneInFlight
      <3>4. Refusal \in Responses
        BY ResponseTypes
      <3> QED
        BY <1>0, <2>1, <3>2, <3>3, <3>4 DEF OneInFlight, channelVars
    <2> QED
      BY <2>1, <2>2, <2>3, KeepsLink DEF channelVars, FlightInv, EndsClosed
  <1>4. CASE Write(c)
    <2>1. /\ UNCHANGED <<dialed, clientEnd, daemonEnd, outbox, link, gaveUp>>
          /\ call[c] = "write" /\ mine'[c] = asked + 1
          /\ \A d \in Clients \ {c} : call'[d] = call[d] /\ mine'[d] = mine[d]
      BY <1>4 DEF Write, Goto, ClientTypes, ClientTypeOK
    <2>2. CASE Writable(c) /\ daemonEnd[k]
      <3>1. /\ inbox' = [inbox EXCEPT ![k] = Append(@, asked + 1)] /\ call'[c] = "wait"
            /\ k \in Conns
        BY <1>0, <1>4, <2>2 DEF Write, Goto, Writable, ClientTypes, ClientTypeOK
      <3>2. /\ inbox'[k] = Append(inbox[k], asked + 1)
            /\ \A j \in Conns \ {k} : inbox'[j] = inbox[j]
        BY <3>1 DEF ChannelTypes
      <3>3. Apart(c)
        BY <2>1, <3>2 DEF Apart
      <3>4. InStep(c)' => OneInFlight(c)'
        <4> SUFFICES ASSUME InStep(c)' PROVE OneInFlight(c)'
          OBVIOUS
        <4>1. OneInFlight(c)
          BY <1>0, <2>1 DEF InStep, FlightInv
        <4>2. inbox[k] = <<>> /\ outbox[k] = <<>> /\ handler[k] \notin Waiting
          BY <2>1, <2>2, <4>1 DEF OneInFlight
        <4>3. Append(<<>>, asked + 1) = <<asked + 1>>
          BY DEF ClientTypes, ClientTypeOK
        <4>4. inbox'[k] = <<mine'[c]>>
          BY <2>1, <3>2, <4>2, <4>3
        <4> QED
          BY <1>0, <2>1, <3>1, <4>2, <4>4 DEF OneInFlight
      <3> QED
        BY <2>1, <2>2, <3>3, <3>4, KeepsLink DEF FlightInv, EndsClosed
    <2>3. CASE ~(Writable(c) /\ daemonEnd[k])
      <3>1. UNCHANGED inbox
        BY <1>4, <2>3 DEF Write
      <3>2. Apart(c)
        BY <2>1, <3>1 DEF Apart
      <3>3. InStep(c)' => OneInFlight(c)'
        <4> SUFFICES ASSUME InStep(c)' PROVE OneInFlight(c)'
          OBVIOUS
        <4>1. OneInFlight(c) /\ ~daemonEnd[k]
          BY <1>0, <2>1, <2>3 DEF InStep, FlightInv, Writable
        <4>2. inbox[k] = <<>> /\ (outbox[k] # <<>> => outbox[k] = <<Refusal>>)
          BY <2>1, <4>1 DEF OneInFlight
        <4>3. Refusal \in Responses /\ Refusal.kind # "answer"
          BY ResponseTypes DEF Refusal, Response
        <4>4. \E r \in Responses : <<Refusal>> = <<r>> /\ r.kind # "answer"
          BY <4>3
        <4> QED
          BY <1>0, <2>1, <3>1, <4>1, <4>2, <4>4 DEF OneInFlight
      <3> QED
        BY <2>1, <3>1, <3>2, <3>3, KeepsLink DEF FlightInv, EndsClosed
    <2> QED
      BY <2>2, <2>3
  <1>5. CASE \/ Receive(c) \/ Unreadable(c)
             \/ TooLong(c) /\ outbox' = [outbox EXCEPT ![k] = Tail(@)] /\ UNCHANGED gaveUp
    <2>1. /\ UNCHANGED <<dialed, clientEnd, daemonEnd, inbox, link, gaveUp>>
          /\ outbox[k] # <<>> /\ outbox' = [outbox EXCEPT ![k] = Tail(@)]
          /\ \A d \in Clients \ {c} : call'[d] = call[d] /\ mine'[d] = mine[d]
          /\ k \in Conns
      BY <1>0, <1>5
      DEF Receive, TooLong, Unreadable, Goto, Return, ClientTypes, ClientTypeOK
    <2>2. outbox'[k] = Tail(outbox[k]) /\ \A j \in Conns \ {k} : outbox'[j] = outbox[j]
      BY <2>1 DEF ChannelTypes
    <2>3. Apart(c)
      BY <2>1, <2>2 DEF Apart
    <2>4. InStep(c)' => outbox'[k] = <<>> /\ inbox[k] = <<>>
                          /\ (daemonEnd[k] => handler[k] \notin Waiting)
      <3> SUFFICES ASSUME InStep(c)'
                   PROVE  outbox'[k] = <<>> /\ inbox[k] = <<>>
                            /\ (daemonEnd[k] => handler[k] \notin Waiting)
        OBVIOUS
      <3>1. InStep(c)
        BY <1>0, <2>1 DEF InStep
      <3>2. PICK r \in Responses : outbox[k] = <<r>>
        BY <2>1, <3>1, LastOnTheWay
      <3>3. Tail(<<r>>) = <<>>
        OBVIOUS
      <3> QED
        BY <2>1, <2>2, <3>1, <3>2, <3>3, LastOnTheWay
    <2>5. InStep(c)' => OneInFlight(c)'
      BY <1>0, <2>1, <2>4 DEF OneInFlight
    <2>6. ~(~clientEnd[k] \/ handler[k] \in {"new", "acquiring", "starting"})
      BY <2>1 DEF FlightInv, EndsClosed
    <2> QED
      BY <2>1, <2>3, <2>5, <2>6, KeepsLink DEF FlightInv, EndsClosed
  <1>6. CASE EndOfStream(c)
    <2>1. /\ UNCHANGED <<channelVars, link, gaveUp>>
          /\ (outbox[k] = <<>> /\ ~daemonEnd[k]) \/ ~clientEnd[k]
          /\ \A d \in Clients \ {c} : call'[d] = call[d] /\ mine'[d] = mine[d]
      BY <1>6 DEF EndOfStream, Goto, Return, ClientTypes, ClientTypeOK
    <2>2. Apart(c)
      BY <2>1 DEF Apart, channelVars
    <2>3. InStep(c)' => OneInFlight(c)'
      <3> SUFFICES ASSUME InStep(c)' PROVE OneInFlight(c)'
        OBVIOUS
      <3>1. k \in Conns /\ clientEnd[k]
        BY <1>0, <2>1 DEF InStep, channelVars
      <3>2. outbox[k] = <<>> /\ ~daemonEnd[k] /\ inbox[k] = <<>>
        BY <2>1, <3>1 DEF FlightInv, EndsClosed
      <3> QED
        BY <1>0, <2>1, <3>2 DEF OneInFlight, channelVars
    <2> QED
      BY <2>1, <2>2, <2>3, KeepsLink DEF channelVars, FlightInv, EndsClosed
  <1>7. CASE GiveUp(c)
    <2>1. /\ UNCHANGED <<channelVars, link>> /\ gaveUp' = gaveUp \cup {k}
          /\ \A d \in Clients \ {c} : call'[d] = call[d] /\ mine'[d] = mine[d]
      BY <1>7 DEF GiveUp, Goto, Return, ClientTypes, ClientTypeOK
    <2>2. Apart(c)
      BY <2>1 DEF Apart, channelVars
    <2>3. ~InStep(c)'
      BY <2>1 DEF InStep
    <2> QED
      BY <2>1, <2>2, <2>3, KeepsLink DEF channelVars, FlightInv, EndsClosed
  <1>8. CASE Close(c)
    <2>1. /\ UNCHANGED <<dialed, daemonEnd, inbox, link, call, mine, gaveUp>>
          /\ k \in Conns /\ k # None
          /\ clientEnd' = [clientEnd EXCEPT ![k] = FALSE]
          /\ outbox' = [outbox EXCEPT ![k] = <<>>]
      BY <1>0, <1>8 DEF Close, Writable, ClosedBy, UnreadBy
    <2>2. /\ ~clientEnd'[k] /\ outbox'[k] = <<>>
          /\ \A j \in Conns \ {k} : clientEnd'[j] = clientEnd[j] /\ outbox'[j] = outbox[j]
      BY <2>1 DEF ChannelTypes
    <2>3. Apart(c)
      BY <2>1, <2>2 DEF Apart
    <2>4. ~InStep(c)'
      BY <2>1, <2>2 DEF InStep
    <2> QED
      BY <2>1, <2>2, <2>3, <2>4, KeepsLink DEF FlightInv, EndsClosed
  <1>9. CASE TooLong(c) /\ gaveUp' = gaveUp \cup {k}
    <2>1. /\ UNCHANGED <<dialed, clientEnd, daemonEnd, inbox, link>>
          /\ outbox[k] # <<>> /\ k \in Conns
          /\ \A j \in Conns \ {k} : outbox'[j] = outbox[j]
          /\ \A d \in Clients \ {c} : call'[d] = call[d] /\ mine'[d] = mine[d]
      BY <1>0, <1>9 DEF TooLong, Goto, Return, ChannelTypes, ClientTypes, ClientTypeOK
    <2>2. Apart(c)
      BY <1>9, <2>1 DEF Apart
    <2>3. ~InStep(c)'
      BY <1>9, <2>1 DEF InStep
    <2>4. ~(~clientEnd[k] \/ handler[k] \in {"new", "acquiring", "starting"})
      BY <2>1 DEF FlightInv, EndsClosed
    <2> QED
      BY <2>1, <2>2, <2>3, <2>4, KeepsLink DEF FlightInv, EndsClosed
  <1>10. TooLong(c) => \/ outbox' = [outbox EXCEPT ![k] = Tail(@)] /\ UNCHANGED gaveUp
                       \/ gaveUp' = gaveUp \cup {k}
    BY DEF TooLong
  <1> QED
    BY <1>1, <1>2, <1>3, <1>4, <1>5, <1>6, <1>7, <1>8, <1>9, <1>10

-----------------------------------------------------------------------------
LEMMA FlightInit == Init => FlightInv
  <1> SUFFICES ASSUME ConnsInit, DaemonInit, ClientInit PROVE FlightInv
    BY DEF Init
  <1>1. LinksOwn
    BY DEF ConnsInit, DaemonInit, ClientInit, LinksOwn, None
  <1>2. EndsClosed
    BY DEF ConnsInit, EndsClosed
  <1>3. PipesShort
    <2>1. slipped \subseteq Sessions
      BY DaemonAssumption DEF DaemonInit, Sessions
    <2>2. \A s \in Sessions \ slipped : pipe[s] = <<>>
      BY DEF DaemonInit, AfterPreamble
    <2> QED
      BY <2>1, <2>2 DEF DaemonInit, PipesShort
  <1>4. \A c \in Clients : ~InStep(c)
    BY DEF ClientInit, InStep
  <1> QED
    BY <1>1, <1>2, <1>3, <1>4 DEF FlightInv

LEMMA FlightStep == IInv /\ AllTypes /\ FlightInv /\ [Next]_vars => FlightInv'
  <1> SUFFICES ASSUME IInv, AllTypes, FlightInv, [Next]_vars PROVE FlightInv'
    OBVIOUS
  <1>1. CASE DaemonNext /\ UNCHANGED clientVars
    BY <1>1, DaemonFlight DEF AllTypes
  <1>2. CASE ClientNext /\ UNCHANGED daemonVars
    BY <1>2, ClientFlight DEF AllTypes
  <1>3. CASE UNCHANGED vars
    <2>1. UNCHANGED <<channelVars, handler, session, running, pipe, slipped, clientVars>>
      BY <1>3 DEF vars, daemonVars, handlerVars
    <2>2. LinksOwn' /\ EndsClosed' /\ PipesShort'
      BY <2>1 DEF channelVars, clientVars, FlightInv, LinksOwn, EndsClosed, PipesShort
    <2>3. ASSUME NEW c \in Clients, InStep(c)' PROVE OneInFlight(c)'
      <3>1. OneInFlight(c)
        BY <2>1, <2>3 DEF channelVars, clientVars, InStep, FlightInv
      <3> QED
        BY <2>1, <3>1 DEF channelVars, clientVars, OneInFlight
    <2> QED
      BY <2>2, <2>3 DEF FlightInv
  <1> QED
    BY <1>1, <1>2, <1>3 DEF Next

\* An answer of the REPL is received by the call it answers, when nobody gave up on a
\* request of the connection or of its session, or left the rest of a line there.
THEOREM AnswersInStep == Spec => InStepReceives
  <1> DEFINE Kept(c) ==
        (/\ Received(c) /\ Arriving(c).kind = "answer"
         /\ link[c] \notin gaveUp /\ session[link[c]] \notin slipped)
          => Arriving(c).of = mine[c]
  <1>1. AllTypes /\ FlightInv /\ [Next]_vars => [\A c \in Clients : Kept(c)]_vars
    <2> SUFFICES ASSUME AllTypes, FlightInv, [Next]_vars, NEW c \in Clients, Received(c),
                        Arriving(c).kind = "answer", link[c] \notin gaveUp,
                        session[link[c]] \notin slipped
                 PROVE  Arriving(c).of = mine[c]
      OBVIOUS
    <2>1. call[c] = "wait" /\ call'[c] # "wait" /\ link[c] \in Conns /\ link[c] # None
      BY ConnsAssumption DEF Received, AllTypes, ClientTypes, ClientTypeOK, None
    <2>2. outbox[link[c]] # <<>>
      <3>1. call' # call
        BY <2>1
      <3>2. PICK d \in Clients :
              \/ Start(d) \/ Redial(d) \/ RedialRefused(d) \/ Send(d) \/ Write(d)
              \/ Receive(d) \/ TooLong(d) \/ Unreadable(d) \/ EndOfStream(d)
              \/ GiveUp(d) \/ Close(d)
        BY <3>1 DEF Next, ClientNext, vars, clientVars
      <3>3. d = c
        BY <2>1, <3>2 DEF Start, Redial, RedialRefused, Send, Write, Receive, TooLong,
           Unreadable, EndOfStream, GiveUp, Close, Goto, Return, AllTypes, ClientTypes,
           ClientTypeOK
      <3>4. Receive(c) \/ TooLong(c) \/ Unreadable(c)
        BY <2>1, <3>2, <3>3 DEF Start, Redial, RedialRefused, Send, Write, EndOfStream,
           GiveUp, Close, channelVars, Received
      <3> QED
        BY <3>4 DEF Receive, TooLong, Unreadable
    <2>3. InStep(c)
      BY <2>1, <2>2 DEF InStep, FlightInv, EndsClosed
    <2>4. PICK r \in Responses : /\ outbox[link[c]] = <<r>>
                                 /\ (r.kind = "answer" => r.of = mine[c])
      BY <2>2, <2>3, LastOnTheWay
    <2>5. Head(<<r>>) = r
      OBVIOUS
    <2> QED
      BY <2>4, <2>5 DEF Arriving
  <1>2. Spec => []FlightInv /\ []AllTypes
    <2>1. Spec => []AllTypes
      BY AllTypesInit, AllTypesStep, Inductive, PTL DEF Spec
    <2> QED
      BY <2>1, FlightInit, FlightStep, Inductive, PTL DEF Spec
  <1>3. Spec => [][\A c \in Clients : Kept(c)]_vars
    BY <1>1, <1>2, PTL DEF Spec
  <1> QED
    BY <1>3 DEF InStepReceives
=============================================================================
