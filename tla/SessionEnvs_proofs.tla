------------------------- MODULE SessionEnvs_proofs -------------------------
(***************************************************************************)
(* Proofs about SessionEnvs for any preambles, any number of tasks that    *)
(* share lemmas and any bounds.                                            *)
(***************************************************************************)
EXTENDS SessionEnvs, TLAPS

Stages == {"idle", "load", "check", "share", "beat"}

Requests == [code : Seq(Commands), env : Numbers]

Reports == [preamble : Preambles \cup {<<>>}, within : SUBSET Commands, own : BOOLEAN]

\* TypeOK with the types of the sequences and records in it.
Types ==
  /\ envs \in Seq(SUBSET Commands) /\ Len(envs) <= MaxEnvs
  /\ known \in SUBSET Numbers
  /\ late \in Seq(Numbers)
  /\ failures \in Nat /\ restarts \in 0..MaxRestarts /\ timeouts \in 0..MaxTimeouts
  /\ alive \in BOOLEAN /\ clean \in BOOLEAN /\ loaded \in BOOLEAN
  /\ base \in Numbers
  /\ cache \in [Preambles \cup {Loaded} -> Numbers \cup {None}]
  /\ stage \in [Tasks -> Stages]
  /\ request \in [Tasks -> Requests]
  /\ preamble \in Preambles \cup {<<>>}
  /\ checked \in Reports
  /\ kept \subseteq Sharers

\* Each task makes requests of its own kind.
StageInv ==
  /\ stage[User] \in {"idle", "load", "check"}
  /\ stage[Heartbeat] \in {"idle", "beat"}
  /\ \A t \in Sharers : stage[t] \in {"idle", "share"}
  /\ stage[User] = "load" => preamble \in Preambles

\* The numbers in the pipe, too, are environments of the current process.
Exist == KnownExist /\ \A i \in 1..Len(late) : late[i] < Len(envs)

\* Number n names the session's own preamble with shared lemmas.
BaseLike(n) ==
  /\ n < Len(envs)
  /\ Range(Loaded) \subseteq envs[n + 1]
  /\ envs[n + 1] \subseteq Range(Loaded) \cup Sharers

\* Number n names an environment of preamble p, or p extends the session's by imports.
EnvFor(p, n) == n < Len(envs) /\ (IsEnvOf(p, envs[n + 1]) \/ ExtendsByImport(p))

\* What is sent to load preamble p: all of it, or what it has beyond the session's own.
LoadsOf(p, code) ==
  \/ code = p
  \/ IsPrefix(Loaded, p) /\ code = SubSeq(p, Len(Loaded) + 1, Len(p))

\* As long as nothing went wrong, every answer was read, and all the numbers that are
\* kept or on their way name what they are kept for.
RightWhenClean ==
  /\ late = <<>>
  /\ known = 0..(Len(envs) - 1)
  /\ BaseLike(base)
  /\ \A p \in Preambles \cup {Loaded} : cache[p] # None => EnvFor(p, cache[p])
  /\ \A t \in Sharers : stage[t] = "share" => request[t].code = <<t>> /\ BaseLike(request[t].env)
  /\ stage[User] = "load" => /\ LoadsOf(preamble, request[User].code)
                             /\ BaseLike(request[User].env)
  /\ stage[User] = "check" => /\ request[User].code = <<>>
                              /\ EnvFor(preamble, request[User].env)
  /\ checked.own
  /\ IsEnvOf(checked.preamble, checked.within) \/ ExtendsByImport(checked.preamble)

CleanInv == clean /\ loaded => RightWhenClean

IInv == Types /\ StageInv /\ Exist /\ CleanInv

-----------------------------------------------------------------------------
(* Facts about the constants and about sequences of commands.               *)

LEMMA PreambleTypes ==
  /\ Loaded \in Seq(Commands)
  /\ \A p \in Preambles : p \in Seq(Commands)
  /\ Range(Loaded) \subseteq Commands
  /\ Sharers \subseteq Commands
  /\ 0 \in Numbers
<1>1. \A p \in Preambles \cup {Loaded} : Range(p) \subseteq Commands /\ p \in Seq(Range(p))
  BY CodeAssumption DEF Commands
<1>2. \A p \in Preambles \cup {Loaded} : p \in Seq(Commands)
  <2>1. SUFFICES ASSUME NEW p \in Preambles \cup {Loaded} PROVE p \in Seq(Commands)
    OBVIOUS
  <2>2. \A i \in 1..Len(p) : p[i] \in Range(p)
    BY <1>1
  <2>3. p = [i \in 1..Len(p) |-> p[i]] /\ Len(p) \in Nat
    BY <1>1
  <2>4. QED
    BY <1>1, <2>2, <2>3
<1>3. QED
  BY <1>1, <1>2, BoundsAssumption DEF Commands, Numbers

\* A preamble that extends another is that one and the rest.
LEMMA Split ==
  ASSUME NEW S, NEW p \in Seq(S), NEW q \in Seq(S), IsPrefix(q, p)
  PROVE  LET rest == SubSeq(p, Len(q) + 1, Len(p))
         IN /\ rest \in Seq(S)
            /\ Range(p) \subseteq Range(q) \cup Range(rest)
            /\ Range(rest) \subseteq Range(p)
            /\ rest # <<>> => Len(p) > Len(q) /\ Head(rest) = p[Len(q) + 1]
<1> DEFINE rest == SubSeq(p, Len(q) + 1, Len(p))
<1>1. Len(q) <= Len(p) /\ \A i \in 1..Len(q) : q[i] = p[i]
  BY DEF IsPrefix
<1>2. /\ rest \in Seq(S) /\ Len(rest) = Len(p) - Len(q)
      /\ \A i \in 1..Len(rest) : rest[i] = p[i + Len(q)]
  BY <1>1
<1>3. rest # <<>> => Len(p) > Len(q) /\ Head(rest) = p[Len(q) + 1]
  BY <1>1, <1>2
<1> HIDE DEF rest
<1>4. DOMAIN rest = 1..Len(rest) /\ DOMAIN p = 1..Len(p) /\ DOMAIN q = 1..Len(q)
  BY <1>2
<1>5. \A i \in 1..Len(p) : p[i] \in Range(q) \cup Range(rest)
  <2>1. SUFFICES ASSUME NEW i \in 1..Len(p) PROVE p[i] \in Range(q) \cup Range(rest)
    OBVIOUS
  <2>2. CASE i <= Len(q)
    BY <1>1, <1>4, <2>2 DEF Range
  <2>3. CASE i > Len(q)
    <3>1. i - Len(q) \in 1..Len(rest)
      BY <1>2, <2>3
    <3>2. rest[i - Len(q)] = p[i]
      BY <1>2, <3>1
    <3>3. rest[i - Len(q)] \in Range(rest)
      BY <1>4, <3>1 DEF Range
    <3>4. QED
      BY <3>2, <3>3
  <2>4. QED
    BY <2>2, <2>3
<1>6. Range(p) \subseteq Range(q) \cup Range(rest)
  BY <1>4, <1>5 DEF Range
<1>7. Range(rest) \subseteq Range(p)
  <2>1. \A i \in 1..Len(rest) : i + Len(q) \in 1..Len(p) /\ rest[i] = p[i + Len(q)]
    BY <1>1, <1>2
  <2>2. \A j \in 1..Len(p) : p[j] \in Range(p)
    BY <1>4 DEF Range
  <2>3. \A i \in 1..Len(rest) : rest[i] \in Range(p)
    BY <2>1, <2>2
  <2>4. QED
    BY <1>4, <2>3 DEF Range
<1>8. QED
  BY <1>2, <1>3, <1>6, <1>7 DEF rest

-----------------------------------------------------------------------------
(* The environments only grow, until the process is replaced.               *)

\* Environment number Len(envs) was made by the request of t; the others stay.
Grown(t) ==
  /\ envs' \in Seq(SUBSET Commands)
  /\ Len(envs') = Len(envs) + 1 /\ Len(envs') <= MaxEnvs
  /\ \A n \in Numbers : n < Len(envs) => envs'[n + 1] = envs[n + 1]
  /\ envs'[Len(envs) + 1] = Within(t) \cup Range(request[t].code)
  /\ Within(t) \subseteq Commands
  /\ Len(envs) \in Numbers

LEMMA Growth ==
  ASSUME Types, Exist, NEW t \in Tasks, Elaborated(t)
  PROVE  Grown(t)
<1>1. /\ request[t].code \in Seq(Commands) /\ request[t].env \in Numbers
      /\ Len(envs) \in Nat /\ Len(envs) < MaxEnvs
  BY DEF Types, Requests, Elaborated
<1>2. Range(request[t].code) \subseteq Commands
  BY <1>1 DEF Range
<1>3. Within(t) \subseteq Commands
  <2>1. CASE NamesEnv(t)
    <3>1. request[t].env + 1 \in 1..Len(envs)
      BY <1>1, <2>1 DEF NamesEnv, Exist, KnownExist, Numbers
    <3>2. envs[request[t].env + 1] \subseteq Commands
      BY <3>1 DEF Types
    <3>3. QED
      BY <2>1, <3>2 DEF Within
  <2>2. CASE ~NamesEnv(t)
    BY <2>2 DEF Within
  <2>3. QED
    BY <2>1, <2>2
<1>4. Len(envs) \in Numbers
  BY <1>1, BoundsAssumption DEF Numbers
<1> DEFINE new == Within(t) \cup Range(request[t].code)
<1>5. new \in SUBSET Commands /\ envs' = Append(envs, new)
  BY <1>2, <1>3 DEF Elaborated
<1> HIDE DEF new
<1>6. /\ envs' \in Seq(SUBSET Commands) /\ Len(envs') = Len(envs) + 1
      /\ \A i \in 1..Len(envs) : envs'[i] = envs[i]
      /\ envs'[Len(envs) + 1] = new
  BY <1>5 DEF Types
<1>7. \A n \in Numbers : n < Len(envs) => envs'[n + 1] = envs[n + 1]
  BY <1>1, <1>6 DEF Numbers
<1>8. QED
  BY <1>1, <1>3, <1>4, <1>6, <1>7, BoundsAssumption DEF Grown, new

LEMMA Kept ==
  ASSUME Types, NEW t \in Tasks, Grown(t), NEW n \in Numbers
  PROVE  /\ BaseLike(n) => BaseLike(n)'
         /\ \A p \in Preambles \cup {Loaded, <<>>} : EnvFor(p, n) => EnvFor(p, n)'
<1>1. n < Len(envs) => n < Len(envs') /\ envs'[n + 1] = envs[n + 1]
  BY DEF Grown, Types, Numbers
<1>2. QED
  BY <1>1 DEF BaseLike, EnvFor, IsEnvOf, ExtendsByImport

-----------------------------------------------------------------------------
(* The step that asks for something.                                        *)

LEMMA Asked ==
  ASSUME Types, NEW t \in Tasks, NEW what \in Stages, NEW code \in Seq(Commands),
         NEW env \in Numbers, Ask(t, what, code, env)
  PROVE  /\ stage' \in [Tasks -> Stages] /\ request' \in [Tasks -> Requests]
         /\ stage'[t] = what /\ request'[t] = [code |-> code, env |-> env]
         /\ \A u \in Tasks \ {t} : stage'[u] = stage[u] /\ request'[u] = request[u]
<1>1. [code |-> code, env |-> env] \in Requests
  BY DEF Requests
<1>2. QED
  BY <1>1 DEF Ask, Types

LEMMA Returned ==
  ASSUME Types, NEW t \in Tasks, Done(t)
  PROVE  /\ stage' \in [Tasks -> Stages] /\ request' \in [Tasks -> Requests]
         /\ preamble' \in Preambles \cup {<<>>}
         /\ stage'[t] = "idle"
         /\ t # User => preamble' = preamble
         /\ \A u \in Tasks \ {t} : stage'[u] = stage[u] /\ request'[u] = request[u]
<1>1. Nothing \in Requests
  BY PreambleTypes DEF Requests, Nothing
<1>2. QED
  BY <1>1 DEF Done, Types, Stages

LEMMA DistinctTasks ==
  /\ User \in Tasks /\ Heartbeat \in Tasks /\ Sharers \subseteq Tasks
  /\ User # Heartbeat /\ User \notin Sharers /\ Heartbeat \notin Sharers
BY TasksAssumption DEF Tasks

LEMMA InitIInv == Init => IInv
<1> SUFFICES ASSUME Init PROVE IInv
  OBVIOUS
<1> USE PreambleTypes
<1>1. envs \in Seq(SUBSET Commands) /\ Len(envs) <= MaxEnvs /\ Len(envs) \in Nat
  <2>1. CASE loaded
    BY <2>1, BoundsAssumption DEF Init
  <2>2. CASE ~loaded
    BY <2>2, BoundsAssumption DEF Init
  <2>3. QED
    BY <2>1, <2>2
<1>2. Nothing \in Requests /\ Unchecked \in Reports
  BY DEF Requests, Nothing, Unchecked, Reports
<1>3. cache \in [Preambles \cup {Loaded} -> Numbers \cup {None}]
  BY DEF Init
<1>4. Types
  <2>1. known \in SUBSET Numbers /\ late \in Seq(Numbers) /\ base \in Numbers
    BY DEF Init
  <2>2. /\ failures \in Nat /\ restarts \in 0..MaxRestarts /\ timeouts \in 0..MaxTimeouts
        /\ alive \in BOOLEAN /\ clean \in BOOLEAN
    BY BoundsAssumption DEF Init
  <2>3. stage \in [Tasks -> Stages] /\ request \in [Tasks -> Requests]
    BY <1>2 DEF Init, Stages
  <2>4. preamble \in Preambles \cup {<<>>} /\ checked \in Reports
    BY <1>2 DEF Init
  <2>5. loaded \in BOOLEAN
    BY Zenon DEF Init
  <2>6. cache \in [Preambles \cup {Loaded} -> Numbers \cup {None}]
    BY <1>3
  <2>7. kept \subseteq Sharers
    BY DEF Init
  <2>8. QED
    BY <1>1, <2>1, <2>2, <2>3, <2>4, <2>5, <2>6, <2>7 DEF Types
<1>5. StageInv
  BY DistinctTasks DEF Init, StageInv
<1>6. Exist
  BY DEF Init, Exist, KnownExist
<1>7. CleanInv
  <2>1. SUFFICES ASSUME loaded PROVE RightWhenClean
    BY DEF CleanInv
  <2>2. envs = <<Range(Loaded)>> /\ Len(envs) = 1 /\ envs[1] = Range(Loaded)
    BY <2>1 DEF Init
  <2>3. known = 0..(Len(envs) - 1) /\ late = <<>> /\ base = 0
    BY <2>1, <2>2 DEF Init
  <2>4. BaseLike(base)
    BY <2>2, <2>3 DEF BaseLike
  <2>5. \A p \in Preambles \cup {Loaded} : cache[p] # None => EnvFor(p, cache[p])
    <3>1. \A p \in Preambles \cup {Loaded} : cache[p] # None => cache[p] = 0 /\ p = Loaded
      BY <2>1 DEF Init
    <3>2. QED
      BY <2>2, <3>1 DEF EnvFor, IsEnvOf
  <2>6. \A t \in Tasks : stage[t] = "idle"
    BY DEF Init
  <2>7. checked.own /\ IsEnvOf(checked.preamble, checked.within)
    <3>1. Range(<<>>) = {}
      BY DEF Range
    <3>2. checked.own /\ checked.preamble = <<>> /\ checked.within = {}
      BY DEF Init, Unchecked
    <3>3. QED
      BY <3>1, <3>2 DEF IsEnvOf
  <2>8. QED
    BY <2>3, <2>4, <2>5, <2>6, <2>7, DistinctTasks DEF RightWhenClean
<1>8. QED
  BY <1>4, <1>5, <1>6, <1>7 DEF IInv

-----------------------------------------------------------------------------
(* One lemma for each action.                                               *)

\* What RightWhenClean says of a task depends on its stage, its request and the
\* environments alone.
SharesRight(t) == stage[t] = "share" => request[t].code = <<t>> /\ BaseLike(request[t].env)

LEMMA VerifyStep ==
  ASSUME IInv, Verify
  PROVE  IInv'
<1> USE DistinctTasks, PreambleTypes DEF IInv
<1>1. PICK p \in Preambles : FindEnv(p)
  BY DEF Verify
<1>2. /\ preamble' = p /\ cache' = cache /\ checked' = Unchecked
      /\ UNCHANGED <<replVars, linkVars, base, loaded, kept>>
  BY <1>1 DEF FindEnv, Verify
<1>3. PICK what \in {"load", "check"}, code \in Seq(Commands), env \in Numbers :
        /\ Ask(User, what, code, env)
        /\ \/ what = "check" /\ code = <<>> /\ p = <<>> /\ env = base
           \/ what = "check" /\ code = <<>> /\ cache[p] # None /\ env = cache[p]
           \/ what = "load" /\ LoadsOf(p, code) /\ env = base
  <2>1. p \in Seq(Commands) /\ base \in Numbers /\ cache[p] \in Numbers \cup {None}
    BY DEF Types
  <2>2. Extends(p) => /\ SubSeq(p, Len(Loaded) + 1, Len(p)) \in Seq(Commands)
                      /\ IsPrefix(Loaded, p)
    BY <2>1, Split DEF Extends
  <2>3. CASE p = <<>> /\ Declare(base)
    BY <2>1, <2>3 DEF Declare
  <2>4. CASE cache[p] # None /\ Declare(cache[p])
    <3>1. cache[p] \in Numbers
      BY <2>1, <2>4
    <3>2. Ask(User, "check", <<>>, cache[p]) /\ cache[p] # None
      BY <2>4 DEF Declare
    <3>3. <<>> \in Seq(Commands) /\ "check" \in {"load", "check"}
      OBVIOUS
    <3>4. WITNESS "check" \in {"load", "check"}, <<>> \in Seq(Commands), cache[p] \in Numbers
    <3>5. QED
      BY <3>2
  <2>5. CASE Extends(p) /\ Ask(User, "load", SubSeq(p, Len(Loaded) + 1, Len(p)), base)
    BY <2>1, <2>2, <2>5 DEF LoadsOf
  <2>6. CASE Ask(User, "load", p, base)
    BY <2>1, <2>6 DEF LoadsOf
  <2>7. QED
    BY <1>1, <2>3, <2>4, <2>5, <2>6 DEF FindEnv
<1>4. /\ stage' \in [Tasks -> Stages] /\ request' \in [Tasks -> Requests]
      /\ stage'[User] = what /\ request'[User] = [code |-> code, env |-> env]
      /\ \A u \in Tasks \ {User} : stage'[u] = stage[u] /\ request'[u] = request[u]
  BY <1>3, Asked DEF Stages
<1>5. Types'
  <2>1. Unchecked \in Reports
    BY DEF Unchecked, Reports
  <2>2. QED
    BY <1>2, <1>4, <2>1 DEF Types, replVars, linkVars
<1>6. StageInv'
  BY <1>2, <1>4 DEF StageInv
<1>7. Exist'
  BY <1>2 DEF Exist, KnownExist, replVars
<1>8. CleanInv'
  <2>1. SUFFICES ASSUME clean, loaded PROVE RightWhenClean'
    BY <1>2 DEF CleanInv, linkVars
  <2>2. RightWhenClean
    BY <2>1 DEF CleanInv
  <2>3. \A n \in Numbers : BaseLike(n)' = BaseLike(n)
    BY <1>2 DEF BaseLike, replVars
  <2>4. \A q, n : EnvFor(q, n)' = EnvFor(q, n)
    BY <1>2 DEF EnvFor, IsEnvOf, ExtendsByImport, replVars
  <2>5. (\A q \in Preambles \cup {Loaded} : cache[q] # None => EnvFor(q, cache[q]))'
    BY <1>2, <2>2 DEF RightWhenClean, EnvFor, IsEnvOf, ExtendsByImport, replVars
  <2>6. \A t \in Sharers : SharesRight(t)'
    <3>1. \A t \in Sharers : SharesRight(t)
      BY <2>2 DEF RightWhenClean, SharesRight
    <3>2. QED
      BY <1>2, <1>4, <2>3, <3>1 DEF SharesRight, BaseLike, replVars
  <2>7. what = "load" => LoadsOf(p, code) /\ BaseLike(env)
    BY <1>3, <2>2 DEF RightWhenClean
  <2>8. what = "check" => code = <<>> /\ EnvFor(p, env)
    <3>1. BaseLike(base) => EnvFor(<<>>, base)
      <4>1. Range(<<>>) = {}
        BY DEF Range
      <4>2. QED
        BY <4>1 DEF BaseLike, EnvFor, IsEnvOf
    <3>2. QED
      BY <1>3, <2>2, <3>1 DEF RightWhenClean
  <2>9. (checked.own /\ IsEnvOf(checked.preamble, checked.within))'
    <3>1. Range(<<>>) = {}
      BY DEF Range
    <3>2. QED
      BY <1>2, <3>1 DEF Unchecked, IsEnvOf
  <2>10. (late = <<>> /\ known = 0..(Len(envs) - 1) /\ BaseLike(base))'
    BY <1>2, <2>2 DEF RightWhenClean, replVars, BaseLike
  <2>11. (stage[User] = "load" => LoadsOf(preamble, request[User].code) /\ BaseLike(request[User].env))'
    BY <1>2, <1>4, <2>3, <2>7
  <2>12. (stage[User] = "check" => request[User].code = <<>> /\ EnvFor(preamble, request[User].env))'
    BY <1>2, <1>4, <2>4, <2>8
  <2>13. QED
    BY <2>5, <2>6, <2>9, <2>10, <2>11, <2>12 DEF RightWhenClean, SharesRight
<1>9. QED
  BY <1>5, <1>6, <1>7, <1>8

\* Steps that only make a request of their own kind.
LEMMA AskStep ==
  ASSUME IInv, NEW t \in Tasks, t # User, stage[t] = "idle",
         NEW what \in {"share", "beat"}, NEW code \in Seq(Commands),
         Ask(t, what, code, IF what = "share" THEN base ELSE 0),
         what = "share" => t \in Sharers /\ code = <<t>>,
         what = "beat" => t = Heartbeat,
         UNCHANGED <<replVars, linkVars, sessionVars, preamble, checked>>
  PROVE  IInv'
<1> USE DistinctTasks, PreambleTypes DEF IInv
<1> DEFINE env == IF what = "share" THEN base ELSE 0
<1>1. env \in Numbers
  BY DEF Types
<1> HIDE DEF env
<1>2. /\ stage' \in [Tasks -> Stages] /\ request' \in [Tasks -> Requests]
      /\ stage'[t] = what /\ request'[t] = [code |-> code, env |-> env]
      /\ \A u \in Tasks \ {t} : stage'[u] = stage[u] /\ request'[u] = request[u]
  <2>1. Ask(t, what, code, env)
    BY DEF env
  <2>2. QED
    BY <1>1, <2>1, Asked DEF Stages
<1>3. Types'
  BY <1>2 DEF Types, replVars, linkVars, sessionVars
<1>4. StageInv'
  BY <1>2 DEF StageInv
<1>5. Exist'
  BY DEF Exist, KnownExist, replVars
<1>6. CleanInv'
  <2>1. SUFFICES ASSUME clean, loaded PROVE RightWhenClean'
    BY DEF CleanInv, linkVars, sessionVars
  <2>2. RightWhenClean
    BY <2>1 DEF CleanInv
  <2>3. \A u \in Sharers : SharesRight(u)'
    <3>1. \A u \in Sharers : SharesRight(u)
      BY <2>2 DEF RightWhenClean, SharesRight
    <3>2. ASSUME NEW u \in Sharers, u # t PROVE SharesRight(u)'
      BY <1>2, <3>1, <3>2 DEF SharesRight, BaseLike, replVars
    <3>3. t \in Sharers => SharesRight(t)'
      <4>1. what = "share" => BaseLike(env)
        BY <2>2 DEF RightWhenClean, env
      <4>2. t \in Sharers => what = "share" /\ code = <<t>>
        OBVIOUS
      <4>3. QED
        BY <1>2, <4>1, <4>2 DEF SharesRight, BaseLike, replVars
    <3>4. QED
      BY <3>2, <3>3
  <2>4. QED
    BY <1>2, <2>2, <2>3
       DEF RightWhenClean, SharesRight, BaseLike, EnvFor, IsEnvOf, ExtendsByImport,
           replVars, sessionVars
<1>7. QED
  BY <1>3, <1>4, <1>5, <1>6

LEMMA ShareStep == ASSUME IInv, NEW t \in Sharers, Share(t) PROVE IInv'
<1>1. t \in Tasks /\ t # User /\ <<t>> \in Seq(Commands)
  BY DistinctTasks, PreambleTypes
<1>2. QED
  BY <1>1, AskStep DEF Share

LEMMA BeatStep == ASSUME IInv, Beat PROVE IInv'
<1>1. Heartbeat \in Tasks /\ Heartbeat # User /\ <<>> \in Seq(Commands)
  BY DistinctTasks
<1>2. QED
  BY <1>1, AskStep DEF Beat

\* A call that returns without having changed what the session remembers.
LEMMA ReturnStep ==
  ASSUME IInv, NEW t \in Tasks, Done(t),
         UNCHANGED <<replVars, sessionVars, checked, clean>>,
         failures' \in Nat, restarts' \in 0..MaxRestarts, timeouts' \in 0..MaxTimeouts,
         alive' \in BOOLEAN
  PROVE  IInv'
<1> USE DistinctTasks, PreambleTypes DEF IInv
<1>1. /\ stage' \in [Tasks -> Stages] /\ request' \in [Tasks -> Requests]
      /\ preamble' \in Preambles \cup {<<>>}
      /\ stage'[t] = "idle"
      /\ t # User => preamble' = preamble
      /\ \A u \in Tasks \ {t} : stage'[u] = stage[u] /\ request'[u] = request[u]
  BY Returned
<1>2. Types'
  BY <1>1 DEF Types, replVars, sessionVars
<1>3. StageInv'
  BY <1>1 DEF StageInv
<1>4. Exist'
  BY DEF Exist, KnownExist, replVars
<1>5. CleanInv'
  <2>1. SUFFICES ASSUME clean, loaded PROVE RightWhenClean'
    BY DEF CleanInv, sessionVars
  <2>2. RightWhenClean
    BY <2>1 DEF CleanInv
  <2>3. \A u \in Sharers : SharesRight(u)'
    BY <1>1, <2>2 DEF RightWhenClean, SharesRight, BaseLike, replVars
  <2>4. QED
    BY <1>1, <2>2, <2>3
       DEF RightWhenClean, SharesRight, BaseLike, EnvFor, IsEnvOf, ExtendsByImport,
           sessionVars, replVars
<1>6. QED
  BY <1>2, <1>3, <1>4, <1>5

\* Once a request was given up or the process replaced, only the types and the numbers
\* in use matter.
LEMMA UncleanStep ==
  ASSUME IInv, NEW t \in Tasks, Done(t) \/ UNCHANGED taskVars,
         UNCHANGED <<sessionVars, checked>>, clean' = FALSE,
         envs' \in Seq(SUBSET Commands), Len(envs') <= MaxEnvs,
         known' \in SUBSET Numbers, late' \in Seq(Numbers),
         \A n \in known' : n < Len(envs'), \A i \in 1..Len(late') : late'[i] < Len(envs'),
         failures' \in Nat, restarts' \in 0..MaxRestarts, timeouts' \in 0..MaxTimeouts,
         alive' \in BOOLEAN
  PROVE  IInv'
<1> USE DistinctTasks, PreambleTypes DEF IInv
<1>1. /\ stage' \in [Tasks -> Stages] /\ request' \in [Tasks -> Requests]
      /\ preamble' \in Preambles \cup {<<>>}
      /\ \A u \in Tasks : stage'[u] \in {stage[u], "idle"}
      /\ stage'[User] # "idle" => preamble' = preamble
  <2>1. CASE Done(t)
    BY <2>1, Returned
  <2>2. CASE UNCHANGED taskVars
    BY <2>2 DEF taskVars, Types
  <2>3. QED
    BY <2>1, <2>2
<1>2. Types'
  BY <1>1 DEF Types, sessionVars
<1>3. StageInv'
  BY <1>1 DEF StageInv
<1>4. Exist'
  BY DEF Exist, KnownExist
<1>5. CleanInv'
  BY DEF CleanInv
<1>6. QED
  BY <1>2, <1>3, <1>4, <1>5

LEMMA RestartTypes ==
  ASSUME IInv, Restart
  PROVE  \/ /\ clean' = FALSE /\ envs' = <<>> /\ late' = <<>> /\ known' = {}
            /\ restarts' \in 0..MaxRestarts /\ alive' = alive
         \/ alive' = FALSE /\ UNCHANGED <<replVars, restarts, clean>>
BY BoundsAssumption DEF Restart, Replace, IInv, Types

LEMMA LostStep == ASSUME IInv, NEW t \in Tasks, Lost(t) PROVE IInv'
<1>1. Done(t) /\ failures' \in Nat /\ UNCHANGED <<timeouts, sessionVars, checked>>
  BY DEF Lost, IInv, Types
<1>2. CASE /\ clean' = FALSE /\ envs' = <<>> /\ late' = <<>> /\ known' = {}
           /\ restarts' \in 0..MaxRestarts /\ alive' = alive
  <2>1. /\ envs' \in Seq(SUBSET Commands) /\ Len(envs') <= MaxEnvs
        /\ known' \in SUBSET Numbers /\ late' \in Seq(Numbers)
        /\ \A n \in known' : n < Len(envs')
        /\ \A i \in 1..Len(late') : late'[i] < Len(envs')
    BY <1>2, BoundsAssumption
  <2>2. timeouts' \in 0..MaxTimeouts /\ alive' \in BOOLEAN
    BY <1>1, <1>2 DEF IInv, Types
  <2>3. QED
    BY <1>1, <1>2, <2>1, <2>2, UncleanStep
<1>3. CASE alive' = FALSE /\ UNCHANGED <<replVars, restarts, clean>>
  <2>1. restarts' \in 0..MaxRestarts /\ timeouts' \in 0..MaxTimeouts /\ alive' \in BOOLEAN
    BY <1>1, <1>3 DEF IInv, Types
  <2>2. QED
    BY <1>1, <1>3, <2>1, ReturnStep
<1>4. QED
  BY <1>2, <1>3, RestartTypes DEF Lost

LEMMA RestartBeforeStep == ASSUME IInv, NEW t \in Tasks, RestartBefore(t) PROVE IInv'
<1>1. /\ clean' = FALSE /\ envs' = <<>> /\ late' = <<>> /\ known' = {}
      /\ restarts' \in 0..MaxRestarts /\ alive' = alive
  BY BoundsAssumption DEF RestartBefore, Restart, Replace, IInv, Types
<1>2. /\ envs' \in Seq(SUBSET Commands) /\ Len(envs') <= MaxEnvs
      /\ known' \in SUBSET Numbers /\ late' \in Seq(Numbers)
      /\ \A n \in known' : n < Len(envs')
      /\ \A i \in 1..Len(late') : late'[i] < Len(envs')
  BY <1>1, BoundsAssumption
<1>3. /\ failures' \in Nat /\ timeouts' \in 0..MaxTimeouts /\ alive' \in BOOLEAN
      /\ UNCHANGED <<sessionVars, taskVars, checked>>
  BY <1>1 DEF RestartBefore, IInv, Types, taskVars
<1>4. QED
  BY <1>1, <1>2, <1>3, UncleanStep

LEMMA FirstTimeoutStep == ASSUME IInv, NEW t \in Tasks, FirstTimeout(t) PROVE IInv'
<1>1. Grown(t)
  BY Growth DEF IInv, FirstTimeout
<1>2. /\ Done(t) /\ UNCHANGED <<sessionVars, checked>> /\ clean' = FALSE
      /\ failures' \in Nat /\ restarts' \in 0..MaxRestarts /\ alive' \in BOOLEAN
      /\ timeouts' \in 0..MaxTimeouts
  BY BoundsAssumption DEF FirstTimeout, IInv, Types
<1>3. late' = Append(late, Len(envs)) /\ late \in Seq(Numbers) /\ Len(envs) \in Numbers
  BY <1>1 DEF FirstTimeout, IInv, Types, Grown
<1>4. late' \in Seq(Numbers) /\ \A i \in 1..Len(late') : late'[i] < Len(envs')
  <2>1. /\ late' \in Seq(Numbers) /\ Len(late') = Len(late) + 1
        /\ \A i \in 1..Len(late) : late'[i] = late[i]
        /\ late'[Len(late) + 1] = Len(envs)
    BY <1>3
  <2>2. Len(envs') = Len(envs) + 1 /\ \A i \in 1..Len(late) : late[i] < Len(envs)
    BY <1>1 DEF Grown, IInv, Exist
  <2>3. \A i \in 1..Len(late') : i \in 1..Len(late) \/ i = Len(late) + 1
    BY <1>3, <2>1
  <2>4. Len(envs) \in Nat /\ \A i \in 1..Len(late) : late[i] \in Int
    <3>1. \A n \in Numbers : n \in Int
      BY DEF Numbers
    <3>2. \A i \in 1..Len(late) : late[i] \in Numbers
      BY <1>3
    <3>3. Len(envs) \in Nat
      BY DEF IInv, Types
    <3>4. QED
      BY <3>1, <3>2, <3>3
  <2>5. QED
    BY <2>1, <2>2, <2>3, <2>4
<1>5. known' \in SUBSET Numbers /\ \A n \in known' : n < Len(envs')
  BY <1>1 DEF Grown, IInv, Types, Exist, KnownExist, FirstTimeout, Numbers
<1>6. envs' \in Seq(SUBSET Commands) /\ Len(envs') <= MaxEnvs
  BY <1>1 DEF Grown
<1>7. QED
  BY <1>2, <1>4, <1>5, <1>6, UncleanStep

-----------------------------------------------------------------------------
(* An answer is read.                                                       *)

\* The number the caller reads is that of an environment, and so are those behind it.
LEMMA AnswerRead ==
  ASSUME IInv, NEW t \in Tasks, Grown(t), NEW answers,
         answers = Append(late, Len(envs)),
         late' = Tail(answers), known' = known \cup {Head(answers)}
  PROVE  /\ Head(answers) \in Numbers /\ Head(answers) < Len(envs')
         /\ late' \in Seq(Numbers) /\ known' \in SUBSET Numbers
         /\ Exist'
         /\ late = <<>> => Head(answers) = Len(envs) /\ late' = <<>>
<1>1. late \in Seq(Numbers) /\ Len(envs) \in Numbers /\ Len(envs') = Len(envs) + 1
  BY DEF IInv, Types, Grown
<1>2. /\ answers \in Seq(Numbers) /\ Len(answers) = Len(late) + 1
      /\ \A i \in 1..Len(late) : answers[i] = late[i]
      /\ answers[Len(late) + 1] = Len(envs)
      /\ answers # <<>>
  BY <1>1
<1>3. \A i \in 1..Len(late) : late[i] < Len(envs)
  BY DEF IInv, Exist
<1>4. \A i \in 1..Len(answers) : answers[i] < Len(envs')
  <2>1. \A i \in 1..Len(answers) : i \in 1..Len(late) \/ i = Len(late) + 1
    BY <1>1, <1>2
  <2>2. Len(envs) \in Nat /\ \A i \in 1..Len(late) : late[i] \in Int
    <3>1. \A n \in Numbers : n \in Int
      BY DEF Numbers
    <3>2. \A i \in 1..Len(late) : late[i] \in Numbers
      BY <1>1
    <3>3. Len(envs) \in Nat
      BY DEF IInv, Types
    <3>4. QED
      BY <3>1, <3>2, <3>3
  <2>3. QED
    BY <1>1, <1>2, <1>3, <2>1, <2>2
<1>5. /\ Head(answers) = answers[1] /\ 1 \in 1..Len(answers) /\ Head(answers) \in Numbers
      /\ late' \in Seq(Numbers) /\ Len(late') = Len(answers) - 1
      /\ \A i \in 1..Len(late') : late'[i] = answers[i + 1] /\ i + 1 \in 1..Len(answers)
  BY <1>1, <1>2
<1>6. Exist'
  <2>1. \A n \in known : n < Len(envs')
    BY <1>1 DEF IInv, Exist, KnownExist, Types, Numbers
  <2>2. QED
    BY <1>4, <1>5, <2>1 DEF Exist, KnownExist
<1>7. late = <<>> => Head(answers) = Len(envs) /\ late' = <<>>
  BY <1>1, <1>2, <1>5
<1>8. QED
  BY <1>4, <1>5, <1>6, <1>7 DEF IInv, Types

\* As long as nothing went wrong, what is right stays so when an environment is added.
LEMMA StaysRight ==
  ASSUME IInv, NEW t \in Tasks, Grown(t), clean, loaded,
         late' = <<>>, known' = known \cup {Len(envs)}
  PROVE  /\ (late = <<>> /\ known = 0..(Len(envs) - 1))'
         /\ \A n \in Numbers : BaseLike(n) => BaseLike(n)'
         /\ \A p \in Preambles \cup {Loaded, <<>>}, n \in Numbers : EnvFor(p, n) => EnvFor(p, n)'
         /\ \A n \in Numbers : n < Len(envs) => n \in known
<1>1. RightWhenClean
  BY DEF IInv, CleanInv
<1>2. /\ known = 0..(Len(envs) - 1) /\ Len(envs') = Len(envs) + 1 /\ Len(envs) \in Nat
  BY <1>1 DEF RightWhenClean, Grown, Numbers
<1>3. known' = 0..(Len(envs') - 1)
  BY <1>2
<1>4. \A n \in Numbers : n < Len(envs) => n \in known
  BY <1>2 DEF Numbers
<1>5. QED
  BY <1>3, <1>4, Kept DEF IInv

\* What comes of the request of a task, in an environment of the session's own preamble.
LEMMA NewEnv ==
  ASSUME IInv, NEW t \in Tasks, Grown(t), NEW n \in Numbers, n = Len(envs),
         BaseLike(request[t].env), request[t].env \in known
  PROVE  /\ \A s \in Sharers : request[t].code = <<s>> => BaseLike(n)'
         /\ \A p \in Preambles : LoadsOf(p, request[t].code) => EnvFor(p, n)'
<1> DEFINE code == request[t].code
           old == envs[request[t].env + 1]
           new == envs'[n + 1]
<1>1. /\ code \in Seq(Commands)
      /\ Len(envs) \in Nat /\ n < Len(envs')
  BY DEF IInv, Types, Requests, Grown
<1>2. Range(Loaded) \subseteq old /\ old \subseteq Range(Loaded) \cup Sharers
  BY DEF BaseLike
<1>3. /\ code # <<>> /\ Head(code) \in Imports => new = Range(code)
      /\ code = <<>> \/ Head(code) \notin Imports => new = old \cup Range(code)
  BY DEF Grown, Within, NamesEnv
<1>4. BaseLike(n)' <=> /\ n < Len(envs')
                       /\ Range(Loaded) \subseteq new
                       /\ new \subseteq Range(Loaded) \cup Sharers
  BY DEF BaseLike
<1>5. \A p \in Preambles :
        EnvFor(p, n)' <=> n < Len(envs') /\ (IsEnvOf(p, new) \/ ExtendsByImport(p))
  BY DEF EnvFor, IsEnvOf, ExtendsByImport
<1> HIDE DEF code, old, new
<1>6. ASSUME NEW s \in Sharers, code = <<s>> PROVE BaseLike(n)'
  <2>1. code # <<>> /\ Head(code) \notin Imports
    BY <1>6, CodeAssumption
  <2>2. Range(code) = {s}
    BY <1>6 DEF Range
  <2>3. QED
    BY <1>1, <1>2, <1>3, <1>4, <2>1, <2>2
<1>7. ASSUME NEW p \in Preambles, LoadsOf(p, code) PROVE EnvFor(p, n)'
  <2>1. CASE code = p
    BY <1>1, <1>2, <1>3, <1>5, <2>1 DEF IsEnvOf
  <2>2. CASE IsPrefix(Loaded, p) /\ code = SubSeq(p, Len(Loaded) + 1, Len(p))
    <3>1. p \in Seq(Commands) /\ Loaded \in Seq(Commands)
      BY PreambleTypes
    <3>2. /\ Range(p) \subseteq Range(Loaded) \cup Range(code)
          /\ Range(code) \subseteq Range(p)
          /\ code # <<>> => Len(p) > Len(Loaded) /\ Head(code) = p[Len(Loaded) + 1]
      BY <2>2, <3>1, Split
    <3>3. CASE code # <<>> /\ Head(code) \in Imports
      BY <1>1, <1>5, <2>2, <3>2, <3>3 DEF ExtendsByImport
    <3>4. CASE code = <<>> \/ Head(code) \notin Imports
      BY <1>1, <1>2, <1>3, <1>5, <3>2, <3>4 DEF IsEnvOf
    <3>5. QED
      BY <3>3, <3>4
  <2>3. QED
    BY <1>7, <2>1, <2>2 DEF LoadsOf
<1>8. QED
  BY <1>6, <1>7 DEF code

LEMMA AnsweredStep == ASSUME IInv, NEW t \in Tasks, Answered(t) PROVE IInv'
<1> USE DistinctTasks DEF IInv
<1> DEFINE answers == Append(late, Len(envs))
<1>0. PICK n : n = Head(answers)
  OBVIOUS
<1>1. Grown(t) /\ stage[t] # "idle"
  BY Growth DEF Answered
<1>2. /\ late' = Tail(answers) /\ known' = known \cup {n}
      /\ Use(t, n) \/ Refused(t)
      /\ failures' = 0 /\ UNCHANGED <<restarts, alive, timeouts, clean, loaded>>
  BY <1>0 DEF Answered
<1>3. /\ n \in Numbers /\ n < Len(envs')
      /\ late' \in Seq(Numbers) /\ known' \in SUBSET Numbers
      /\ Exist'
      /\ late = <<>> => n = Len(envs) /\ late' = <<>>
  BY <1>0, <1>1, <1>2, AnswerRead
<1> HIDE DEF answers
<1>4. /\ stage' \in [Tasks -> Stages] /\ request' \in [Tasks -> Requests]
      /\ preamble' \in Preambles \cup {<<>>}
      /\ \A u \in Tasks \ {t} : stage'[u] = stage[u] /\ request'[u] = request[u]
      /\ t # User => preamble' = preamble
      /\ \/ stage'[t] = "idle"
         \/ /\ stage[t] = "load" /\ t = User /\ stage'[t] = "check" /\ preamble' = preamble
            /\ request'[t] = [code |-> <<>>, env |-> n]
            /\ cache' = [cache EXCEPT ![preamble] = n]
            /\ UNCHANGED <<base, checked>>
  <2>1. CASE Done(t)
    BY <2>1, Returned
  <2>2. CASE stage[t] = "load" /\ Declare(n) /\ cache' = [cache EXCEPT ![preamble] = n]
             /\ UNCHANGED <<base, preamble, checked>>
    <3>1. t = User
      BY <2>2 DEF StageInv, Tasks
    <3>2. Ask(User, "check", <<>>, n) /\ <<>> \in Seq(Commands) /\ "check" \in Stages
      BY <2>2 DEF Declare, Stages
    <3>3. QED
      BY <1>3, <2>2, <3>1, <3>2, Asked DEF Types
  <2>3. QED
    BY <1>2, <2>1, <2>2 DEF Use, Refused
<1>5. /\ base' \in {base, n}
      /\ base' # base => stage[t] = "share" /\ base' = n
      /\ \/ cache' = cache
         \/ stage[t] = "load" /\ cache' = [cache EXCEPT ![preamble] = n]
      /\ \/ checked' = checked
         \/ /\ stage[t] = "check" /\ UNCHANGED <<base, cache>>
            /\ checked' = [preamble |-> preamble, within |-> Within(t), own |-> late = <<>>]
  BY <1>2 DEF Use, Refused
<1>6. Types'
  <2>1. cache' \in [Preambles \cup {Loaded} -> Numbers \cup {None}]
    BY <1>3, <1>5 DEF Types
  <2>2. checked' \in Reports
    <3>1. (late = <<>>) \in BOOLEAN
      OBVIOUS
    <3>2. Within(t) \in SUBSET Commands /\ preamble \in Preambles \cup {<<>>}
      BY <1>1 DEF Grown, Types
    <3>3. [preamble |-> preamble, within |-> Within(t), own |-> late = <<>>] \in Reports
      BY <3>1, <3>2 DEF Reports
    <3>4. QED
      BY <1>5, <3>3 DEF Types
  <2>3. base' \in Numbers /\ failures' \in Nat
    <3>1. base \in Numbers
      BY DEF Types
    <3>2. base' \in {base, n} /\ failures' = 0
      BY <1>2, <1>5
    <3>3. QED
      BY <1>3, <3>1, <3>2
  <2>4. envs' \in Seq(SUBSET Commands) /\ Len(envs') <= MaxEnvs
    BY <1>1 DEF Grown
  <2>5. kept' \subseteq Sharers
    <3>1. kept \subseteq Sharers /\ (stage[t] = "share" => t \in Sharers)
      BY DEF Types, StageInv, Tasks
    <3>2. kept' = kept \/ (stage[t] = "share" /\ kept' \subseteq kept \cup {t})
      BY <1>2 DEF Use, Refused
    <3>3. QED
      BY <3>1, <3>2
  <2>6. QED
    BY <1>2, <1>3, <1>4, <2>1, <2>2, <2>3, <2>4, <2>5 DEF Types
<1>7. StageInv'
  <2>1. ASSUME NEW u \in Tasks
        PROVE  stage'[u] \in {stage[u], "idle"} \/ (u = User /\ stage'[u] = "check")
    <3>1. CASE u = t
      BY <1>4, <3>1
    <3>2. CASE u # t
      BY <1>4, <3>2
    <3>3. QED
      BY <3>1, <3>2
  <2>2. stage'[User] = "load" => preamble' = preamble /\ stage[User] = "load"
    BY <1>4
  <2>3. QED
    BY <2>1, <2>2 DEF StageInv
<1>8. CleanInv'
  <2>1. SUFFICES ASSUME clean, loaded PROVE RightWhenClean'
    BY <1>2 DEF CleanInv
  <2>2. RightWhenClean
    BY <2>1 DEF CleanInv
  <2>3. n = Len(envs) /\ late' = <<>> /\ late = <<>>
    BY <1>3, <2>2 DEF RightWhenClean
  <2>4. /\ (late = <<>> /\ known = 0..(Len(envs) - 1))'
        /\ \A m \in Numbers : BaseLike(m) => BaseLike(m)'
        /\ \A p \in Preambles \cup {Loaded, <<>>}, m \in Numbers : EnvFor(p, m) => EnvFor(p, m)'
        /\ \A m \in Numbers : m < Len(envs) => m \in known
    BY <1>1, <1>2, <2>1, <2>3, StaysRight
  <2>5. request[t].env \in Numbers /\ base \in Numbers
    BY DEF Types, Requests
  <2>6. BaseLike(base)'
    <3>1. BaseLike(base)
      BY <2>2 DEF RightWhenClean
    <3>2. CASE base' = base
      BY <2>4, <2>5, <3>1, <3>2 DEF BaseLike
    <3>3. CASE base' # base
      <4>1. stage[t] = "share" /\ base' = n /\ t \in Sharers
        BY <1>5, <3>3 DEF StageInv, Tasks
      <4>2. request[t].code = <<t>> /\ BaseLike(request[t].env)
        BY <2>2, <4>1 DEF RightWhenClean
      <4>3. request[t].env \in known
        BY <2>4, <2>5, <4>2 DEF BaseLike
      <4>4. BaseLike(n)'
        BY <1>1, <1>3, <2>3, <4>1, <4>2, <4>3, NewEnv
      <4>5. QED
        BY <4>1, <4>4 DEF BaseLike
    <3>4. QED
      BY <3>2, <3>3
  <2>7. ASSUME stage[t] = "load", t = User, NEW q, q = preamble PROVE EnvFor(q, n)'
    <3>2. /\ LoadsOf(preamble, request[t].code) /\ BaseLike(request[t].env)
          /\ preamble \in Preambles
      BY <2>2, <2>7 DEF RightWhenClean, StageInv
    <3>3. request[t].env \in known
      BY <2>4, <2>5, <3>2 DEF BaseLike
    <3>4. \A p \in Preambles : LoadsOf(p, request[t].code) => EnvFor(p, n)'
      BY <1>1, <1>3, <2>3, <3>2, <3>3, NewEnv
    <3>5. QED
      BY <2>7, <3>2, <3>4
  <2>8. (\A p \in Preambles \cup {Loaded} : cache[p] # None => EnvFor(p, cache[p]))'
    <3>1. \A p \in Preambles \cup {Loaded} : cache[p] # None =>
             cache[p] \in Numbers /\ EnvFor(p, cache[p])
      BY <2>2 DEF RightWhenClean, Types
    <3>2. \A p \in Preambles \cup {Loaded} :
             cache'[p] = cache[p] \/ (p = preamble /\ stage[t] = "load" /\ cache'[p] = n)
      BY <1>5 DEF Types
    <3>3. stage[t] = "load" => t = User
      BY DEF StageInv, Tasks
    <3>4. SUFFICES ASSUME NEW p \in Preambles \cup {Loaded}, cache'[p] # None
                   PROVE  EnvFor(p, cache[p])'
      OBVIOUS
    <3>5. CASE cache'[p] = cache[p]
      <4>1. PICK m \in Numbers : m = cache[p] /\ EnvFor(p, m)
        BY <3>1, <3>4, <3>5
      <4>2. EnvFor(p, m)'
        BY <2>4, <4>1
      <4>3. QED
        BY <3>5, <4>1, <4>2 DEF EnvFor
    <3>6. CASE p = preamble /\ stage[t] = "load" /\ cache'[p] = n
      <4>1. EnvFor(p, n)'
        BY <2>7, <3>3, <3>6
      <4>2. QED
        BY <3>6, <4>1 DEF EnvFor
    <3>7. QED
      BY <3>2, <3>5, <3>6
  <2>9. (\A u \in Sharers : SharesRight(u))'
    <3>1. \A u \in Sharers : SharesRight(u) /\ request[u].env \in Numbers
      BY <2>2 DEF RightWhenClean, SharesRight, Types, Requests
    <3>2. ASSUME NEW u \in Sharers, u # t PROVE SharesRight(u)'
      <4>1. stage'[u] = stage[u] /\ request'[u] = request[u]
        BY <1>4, <3>2
      <4>2. QED
        BY <2>4, <3>1, <4>1 DEF SharesRight, BaseLike
    <3>3. ASSUME t \in Sharers PROVE SharesRight(t)'
      BY <1>4, <3>3 DEF SharesRight
    <3>4. QED
      BY <3>2, <3>3
  <2>10. (stage[User] = "load" => LoadsOf(preamble, request[User].code) /\ BaseLike(request[User].env))'
    <3>1. SUFFICES ASSUME stage'[User] = "load"
                   PROVE  (LoadsOf(preamble, request[User].code) /\ BaseLike(request[User].env))'
      OBVIOUS
    <3>2. stage[User] = "load" /\ request'[User] = request[User] /\ preamble' = preamble
      BY <1>4, <3>1
    <3>3. LoadsOf(preamble, request[User].code) /\ BaseLike(request[User].env)
      BY <2>2, <3>2 DEF RightWhenClean
    <3>4. request[User].env \in Numbers
      BY DEF Types, Requests
    <3>5. QED
      BY <2>4, <3>2, <3>3, <3>4 DEF BaseLike, LoadsOf
  <2>11. (stage[User] = "check" => request[User].code = <<>> /\ EnvFor(preamble, request[User].env))'
    <3>1. SUFFICES ASSUME stage'[User] = "check"
                   PROVE  (request[User].code = <<>> /\ EnvFor(preamble, request[User].env))'
      OBVIOUS
    <3>2. preamble' = preamble
      BY <1>4, <3>1
    <3>3. CASE stage[User] = "check" /\ request'[User] = request[User]
      <4>1. /\ request[User].code = <<>> /\ EnvFor(preamble, request[User].env)
            /\ request[User].env \in Numbers
            /\ preamble \in Preambles \cup {Loaded, <<>>}
        BY <2>2, <3>3 DEF RightWhenClean, Types, Requests
      <4>2. QED
        BY <2>4, <3>2, <3>3, <4>1 DEF EnvFor, IsEnvOf, ExtendsByImport
    <3>4. CASE stage[t] = "load" /\ t = User /\ request'[User] = [code |-> <<>>, env |-> n]
      BY <2>7, <3>2, <3>4 DEF EnvFor, IsEnvOf, ExtendsByImport
    <3>5. QED
      BY <1>4, <3>1, <3>3, <3>4
  <2>12. (checked.own /\ (IsEnvOf(checked.preamble, checked.within) \/ ExtendsByImport(checked.preamble)))'
    <3>1. CASE checked' = checked
      BY <2>2, <3>1 DEF RightWhenClean, IsEnvOf, ExtendsByImport
    <3>2. CASE /\ stage[t] = "check"
               /\ checked' = [preamble |-> preamble, within |-> Within(t), own |-> late = <<>>]
      <4>1. t = User
        BY <3>2 DEF StageInv, Tasks
      <4>2. request[t].code = <<>> /\ EnvFor(preamble, request[t].env)
        BY <2>2, <3>2, <4>1 DEF RightWhenClean
      <4>3. Within(t) = envs[request[t].env + 1]
        BY <2>4, <2>5, <4>2 DEF EnvFor, Within, NamesEnv
      <4>4. IsEnvOf(preamble, Within(t)) \/ ExtendsByImport(preamble)
        BY <4>2, <4>3 DEF EnvFor
      <4>5. checked'.preamble = preamble /\ checked'.within = Within(t)
        BY <3>2
      <4>6. checked'.own = (late = <<>>)
        BY <3>2
      <4>7. checked'.own
        BY <2>3, <4>6
      <4>8. QED
        BY <4>4, <4>5, <4>7 DEF IsEnvOf, ExtendsByImport
    <3>3. QED
      BY <1>5, <3>1, <3>2
  <2>13. QED
    BY <2>4, <2>6, <2>8, <2>9, <2>10, <2>11, <2>12 DEF RightWhenClean, SharesRight
<1>9. QED
  BY <1>3, <1>6, <1>7, <1>8
-----------------------------------------------------------------------------
(* The theorems.                                                            *)

LEMMA StepIInv == IInv /\ [Next]_vars => IInv'
<1> SUFFICES ASSUME IInv, [Next]_vars PROVE IInv'
  OBVIOUS
<1>1. CASE Verify
  BY <1>1, VerifyStep
<1>2. CASE Beat
  BY <1>2, BeatStep
<1>3. ASSUME NEW t \in Sharers, Share(t) PROVE IInv'
  BY <1>3, ShareStep
<1>4. ASSUME NEW t \in Tasks, Answered(t) PROVE IInv'
  BY <1>4, AnsweredStep
<1>5. ASSUME NEW t \in Tasks, FirstTimeout(t) PROVE IInv'
  BY <1>5, FirstTimeoutStep
<1>6. ASSUME NEW t \in Tasks, Lost(t) PROVE IInv'
  BY <1>6, LostStep
<1>7. ASSUME NEW t \in Tasks, RestartBefore(t) PROVE IInv'
  BY <1>7, RestartBeforeStep
<1>8. CASE UNCHANGED vars
  BY <1>8 DEF vars, replVars, linkVars, sessionVars, taskVars, IInv, Types, StageInv,
     Exist, KnownExist, CleanInv, RightWhenClean, BaseLike, EnvFor, IsEnvOf,
     ExtendsByImport
<1>9. QED
  BY <1>1, <1>2, <1>3, <1>4, <1>5, <1>6, <1>7, <1>8 DEF Next

\* The inductive invariant: the types, what each task may be waiting for, that the
\* numbers in use are environments of the current process, and, until something goes
\* wrong, that each number kept or on its way names what it is kept for.
THEOREM Inductive == Spec => []IInv
<1>1. QED
  BY InitIInv, StepIInv, PTL DEF Spec

\* The types of the session's state, and the transport never names an environment the
\* current process does not have (_known_envs is cleared with the process).
THEOREM EnvHolds == Spec => []EnvInv
<1>1. IInv => EnvInv
  <2>1. SUFFICES ASSUME IInv PROVE TypeOK
    BY DEF IInv, Exist, EnvInv
  <2>2. \A i \in 1..Len(envs) : envs[i] \subseteq Commands
    BY <2>1 DEF IInv, Types
  <2>3. \A t \in Tasks : request[t].env \in Numbers
    BY <2>1 DEF IInv, Types, Requests
  <2>4. checked.within \subseteq Commands
    BY <2>1 DEF IInv, Types, Reports
  <2>5. QED
    BY <2>1, <2>2, <2>3, <2>4 DEF IInv, Types, TypeOK, Stages
<1>2. QED
  BY <1>1, Inductive, PTL

\* Until a request is given up or the process replaced, a proof reported to be correct
\* was checked in an environment made of its preamble, to which only the session's own
\* preamble and shared lemmas may have been added, unless the preamble extends the
\* session's own by imports.
THEOREM CheckedHolds == Spec => []CheckedWhenClean
<1>1. IInv => CheckedWhenClean
  BY DEF IInv, CleanInv, RightWhenClean, CheckedWhenClean
<1>2. QED
  BY <1>1, Inductive, PTL

\* Until then the cache leads from each preamble to an environment made of it.
THEOREM CachedHolds == Spec => []CachedWhenClean
<1>1. IInv => CachedWhenClean
  <2>1. IInv => DOMAIN cache = Preambles \cup {Loaded}
    BY DEF IInv, Types
  <2>2. QED
    BY <2>1 DEF IInv, CleanInv, RightWhenClean, CachedWhenClean, CacheRight, EnvFor
<1>2. QED
  BY <1>1, Inductive, PTL

-----------------------------------------------------------------------------
(* Shared lemmas stay.                                                      *)

\* Number n names an environment with every lemma that must stay.
Keeps(n) == n \in known /\ kept \subseteq envs[n + 1]

\* What is sent for a lemma is the lemma.  While no request was given up, no answer is
\* left in the pipe, and the lemmas that must stay are in the base and in every
\* environment from which a call under way will make the next base.
SharesInv ==
  /\ \A t \in Sharers : stage[t] = "share" => request[t].code = <<t>>
  /\ clean => late = <<>>
  /\ clean /\ kept # {} =>
       Keeps(base) /\ \A t \in Sharers : stage[t] = "share" => Keeps(request[t].env)

\* A step that shares no lemma: what is known stays, or no longer matters.
NoShare ==
  clean' => /\ clean /\ late' = <<>>
            /\ base' = base /\ kept' = kept
            /\ known \subseteq known' /\ \A n \in known : envs'[n + 1] = envs[n + 1]

LEMMA SharesInit == Init => SharesInv
  BY DEF Init, SharesInv, Tasks

LEMMA KeepsKept == ASSUME SharesInv, NoShare, clean', NEW n, Keeps(n) PROVE Keeps(n)'
  <1>1. n \in known' /\ envs'[n + 1] = envs[n + 1] /\ kept' = kept
    BY DEF Keeps, NoShare
  <1> QED
    BY <1>1 DEF Keeps

\* The requests of the sharers stay, end, or name the base.
LEMMA SharesKept ==
  ASSUME SharesInv, NoShare,
         \A s \in Sharers : stage'[s] = "share" =>
           \/ stage[s] = "share" /\ request'[s] = request[s]
           \/ request'[s].code = <<s>> /\ request'[s].env = base
  PROVE  SharesInv'
  <1>1. \A s \in Sharers : stage'[s] = "share" => request'[s].code = <<s>>
    BY DEF SharesInv
  <1>2. clean' => late' = <<>>
    BY DEF NoShare
  <1>3. ASSUME clean', kept' # {}
        PROVE  Keeps(base)' /\ \A s \in Sharers : stage'[s] = "share" => Keeps(request[s].env)'
    <2>1. clean /\ kept # {} /\ base' = base
      BY <1>3 DEF NoShare
    <2>2. Keeps(base)
      BY <2>1 DEF SharesInv
    <2>3. \A n : Keeps(n) => (n \in known' /\ kept' \subseteq envs'[n + 1])
      BY <1>3, KeepsKept DEF Keeps
    <2>4. ASSUME NEW s \in Sharers, stage'[s] = "share"
          PROVE  request'[s].env \in known' /\ kept' \subseteq envs'[request'[s].env + 1]
      <3>1. Keeps(request'[s].env)
        BY <2>1, <2>2, <2>4 DEF SharesInv
      <3> QED
        BY <2>3, <3>1
    <2> QED
      BY <2>1, <2>2, <2>3, <2>4 DEF Keeps
  <1> QED
    BY <1>1, <1>2, <1>3 DEF SharesInv

LEMMA AskShares ==
  ASSUME Types, SharesInv, NoShare, NEW t \in Tasks, NEW what, NEW code, NEW env,
         Ask(t, what, code, env), t \in Sharers => code = <<t>> /\ env = base
  PROVE  SharesInv'
  <1>1. /\ stage' = [stage EXCEPT ![t] = what]
        /\ request' = [request EXCEPT ![t] = [code |-> code, env |-> env]]
    BY DEF Ask
  <1>2. ASSUME NEW s \in Sharers, stage'[s] = "share"
        PROVE  \/ stage[s] = "share" /\ request'[s] = request[s]
               \/ request'[s].code = <<s>> /\ request'[s].env = base
    <2>1. CASE s = t
      BY <1>1, <1>2, <2>1 DEF Types, Tasks
    <2>2. CASE s # t
      BY <1>1, <1>2, <2>2 DEF Types, Tasks
    <2> QED
      BY <2>1, <2>2
  <1> QED
    BY <1>2, SharesKept

LEMMA DoneShares ==
  ASSUME Types, SharesInv, NoShare, NEW t \in Tasks, Done(t)
  PROVE  SharesInv'
  <1>1. \A s \in Sharers : stage'[s] = "share" => stage[s] = "share" /\ request'[s] = request[s]
    BY DEF Done, Types, Tasks
  <1> QED
    BY <1>1, SharesKept

\* What an answer that is not a late one adds is all that its request names and sends.
LEMMA AnswerAdds ==
  ASSUME Types, KnownExist, SharesInv, NEW t \in Tasks, Answered(t), clean
  PROVE  /\ Head(Append(late, Len(envs))) = Len(envs) /\ late' = <<>>
         /\ known' = known \cup {Len(envs)}
         /\ envs'[Len(envs) + 1] = Within(t) \cup Range(request[t].code)
         /\ \A n \in known : envs'[n + 1] = envs[n + 1]
  <1>1. late = <<>>
    BY DEF SharesInv
  <1>2. \A x : Head(Append(<<>>, x)) = x /\ Tail(Append(<<>>, x)) = <<>>
    OBVIOUS
  <1>3. /\ late' = Tail(Append(late, Len(envs)))
        /\ known' = known \cup {Head(Append(late, Len(envs)))}
        /\ envs' = Append(envs, Within(t) \cup Range(request[t].code))
    BY DEF Answered, Elaborated
  <1>4. envs \in Seq(SUBSET Commands) /\ \A n \in known : n \in Nat /\ n < Len(envs)
    BY DEF Types, KnownExist, Numbers
  <1> DEFINE new == Within(t) \cup Range(request[t].code)
  <1>5. envs' = Append(envs, new)
    BY <1>3
  <1> HIDE DEF new
  <1>6. envs'[Len(envs) + 1] = new /\ \A n \in known : envs'[n + 1] = envs[n + 1]
    BY <1>4, <1>5
  <1> QED
    BY <1>1, <1>2, <1>3, <1>6 DEF new

\* A lemma is shared.
LEMMA ShareShares ==
  ASSUME Types, StageInv, KnownExist, SharesInv, NEW t \in Sharers, Answered(t), clean,
         stage[t] = "share", Done(t), base' = Head(Append(late, Len(envs))),
         kept' = IF SharesAlone(t) THEN kept \cup {t} ELSE kept
  PROVE  SharesInv'
  <1>0. t \in Tasks
    BY DEF Tasks
  <1>1. /\ base' = Len(envs) /\ late' = <<>> /\ known' = known \cup {Len(envs)}
        /\ envs'[Len(envs) + 1] = Within(t) \cup Range(request[t].code)
        /\ \A n \in known : envs'[n + 1] = envs[n + 1]
    BY <1>0, AnswerAdds
  <1>2. request[t].code = <<t>> /\ Range(<<t>>) = {t}
    BY DEF SharesInv, Range
  <1>3. kept # {} => kept \subseteq Within(t)
    <2>1. t \notin Imports /\ Head(<<t>>) = t
      BY CodeAssumption
    <2>2. kept # {} => Keeps(request[t].env)
      BY DEF SharesInv
    <2>3. request[t].env \in known => NamesEnv(t)
      BY <1>2, <2>1 DEF NamesEnv
    <2> QED
      BY <2>2, <2>3 DEF Keeps, Within
  <1>4. kept' \subseteq kept \cup {t}
    OBVIOUS
  <1>5. Keeps(base)'
    BY <1>1, <1>2, <1>3, <1>4 DEF Keeps
  <1>6. ASSUME NEW s \in Sharers, stage'[s] = "share"
        PROVE  s # t /\ stage[s] = "share" /\ request'[s] = request[s]
    BY <1>0, <1>6 DEF Done, Types, Tasks
  <1>7. ASSUME NEW s \in Sharers, stage'[s] = "share", kept' # {}
        PROVE  request'[s].env \in known' /\ kept' \subseteq envs'[request'[s].env + 1]
    <2>1. kept' = kept
      BY <1>6, <1>7 DEF SharesAlone
    <2>2. Keeps(request[s].env) /\ request'[s] = request[s]
      BY <1>6, <1>7, <2>1 DEF SharesInv
    <2> QED
      BY <1>1, <2>1, <2>2 DEF Keeps
  <1>8. \A s \in Sharers : stage'[s] = "share" => request'[s].code = <<s>>
    BY <1>6 DEF SharesInv
  <1> QED
    BY <1>1, <1>5, <1>7, <1>8 DEF SharesInv, Keeps

LEMMA SharesStep == ASSUME IInv, SharesInv, [Next]_vars PROVE SharesInv'
  <1>0. /\ Types /\ StageInv /\ KnownExist
        /\ User \in Tasks /\ Heartbeat \in Tasks /\ Sharers \subseteq Tasks
        /\ User \notin Sharers /\ Heartbeat \notin Sharers
    BY TasksAssumption DEF IInv, Exist, Tasks
  <1>1. ASSUME UNCHANGED <<replVars, linkVars, base, kept>> PROVE NoShare
    BY <1>1 DEF NoShare, replVars, linkVars, SharesInv
  <1>2. ASSUME clean' = FALSE PROVE NoShare
    BY <1>2 DEF NoShare
  <1>3. CASE Verify
    <2>1. PICK p \in Preambles : FindEnv(p)
      BY <1>3 DEF Verify
    <2>2. \E what, code, env : Ask(User, what, code, env)
      BY <2>1 DEF FindEnv, Declare
    <2>3. NoShare
      BY <1>1, <1>3 DEF Verify
    <2> QED
      BY <1>0, <2>2, <2>3, AskShares
  <1>4. CASE Beat
    <2>1. NoShare
      BY <1>1, <1>4 DEF Beat, sessionVars
    <2> QED
      BY <1>0, <1>4, <2>1, AskShares DEF Beat
  <1>5. ASSUME NEW t \in Sharers, Share(t) PROVE SharesInv'
    <2>1. NoShare
      BY <1>1, <1>5 DEF Share, sessionVars
    <2>2. Ask(t, "share", <<t>>, base)
      BY <1>5 DEF Share
    <2> QED
      BY <1>0, <2>1, <2>2, AskShares
  <1>6. ASSUME NEW t \in Tasks, Answered(t) PROVE SharesInv'
    <2>1. CASE ~clean
      <3>1. NoShare
        BY <1>6, <2>1 DEF Answered, NoShare
      <3>2. CASE Done(t)
        BY <1>0, <3>1, <3>2, DoneShares
      <3>3. CASE stage[t] = "load" /\ \E n : Declare(n)
        BY <1>0, <3>1, <3>3, AskShares DEF Declare
      <3> QED
        BY <1>6, <3>2, <3>3 DEF Answered, Use, Refused
    <2>2. CASE clean
      <3>1. ASSUME base' = base, kept' = kept PROVE NoShare
        BY <1>0, <1>6, <2>2, <3>1, AnswerAdds DEF NoShare
      <3>2. CASE Done(t) /\ base' = base /\ kept' = kept
        BY <1>0, <3>1, <3>2, DoneShares
      <3>3. CASE (\E n : Declare(n)) /\ base' = base /\ kept' = kept
        BY <1>0, <3>1, <3>3, AskShares DEF Declare
      <3>4. CASE /\ stage[t] = "share" /\ Done(t) /\ base' = Head(Append(late, Len(envs)))
                 /\ kept' = IF SharesAlone(t) THEN kept \cup {t} ELSE kept
        <4>1. t \in Sharers
          BY <1>0, <3>4 DEF StageInv, Tasks
        <4> QED
          BY <1>0, <1>6, <2>2, <3>4, <4>1, ShareShares
      <3> QED
        BY <1>6, <3>2, <3>3, <3>4 DEF Answered, Use, Refused
    <2> QED
      BY <2>1, <2>2
  <1>7. ASSUME NEW t \in Tasks, FirstTimeout(t) PROVE SharesInv'
    BY <1>0, <1>2, <1>7, DoneShares DEF FirstTimeout
  <1>8. ASSUME NEW t \in Tasks, Lost(t) PROVE SharesInv'
    <2>1. NoShare
      BY <1>8 DEF Lost, Restart, Replace, replVars, sessionVars, SharesInv, NoShare
    <2> QED
      BY <1>0, <1>8, <2>1, DoneShares DEF Lost
  <1>9. ASSUME NEW t \in Tasks, RestartBefore(t) PROVE SharesInv'
    <2>1. NoShare
      BY <1>2, <1>9 DEF RestartBefore, Restart, Replace
    <2> QED
      BY <1>9, <2>1, SharesKept DEF RestartBefore, taskVars
  <1>10. CASE UNCHANGED vars
    <2>1. NoShare
      BY <1>1, <1>10 DEF vars, sessionVars
    <2> QED
      BY <1>10, <2>1, SharesKept DEF vars, taskVars
  <1> QED
    BY <1>3, <1>4, <1>5, <1>6, <1>7, <1>8, <1>9, <1>10 DEF Next

\* Until a request is given up or the process replaced, the base keeps every lemma that
\* was shared by a call with which no other was under way when it was answered, although
\* calls overlap before and after it (engine/async_lean_pool.py, share_lemma).
THEOREM SharedLemmasStay == Spec => []SharedStays
<1>1. Spec => []SharesInv
  <2>1. IInv /\ SharesInv /\ [Next]_vars => SharesInv'
    BY SharesStep
  <2> QED
    BY <2>1, SharesInit, Inductive, PTL DEF Spec
<1>2. IInv /\ SharesInv => SharedStays
  BY DEF IInv, Exist, KnownExist, SharesInv, Keeps, SharedStays
<1> QED
  BY <1>1, <1>2, Inductive, PTL

=============================================================================
