----------------------------- MODULE LeanDaemon -----------------------------
(***************************************************************************)
(* The REPL mode of docker/lean_daemon.py: a server that gives each client *)
(* connection a REPL process of its own.  A semaphore limits the           *)
(* processes; some are started, and sent a preamble, before the server     *)
(* listens, and wait in a queue.                                           *)
(*                                                                         *)
(* SocketTransport is the other end of the connections; DaemonSystem puts  *)
(* the two together.                                                       *)
(***************************************************************************)
EXTENDS Connections, SequencesExt

CONSTANTS
  MaxConcurrent,  \* the permits of the semaphore
  Prewarm,        \* LEAN_PREWARM: sessions started before the server listens
  MaxSessions     \* bound of the model: sessions ever started

ASSUME DaemonAssumption ==
  /\ MaxConcurrent \in Nat \ {0} /\ MaxSessions \in Nat
  /\ Prewarm \in 0..MaxConcurrent /\ Prewarm <= MaxSessions

Sessions == 1..MaxSessions

VARIABLES
  (* REPLPool *)
  permits,    \* of _semaphore
  warm,       \* _warm_queue
  listed,     \* _sessions
  created,    \* _next_id
  (* the handlers, one per connection *)
  handler,    \* what handle_client_repl is doing
  session,    \* the session it holds, or held
  (* the REPL processes *)
  running,    \* sessions whose process runs
  pipe,       \* requests of each session that have not been answered
  cut,        \* sessions whose next line is the rest of one that was too long
  (* history *)
  dropped,    \* sessions that were taken from the queue and found dead
  slipped     \* sessions on which a request, or the preamble, timed out, or was
              \* answered with a line of which a rest was left

poolVars == <<permits, warm, listed, created>>
handlerVars == <<handler, session>>
daemonVars == <<poolVars, handlerVars, running, pipe, cut, dropped, slipped>>

DaemonTypeOK ==
  /\ permits \in 0..MaxConcurrent
  /\ created \in 0..MaxSessions
  /\ Range(warm) \subseteq 1..created /\ listed \subseteq 1..created
  /\ running \subseteq 1..created /\ cut \subseteq running
  /\ handler \in [Conns -> {"new", "acquiring", "starting", "reading", "draining",
                            "sending", "releasing", "done"}]
  /\ session \in [Conns -> Sessions \cup {None}]

-----------------------------------------------------------------------------
\* Mutant: the preamble is sent and its answer is not read.
PreambleUnread(s) == IF s <= created THEN <<None>> ELSE <<>>

\* The answer to the preamble (request 0) comes after its time limit.
AfterPreamble(s) == IF s \in slipped THEN <<None>> ELSE <<>>

\* prewarm(): the sessions that started wait in the queue, alive or not.
DaemonInit ==
  /\ created \in 0..Prewarm
  /\ permits = MaxConcurrent - created
  /\ warm = [i \in 1..created |-> i]
  /\ listed = 1..created
  /\ running \in SUBSET (1..created)
  /\ slipped \in SUBSET (1..created)
  /\ pipe = [s \in Sessions |-> AfterPreamble(s)]
  /\ cut = {}
  /\ handler = [k \in Conns |-> "new"]
  /\ session = [k \in Conns |-> None]
  /\ dropped = {}

\* The handler has its session, and the permit of it.
Holds(k) == session[k] # None /\ handler[k] # "done"

HandlerAt(k, where) == handler' = [handler EXCEPT ![k] = where]

Respond(k, response) ==
  outbox' = [outbox EXCEPT ![k] = IF clientEnd[k] THEN Append(@, response) ELSE @]

\* The daemon closes its end: what it has not read is lost.
Hangup(k) ==
  /\ daemonEnd' = [daemonEnd EXCEPT ![k] = FALSE]
  /\ inbox' = [inbox EXCEPT ![k] = <<>>]

\* The processes of sessions ss end, and with them what is in their pipes.
Kill(ss) ==
  /\ running' = running \ ss
  /\ pipe' = [s \in Sessions |-> IF s \in ss THEN <<>> ELSE pipe[s]]
  /\ cut' = cut \ ss

-----------------------------------------------------------------------------
(* REPLPool.acquire().                                                      *)

TakeWarm(k) ==
  /\ handler[k] = "new" /\ daemonEnd[k]
  /\ warm # <<>> /\ Head(warm) \in running
  /\ warm' = Tail(warm)
  /\ session' = [session EXCEPT ![k] = Head(warm)]
  /\ HandlerAt(k, "reading")
  /\ UNCHANGED <<channelVars, permits, listed, created, running, pipe, cut,
                 dropped, slipped>>

\* The queue is empty, or its first session is dead and is dropped, permit and all.
TakeNone(k) ==
  /\ handler[k] = "new" /\ daemonEnd[k]
  /\ \/ warm = <<>> /\ UNCHANGED <<warm, dropped>>
     \/ /\ warm # <<>> /\ Head(warm) \notin running
        /\ warm' = Tail(warm)
        /\ dropped' = dropped \cup {Head(warm)}
  /\ HandlerAt(k, "acquiring")
  /\ UNCHANGED <<channelVars, permits, listed, created, session, running,
                 pipe, cut, slipped>>

Acquire(k) ==
  /\ handler[k] = "acquiring" /\ daemonEnd[k]
  /\ permits > 0 /\ created < MaxSessions
  /\ permits' = permits - 1
  /\ created' = created + 1
  /\ session' = [session EXCEPT ![k] = created + 1]
  /\ HandlerAt(k, "starting")
  /\ UNCHANGED <<channelVars, warm, listed, running, pipe, cut, dropped, slipped>>

Started(k) ==
  /\ handler[k] = "starting" /\ daemonEnd[k]
  /\ running' = running \cup {session[k]}
  /\ listed' = listed \cup {session[k]}
  /\ HandlerAt(k, "reading")
  /\ UNCHANGED <<channelVars, permits, warm, created, session, pipe, cut,
                 dropped, slipped>>

\* "No REPL available", and the handler returns.
StartFails(k) ==
  /\ handler[k] = "starting" /\ daemonEnd[k]
  /\ permits' = permits + 1
  /\ Respond(k, Refusal)
  /\ Hangup(k)
  /\ HandlerAt(k, "done")
  /\ UNCHANGED <<listening, dialed, clientEnd, warm, listed, created, session,
                 running, pipe, cut, dropped, slipped>>

-----------------------------------------------------------------------------
(* The request loop of handle_client_repl, with REPLSession.send.           *)

ReadRequest(k) ==
  /\ handler[k] = "reading" /\ daemonEnd[k]
  /\ inbox[k] # <<>>
  /\ inbox' = [inbox EXCEPT ![k] = Tail(@)]
  /\ IF session[k] \in running
       THEN /\ pipe' = [pipe EXCEPT ![session[k]] = Append(@, Head(inbox[k]))]
            /\ HandlerAt(k, "sending") \/ HandlerAt(k, "draining")
            /\ UNCHANGED outbox
       ELSE /\ Respond(k, Failure)
            /\ UNCHANGED <<pipe, handler>>
  /\ UNCHANGED <<listening, dialed, clientEnd, daemonEnd, poolVars, session, running,
                 cut, dropped, slipped>>

\* drain() waits, without a time limit, for a process that does not read its input.
Drains(k) ==
  /\ handler[k] = "draining" /\ daemonEnd[k]
  /\ session[k] \in running
  /\ HandlerAt(k, "sending")
  /\ UNCHANGED <<channelVars, poolVars, session, running, pipe, cut, dropped, slipped>>

\* The process ends, and drain() raises.
DrainFails(k) ==
  /\ handler[k] = "draining" /\ daemonEnd[k]
  /\ session[k] \notin running
  /\ Respond(k, Failure)
  /\ HandlerAt(k, "reading")
  /\ UNCHANGED <<listening, dialed, clientEnd, daemonEnd, inbox, poolVars, session,
                 running, pipe, cut, dropped, slipped>>

\* The next line of the REPL, whichever request it answers, goes to the client.  One
\* that is longer than readline() takes is an error, and may leave a rest in the stream.
Answered(k) ==
  /\ handler[k] = "sending" /\ daemonEnd[k]
  /\ session[k] \in running
  /\ session[k] \notin cut
  /\ pipe' = [pipe EXCEPT ![session[k]] = Tail(@)]
  /\ \/ /\ \/ Respond(k, Response("answer", Head(pipe[session[k]])))
           \/ Respond(k, Failure)
        /\ UNCHANGED <<cut, slipped>>
     \/ /\ Respond(k, Failure)
        /\ cut' = cut \cup {session[k]}
        /\ slipped' = slipped \cup {session[k]}
  /\ HandlerAt(k, "reading")
  /\ UNCHANGED <<listening, dialed, clientEnd, daemonEnd, inbox, poolVars, session,
                 running, dropped>>

\* The next line is a rest: no JSON, or again too long.
RestRead(k) ==
  /\ handler[k] = "sending" /\ daemonEnd[k]
  /\ session[k] \in cut
  /\ Respond(k, Failure)
  /\ cut' = cut \ {session[k]} \/ UNCHANGED cut
  /\ HandlerAt(k, "reading")
  /\ UNCHANGED <<listening, dialed, clientEnd, daemonEnd, inbox, poolVars, session,
                 running, pipe, dropped, slipped>>

\* Mutant: no time limit.
NoTimeLimit(k) ==
  /\ handler[k] = "sending" /\ daemonEnd[k]
  /\ UNCHANGED <<channelVars, daemonVars>>

\* The time limit, or the end of the process: an error message for the client.
Unanswered(k) ==
  /\ handler[k] = "sending" /\ daemonEnd[k]
  /\ Respond(k, Failure)
  /\ slipped' = slipped \cup {session[k]}
  /\ HandlerAt(k, "reading")
  /\ UNCHANGED <<listening, dialed, clientEnd, daemonEnd, inbox, poolVars, session,
                 running, pipe, cut, dropped>>

\* Mutant: the session is released and its process goes on.
EndsAlive(k) ==
  /\ handler[k] = "reading" /\ daemonEnd[k]
  /\ ~clientEnd[k]
  /\ HandlerAt(k, "releasing")
  /\ UNCHANGED <<channelVars, poolVars, session, running, pipe, cut, dropped, slipped>>

\* The client has gone, or its request is longer than readline() takes: the finally
\* block releases the session, which kills its process first.
Ends(k) ==
  /\ handler[k] = "reading" /\ daemonEnd[k]
  /\ ~clientEnd[k] \/ inbox[k] # <<>>
  /\ Kill({session[k]})
  /\ HandlerAt(k, "releasing")
  /\ UNCHANGED <<channelVars, poolVars, session, dropped, slipped>>

\* Mutant: a permit is returned twice.
ReleasedTwice(k) ==
  /\ handler[k] = "releasing" /\ daemonEnd[k]
  /\ permits' = permits + 2
  /\ listed' = listed \ {session[k]}
  /\ Hangup(k)
  /\ HandlerAt(k, "done")
  /\ UNCHANGED <<listening, dialed, clientEnd, outbox, warm, created, session,
                 running, pipe, cut, dropped, slipped>>

Released(k) ==
  /\ handler[k] = "releasing" /\ daemonEnd[k]
  /\ permits' = permits + 1
  /\ listed' = listed \ {session[k]}
  /\ Hangup(k)
  /\ HandlerAt(k, "done")
  /\ UNCHANGED <<listening, dialed, clientEnd, outbox, warm, created, session,
                 running, pipe, cut, dropped, slipped>>

-----------------------------------------------------------------------------
Crash(s) ==
  /\ s \in running
  /\ Kill({s})
  /\ UNCHANGED <<channelVars, poolVars, handlerVars, dropped, slipped>>

\* SIGTERM: the listed sessions are closed while the handlers go on, and then the
\* event loop stops.
Shutdown ==
  /\ listening
  /\ listening' = FALSE
  /\ Kill(listed)
  /\ listed' = {}
  /\ UNCHANGED <<dialed, clientEnd, daemonEnd, inbox, outbox, permits, warm, created,
                 handlerVars, dropped, slipped>>

LoopStops ==
  /\ ~listening /\ \E k \in Conns : daemonEnd[k]
  /\ daemonEnd' = [k \in Conns |-> FALSE]
  /\ inbox' = [k \in Conns |-> <<>>]
  /\ Kill(running)
  /\ UNCHANGED <<listening, dialed, clientEnd, outbox, poolVars, handlerVars, dropped,
                 slipped>>

HandlerStep(k) ==
  \/ TakeWarm(k) \/ TakeNone(k) \/ Acquire(k) \/ Started(k) \/ StartFails(k)
  \/ ReadRequest(k) \/ DrainFails(k) \/ Answered(k) \/ RestRead(k) \/ Unanswered(k)
  \/ Ends(k) \/ Released(k)

DaemonNext ==
  \/ \E k \in Conns : HandlerStep(k) \/ Drains(k)
  \/ \E s \in Sessions : Crash(s)
  \/ Shutdown \/ LoopStops
=============================================================================
