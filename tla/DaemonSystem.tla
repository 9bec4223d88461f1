---------------------------- MODULE DaemonSystem ----------------------------
(***************************************************************************)
(* SocketTransport clients and the daemon they verify proofs with: the two *)
(* ends share the connections, and take their steps one at a time.         *)
(***************************************************************************)
EXTENDS LeanDaemon, SocketTransport

vars == <<channelVars, daemonVars, clientVars>>

Init == ConnsInit /\ DaemonInit /\ ClientInit

Next ==
  \/ DaemonNext /\ UNCHANGED clientVars
  \/ ClientNext /\ UNCHANGED daemonVars

Spec == Init /\ [][Next]_vars

\* The daemon's event loop runs every ready task and fires every timer.  Nothing
\* makes a client close its end, a process read its input or die, or a permit come
\* free.
FairSpec == Spec /\ \A k \in Conns : WF_vars(HandlerStep(k) /\ UNCHANGED clientVars)

TypeOK == ConnsTypeOK /\ DaemonTypeOK /\ ClientTypeOK

-----------------------------------------------------------------------------
(* Properties that hold.                                                    *)

\* Sessions that hold a permit of the semaphore.
Permitted == Range(warm) \cup dropped \cup {session[k] : k \in {j \in Conns : Holds(j)}}

\* Every permit is free or held by a session: one in the queue, one that a handler
\* uses, or one found dead in the queue.  None is returned twice, also when
\* shutdown() has emptied _sessions before the handlers release theirs.
PermitsAccounted == permits + Cardinality(Permitted) = MaxConcurrent

\* LEAN_MAX_CONCURRENT limits the processes, those being killed and those of a
\* shutdown under way included.
ProcessesLimited == Cardinality(running) <= MaxConcurrent

\* "Each client connection gets a dedicated REPL process": no session serves two
\* connections, or one connection while it waits in the queue.
SessionsDedicated ==
  \A j, k \in Conns :
    Holds(j) => /\ session[j] \notin Range(warm)
                /\ Holds(k) /\ session[j] = session[k] => j = k

\* What every state satisfies: the types, the permits, the limit on the processes, and
\* the sessions dedicated.
DaemonInv == TypeOK /\ PermitsAccounted /\ ProcessesLimited /\ SessionsDedicated

Received(c) == call[c] = "wait" /\ call'[c] = "idle" /\ outbox'[link[c]] # outbox[link[c]]
Arriving(c) == Head(outbox[link[c]])

\* While neither end gave up on a request of the connection, nor the daemon on one
\* of its session, and neither left the rest of a line in the stream, an answer of the
\* REPL is received by the call it answers.
InStepReceives ==
  [][\A c \in Clients :
       (/\ Received(c) /\ Arriving(c).kind = "answer"
        /\ link[c] \notin gaveUp /\ session[link[c]] \notin slipped)
         => Arriving(c).of = mine[c]]_vars

\* The handler waits for a process that runs and does not read its input.
Blocked(k) == handler[k] = "draining" /\ session[k] \in running

\* When a client has hung up, its session is released, whatever it was doing, but for
\* a handler whose process does not read: send() has no time limit for drain().
SessionsReturned ==
  \A k \in Conns : Holds(k) /\ ~clientEnd[k] ~> ~Holds(k) \/ ~daemonEnd[k] \/ Blocked(k)

-----------------------------------------------------------------------------
(* What the code's comments say, and the code does not do.                  *)

\* "Verify a complete theorem and proof" (verify_complete): a proof that is reported
\* verified was answered by Lean, and not only by a daemon without a REPL to spare.
VerifiedByLean ==
  [][\A c \in Clients :
       Received(c) /\ verdict'[c] = "verified" => Arriving(c).kind = "answer"]_vars
=============================================================================
