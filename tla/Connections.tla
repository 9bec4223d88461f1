---------------------------- MODULE Connections ----------------------------
(***************************************************************************)
(* The connections between the clients and the Lean daemon: JSON lines     *)
(* over a Unix socket.  Each carries requests one way and responses the    *)
(* other, in order, until one end is closed.                               *)
(***************************************************************************)
EXTENDS Integers, Sequences, FiniteSets

CONSTANT Conns  \* 1..n, the connections, numbered as they are made

ASSUME ConnsAssumption == Conns \subseteq Nat \ {0} /\ IsFiniteSet(Conns)

None == 0

VARIABLES
  listening,  \* the daemon accepts connections
  dialed,     \* number of connections made
  clientEnd,  \* whether the client's end of each is open
  daemonEnd,  \* whether the daemon's end of each is open
  inbox,      \* requests written to each and not read by its handler
  outbox      \* responses written to each and not read by the client

channelVars == <<listening, dialed, clientEnd, daemonEnd, inbox, outbox>>

\* A response: an answer of the REPL to request "of", an error message of the
\* daemon, or the refusal of the connection, which is no answer at all.
Response(kind, of) == [kind |-> kind, of |-> of]
Failure == Response("failed", None)
Refusal == Response("refused", None)
Rest == Response("rest", None)  \* what is left of a line longer than readline() takes

ConnsTypeOK ==
  /\ listening \in BOOLEAN /\ dialed \in Nat
  /\ clientEnd \in [Conns -> BOOLEAN] /\ daemonEnd \in [Conns -> BOOLEAN]
  /\ \A k \in Conns : /\ \A i \in 1..Len(inbox[k]) : inbox[k][i] \in Nat \ {0}
                      /\ \A i \in 1..Len(outbox[k]) : outbox[k][i].of \in Nat

ConnsInit ==
  /\ listening = TRUE /\ dialed = 0
  /\ clientEnd = [k \in Conns |-> FALSE] /\ daemonEnd = [k \in Conns |-> FALSE]
  /\ inbox = [k \in Conns |-> <<>>] /\ outbox = [k \in Conns |-> <<>>]
=============================================================================
