--------------------------- MODULE SocketTransport ---------------------------
(***************************************************************************)
(* engine/transport.py, SocketTransport: the client of the Lean daemon,    *)
(* with the session that reads its results (_parse_verify_response).  Each *)
(* client has one connection at a time and one request on it: _send_lock   *)
(* serves the calls of send() one by one.                                  *)
(*                                                                         *)
(* All requests are proofs to be verified.  A request is known by its      *)
(* number, which is its id on the wire.                                    *)
(***************************************************************************)
EXTENDS Connections

CONSTANTS
  Clients,
  MaxReconnects,  \* of the transport
  MaxRequests     \* bound of the model: requests of all clients

ASSUME ClientAssumption == MaxReconnects \in Nat /\ MaxRequests \in Nat

VARIABLES
  link,        \* _reader and _writer: the connection of each client
  call,        \* what its send() is doing
  asked,       \* request numbers used, of all clients
  mine,        \* the request each client waits for
  is_alive,    \* _alive
  reconnects,  \* _stats.total_restarts
  verdict,     \* of its last call: "verified", "failed" or "none"
  (* history *)
  gaveUp       \* connections on which a request was given up, or a rest was left

clientVars == <<link, call, asked, mine, is_alive, reconnects, verdict, gaveUp>>

ClientTypeOK ==
  /\ link \in [Clients -> Conns \cup {None}]
  /\ call \in [Clients -> {"idle", "write", "wait", "redial", "revive"}]
  /\ asked \in 0..MaxRequests
  /\ mine \in [Clients -> 0..MaxRequests]
  /\ is_alive \in [Clients -> BOOLEAN]
  /\ reconnects \in [Clients -> 0..MaxReconnects]
  /\ verdict \in [Clients -> {"verified", "failed", "none"}]
  /\ gaveUp \subseteq Conns

ClientInit ==
  /\ link = [c \in Clients |-> None]
  /\ call = [c \in Clients |-> "idle"]
  /\ asked = 0
  /\ mine = [c \in Clients |-> None]
  /\ is_alive = [c \in Clients |-> FALSE]
  /\ reconnects = [c \in Clients |-> 0]
  /\ verdict = [c \in Clients |-> "none"]
  /\ gaveUp = {}

Goto(c, where) == call' = [call EXCEPT ![c] = where]

\* The call returns, to a session that makes of it what v says.
Return(c, v) ==
  /\ Goto(c, "idle")
  /\ verdict' = [verdict EXCEPT ![c] = v]
  /\ mine' = [mine EXCEPT ![c] = None]

-----------------------------------------------------------------------------
(* Connecting.                                                              *)

\* The connection c had is closed: what it has not read is lost.
ClosedBy(c) == IF link[c] = None THEN clientEnd ELSE [clientEnd EXCEPT ![link[c]] = FALSE]
UnreadBy(c) == IF link[c] = None THEN outbox ELSE [outbox EXCEPT ![link[c]] = <<>>]

\* _connect(): a new connection, if the daemon listens.
Dial(c) ==
  \/ /\ listening /\ dialed + 1 \in Conns
     /\ dialed' = dialed + 1
     /\ clientEnd' = [ClosedBy(c) EXCEPT ![dialed + 1] = TRUE]
     /\ daemonEnd' = [daemonEnd EXCEPT ![dialed + 1] = TRUE]
     /\ link' = [link EXCEPT ![c] = dialed + 1]
     /\ is_alive' = [is_alive EXCEPT ![c] = TRUE]
     /\ outbox' = UnreadBy(c)
     /\ UNCHANGED <<inbox, listening>>
  \/ /\ ~listening
     /\ clientEnd' = ClosedBy(c)
     /\ outbox' = UnreadBy(c)
     /\ UNCHANGED <<dialed, daemonEnd, inbox, listening, link, is_alive>>

Start(c) ==
  /\ call[c] = "idle" /\ link[c] = None
  /\ Dial(c)
  /\ UNCHANGED <<call, asked, mine, reconnects, verdict, gaveUp>>

\* _reconnect(), from the head of send() or from its exception handler.
Redial(c) ==
  /\ call[c] \in {"redial", "revive"}
  /\ reconnects[c] < MaxReconnects
  /\ reconnects' = [reconnects EXCEPT ![c] = @ + 1]
  /\ Dial(c)
  /\ IF call[c] = "redial" /\ link'[c] # link[c]
       THEN Goto(c, "write") /\ UNCHANGED <<verdict, mine>>
       ELSE Return(c, "failed")
  /\ UNCHANGED <<asked, gaveUp>>

RedialRefused(c) ==
  /\ call[c] \in {"redial", "revive"}
  /\ reconnects[c] = MaxReconnects
  /\ is_alive' = [is_alive EXCEPT ![c] = FALSE]
  /\ Return(c, "failed")
  /\ UNCHANGED <<channelVars, link, asked, reconnects, gaveUp>>

-----------------------------------------------------------------------------
(* send().                                                                  *)

Writable(c) == link[c] # None /\ clientEnd[link[c]]

Send(c) ==
  /\ call[c] = "idle" /\ asked < MaxRequests
  /\ Goto(c, IF Writable(c) THEN "write" ELSE "redial")
  /\ verdict' = [verdict EXCEPT ![c] = "none"]
  /\ UNCHANGED <<channelVars, link, asked, mine, is_alive, reconnects, gaveUp>>

\* The request is written, or the other end turns out to be closed.
Write(c) ==
  /\ call[c] = "write" /\ asked < MaxRequests
  /\ asked' = asked + 1
  /\ mine' = [mine EXCEPT ![c] = asked + 1]
  /\ IF Writable(c) /\ daemonEnd[link[c]]
       THEN /\ inbox' = [inbox EXCEPT ![link[c]] = Append(@, asked + 1)]
            /\ Goto(c, "wait")
            /\ UNCHANGED is_alive
       ELSE /\ is_alive' = [is_alive EXCEPT ![c] = FALSE]
            /\ Goto(c, "revive")
            /\ UNCHANGED inbox
  /\ UNCHANGED <<dialed, clientEnd, daemonEnd, outbox, listening, link, reconnects,
                 verdict, gaveUp>>

\* _parse_verify_response: a response without error message, goal or sorry verifies
\* the proof.  (An answer of the REPL may hold any of these.)
Verdicts(response) ==
  CASE response.kind = "answer"  -> {"verified", "failed"}
    [] response.kind = "failed"  -> {"failed"}
    [] response.kind = "refused" -> {"verified"}

\* The next line from the daemon: its id is not compared with the request's.
Receive(c) ==
  /\ call[c] = "wait"
  /\ outbox[link[c]] # <<>> /\ Head(outbox[link[c]]) # Rest
  /\ outbox' = [outbox EXCEPT ![link[c]] = Tail(@)]
  /\ LET response == Head(outbox[link[c]]) IN
     \E v \in Verdicts(response) : Return(c, v)
  /\ UNCHANGED <<dialed, clientEnd, daemonEnd, inbox, listening, link, asked,
                 is_alive, reconnects, gaveUp>>

\* A line longer than readline() takes: ValueError, for the caller.  A rest of the line
\* may be left, as the next line.
TooLong(c) ==
  /\ call[c] = "wait"
  /\ outbox[link[c]] # <<>>
  /\ \/ outbox' = [outbox EXCEPT ![link[c]] = Tail(@)] /\ UNCHANGED gaveUp
     \/ /\ outbox' = [outbox EXCEPT ![link[c]] = <<Rest>> \o Tail(@)]
        /\ gaveUp' = gaveUp \cup {link[c]}
  /\ Return(c, "failed")
  /\ UNCHANGED <<dialed, clientEnd, daemonEnd, inbox, listening, link, asked, is_alive,
                 reconnects>>

\* A rest is no JSON: the client connects again.
Unreadable(c) ==
  /\ call[c] = "wait"
  /\ outbox[link[c]] # <<>> /\ Head(outbox[link[c]]) = Rest
  /\ outbox' = [outbox EXCEPT ![link[c]] = Tail(@)]
  /\ is_alive' = [is_alive EXCEPT ![c] = FALSE]
  /\ Goto(c, "revive")
  /\ UNCHANGED <<dialed, clientEnd, daemonEnd, inbox, listening, link, asked, mine,
                 reconnects, verdict, gaveUp>>

\* The connection was closed, by the daemon or by close().
EndOfStream(c) ==
  /\ call[c] = "wait"
  /\ \/ outbox[link[c]] = <<>> /\ ~daemonEnd[link[c]]
     \/ ~clientEnd[link[c]]
  /\ is_alive' = [is_alive EXCEPT ![c] = FALSE]
  /\ Return(c, "failed")
  /\ UNCHANGED <<channelVars, link, asked, reconnects, gaveUp>>

\* The time limit, or the cancellation of the task: the response will come late.
GiveUp(c) ==
  /\ call[c] = "wait"
  /\ gaveUp' = gaveUp \cup {link[c]}
  /\ Return(c, "failed")
  /\ UNCHANGED <<channelVars, link, asked, is_alive, reconnects>>

Close(c) ==
  /\ Writable(c) /\ call[c] \in {"idle", "wait"}
  /\ clientEnd' = ClosedBy(c)
  /\ outbox' = UnreadBy(c)
  /\ is_alive' = [is_alive EXCEPT ![c] = FALSE]
  /\ UNCHANGED <<dialed, daemonEnd, inbox, listening, link, call, asked, mine,
                 reconnects, verdict, gaveUp>>

ClientNext ==
  \E c \in Clients :
    \/ Start(c) \/ Redial(c) \/ RedialRefused(c)
    \/ Send(c) \/ Write(c) \/ Receive(c) \/ TooLong(c) \/ Unreadable(c)
    \/ EndOfStream(c) \/ GiveUp(c) \/ Close(c)
=============================================================================
