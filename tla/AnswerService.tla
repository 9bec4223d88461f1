--------------------------- MODULE AnswerService ---------------------------
(***************************************************************************)
(* What a REPL transport promises its callers (REPLTransport.send,         *)
(* engine/transport.py): every call ends with an answer or with None.      *)
(*                                                                         *)
(* Requests are numbered in the order in which they are issued.  Answers   *)
(* are delivered in that order and none is delivered twice, so a caller    *)
(* never sees an answer to a later request than its own.  As long as the   *)
(* service has not failed a call since its last reset (it is "clean"), the *)
(* answer a caller receives is the answer to its own request.              *)
(***************************************************************************)
EXTENDS Integers

CONSTANT Clients

VARIABLES
  issued,    \* number of requests issued so far
  last,      \* number of the request answered last
  own,       \* own[c]: the request c waits for, 0 when it waits for none
  clean      \* no call has failed since the last reset

serviceVars == <<issued, last, own, clean>>

ServiceInit ==
  /\ issued = 0
  /\ last = 0
  /\ own = [c \in Clients |-> 0]
  /\ clean = TRUE

Issue(c) ==
  /\ \A d \in Clients : own[d] = 0
  /\ issued' = issued + 1
  /\ own' = [own EXCEPT ![c] = issued + 1]
  /\ UNCHANGED <<last, clean>>

\* The service delivers to c the answer to some request r not answered yet:
\* its own while the service is clean, else possibly an earlier one.
Deliver(c) ==
  /\ own[c] # 0
  /\ \E r \in (last + 1)..own[c] :
       /\ clean => r = own[c]
       /\ last' = r
  /\ own' = [own EXCEPT ![c] = 0]
  /\ UNCHANGED <<issued, clean>>

Fail(c) ==
  /\ own[c] # 0
  /\ own' = [own EXCEPT ![c] = 0]
  /\ clean' = FALSE
  /\ UNCHANGED <<issued, last>>

\* A reset discards what is still unanswered.  The caller that performs it may
\* issue its request in the same step.
Reset ==
  /\ \A d \in Clients : own[d] = 0
  /\ last' = issued
  /\ clean' = TRUE
  /\ \/ UNCHANGED <<issued, own>>
     \/ \E c \in Clients : /\ issued' = issued + 1
                           /\ own' = [own EXCEPT ![c] = issued + 1]

ServiceNext ==
  \/ Reset
  \/ \E c \in Clients : Issue(c) \/ Deliver(c) \/ Fail(c)

ServiceSpec == ServiceInit /\ [][ServiceNext]_serviceVars
=============================================================================
