----------------------------- MODULE Broadcast -----------------------------
(***************************************************************************)
(* The bus on which parallel provers share discoveries                     *)
(* (engine/broadcast.py), with the tool that gives the LLM access to it    *)
(* (prover/unified/tools_extra.py, BroadcastTool).  publish() does not     *)
(* await, so each call is one step.  A message is its topic (what it says) *)
(* and its time.  Its fingerprint keeps less than it says: of a discovery  *)
(* the lemma's name or the first 50 characters, so that different ones may *)
(* have the same.                                                          *)
(***************************************************************************)
EXTENDS Integers, Sequences, FiniteSets

CONSTANTS
  Senders,     \* the directions
  Members,     \* those of them that subscribe
  Topics,      \* what a message can say
  Fingerprint, \* the fingerprint of each (_compute_fingerprint)
  Shareable,   \* those the tool can share
  Priority,    \* the order in which topics are rendered, the lowest first
  Size,        \* of a rendered message, header included
  MaxChars,    \* max_chars of a rendering
  MaxMessages, \* max_messages of a rendering
  MaxHistory,  \* 500 messages
  MaxFresh,    \* 200 fingerprints
  MaxQueue,    \* 100 messages
  Window,      \* dedup_window: 30 s
  Ttl,         \* 300 s
  MaxTime      \* bound of the model

ASSUME BusAssumption ==
  /\ Priority \in [Topics -> Nat] /\ Size \in [Topics -> Nat] /\ DOMAIN Fingerprint = Topics
  /\ {MaxChars, MaxMessages, MaxTime, Window, Ttl} \subseteq Nat
  /\ {MaxHistory, MaxFresh, MaxQueue} \subseteq Nat \ {0}
  /\ Shareable \subseteq Topics /\ Members \subseteq Senders
  /\ Window <= Ttl /\ MaxFresh <= MaxHistory

VARIABLES
  now,     \* the time
  recent,  \* _history
  fresh,   \* _recent_fingerprints, each as the message it was taken of
  queues,  \* the subscribers' queues
  (* history *)
  crowded  \* a fingerprint was dropped for want of room inside the window

busVars == <<now, recent, fresh, queues, crowded>>

Message(topic) == [topic |-> topic, at |-> now]
Alive(m) == now - m.at <= Ttl

\* A deque of bounded length drops its oldest elements.
LastOf(s, n) == IF Len(s) <= n THEN s ELSE SubSeq(s, Len(s) - n + 1, Len(s))
In(s) == {s[i] : i \in 1..Len(s)}

BusTypeOK ==
  /\ now \in 0..MaxTime
  /\ \A m \in In(recent) \cup In(fresh) : m.topic \in Topics /\ m.at \in 0..now
  /\ Len(recent) <= MaxHistory /\ Len(fresh) <= MaxFresh
  /\ DOMAIN queues \subseteq Members
  /\ \A d \in DOMAIN queues : Len(queues[d]) <= MaxQueue
  /\ crowded \in BOOLEAN

BusInit ==
  /\ now = 0 /\ recent = <<>> /\ fresh = <<>>
  /\ queues = [d \in {} |-> <<>>]
  /\ crowded = FALSE

\* Mutant: a fingerprint leaves when the window ends, not after it.
InWindowShort(f) == now - f.at < Window

InWindow(f) == now - f.at <= Window

\* The number of fingerprints publish() drops: those at the front that are outside the
\* window.
Expired(s) ==
  CHOOSE n \in 0..Len(s) : /\ \A i \in 1..n : ~InWindow(s[i])
                           /\ n = Len(s) \/ InWindow(s[n + 1])

\* A message with the fingerprint of one that is in s.
Repeats(topic, s) == \E f \in In(s) : Fingerprint[f.topic] = Fingerprint[topic]

\* publish(): nothing happens inside the window of a message with the same fingerprint,
\* whatever this one says, but the tool answers "posted" all the same.
Publish(topic, source) ==
  LET kept == SubSeq(fresh, Expired(fresh) + 1, Len(fresh))
      message == Message(topic)
  IN IF Repeats(topic, kept)
     THEN fresh' = kept /\ UNCHANGED <<recent, queues, crowded>>
     ELSE /\ fresh' = LastOf(Append(kept, message), MaxFresh)
          /\ crowded' = (crowded \/ Len(kept) = MaxFresh)
          /\ recent' = LastOf(Append(recent, message), MaxHistory)
          /\ queues' = [d \in DOMAIN queues |->
                          IF d = source THEN queues[d]
                          ELSE LastOf(Append(queues[d], message), MaxQueue)]

\* BroadcastTool, action share.  Only discoveries can be shared: for every other kind
\* the message is not even built.
Share(d, topic) ==
  /\ Publish(topic, d)
  /\ UNCHANGED now

\* A new subscription replaces the one of the same name, with its queue.
Subscribe(d) ==
  /\ queues' = [e \in DOMAIN queues \cup {d} |-> IF e = d THEN <<>> ELSE queues[e]]
  /\ UNCHANGED <<now, recent, fresh, crowded>>

Unsubscribe(d) ==
  /\ d \in DOMAIN queues
  /\ queues' = [e \in DOMAIN queues \ {d} |-> queues[e]]
  /\ UNCHANGED <<now, recent, fresh, crowded>>

\* Mutant: the messages are rendered in the order of arrival.
InOrder(s) == s

\* The messages by priority, the order of arrival kept within one priority.
ByPriority(s) ==
  LET before(i, j) == \/ Priority[s[i].topic] < Priority[s[j].topic]
                      \/ Priority[s[i].topic] = Priority[s[j].topic] /\ i < j
      rank(j) == 1 + Cardinality({i \in 1..Len(s) : before(i, j)})
  IN [k \in 1..Len(s) |-> s[CHOOSE j \in 1..Len(s) : rank(j) = k]]

\* The number of messages of s that are rendered: the loop stops at the first one
\* without room.
Fitting(s) ==
  LET chars[n \in 0..Len(s)] ==
        IF n = 0 THEN 0 ELSE chars[n - 1] + Size[s[n].topic]
      fits == {n \in 0..Len(s) : n <= MaxMessages /\ chars[n] <= MaxChars}
  IN CHOOSE n \in fits : \A k \in fits : k <= n

\* drain(): the messages that have not expired.  (A recursive function, so that theorems
\* can be about it.)
Unexpired(s) ==
  LET alive[n \in 0..Len(s)] ==
        IF n = 0 THEN <<>>
        ELSE IF Alive(s[n]) THEN Append(alive[n - 1], s[n]) ELSE alive[n - 1]
  IN alive[Len(s)]

\* What render_for_prompt() drains in its order, how much of it is shown, what is lost.
Drained(d) == ByPriority(Unexpired(queues[d]))
Shown(d) == SubSeq(Drained(d), 1, Fitting(Drained(d)))
Missed(d) == SubSeq(Drained(d), Fitting(Drained(d)) + 1, Len(Drained(d)))

\* render_for_prompt() empties the queue whatever it renders.
Render(d) ==
  /\ d \in DOMAIN queues /\ queues[d] # <<>>
  /\ queues' = [queues EXCEPT ![d] = <<>>]
  /\ UNCHANGED <<now, recent, fresh, crowded>>

\* Mutant: the fingerprints survive.
ClearHistory ==
  /\ recent' = <<>> /\ queues' = [d \in DOMAIN queues |-> <<>>]
  /\ UNCHANGED <<now, fresh, crowded>>

\* clear(), between two problems.
Clear ==
  /\ recent' = <<>> /\ fresh' = <<>>
  /\ queues' = [d \in DOMAIN queues |-> <<>>]
  /\ UNCHANGED <<now, crowded>>

Tick ==
  /\ now < MaxTime /\ now' = now + 1
  /\ UNCHANGED <<recent, fresh, queues, crowded>>

BusNext ==
  \/ Clear \/ Tick
  \/ \E d \in Members : \/ Subscribe(d) \/ Unsubscribe(d) \/ Render(d)
  \/ \E d \in Senders, topic \in Shareable : Share(d, topic)

-----------------------------------------------------------------------------
(* Properties.                                                              *)

\* When the tool answers "posted" without publishing, a message with the fingerprint of
\* the discovery can be read in the history, has not expired and is no older than the
\* window, whatever came after it and whenever the bus was cleared.  It need not say the
\* same: a different discovery under a fingerprint in use is lost
\* (engine/broadcast.py, publish, get_recent and clear).
PostedVisible ==
  \A topic \in Topics, f \in In(fresh) :
    InWindow(f) /\ Fingerprint[f.topic] = Fingerprint[topic] =>
      \E m \in In(recent) : Fingerprint[m.topic] = Fingerprint[topic] /\ Alive(m) /\ InWindow(m)

\* Messages with the same fingerprint reach the history and the queues more than a
\* window apart, unless so many different ones came in between that a fingerprint was
\* dropped (engine/broadcast.py, publish).
NoRepeats ==
  LET apart(s) == \A i, j \in 1..Len(s) :
        i < j /\ Fingerprint[s[i].topic] = Fingerprint[s[j].topic] => s[j].at - s[i].at > Window
  IN ~crowded => apart(recent) /\ \A d \in DOMAIN queues : apart(queues[d])

\* render_for_prompt() loses messages only behind better ones: whatever a subscriber's
\* queue holds, no message it would drain and leave out has a higher priority than one
\* it would show (engine/broadcast.py, render_for_prompt).
LosesTheLast ==
  \A d \in DOMAIN queues : \A m \in In(Missed(d)), n \in In(Shown(d)) :
    Priority[n.topic] <= Priority[m.topic]
=============================================================================
