------------------------------ MODULE Lookeng ------------------------------
(***************************************************************************)
(* LooKengBackend (engine/backends/lookeng.py): sessions that grow lemma   *)
(* by lemma.  Each submission is compiled behind the lemmas of its session *)
(* and joins them when Lean accepts it; Lean itself keeps nothing.         *)
(* Submissions to one session may overlap, and the session may be closed   *)
(* or begun again under the same id meanwhile.                             *)
(***************************************************************************)
EXTENDS Integers, Sequences, FiniteSets

CONSTANTS
  Submitters,  \* tool calls of lemma_by_lemma
  SessionIds,  \* ids, made by the backend or by the LLM
  Texts,       \* lemmas the LLM may submit
  NameOf,      \* the name Lean declares for each
  Needs,       \* the names each of them uses
  Bare,        \* those whose statement is no head: no "theorem" in front, or a ":=" in it
  MaxLemmas,   \* max_running_context_lemmas: 64
  MaxContexts  \* bound of the model: sessions begun

ASSUME LookengAssumption ==
  /\ Bare \subseteq Texts /\ IsFiniteSet(Submitters)
  /\ MaxLemmas \in Nat \ {0} /\ MaxContexts \in Nat
  /\ \A text \in Texts : text \in DOMAIN NameOf /\ text \in DOMAIN Needs

VARIABLES
  contexts,  \* the RunningContexts made, each a sequence of lemmas
  sessions,  \* _sessions: the context of each open session
  sent,      \* what each submitter waits for
  (* history *)
  crossed    \* the contexts in which a lemma came in while another was compiled

lookengVars == <<contexts, sessions, sent, crossed>>

NoLemma == [final |-> FALSE, context |-> 0]

\* Lean's view of lines of code: every one of them is a declaration, its name is new
\* and what it uses is declared before.
Compiles(lines) ==
  \A i \in 1..Len(lines) :
    /\ ~lines[i].raw
    /\ \A j \in 1..i - 1 : NameOf[lines[j].text] # NameOf[lines[i].text]
    /\ Needs[lines[i].text] \subseteq {NameOf[lines[j].text] : j \in 1..i - 1}

\* A submission is brought into the form of a declaration (_compose_lemma); the
\* lemmas of the context are pasted as they were sent (render_for_compiler).
Composed(text) == [text |-> text, raw |-> FALSE]
Pasted(lemmas) == [i \in 1..Len(lemmas) |->
                    [text |-> lemmas[i], raw |-> lemmas[i] \in Bare]]

LookengTypeOK ==
  /\ Len(contexts) <= MaxContexts
  /\ \A n \in 1..Len(contexts) : \A i \in 1..Len(contexts[n]) : contexts[n][i] \in Texts
  /\ DOMAIN sessions \subseteq SessionIds
  /\ \A sid \in DOMAIN sessions : sessions[sid] \in 1..Len(contexts)
  /\ \A c \in Submitters : sent[c].context \in 0..Len(contexts)
  /\ crossed \subseteq 1..Len(contexts)

LookengInit ==
  /\ contexts = <<>> /\ sessions = [sid \in {} |-> 0]
  /\ sent = [c \in Submitters |-> NoLemma]
  /\ crossed = {}

\* A session begun again starts empty; its old context lives as long as somebody
\* submits to it.
BeginSession(sid) ==
  /\ Len(contexts) < MaxContexts
  /\ contexts' = Append(contexts, <<>>)
  /\ sessions' = [s \in DOMAIN sessions \cup {sid} |->
                    IF s = sid THEN Len(contexts') ELSE sessions[s]]
  /\ UNCHANGED <<sent, crossed>>

CloseSession(sid) ==
  /\ sid \in DOMAIN sessions
  /\ sessions' = [s \in DOMAIN sessions \ {sid} |-> sessions[s]]
  /\ UNCHANGED <<contexts, sent, crossed>>

\* render_compiler_block
Snippet(n, text) == Append(Pasted(contexts[n]), Composed(text))

\* submit_lemma up to the await: the snippet is made from the lemmas of now.  (The
\* preamble in front of it and the header of a final theorem do not matter here.)
Submit(c, sid, text, final) ==
  /\ sent[c] = NoLemma
  /\ sid \in DOMAIN sessions
  /\ LET n == sessions[sid] IN
     /\ Len(contexts[n]) < MaxLemmas
     /\ sent' = [sent EXCEPT ![c] =
                   [context |-> n, sid |-> sid, text |-> text, final |-> final,
                    snippet |-> Snippet(n, text), size |-> Len(contexts[n])]]
  /\ UNCHANGED <<contexts, sessions, crossed>>

\* Mutant: the session is looked up when the answer comes.
ContextNow(c) ==
  IF sent[c].sid \in DOMAIN sessions THEN sessions[sent[c].sid] ELSE sent[c].context

Destination(c) == sent[c].context

\* Lean accepts it, and a lemma that is not the final theorem joins the context.
Accepted(c) ==
  /\ sent[c] # NoLemma /\ Compiles(sent[c].snippet)
  /\ IF sent[c].final
     THEN UNCHANGED <<contexts, crossed>>
     ELSE LET n == Destination(c) IN
          /\ contexts' = [contexts EXCEPT ![n] = Append(@, sent[c].text)]
          /\ crossed' = IF Len(contexts[n]) # sent[c].size /\ n = sent[c].context
                        THEN crossed \cup {n} ELSE crossed
  /\ sent' = [sent EXCEPT ![c] = NoLemma]
  /\ UNCHANGED sessions

\* Lean or the inner transport refuses, or the call is cancelled.
Refused(c) ==
  /\ sent[c] # NoLemma
  /\ sent' = [sent EXCEPT ![c] = NoLemma]
  /\ UNCHANGED <<contexts, sessions, crossed>>

LookengNext ==
  \/ \E sid \in SessionIds : BeginSession(sid) \/ CloseSession(sid)
  \/ \E c \in Submitters :
       \/ \E sid \in SessionIds, text \in Texts, final \in BOOLEAN : Submit(c, sid, text, final)
       \/ Accepted(c) \/ Refused(c)

-----------------------------------------------------------------------------
(* Properties.                                                              *)

\* The lemmas of a session compile in front of what is submitted next, so that the
\* session can go on, also when it was closed or begun again under the same id while
\* one of them was compiled; unless a bare statement was stored, which is pasted
\* without a head, or two overlapping submissions crossed.  Overlapping submissions
\* are also all that exceeds max_running_context_lemmas: the length is compared before
\* the await and the lemma appended after it (engine/backends/lookeng.py,
\* _submit_lemma, _compose_lemma and render_for_compiler).
ContextsCompile ==
  /\ LookengTypeOK
  /\ \A n \in 1..Len(contexts) :
       /\ (n \notin crossed /\ \A i \in 1..Len(contexts[n]) : contexts[n][i] \notin Bare)
            => Compiles(Pasted(contexts[n]))
       /\ Len(contexts[n]) < MaxLemmas + Cardinality(Submitters)
=============================================================================
