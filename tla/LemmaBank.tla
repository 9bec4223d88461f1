----------------------------- MODULE LemmaBank -----------------------------
(***************************************************************************)
(* PersistentLemmaBank (prover/lemma_bank/persistent_bank.py): lemmas in   *)
(* an SQLite file for all problems and sessions.  A process that opens it  *)
(* loads the hashes of the statements and adds its own later ones, but     *)
(* learns nothing of what other processes add.  A row is its statement.    *)
(*                                                                         *)
(* The threads of a process share one connection.  Nothing rolls a         *)
(* transaction back: what a failed commit leaves in it is written by the   *)
(* next commit, and until then no other process can write.                 *)
(***************************************************************************)
EXTENDS Integers, Sequences, FiniteSets

CONSTANTS
  Adders,      \* threads that add lemmas
  Processes,
  ProcessOf,   \* of each thread
  Statements,  \* hashes of normalised statements
  MaxRows      \* bound of the model: rows of the file

ASSUME BankAssumption == ProcessOf \in [Adders -> Processes] /\ MaxRows \in Nat

VARIABLES
  bank,      \* the rows, in the order of their ids
  open,      \* the processes that have the file open
  known,     \* _statement_hashes of each process
  pending,   \* the rows in the open transaction of each process
  adding,    \* the statements each thread has checked and not yet inserted
  (* history *)
  exposed    \* statements added by two threads at once, under another process, or by a
             \* commit that failed

bankVars == <<bank, open, known, pending, adding, exposed>>

Rows(s) == {i \in 1..Len(bank) : bank[i] = s}

BankTypeOK ==
  /\ \A i \in 1..Len(bank) : bank[i] \in Statements
  /\ open \subseteq Processes /\ known \in [Processes -> SUBSET Statements]
  /\ pending \in [Processes -> Seq(Statements)]
  /\ \A a \in Adders : /\ adding[a] \subseteq Statements /\ Cardinality(adding[a]) <= 1
                       /\ adding[a] # {} => ProcessOf[a] \in open

BankInit ==
  /\ bank = <<>> /\ open = {} /\ known = [p \in Processes |-> {}]
  /\ pending = [p \in Processes |-> <<>>]
  /\ adding = [a \in Adders |-> {}] /\ exposed = {}

\* Mutant: only the lemmas of this session are known.
NoneKnown == {}

\* _init_db loads the hashes of all rows.
Loaded == {bank[i] : i \in 1..Len(bank)}

\* The process starts and opens the file.
Open(p) ==
  /\ p \notin open
  /\ open' = open \cup {p}
  /\ known' = [known EXCEPT ![p] = Loaded]
  /\ UNCHANGED <<bank, pending, adding, exposed>>

\* It ends, maybe in the middle of add(), and its transaction with it.
Close(p) ==
  /\ p \in open
  /\ open' = open \ {p}
  /\ known' = [known EXCEPT ![p] = {}] /\ pending' = [pending EXCEPT ![p] = <<>>]
  /\ adding' = [a \in Adders |-> IF ProcessOf[a] = p THEN {} ELSE adding[a]]
  /\ UNCHANGED <<bank, exposed>>

\* add(), before the lock: a known statement is refused.
Check(a, s) ==
  /\ ProcessOf[a] \in open /\ adding[a] = {}
  /\ s \notin known[ProcessOf[a]]
  /\ adding' = [adding EXCEPT ![a] = {s}]
  /\ exposed' = IF \E b \in Adders : s \in adding[b] THEN exposed \cup {s} ELSE exposed
  /\ UNCHANGED <<bank, open, known, pending>>

Writable(p) == \A q \in Processes \ {p} : pending[q] = <<>>
Room(p) == Len(bank) + Len(pending[p]) < MaxRows

\* add(), under the lock: the transaction is committed with the row, then its hash is
\* known.
Insert(a) ==
  LET p == ProcessOf[a] IN
  /\ adding[a] # {} /\ Writable(p) /\ Room(p)
  /\ \E s \in adding[a] :
       /\ bank' = Append(bank \o pending[p], s)
       /\ known' = [known EXCEPT ![p] = @ \cup {s}]
       /\ exposed' = IF open # {p} THEN exposed \cup {s} ELSE exposed
  /\ pending' = [pending EXCEPT ![p] = <<>>]
  /\ adding' = [adding EXCEPT ![a] = {}]
  /\ UNCHANGED open

\* The INSERT raises: the file is locked by another process.
InsertFails(a) ==
  /\ adding[a] # {}
  /\ adding' = [adding EXCEPT ![a] = {}]
  /\ UNCHANGED <<bank, open, known, pending, exposed>>

\* The commit raises: the row stays in the open transaction, and its hash is not known.
CommitFails(a) ==
  LET p == ProcessOf[a] IN
  /\ adding[a] # {} /\ Writable(p) /\ Room(p)
  /\ \E s \in adding[a] : /\ pending' = [pending EXCEPT ![p] = Append(@, s)]
                          /\ exposed' = exposed \cup {s}
  /\ adding' = [adding EXCEPT ![a] = {}]
  /\ UNCHANGED <<bank, open, known>>

\* mark_used and mark_stale_on_upgrade commit what is in the transaction.
Commit(p) ==
  /\ pending[p] # <<>>
  /\ bank' = bank \o pending[p] /\ pending' = [pending EXCEPT ![p] = <<>>]
  /\ UNCHANGED <<open, known, adding, exposed>>

BankNext ==
  \/ \E p \in Processes : Open(p) \/ Close(p) \/ Commit(p)
  \/ \E a \in Adders : \/ \E s \in Statements : Check(a, s)
                       \/ Insert(a) \/ InsertFails(a) \/ CommitFails(a)

-----------------------------------------------------------------------------

\* No statement is stored twice, across restarts and failed insertions, unless two
\* threads added it at once, another process had the file open, or a commit of it failed:
\* the check is made outside the lock and against the memory of one process, which knows
\* nothing of a row left in the transaction.  And only what is stored is refused
\* (prover/lemma_bank/persistent_bank.py, add and _init_db).
NoTwins ==
  /\ BankTypeOK
  /\ \A s \in Statements : Cardinality(Rows(s)) > 1 => s \in exposed
  /\ \A p \in Processes : known[p] \subseteq {bank[i] : i \in 1..Len(bank)}
=============================================================================
