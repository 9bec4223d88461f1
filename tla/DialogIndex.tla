---------------------------- MODULE DialogIndex ----------------------------
(***************************************************************************)
(* DialogIndex (knowledge/dialog_index.py): past proof dialogs, searched   *)
(* by their theorem to show the agent similar ones.  The entries come from *)
(* the caller, from dialog files and from the rows of the proof context    *)
(* store; a retriever is built over the candidates of a query and kept     *)
(* until the entries change, and the entries can be written to an SQLite   *)
(* file and read back.  An entry is its theorem, whether it was solved and *)
(* where it comes from.                                                    *)
(***************************************************************************)
EXTENDS Naturals, Sequences, SequencesExt

CONSTANTS
  Theorems,
  Files,       \* dialog.json files, in the order of their paths
  DbRows,      \* rows of proof_contexts, latest first
  Memory,      \* the default source of add_dialog
  NoDialog,    \* no dialog with a theorem under this name
  MaxEntries   \* bound of the model: entries in memory

ASSUME IndexAssumption ==
  /\ MaxEntries \in Nat
  /\ Files \in Seq(ToSet(Files)) /\ DbRows \in Seq(ToSet(DbRows))

VARIABLES
  past,      \* what each dialog file and database row holds
  entries,   \* _entries
  dirty,     \* _dirty
  docs,      \* what the retriever was built over, <<>> when there is none
  rows,      \* dialog_entries of the SQLite file, in the order of their ids
  (* history *)
  built,     \* solved_only when the retriever was built
  shown      \* the query just answered: what was scored, and what its names were taken for

indexVars == <<past, entries, dirty, docs, rows, built, shown>>

Entry == [theorem : Theorems, solved : BOOLEAN,
          source : ToSet(Files) \cup ToSet(DbRows) \cup {Memory}]
Solved == {e \in Entry : e.solved}
Key(e) == <<e.theorem, e.source>>

IndexTypeOK ==
  /\ past \in [ToSet(Files) \cup ToSet(DbRows) -> Entry \cup {NoDialog}]
  /\ entries \in Seq(Entry) /\ Len(entries) <= MaxEntries
  /\ docs \in Seq(Entry) /\ rows \in Seq(Entry)
  /\ dirty \in BOOLEAN /\ built \in BOOLEAN

IndexInit ==
  /\ past = [s \in ToSet(Files) \cup ToSet(DbRows) |-> NoDialog]
  /\ entries = <<>> /\ dirty = FALSE /\ docs = <<>> /\ rows = <<>>
  /\ built = TRUE /\ shown = {}

\* Another run writes a dialog file, or a proof context.
Recorded ==
  /\ \E s \in DOMAIN past, th \in Theorems, ok \in BOOLEAN :
       past' = [past EXCEPT ![s] = [theorem |-> th, solved |-> ok, source |-> s]]
  /\ shown' = {} /\ UNCHANGED <<entries, dirty, docs, rows, built>>

\* Mutant: the retriever is thought up to date.
AppendedQuietly(new) ==
  /\ Len(entries) + Len(new) <= MaxEntries
  /\ entries' = entries \o new
  /\ UNCHANGED dirty

\* Entries are added; the retriever is out of date if there are any.
Appended(new) ==
  /\ Len(entries) + Len(new) <= MaxEntries
  /\ entries' = entries \o new
  /\ dirty' = (dirty \/ new # <<>>)

AddDialog ==
  /\ \E th \in Theorems, ok \in BOOLEAN :
       Appended(<<[theorem |-> th, solved |-> ok, source |-> Memory]>>)
  /\ shown' = {} /\ UNCHANGED <<past, docs, rows, built>>

\* The members of seq that are wanted, in their order.
Among(seq, wanted) ==
  LET taken[n \in 0..Len(seq)] ==
        IF n = 0 THEN <<>>
        ELSE IF seq[n] \in wanted THEN Append(taken[n - 1], seq[n]) ELSE taken[n - 1]
  IN taken[Len(seq)]

\* What the sources hold, without those that cannot be used.
Readable(sources) == Among([i \in 1..Len(sources) |-> past[sources[i]]], Entry)

IndexFromDirectory ==
  /\ Appended(Readable(Files))
  /\ shown' = {} /\ UNCHANGED <<past, docs, rows, built>>

IndexFromProofContextStore ==
  /\ Appended(Readable(DbRows))
  /\ shown' = {} /\ UNCHANGED <<past, docs, rows, built>>

Candidates(solvedOnly) ==
  IF solvedOnly THEN Among(entries, Solved) ELSE entries

\* The retriever is built over the candidates of the query that finds it out of date.
RebuildIfNeeded(solvedOnly) ==
  IF dirty \/ docs = <<>>
  THEN docs' = Candidates(solvedOnly) /\ built' = solvedOnly
  ELSE UNCHANGED <<docs, built>>

\* The retriever names its documents by position; the names are looked up among the
\* candidates of this query.
FindSimilar(solvedOnly) ==
  LET found == Candidates(solvedOnly)
  IN /\ found # <<>>
     /\ RebuildIfNeeded(solvedOnly)
     /\ dirty' = FALSE
     /\ shown' = {[scored |-> docs', named |-> found, mixed |-> built' # solvedOnly]}
     /\ UNCHANGED <<past, entries, rows>>

Clear ==
  /\ entries' = <<>> /\ dirty' = FALSE /\ docs' = <<>>
  /\ shown' = {} /\ UNCHANGED <<past, rows, built>>

\* Mutant: a plain INSERT.
Inserted(table, e) == Append(table, e)

\* INSERT ... ON CONFLICT(theorem, source) DO UPDATE.
Upserted(table, e) ==
  IF \E i \in 1..Len(table) : Key(table[i]) = Key(e)
  THEN [i \in 1..Len(table) |-> IF Key(table[i]) = Key(e) THEN e ELSE table[i]]
  ELSE Append(table, e)

\* The table after the entries have been written to it, one after the other.
Written(table) ==
  LET after[n \in 0..Len(entries)] ==
        IF n = 0 THEN table ELSE Upserted(after[n - 1], entries[n])
  IN after[Len(entries)]

Persist ==
  /\ \E replace \in BOOLEAN : rows' = Written(IF replace THEN <<>> ELSE rows)
  /\ shown' = {} /\ UNCHANGED <<past, entries, dirty, docs, built>>

LoadFromSqlite ==
  /\ Appended(rows)
  /\ shown' = {} /\ UNCHANGED <<past, docs, rows, built>>

\* clear() and load; also what a new process does.
ReplaceFromSqlite ==
  /\ Len(rows) <= MaxEntries
  /\ entries' = rows /\ dirty' = (rows # <<>>) /\ docs' = <<>>
  /\ shown' = {} /\ UNCHANGED <<past, rows, built>>

IndexNext == \/ Recorded \/ AddDialog \/ IndexFromDirectory \/ IndexFromProofContextStore
             \/ \E solvedOnly \in BOOLEAN : FindSimilar(solvedOnly)
             \/ Clear \/ Persist \/ LoadFromSqlite \/ ReplaceFromSqlite

-----------------------------------------------------------------------------
(* Properties.                                                              *)

\* A query scores every candidate and takes each name for the dialog that was scored
\* under it ("so we can map back unambiguously", find_similar), whatever was added,
\* cleared, written and loaded since the retriever was built; unless it was built for a
\* query with the other solved_only.  Persisting again after any of this leaves one row for
\* each theorem and source ("writes each entry once, not twice", persist_to_sqlite).
DialogsSound ==
  /\ IndexTypeOK
  /\ \A m \in shown : m.mixed \/ m.named = m.scored
  /\ \A i, j \in 1..Len(rows) : Key(rows[i]) = Key(rows[j]) => i = j
=============================================================================
