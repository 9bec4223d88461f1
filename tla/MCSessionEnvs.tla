--------------------------- MODULE MCSessionEnvs ---------------------------
(* SessionEnvs for TLC: proofs without a preamble, with one that extends    *)
(* the session's by a command, by an import, and with one that does not.    *)
EXTENDS SessionEnvs

MathlibOnly == <<"import Mathlib">>
WithOpen == <<"import Mathlib", "open Nat">>
MoreImports == <<"import Mathlib", "import Aesop">>
OtherImport == <<"import Aesop">>
ProofPreambles == {<<>>, WithOpen, MoreImports, OtherImport}
ImportCommands == {"import Mathlib", "import Aesop"}

\* Bounds: the second lemma is shared only while the first is and nothing else is under
\* way, and where it is, no request is given up and no process replaced.
Second == stage["lemma2"] # "idle"

SecondSent == Second \/ \E i \in 1..Len(envs) : "lemma2" \in envs[i]

MayOverlap ==
  clean /\ stage["lemma1"] = "share" /\ {stage[User], stage[Heartbeat]} = {"idle"}

MCNext ==
  \/ ~Second /\ (Verify \/ Beat \/ Share("lemma1"))
  \/ MayOverlap /\ Share("lemma2")
  \/ \E t \in Tasks : Answered(t)
  \/ ~SecondSent /\ \E t \in Tasks : FirstTimeout(t) \/ Lost(t) \/ RestartBefore(t)

MCSpec == Init /\ [][MCNext]_vars
=============================================================================
