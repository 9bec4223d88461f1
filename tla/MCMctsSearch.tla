---------------------------- MODULE MCMctsSearch ----------------------------
(***************************************************************************)
(* Two theorems with different preambles.  From s1 tactic a leads round in *)
(* a circle and b to the next state; only "first" can be proved, by a path *)
(* of two tactics, and the same text means something else, and needs other *)
(* tactics, behind the preamble of "second".                               *)
(***************************************************************************)
EXTENDS MctsSearch

CONSTANTS s0, s1, s2, done, a, b, first, second, fails, plain, opened

MCGoals == [s \in {s0, s1, s2, done} |-> IF s = done THEN 0 ELSE 1]
MCLeads ==
  [p \in {s0, s1, s2, done} \X {a, b} |->
     CASE p = <<s0, a>> -> s1   [] p = <<s1, a>> -> s0
       [] p = <<s1, b>> -> done [] p = <<s2, b>> -> s0
       [] OTHER -> fails]
MCDataset == <<first, second>>
MCPreambleOf == [p \in {first, second} |-> IF p = first THEN plain ELSE opened]
MCRootIn ==
  [p \in {first, second} \X {plain, opened, Bare} |->
     CASE p = <<first, plain>>   -> s0
       [] p = <<first, opened>>  -> s1
       [] p = <<second, plain>>  -> s1
       [] p = <<second, opened>> -> s2
       [] p = <<first, Bare>>    -> s1
       [] OTHER -> fails]
=============================================================================
