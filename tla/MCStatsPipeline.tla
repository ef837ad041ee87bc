--------------------------- MODULE MCStatsPipeline --------------------------
(* Instances of StatsPipeline for TLC: follow_graph (1), which activity (3)  *)
(* reads and pagerank (2), folding nothing itself, derives from.             *)
EXTENDS StatsHistory

CONSTANTS f1, f2, f3, a, b, c, d, e

MCDeps == [n \in Analyses |-> IF n = 1 THEN {} ELSE {1}]
MCWants == [n \in Analyses |-> IF n = 2 THEN {} ELSE Events]
MCCreatedAt == [x \in Events |-> CASE x = a -> 1 [] x \in {c, e} -> 9 [] OTHER -> 6]
MCDump == [f \in Files |-> CASE f = f1 -> {a} [] f = f2 -> {b} [] OTHER -> {c}]

FairHistorySpec == HistorySpec /\ Fairness
=============================================================================
