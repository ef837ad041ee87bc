---------------------------- MODULE MCScrapeDay -----------------------------
(* Instances of ScrapeDay for TLC: every spread of the events over the      *)
(* seconds, up to the names of the events.                                  *)
EXTENDS ScrapeDay

Spreads == {at \in [Ids -> 0..(DayEnd - 1)] :
               \A i, j \in Ids : i <= j => at[i] <= at[j]}

\* A sink without a baseline against a relay that cuts, and one with a baseline
\* against a relay that does not.
TrustedRelays ==
    [at : Spreads, syncCap : {2}, baseline : {FALSE}]
      \cup [at : Spreads, syncCap : {Cardinality(Ids)}, baseline : {TRUE}]

FewHeld == {H \in SUBSET Ids : Cardinality(H) <= 1}

\* A sink with a baseline against a relay that cuts.
CuttingRelays == [at : Spreads, syncCap : {2}, baseline : {TRUE}]
=============================================================================
