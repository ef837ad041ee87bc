----------------------------- MODULE RelayScope -----------------------------
(***************************************************************************)
(* Which relays and days the scraper works on: the pure functions of       *)
(* crates/nostrsearch-indexer/src/scrape.rs (top_by_usage_weight,          *)
(* scrape_targets, adaptive_percentile, scope_coverage, block_window,      *)
(* fail_backoff_secs), and the figures the status page                     *)
(* (crates/nostrsearch-server/src/reports.rs) derives from them.           *)
(*                                                                         *)
(* A relay is a number, which stands for its url and orders it; days are   *)
(* counted from the configured floor, so that min_date is day 0.           *)
(***************************************************************************)
EXTENDS Integers, FiniteSets, FiniteSetsExt

\* Ranked by advertisers, ties broken on the url.
Before(sources, u, v) == sources[u] > sources[v] \/ (sources[u] = sources[v] /\ u < v)
Weight(S, sources) == MapThenSumSet(LAMBDA u : sources[u], S)

\* The relays that carry percentile% of the advertisements, and never fewer
\* than min_keep; notRelay are the urls shown not to be one.
TopByUsageWeight(urls, notRelay, sources, percentile, min_keep) ==
    LET targets == urls \ notRelay
        want == (Weight(targets, sources) * percentile) \div 100
        Ahead(u) == {v \in targets : Before(sources, v, u)}
    IN IF percentile >= 100 \/ \A u \in targets : sources[u] = 0 THEN targets
       ELSE {u \in targets : \/ Weight(Ahead(u), sources) < want
                             \/ Cardinality(Ahead(u)) < Max({min_keep, 1})}

\* Pinned relays are scraped whoever advertises them.
ScrapeTargets(urls, notRelay, sources, percentile, min_keep, pins) ==
    TopByUsageWeight(urls, notRelay, sources, percentile, min_keep)
      \cup ((urls \cap pins) \ notRelay)

\* min + round((max - min) * done / expected), the share clamped to 1.
AdaptivePercentile(done, expected, min, max) ==
    IF max <= min THEN max
    ELSE IF expected = 0 THEN min
    ELSE min + (2 * (max - min) * Min({done, expected}) + expected) \div (2 * expected)

\* Relay-days done and expected of the kept relays that ever answered.
ScopeCoverage(kept, answered, days, total_days) ==
    LET answering == kept \cap answered
    IN [done |-> MapThenSumSet(LAMBDA u : days[u], answering),
        expected |-> Cardinality(answering) * Max({total_days, 1})]

\* The block, counted back from yesterday, that a day is in.
BlockOf(today, block_days, d) == (today - 1 - d) \div block_days

\* The wait after the n-th failure in a row: doubled each time, up to a limit.
FailBackoff(unit, limit, fails) ==
    IF fails = 0 THEN 0 ELSE Min({unit * 2 ^ Min({fails, 6}), limit})
=============================================================================
