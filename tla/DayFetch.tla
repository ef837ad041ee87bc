------------------------------ MODULE DayFetch ------------------------------
(***************************************************************************)
(* What the scraper promises of one relay-day, with no window, page, retry *)
(* or timeout in it: the sink only gains events, and the day is recorded   *)
(* as done at most once, when it holds everything the relay can be made to *)
(* show.  ScrapeDay implements this.                                       *)
(***************************************************************************)
VARIABLES reachable,   \* the ids the relay shows to somebody who asks well
          stored,      \* ids the sink has
          done         \* the day has its completion record

vars == <<reachable, stored, done>>

Init == done = FALSE

\* The sink gains events, from this relay or from elsewhere.
Store == stored \subseteq stored' /\ UNCHANGED <<reachable, done>>

\* Once recorded, a day is not drawn again.
Record ==
    /\ ~done /\ reachable \subseteq stored
    /\ done' = TRUE
    /\ UNCHANGED <<reachable, stored>>

Next == Store \/ Record

Spec == Init /\ [][Next]_vars
=============================================================================
