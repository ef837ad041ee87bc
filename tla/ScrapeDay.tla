----------------------------- MODULE ScrapeDay ------------------------------
(***************************************************************************)
(* One relay-day of the scraper: scrape_day, req_window and the part of    *)
(* scrape_relay_day that surrounds them, in                                *)
(* crates/nostrsearch-indexer/src/scrape.rs, and the sink it feeds in the  *)
(* node (crates/nostrsearch-server/src/scraper.rs).                        *)
(*                                                                         *)
(* The day is the seconds 0..DayEnd-1.  The relay holds Ids, each at its   *)
(* second; it cuts an answer to a REQ at PageCap and the id set of a       *)
(* reconciliation at its syncCap, newest first, and says so in neither     *)
(* case.  The relay may fail any request, answer "rate-limited", drop      *)
(* negentropy in the middle of a day and answer an empty page once; a unit *)
(* that failed is drawn again.                                             *)
(*                                                                         *)
(* Simplifications:                                                        *)
(*  - ids the sink has are one set: the archive and the id store;          *)
(*  - the relay holds the same events for as long as the day is scraped;   *)
(*  - what is only shown (live progress, info.cap, birthday) is left out.  *)
(***************************************************************************)
EXTENDS Naturals, FiniteSets, Sequences, FiniteSetsExt

CONSTANTS
    Ids,           \* events the relay holds
    DayEnd,        \* seconds in a day
    NegWindow,     \* NEG_WINDOW_SECS
    Floor,         \* floor_secs
    NegFloor,      \* NEG_CAP_FLOOR
    Chunk,         \* ids asked for in one REQ
    PageCap,       \* the relay's cap on an answer
    RateRetries,   \* RATE_LIMIT_RETRIES
    Relays,        \* the relays to try: [at, syncCap, baseline]
    Held,          \* what the sink may have of the day before: sets of ids
    MaxUnits,      \* bound: units run for this day
    MaxFaults      \* bound: failed and misleading answers

ASSUME WindowAssumption ==
    /\ DayEnd \in Nat \ {0} /\ NegWindow \in Nat \ {0} /\ Floor \in Nat \ {0}
    /\ NegFloor \in Nat /\ Chunk \in Nat \ {0} /\ PageCap \in Nat \ {0}
    /\ IsFiniteSet(Ids) /\ Held \subseteq SUBSET Ids
    /\ Relays \subseteq [at : [Ids -> 0..(DayEnd - 1)], syncCap : Nat, baseline : BOOLEAN]

VARIABLES
    relay,      \* at: second of each event; syncCap; baseline: does the sink
                \* know what it has (local_items), or does it answer nothing
    info,       \* the unit's copy of RelayInfo: negentropy, neg_cap
    saved,      \* RelayInfo in the state database
    phase,      \* what the unit does
    stack,      \* windows to reconcile
    missing,    \* ids of the current window still to fetch
    synced,     \* synced_any
    until, have,    \* the REQ walk: its upper bound and the ids it has had
    attempt,    \* rate-limited answers to the current request
    seen, new,  \* what the unit counts
    stored,     \* ids the sink has
    dropped,    \* ids the sink gave up on: a failed lookup or a failed save
    done,       \* the completion record of the day
    units, faults

countVars == <<seen, new>>
syncVars == <<stack, missing, synced>>
pageVars == <<until, have>>
sinkVars == <<stored, dropped>>
vars == <<relay, info, saved, phase, syncVars, pageVars, attempt, countVars,
          sinkVars, done, units, faults>>

Fresh == [negentropy |-> "unprobed", neg_cap |-> 0]
NotDone == [path |-> "none", seen |-> 0, new |-> 0]

Init ==
    /\ relay \in Relays
    /\ info = Fresh /\ saved = Fresh
    /\ phase = "idle"
    /\ stack = <<>> /\ missing = {} /\ synced = FALSE
    /\ until = 0 /\ have = {}
    /\ attempt = 0
    /\ seen = 0 /\ new = 0
    /\ stored \in Held /\ dropped = {}
    /\ done = NotDone
    /\ units = 0 /\ faults = 0

-----------------------------------------------------------------------------
(* The relay. *)

Within(lo, hi) == {i \in Ids : relay.at[i] \in lo..hi}

\* The newest events of a set, at most cap of them, ties broken anyhow.
Newest(S, cap) ==
    {P \in kSubset(Min({cap, Cardinality(S)}), S) :
        \A p \in P, q \in S \ P : relay.at[q] <= relay.at[p]}

\* A fault is something the model allows a bounded number of times.
Fault == faults < MaxFaults /\ faults' = faults + 1

-----------------------------------------------------------------------------
(* The start and the end of a unit (scrape_relay_day). *)

\* Windows of NegWindow seconds that tile the day; the last one is popped
\* first, so the newest is synced first.
DayWindows ==
    [k \in 1..((DayEnd + NegWindow - 1) \div NegWindow) |->
        <<(k - 1) * NegWindow, Min({k * NegWindow, DayEnd})>>]

\* What the walk over pages starts from.
StartPages ==
    /\ phase' = "page"
    /\ until' = DayEnd - 1
    /\ have' = {}

\* Only a day without a record is drawn.  (Fault: any day is, afresh.)
DrawAfresh == done' = NotDone
DrawOpen == done = NotDone /\ UNCHANGED done

StartUnit ==
    /\ phase = "idle" /\ DrawOpen
    /\ units < MaxUnits /\ units' = units + 1
    /\ IF info.negentropy # "no"
       THEN phase' = "sync" /\ stack' = DayWindows /\ UNCHANGED pageVars
       ELSE StartPages /\ UNCHANGED stack
    /\ UNCHANGED <<relay, info, saved, missing, synced, attempt, countVars,
                   sinkVars, faults>>

\* A unit leaves nothing behind but what it wrote down.
ForgetUnit ==
    /\ phase' = "idle"
    /\ stack' = <<>> /\ missing' = {} /\ synced' = FALSE
    /\ until' = 0 /\ have' = {}
    /\ attempt' = 0 /\ seen' = 0 /\ new' = 0

\* The day is written down, and what was learnt of the relay with it.
FinishUnit ==
    /\ phase \in {"synced", "paged"}
    /\ done' = [path |-> phase, seen |-> seen, new |-> new]
    /\ saved' = info
    /\ ForgetUnit
    /\ UNCHANGED <<relay, info, sinkVars, units, faults>>

Active == phase \in {"sync", "fetch", "page", "recheck"}

\* An error, or the unit's timeout: what was learnt is kept, the day is not
\* recorded.
FailUnit ==
    /\ saved' = info
    /\ ForgetUnit
    /\ UNCHANGED <<relay, info, sinkVars, done, units>>

TimeOut == Active /\ FailUnit /\ UNCHANGED faults

\* The backstop, or a kill: the unit's copy of the relay is gone with it.
Cancelled ==
    /\ phase # "idle"
    /\ ForgetUnit
    /\ info' = saved
    /\ UNCHANGED <<relay, saved, sinkVars, done, units, faults>>

-----------------------------------------------------------------------------
(* Negentropy. *)

\* NodeSink::missing leaves out what the sink has, and what it could not look
\* up.
Missing(ids, failed) == ids \ (stored \cup failed)

Splittable(s, e) == (e - s) \div 2 >= Floor

\* A window whose set reaches the largest this relay has presented, and the
\* floor below which none is doubted.  (Fault: the largest must be exceeded.)
TruncatedIfAbove(n, cap) == n > Max({cap, NegFloor})
Truncated(n, cap) == n >= Max({cap, NegFloor})

Halves(s, e) == <<<<s, s + (e - s) \div 2>>, <<s + (e - s) \div 2, e>>>>

Top == stack[Len(stack)]
Rest == SubSeq(stack, 1, Len(stack) - 1)

Reconcile ==
    /\ phase = "sync" /\ stack # <<>>
    /\ \E shown \in Newest(Within(Top[1], Top[2] - 1), relay.syncCap) :
         LET local == IF relay.baseline THEN stored ELSE {}
             remote == shown \ local
             n == Cardinality(remote)
             cap == Max({info.neg_cap, n})
         IN /\ info' = [negentropy |-> "yes", neg_cap |-> cap]
            /\ \/ /\ Truncated(n, cap) /\ Splittable(Top[1], Top[2])
                  /\ stack' = Rest \o Halves(Top[1], Top[2])
                  /\ UNCHANGED <<phase, missing, seen, dropped, faults>>
               \/ /\ ~(Truncated(n, cap) /\ Splittable(Top[1], Top[2]))
                  /\ stack' = Rest
                  /\ seen' = seen + n
                  /\ phase' = "fetch"
                  /\ \/ /\ missing' = Missing(remote, {})
                        /\ UNCHANGED <<dropped, faults>>
                     \/ \E i \in remote \ stored :
                          /\ Fault
                          /\ missing' = Missing(remote, {i})
                          /\ dropped' = dropped \cup {i}
    /\ UNCHANGED <<relay, saved, synced, pageVars, attempt, new, stored, done,
                   units>>

\* Every window is done.
SyncedAll ==
    /\ phase = "sync" /\ stack = <<>>
    /\ phase' = "synced"
    /\ UNCHANGED <<relay, info, saved, syncVars, pageVars, attempt, countVars,
                   sinkVars, done, units, faults>>

\* The relay answers that it does not do this.  Pages cover the whole day, so
\* the counts start again.  (Fault: they do not.)
KeepCounts == UNCHANGED countVars
ResetCounts == seen' = 0 /\ new' = 0

Unsupported ==
    /\ phase = "sync" /\ stack # <<>>
    /\ info' = [info EXCEPT !.negentropy = "no"]
    /\ StartPages
    /\ stack' = <<>>
    /\ IF synced THEN ResetCounts ELSE UNCHANGED countVars
    /\ UNCHANGED <<relay, saved, missing, synced, attempt, sinkVars, done, units,
                   faults>>

\* Any other error: the unit fails if some window was synced, and pages are
\* tried if none was, with the relay still unprobed.
SyncFails ==
    /\ phase = "sync" /\ stack # <<>>
    /\ Fault
    /\ \/ synced /\ FailUnit
       \/ /\ ~synced /\ StartPages /\ stack' = <<>>
          /\ UNCHANGED <<relay, info, saved, missing, synced, attempt, countVars,
                         sinkVars, done, units>>

-----------------------------------------------------------------------------
(* Requests (req_window) and the sink. *)

Requesting == phase \in {"page", "recheck"} \/ (phase = "fetch" /\ missing # {})

\* A rate-limited answer is waited out, so many times; then it is an error.
RateLimited ==
    /\ Requesting /\ Fault
    /\ \/ /\ attempt < RateRetries
          /\ attempt' = attempt + 1
          /\ UNCHANGED <<relay, info, saved, phase, syncVars, pageVars, countVars,
                         sinkVars, done, units>>
       \/ attempt >= RateRetries /\ FailUnit

\* CLOSED for another reason, no EOSE in time, disconnected: what the relay
\* sent before is discarded.
RequestFails == Requesting /\ Fault /\ FailUnit

\* NodeSink::process: what the sink has is passed over; a save that fails is
\* logged and the event is gone.
Process(events) ==
    /\ \/ /\ stored' = stored \cup events
          /\ new' = new + Cardinality(events \ stored)
          /\ UNCHANGED <<dropped, faults>>
       \/ \E i \in events \ stored :
            /\ Fault
            /\ stored' = stored \cup (events \ {i})
            /\ new' = new + Cardinality(events \ (stored \cup {i}))
            /\ dropped' = dropped \cup {i}
    /\ attempt' = 0

\* The ids the window lacks are asked for a chunk at a time.
FetchChunk ==
    /\ phase = "fetch" /\ missing # {}
    /\ \E ids \in kSubset(Min({Chunk, Cardinality(missing)}), missing) :
         /\ missing' = missing \ ids
         /\ \E events \in Newest(ids, PageCap) : Process(events)
    /\ UNCHANGED <<relay, info, saved, phase, stack, synced, pageVars, seen, done,
                   units>>

WindowDone ==
    /\ phase = "fetch" /\ missing = {}
    /\ phase' = "sync" /\ synced' = TRUE
    /\ UNCHANGED <<relay, info, saved, stack, missing, pageVars, attempt, countVars,
                   sinkVars, done, units, faults>>

-----------------------------------------------------------------------------
(* Pages: newest first, each from the oldest second of the one before. *)

Oldest(page) == Min({relay.at[i] : i \in page})

\* The walk goes on below a second that shows nothing new.  (Fault: it stays.)
StayAt(t) == t
Below(t) == t - 1

EndPages == phase' = "paged" /\ UNCHANGED <<pageVars, seen, attempt, new, sinkVars, faults>>

\* The next page starts in the oldest second of this one, which may be cut.
HandlePage(page) ==
    LET fresh == page \ have
        oldest == Oldest(page)
    IN \/ page = {} /\ EndPages
       \/ /\ page # {} /\ fresh = {}
          /\ IF oldest = until /\ until > 0
             THEN /\ until' = Below(until) /\ phase' = "page" /\ attempt' = 0
                  /\ UNCHANGED <<have, countVars, sinkVars, faults>>
             ELSE EndPages
       \/ /\ fresh # {}
          /\ have' = have \cup page
          /\ seen' = seen + Cardinality(fresh)
          /\ Process(fresh)
          /\ IF oldest <= 0
             THEN phase' = "paged" /\ UNCHANGED until
             ELSE phase' = "page" /\ until' = oldest

Page ==
    /\ phase = "page"
    /\ \E page \in Newest(Within(0, until), PageCap) :
         \/ page = {} /\ until + 1 < DayEnd
            /\ phase' = "recheck" /\ attempt' = 0
            /\ UNCHANGED <<pageVars, countVars, sinkVars, faults>>
         \/ (page # {} \/ until + 1 = DayEnd) /\ HandlePage(page)
    /\ UNCHANGED <<relay, info, saved, syncVars, done, units>>

\* An empty answer to a question that has one, below the top of the day.
EmptyPage ==
    /\ phase = "page" /\ until + 1 < DayEnd /\ Fault
    /\ phase' = "recheck" /\ attempt' = 0
    /\ UNCHANGED <<relay, info, saved, syncVars, pageVars, countVars, sinkVars,
                   done, units>>

\* It is asked again before it is believed.
Recheck ==
    /\ phase = "recheck"
    /\ \E page \in Newest(Within(0, until), PageCap) : HandlePage(page)
    /\ UNCHANGED <<relay, info, saved, syncVars, done, units>>

-----------------------------------------------------------------------------

UnitStep ==
    \/ Reconcile \/ SyncedAll \/ FetchChunk \/ WindowDone
    \/ Page \/ Recheck \/ FinishUnit

Next ==
    \/ StartUnit \/ UnitStep
    \/ Unsupported \/ SyncFails \/ RateLimited \/ RequestFails \/ EmptyPage
    \/ TimeOut \/ Cancelled

Spec == Init /\ [][Next]_vars

\* A unit is a task that is polled.
FairSpec == Spec /\ WF_vars(UnitStep)

-----------------------------------------------------------------------------
(* Properties. *)

\* The variables keep their types; windows are intervals of the day.
TypeOK ==
    /\ relay \in Relays
    /\ {info, saved} \subseteq
          [negentropy : {"unprobed", "yes", "no"}, neg_cap : 0..Cardinality(Ids)]
    /\ phase \in {"idle", "sync", "fetch", "synced", "page", "recheck", "paged"}
    /\ \A k \in DOMAIN stack : stack[k][1] < stack[k][2] /\ stack[k][2] <= DayEnd
    /\ missing \subseteq Ids /\ have \subseteq Ids
    /\ synced \in BOOLEAN
    /\ until \in 0..(DayEnd - 1)
    /\ attempt \in 0..RateRetries
    /\ stored \subseteq Ids /\ dropped \subseteq Ids
    /\ units \in 0..MaxUnits /\ faults \in 0..MaxFaults

SameSecond(i) == Within(relay.at[i], relay.at[i])

\* The events no page shows: those of a second with more than a page holds,
\* and those of the day's first second, which is not asked for again.
HiddenFromPages(i) ==
    \/ Cardinality(SameSecond(i)) > PageCap
    \/ relay.at[i] = 0 /\ Cardinality(Ids) > PageCap

\* The events no reconciliation shows: those of a window too short to split
\* that holds more than the relay presents.
HiddenFromSync(i) ==
    \E s \in 0..relay.at[i] :
        /\ relay.at[i] < s + 2 * Floor - 1
        /\ Cardinality(Within(s, s + 2 * Floor - 2)) > relay.syncCap

\* What the code takes for granted of a relay: it answers a chunk of ids in
\* full, and does not cut id sets below the floor.
Answers == Chunk <= PageCap /\ NegFloor <= relay.syncCap

\* A cut id set is told from a full one by its size, and the size of a
\* difference tells nothing: either the sink has no baseline or the relay does
\* not cut.
SizeTells == relay.baseline => Cardinality(Ids) <= relay.syncCap

\* A day that is recorded as done has all its events: those the relay can be
\* made to show and the sink did not drop ("Relays cap result counts
\* silently, so a window whose result count reaches the relay's observed
\* ceiling is split"), whatever failed and was drawn again before.
DoneIsComplete ==
    done # NotDone /\ Answers /\ SizeTells =>
        \A i \in Ids \ (stored \cup dropped) :
            IF done.path = "paged" THEN HiddenFromPages(i) ELSE HiddenFromSync(i)

\* The same without SizeTells, as the comment on neg_cap has it: "a window
\* whose set reaches this ceiling is assumed truncated and split".
CappedDayIsComplete ==
    done # NotDone /\ Answers =>
        \A i \in Ids \ (stored \cup dropped) :
            IF done.path = "paged" THEN HiddenFromPages(i) ELSE HiddenFromSync(i)

\* The record counts every event once, however often windows were split and
\* whichever path the day fell back to, and no more of them as new than seen.
CountedOnce == done # NotDone => done.new <= done.seen /\ done.seen <= Cardinality(Ids)

\* A unit ends by itself, without its timeout: splitting stops at the floor
\* and every page moves the walk down.
UnitEnds == Active ~> ~Active

\* What a relay that can be trusted so far shows by either path.
Reachable ==
    {i \in Ids : Answers /\ SizeTells /\ ~HiddenFromPages(i) /\ ~HiddenFromSync(i)}

\* ScrapeDay implements DayFetch: through all windows, pages, failures and
\* repeated units the sink only gains events, and the day is recorded once,
\* with everything reachable in it.
Fetch == INSTANCE DayFetch WITH
    reachable <- Reachable,
    stored <- stored \cup dropped,
    done <- done # NotDone

DayIsFetched == Fetch!Spec
=============================================================================
