----------------------------- MODULE ScrapePass -----------------------------
(***************************************************************************)
(* The scraper's passes: run_pass, plan_batch and the bookkeeping of       *)
(* scrape_relay_day in crates/nostrsearch-indexer/src/scrape.rs, the loop  *)
(* around them in crates/nostrsearch-server/src/scraper.rs, and the two    *)
(* admin resets.                                                           *)
(*                                                                         *)
(* A pass draws relay-days into a bounded number of tasks.  The planner    *)
(* reads the relay records, then looks at what is in flight and at the     *)
(* completion records; tasks finish at any moment between.  Each relay is  *)
(* walked back in blocks behind a cursor that lives as long as the pass.   *)
(* Relay and completion records outlive the process.  What a task does     *)
(* with its day is ScrapeDay; here it ends well or not.                    *)
(*                                                                         *)
(* Simplifications:                                                        *)
(*  - times are ages and remaining times, which Tick moves; each stops     *)
(*    where no comparison in the code can tell it from a larger one;       *)
(*    whether the relay document is due again is open at every unit;       *)
(*  - the planner's second look is one step, in which midnight may fall;    *)
(*    what it reads of a relay only that relay's task, which is not there,  *)
(*    and the operator change, whose resets come day by day;                *)
(*  - a relay record is written in the step in which its task leaves, and  *)
(*    what the probe notes with the step that follows it;                  *)
(*  - who advertises a relay does not change.                             *)
(***************************************************************************)
EXTENDS RelayScope

CONSTANTS
    Urls,          \* relays, as numbers
    Advertisers,   \* authors whose relay list names each
    MinSources,    \* min_sources
    Pins,          \* pinned_relays
    Healthy,       \* relays that answer every unit: the others may do anything
    Concurrency,   \* slots
    BlockDays,     \* BLOCK_DAYS
    PctMin, PctMax,        \* usage_percentile_min, usage_percentile
    BackoffUnit, BackoffLimit,   \* of fail_backoff_secs
    DeadAfter, NeverFactor,      \* dead_after_fails; 5 times it if never answered
    DeadFor,       \* dead_for_secs
    Recheck,       \* nip11_recheck_secs
    Old,           \* relays an older engine knew, and whose first day it recorded
    Today, MaxToday,       \* the first today; bound: the last
    MaxEvents      \* bound: admin resets, kills and midnights

ASSUME ScrapeAssumption ==
    /\ Concurrency \in Nat \ {0} /\ BlockDays \in Nat \ {0}
    /\ DeadAfter \in Nat \ {0} /\ NeverFactor \in Nat \ {0}
    /\ BackoffLimit \in Nat /\ DeadFor \in Nat /\ Recheck \in Nat
    /\ MaxToday \in Nat /\ Today \in 0..MaxToday
    /\ PctMin \in 0..PctMax
    /\ Healthy \subseteq Urls /\ Pins \subseteq Urls /\ Old \subseteq Urls

VARIABLES
    known,      \* urls with a relay record
    info,       \* RelayInfo of each
    days,       \* completion record of each (relay, day): none, stale or done
    today,      \* start of today; yesterday is today - 1
    loop,       \* where the pass is
    percentile, \* the cut of this pass
    cursor,     \* BlockCursor
    targets,    \* the relay records the planner read
    batch,      \* what it drew: [url, info, day, outdated, at]
    inFlight,   \* urls handed out
    units,      \* tasks: the same
    reopened,   \* history: (url, day) that opened again where the cursor had passed
    overlooked, \* history: (url, day) a draw across midnight did not name, and passed
    lastAnswer, \* history: since the last answer of each relay
    misjudged,  \* history: relays whose record an outdated copy replaced
    events      \* resets, kills and midnights so far

passVars == <<loop, percentile, cursor, targets, batch>>
stateVars == <<known, info, days>>
history == <<lastAnswer, misjudged>>
leftovers == <<reopened, overlooked>>
vars == <<stateVars, today, passVars, inFlight, units, leftovers, history, events>>

Never == -1
Parked == MaxToday     \* u64::MAX: behind every block
MaxFails == DeadAfter * NeverFactor
Days == 0..(MaxToday - 1)
OpenRange == 0..(today - 1)

\* isRelay: nip11 is not Some(false); fails: in a row; okAge, failAge: since the
\* last answer and failure; dead: what remains of dead_until.
Fresh == [isRelay |-> TRUE, fails |-> 0, okAge |-> Never,
          failAge |-> BackoffLimit, dead |-> Never]

\* A relay record of the first layout ends before last_fail, which reads as 0;
\* the second ends before neg_cap (ScrapeDay).
DecodeRelayInfo(record, layout) ==
    IF layout = 1 THEN [record EXCEPT !.failAge = BackoffLimit] ELSE record

\* A completion record of the layout without an epoch counts as one of epoch 0.
DecodeDayDone(record) == IF record = "v1" THEN "stale" ELSE record

Init ==
    /\ known = Old
    /\ info = [u \in Urls |-> IF u \in Old THEN DecodeRelayInfo([Fresh EXCEPT !.okAge = 0], 1)
                             ELSE Fresh]
    /\ days = [u \in Urls |-> [d \in Days |->
                 DecodeDayDone(IF u \in Old /\ d = 0 THEN "v1" ELSE "none")]]
    /\ today = Today
    /\ loop = "idle" /\ percentile = PctMin
    /\ cursor = [u \in Urls |-> 0]
    /\ targets = << >> /\ batch = {}
    /\ inFlight = {} /\ units = {}
    /\ reopened = {} /\ overlooked = {} /\ events = 0
    /\ lastAnswer = [u \in Urls |-> info[u].okAge] /\ misjudged = {}

-----------------------------------------------------------------------------
(* Between passes. *)

\* The distinct authors of the relay lists that name a relay.
sources == [u \in Urls |-> Cardinality(Advertisers[u])]

\* Those with enough of them get a record, or keep the one they have.
Kept(found) == {u \in found : sources[u] >= MinSources}

\* Found by the relays report or the index scan, which may see any of the
\* lists, or fail; not due at every pass.  The pinned relays are always known.
Discover ==
    /\ loop = "idle"
    /\ \E found \in SUBSET Urls : known' = known \cup Kept(found) \cup Pins
    /\ UNCHANGED <<info, days, today, passVars, inFlight, units, leftovers, history,
                   events>>

\* Relays retired by failures alone are released at the start of a pass.
Released(i) ==
    IF i.dead # Never /\ i.isRelay THEN [i EXCEPT !.dead = Never, !.fails = 0] ELSE i

NotRelays == {u \in known : ~info[u].isRelay}
Answered == {u \in known : info[u].okAge # Never}
DaysDone == [u \in Urls |-> Cardinality({d \in OpenRange : days[u][d] = "done"})]

\* The cut widens with the coverage of the relays its floor keeps.
Cut == LET c == ScopeCoverage(TopByUsageWeight(known, NotRelays, sources, PctMin, Concurrency),
                              Answered, DaysDone, today)
       IN AdaptivePercentile(c.done, c.expected, PctMin, PctMax)
Scope == ScrapeTargets(known, NotRelays, sources, percentile, Concurrency, Pins)

StartPass ==
    /\ loop = "idle" /\ known # {}
    /\ info' = [u \in Urls |-> IF u \in known THEN Released(info[u]) ELSE info[u]]
    /\ percentile' = Cut
    /\ cursor' = [u \in Urls |-> 0]
    /\ loop' = "read"
    /\ targets' = << >> /\ batch' = {}
    /\ reopened' = {} /\ overlooked' = {}
    /\ UNCHANGED <<known, days, today, inFlight, units, history, events>>

-----------------------------------------------------------------------------
(* Planning. *)

\* The planner's first look: the relay records.
PlanRead ==
    /\ loop = "read"
    /\ targets' = [u \in Scope |-> info[u]]
    /\ loop' = "draw"
    /\ UNCHANGED <<stateVars, today, percentile, cursor, batch, inFlight, units,
                   leftovers, history, events>>

\* Set aside, or waiting out a failure.
SetAside(i) == i.dead > 0
BackingOff(i) == i.fails > 0 /\ i.failAge < FailBackoff(BackoffUnit, BackoffLimit, i.fails)

\* (Fault: a relay in flight is drawn again.)
FreeAlways(u) == TRUE
Free(u) == u \notin inFlight

Eligible(u) ==
    /\ ~SetAside(targets[u]) /\ ~BackingOff(targets[u])
    /\ Free(u)
    /\ targets[u].isRelay

\* (Fault: a record of an older epoch counts as done.)
OpenIfNone(u, d) == days[u][d] = "none"
Open(u, d) == days[u][d] # "done"

\* In front of a cursor, where the pass will not look.
InFrontOf(block, d, t) == d >= t - block * BlockDays

\* The open days of the first block at or behind the cursor that has one, of
\* those the walk names: all but the missed ones.
OpenDays(u, missed) ==
    {d \in OpenRange \ missed : BlockOf(today, BlockDays, d) >= cursor[u] /\ Open(u, d)}
\* (Fault: the cursor is put behind the block that was drawn from.)
Newest(u, missed) == BlockOf(today, BlockDays, Max(OpenDays(u, missed)))
NextBlock(u, missed) == IF OpenDays(u, missed) = {} THEN Parked ELSE Newest(u, missed) + 1
Walked(u, missed) == IF OpenDays(u, missed) = {} THEN Parked ELSE Newest(u, missed)
Candidates(u, missed) ==
    {d \in OpenDays(u, missed) : BlockOf(today, BlockDays, d) = Newest(u, missed)}

\* The planner's second look.  Relays are taken in any order until the batch
\* is full; the cursors of those it came to are moved.
Draw(missed) ==
    /\ loop = "draw"
    /\ \E drawn, passed \in SUBSET DOMAIN targets :
         /\ Cardinality(drawn) <= Concurrency
         /\ \A u \in drawn : Eligible(u) /\ OpenDays(u, missed[u]) # {}
         /\ \A u \in passed : Eligible(u) /\ OpenDays(u, missed[u]) = {}
         /\ \/ Cardinality(drawn) = Concurrency
            \/ \A u \in DOMAIN targets \ (drawn \cup passed) : ~Eligible(u)
         /\ cursor' = [u \in Urls |->
                         IF u \in drawn \cup passed THEN Walked(u, missed[u]) ELSE cursor[u]]
         /\ \E day \in [drawn -> Days] :
              /\ \A u \in drawn : day[u] \in Candidates(u, missed[u])
              /\ batch' = {[url |-> u, info |-> targets[u], day |-> day[u],
                            outdated |-> targets[u] # info[u], at |-> "drawn"] : u \in drawn}
    /\ targets' = << >>
    /\ loop' = "check"
    /\ UNCHANGED <<stateVars, percentile, inFlight, units, history>>

PlanDraw == Draw([u \in Urls |-> {}]) /\ UNCHANGED <<today, leftovers, events>>

\* day_bounds reads the clock again for every day, while the blocks stay counted
\* from the day on which the draw began: from midnight on each day is named by
\* the one after it, and the last is dropped, as it is in the next block.  So the
\* block in which midnight falls lacks the day it falls on, and every block after
\* it, of this relay and of those taken later, lacks its oldest.
Oldest(block) == Max({0, today - (block + 1) * BlockDays})
OldestDays == {d \in OpenRange : d = Oldest(BlockOf(today, BlockDays, d))}
MissedFrom(d) ==
    {d} \cup {e \in OldestDays : BlockOf(today, BlockDays, e) > BlockOf(today, BlockDays, d)}

\* Midnight finds some relays walked, one at day d, and the others to come.
DrawAcrossMidnight ==
    /\ today < MaxToday
    /\ events < MaxEvents /\ events' = events + 1
    /\ \E walked \in SUBSET DOMAIN targets, at \in DOMAIN targets, d \in OpenRange :
         LET missed == [u \in Urls |-> IF u = at THEN MissedFrom(d)
                                       ELSE IF u \in walked THEN {} ELSE OldestDays]
         IN /\ Draw(missed)
            /\ overlooked' = overlooked \cup
                 {p \in Urls \X OpenRange :
                    /\ p[2] \in missed[p[1]] /\ Open(p[1], p[2])
                    /\ InFrontOf(cursor'[p[1]], p[2], today + 1)
                    /\ ~InFrontOf(cursor[p[1]], p[2], today)}
    /\ today' = today + 1
    /\ reopened' = reopened \cup {p \in Urls \X {today} : InFrontOf(cursor'[p[1]], today, today + 1)}

\* An empty batch with something in flight is planned again in a second; with
\* nothing in flight it ends the pass.
CheckBatch ==
    /\ loop = "check"
    /\ loop' = IF batch # {} THEN "spawn" ELSE IF inFlight # {} THEN "read" ELSE "idle"
    /\ IF batch = {} /\ inFlight = {}
       THEN cursor' = [u \in Urls |-> 0] /\ reopened' = {} /\ overlooked' = {}
       ELSE UNCHANGED <<cursor, leftovers>>
    /\ UNCHANGED <<stateVars, today, percentile, targets, batch, inFlight, units,
                   history, events>>

\* A slot is waited for before each unit of the batch.
Spawn ==
    /\ loop = "spawn" /\ Cardinality(units) < Concurrency
    /\ \E b \in batch :
         /\ batch' = batch \ {b}
         /\ inFlight' = inFlight \cup {b.url}
         /\ units' = units \cup {[b EXCEPT !.at = "work"]}
         /\ loop' = IF batch = {b} THEN "read" ELSE "spawn"
    /\ UNCHANGED <<stateVars, today, percentile, cursor, targets, leftovers, history,
                   events>>

-----------------------------------------------------------------------------
(* Tasks. *)

\* A task leaves: with a relay record, or without.
\* (Fault: a task that is cancelled stays in flight.)
LeaveInFlight(u) == inFlight' = inFlight
Leave(u) == inFlight' = inFlight \ {u.url}

LeaveWith(u, i) ==
    /\ info' = [info EXCEPT ![u.url] = i]
    /\ inFlight' = inFlight \ {u.url}
    /\ units' = units \ {u}

Misjudge(u) == misjudged' = IF u.outdated THEN misjudged \cup {u.url} ELSE misjudged

\* The relay document is asked for if it never was, or long ago.  A url that
\* looks minted is not asked, and one without a document is retired.
NotARelay(i) == [i EXCEPT !.isRelay = FALSE, !.dead = Recheck]

ProbeRejects(u) ==
    /\ u.at = "work" /\ u.url \notin Healthy
    /\ LeaveWith(u, NotARelay(u.info))
    /\ Misjudge(u)
    /\ UNCHANGED <<known, days, today, passVars, leftovers, lastAnswer, events>>

\* It has one, and that is noted; or it could not be asked, or was not due.
ProbePasses(u) ==
    \/ info' = [info EXCEPT ![u.url] = u.info] /\ Misjudge(u)
    \/ UNCHANGED <<info, misjudged>>

\* The day is recorded first, then the relay.
UnitRecords(u) ==
    /\ u.at = "work"
    /\ ProbePasses(u)
    /\ days' = [days EXCEPT ![u.url][u.day] = "done"]
    /\ reopened' = reopened \ {<<u.url, u.day>>}
    /\ overlooked' = overlooked \ {<<u.url, u.day>>}
    /\ units' = (units \ {u}) \cup {[u EXCEPT !.at = "recorded"]}
    /\ UNCHANGED <<known, today, passVars, inFlight, lastAnswer, events>>

UnitSucceeds(u) ==
    /\ u.at = "recorded"
    /\ LeaveWith(u, [u.info EXCEPT !.fails = 0, !.failAge = BackoffLimit,
                                   !.dead = Never, !.okAge = 0])
    /\ lastAnswer' = [lastAnswer EXCEPT ![u.url] = 0]
    /\ misjudged' = misjudged \ {u.url}
    /\ UNCHANGED <<known, days, today, passVars, leftovers, events>>

\* Failure alone is no evidence that a relay is gone: it takes silence as well,
\* or more failures where there never was an answer.
\* (Fault: the silence is not looked at.)
RetiresOnFailures(i) == i.fails >= DeadAfter
Retires(i) ==
    IF i.okAge = Never THEN i.fails >= DeadAfter * NeverFactor
    ELSE i.fails >= DeadAfter /\ i.okAge >= DeadFor

Counted(n) == Min({n + 1, MaxFails})

Failed(i) ==
    LET f == [i EXCEPT !.fails = Counted(@), !.failAge = 0]
    IN IF Retires(f) THEN [f EXCEPT !.dead = DeadFor] ELSE f

UnitFails(u) ==
    /\ u.at = "work" /\ u.url \notin Healthy
    /\ LeaveWith(u, Failed(u.info))
    /\ Misjudge(u)
    /\ UNCHANGED <<known, days, today, passVars, leftovers, lastAnswer, events>>

\* Wedged past the backstop, or not added to the pool: nothing is written.
UnitVanishes(u) ==
    /\ u.at = "work" /\ u.url \notin Healthy
    /\ ProbePasses(u)
    /\ Leave(u)
    /\ units' = units \ {u}
    /\ UNCHANGED <<known, days, today, passVars, leftovers, lastAnswer, events>>

UnitStep(u) ==
    \/ ProbeRejects(u) \/ UnitRecords(u) \/ UnitSucceeds(u)
    \/ UnitFails(u) \/ UnitVanishes(u)

-----------------------------------------------------------------------------
(* The operator, the clock and the end of the process. *)

\* Days that open again in front of the cursor.
Passed(u, d, t) == InFrontOf(cursor[u], d, t)
Reopen(pairs, t) ==
    reopened' = reopened \cup {p \in pairs : Passed(p[1], p[2], t)}

\* for_each_day: the records of some relays between two dates.
Matching(urls, from, to) ==
    {p \in urls \X (from..to) : days[p[1]][p[2]] # "none"}

\* The admin API forgets completion records, of one relay or of all.
ResetDays ==
    /\ events < MaxEvents /\ events' = events + 1
    /\ \E urls \in {Urls} \cup {{u} : u \in Urls}, from, to \in OpenRange :
         LET gone == Matching(urls, from, to) IN
         /\ days' = [u \in Urls |-> [d \in Days |->
                       IF <<u, d>> \in gone THEN "none" ELSE days[u][d]]]
         /\ Reopen(gone, today)
    /\ UNCHANGED <<known, info, today, passVars, inFlight, units, overlooked, history>>

\* Or what was learnt of a relay.
Forgotten(i) == Fresh

ResetRelay(u) ==
    /\ u \in known
    /\ events < MaxEvents /\ events' = events + 1
    /\ info' = [info EXCEPT ![u] = Forgotten(@)]
    /\ lastAnswer' = [lastAnswer EXCEPT ![u] = Never]
    /\ UNCHANGED <<known, days, today, passVars, inFlight, units, leftovers, misjudged>>

Sooner(n) == IF n <= 0 THEN n ELSE n - 1
Later(n, limit) == IF n = Never THEN n ELSE Min({n + 1, limit})
Aged(i) == [i EXCEPT !.okAge = Later(@, DeadFor), !.failAge = Later(@, BackoffLimit),
                     !.dead = Sooner(@)]

Tick ==
    /\ info' = [u \in Urls |-> Aged(info[u])]
    /\ targets' = [u \in DOMAIN targets |-> Aged(targets[u])]
    /\ batch' = {[b EXCEPT !.info = Aged(@)] : b \in batch}
    /\ units' = {[u EXCEPT !.info = Aged(@)] : u \in units}
    /\ lastAnswer' = [u \in Urls |-> Later(lastAnswer[u], DeadFor)]
    /\ UNCHANGED <<known, days, today, loop, percentile, cursor, inFlight, leftovers,
                   misjudged, events>>

\* A day becomes yesterday, and open.
Midnight ==
    /\ today < MaxToday
    /\ events < MaxEvents /\ events' = events + 1
    /\ today' = today + 1
    /\ Reopen(Urls \X {today}, today + 1)
    /\ UNCHANGED <<stateVars, passVars, inFlight, units, overlooked, history>>

Kill ==
    /\ events < MaxEvents /\ events' = events + 1
    /\ loop' = "idle" /\ batch' = {} /\ targets' = << >>
    /\ cursor' = [u \in Urls |-> 0]
    /\ inFlight' = {} /\ units' = {}
    /\ reopened' = {} /\ overlooked' = {}
    /\ UNCHANGED <<stateVars, today, percentile, history>>

LoopStep == StartPass \/ PlanRead \/ PlanDraw \/ CheckBatch \/ Spawn

Next ==
    \/ Discover \/ LoopStep
    \/ \E u \in units : UnitStep(u)
    \/ ResetDays \/ (\E u \in Urls : ResetRelay(u))
    \/ Tick \/ Midnight \/ DrawAcrossMidnight \/ Kill

Spec == Init /\ [][Next]_vars

\* The loop is a task of its own; a unit ends, if only by its timeouts; time
\* passes.
FairSpec ==
    /\ Spec
    /\ WF_vars(LoopStep) /\ WF_vars(Tick)
    /\ \A u \in Urls : WF_vars(\E t \in units : t.url = u /\ UnitStep(t))

-----------------------------------------------------------------------------
(* Properties. *)

RelayInfo == [isRelay : BOOLEAN, fails : 0..MaxFails,
              okAge : Never..DeadFor, failAge : 0..BackoffLimit, dead : Never..Max({DeadFor, Recheck})]

\* The variables keep their types.
TypeOK ==
    /\ known \subseteq Urls
    /\ info \in [Urls -> RelayInfo]
    /\ days \in [Urls -> [Days -> {"none", "stale", "done"}]]
    /\ today \in Today..MaxToday
    /\ loop \in {"idle", "read", "draw", "check", "spawn"}
    /\ percentile \in 0..100
    /\ cursor \in [Urls -> 0..Parked]
    /\ DOMAIN targets \subseteq known
    /\ batch \subseteq [url : known, info : RelayInfo, day : Days, outdated : BOOLEAN,
                        at : {"drawn"}]
    /\ inFlight \subseteq known
    /\ units \subseteq [url : known, info : RelayInfo, day : Days, outdated : BOOLEAN,
                        at : {"work", "recorded"}]
    /\ reopened \subseteq Urls \X Days /\ overlooked \subseteq Urls \X Days
    /\ lastAnswer \in [Urls -> Never..DeadFor] /\ misjudged \subseteq Urls

\* "Two units for the same relay run concurrently otherwise, and the first to
\* finish calls remove_relay, tearing the shared client's connection out from
\* under the second": one unit per relay, and never more than there are slots,
\* however units and replans interleave.
OneUnitPerRelay ==
    /\ \A t, u \in units : t.url = u.url => t = u
    /\ Cardinality(units) <= Concurrency

\* Open in front of the cursor: left to the next pass.
LeftOver(u, d) == <<u, d>> \in reopened \cup overlooked

\* "a falsely-exhausted block would advance the cursor past days still
\* unscraped": every day in front of a relay's cursor is done, or became open
\* during this pass, or is one that a draw could not name because midnight fell
\* into it.
SkippedIsDone ==
    \A u \in Urls : \A d \in OpenRange :
        Passed(u, d, today) => days[u][d] = "done" \/ LeftOver(u, d)

\* "A relay that has answered recently is having a bad minute": it is not set
\* aside for its failures, unless the planner drew it on a record that its own
\* task or the operator replaced in between.
RecentAnswerKeepsAlive ==
    \A u \in Urls \ misjudged :
        info[u].dead # Never /\ info[u].isRelay =>
            lastAnswer[u] = Never \/ lastAnswer[u] >= DeadFor

\* A relay that answers gets all its days recorded, whatever the other relays
\* do: a stalled or failing unit costs its own slot only.  Days that opened again
\* in front of the cursor, or that a draw across midnight passed, wait for the
\* next pass.
Covered ==
    \A u \in Healthy :
        u \in known ~>
            \A d \in OpenRange : days[u][d] = "done" \/ LeftOver(u, d)

\* A relay that was set aside for its failures is tried again, even within one
\* pass that never ends.
SetAsideIsRetried ==
    \A u \in Urls \ Healthy :
        info[u].dead # Never ~>
            \/ (\E t \in units : t.url = u) \/ ~info[u].isRelay
            \/ \A d \in OpenRange : days[u][d] = "done" \/ LeftOver(u, d)

=============================================================================
