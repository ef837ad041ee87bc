# nostrsearch: TLA+ models, checks and proofs

nostrsearch indexes Nostr events into monthly Tantivy shards, archives them in
JSON dumps, and folds them into analyses (web of trust, activity, ...). This
directory holds TLA+ models of the parts of it in which the order of steps
matters, TLC configurations that check them on small instances, and TLAPS proofs
of the most important safety properties for every instance. `PROJECT.json` maps
every definition to the lines it models and lists runs, mutants, findings,
hazards and theorems. Paths below are relative to `src/crates/`.

## 1. Inventory

| Component | State it keeps | Operations | Talks to |
|---|---|---|---|
| Shard writer, `nostrsearch-indexer/src/shard_writer.rs` | map month → shared `OpenShard` (Tantivy writer, `docs_since_commit`, `last_used`), LRU cap | `index_event`, `commit_all`, `close_shard`, eviction | called by every reader thread, the writer thread and the checkpoint |
| Archive ingest, `archive_ingest.rs`, `bin/ingest.rs`, `id_store.rs` | pending ids, id store (`.dedupe`), progress, cancel flag | `ingest`/`run_passes`, batch callback, checkpoint, `commit_and_claim`, SIGTERM flush | shard writer, pipeline, id store |
| Pipeline and analyses registry, `pipeline.rs`, `nostrsearch-stats/src/{registry,progress,store}.rs` | per analysis: state, `Progress` (watermark, boundary ids, backfilled, rebuild position); world; plan and pass; files on disk | fold, refresh, persist, staged backfill, replay, reset, finish, load | archive ingest, writer thread, admin API |
| Analyses, `nostrsearch-stats/src/analyses/` | tallies, sketches, windows; the follow graph and first-seen times on disk | `observe`, `materialize`, `snapshot`, `drain_delta`, `attach` | registry |
| Writer node, `nostrsearch-server/src/node.rs`, `main.rs`; firehose, `firehose.rs` | bounded channel, `dirty`, `IndexedIds`, shutdown signal; notification buffer | `save_event`, `send`, commit tick, commands, drain; subscribe, forward | archive database, pipeline, id store |
| Ingest job and admin API, `ingest_job.rs`, `admin.rs` | the one ingest slot, cancel flag | start, cancel, reset one, reset all; scrape resets | writer node, archive ingest, scraper state |
| Submissions, `submit.rs`; strfry importer, `strfry.rs` | jobs on disk with phase and cursor, upload slots, workers | upload, claim, unpack, process batches, persist, resume, stop | archive database, writer node |
| Scraper, `scrape.rs`, `scraper.rs` | per relay: negentropy, caps, failures, backoff; per relay-day: done; per pass: cursors, in-flight units | discover, cut, plan a batch, probe, reconcile or page, record, retire | relays, id store, archive, writer node |
| Read side, `registry.rs` (server), `http.rs` | LRU cache of shard readers, earliest month | search, get, discover | Tantivy directories |
| Reports, `reports.rs`, `dashboard/src/{reports,api}.ts` | published reports, broadcast of patches; what a browser shows | publish, apply patches, stream, serve; seed, merge, reconnect | writer node |
| Core, `nostrsearch-core` | none | month arithmetic, documents, query planning, scoring, tokenizing | everyone |
| Archive file server, dashboard pages, CLI wiring, language detection | none or read-only | | |

What is hard in it: reader threads share shard writers with evictions and commits;
ids are claimed by a checkpoint that runs beside the readers; processes are
killed (the deployment restarts on OOM) between any two writes; state and
progress are separate files; an operator resets analyses and cancels ingests
while they run; the channel to the writer is bounded and drained at shutdown;
relays cut answers without saying so and fail in every way while units, plans
and cursors interleave; readers are opened outside the lock of their cache;
a dashboard puts patches on top of reports that it fetched at another moment.
The properties that make the parts correct:

* shard writer: an accepted document is never lost, one writer per month, a
  commit covers what was accepted before it;
* archive ingest: the id store never gets ahead of the index (a hole no retry
  fills), no event is indexed twice, a completed ingest left nothing out;
* pipeline: backfilled means complete, dependents read a complete world, a
  resumed rebuild counts once, a watermark parked in the future is pulled back, a stop
  loses nothing, a reset is refilled;
* analyses and reports: tallies kept by deltas agree with the stores they are
  about, or are known not to, a report plus its patch is the next snapshot, a browser catches up;
* writer node: claims trail commits, the last events are committed without
  further traffic, a shutdown drains;
* submissions: a resumed job skips and miscounts nothing, what is archived is
  handed to the writer, an accepted upload is processed in the end, a database
  is read exactly;
* scraper: a day recorded as done is complete, units end, one unit per relay, no
  open day is skipped, relays are set aside for a reason and come back;
* read side: a search is exact whatever else runs, the cache is bounded.

`PROJECT.json` lists the hazards at their lines, with the properties that cover
each or why none does.

## 2. Modules

| Module | Models | Actions or operators ↔ code |
|---|---|---|
| `ShardManager` | `shard_writer.rs` | A thread's `index_event` is `Lookup`, the eviction (`EvictPick`, `CloseTake`, a commit, `CloseDrop`, `CloseRemove`), `OpenShard`, `AddDocument`, `CountDocument` and, at the threshold, `CommitFlush`/`CommitReset`; `commit_all` is `SweepStart` … `SweepReturn`. `held` and `sweep.handles` are the `Arc` clones behind `strong_count`; an instance of a writer (`Insts`) lives while it is mapped or held. |
| `ArchiveIngest` | document side of `archive_ingest.rs`, `bin/ingest.rs` | The batch callback is `TakeChunk` (which asks the store), `PlanIndexWork`, `FoldBatch`, `IndexOk`/`IndexFails`, `ExtendPending`; `commit_and_claim` is `StartClaim`, `CommitShard` per month, `TakePending`, `FlushIds`, under the pipeline lock (`claim.kind`), for the checkpoint, finalize and SIGTERM. |
| `StatsPipeline` | `pipeline.rs`, `registry.rs`, `progress.rs`, `store.rs`, the resets of `admin.rs`, the slot of `ingest_job.rs` | `run_passes` is `Begin`, `StartPass`, `StartGroup`, `FoldArchived`, `EndGroup`, `AdvancePass`, `GoLive`; a save is three `SaveFile` steps per analysis; `ResetAnalysis`, `RequestResetAll`, `ResetAllWaited`, `ResetAll` and `StartRebuild` are the reset handlers; `Finish`, `Exit`, `Kill`, `Restart` the process. |
| `WriterNode` | `node.rs`, `firehose.rs` | `SaveEvent`, `SendEvent` for producers; `Notify`, `Stream` for the firehose and its bounded notification buffer, whose skipped events are `unreached`; `ReceiveEvent`, `TickCommit`, `Claim`, `TickFails`, `StopLoop`, `FinalCommit`, `LastClaim` for the writer's select loop. |
| `Submissions` | `submit.rs`, the shutdown of `main.rs` | `StartUpload` … `WriteQueued` is the upload handler, whose `set(Queued)` is three steps (phase, read, write); `Look`, `Claim`, `Open`, `Spill` (the unpacked copy of a database), `ReadLine`, `StopReading`, `Screen`, `SaveEvent`, `HandOver`, `Flushed`, `Finish`, `RemoveFiles` a worker; `Stop`, `WaitEnds`, `WaitTimesOut`, `Exit`, `Kill` the node, with `Reload` for `load_jobs`. |
| `StrfryDump` | `strfry.rs` | Operators over a file of pages: `OpenDatabase` picks the meta page, `WalkPage`, `WalkLeaf`, `ReadOverflow` walk a B+tree with the code's three bounds, `ForEachEvent` is what an upload reads. `MCSubmissions` takes the content of the uploaded database from it. |
| `DayFetch` | the promise of one relay-day | `Store` (the sink gains events) and `Record` (once, when everything reachable is there). |
| `ScrapeDay` | `scrape_day`, `req_window`, `req_once`, the end of `scrape_relay_day`, the node's sink | `StartUnit`; `Reconcile` with the split of a window at the ceiling, `FetchChunk`, `WindowDone`; `Page`, `EmptyPage`, `Recheck` for the REQ walk; `RateLimited`, `RequestFails`, `SyncFails`, `Unsupported`, `TimeOut`, `Cancelled` for what goes wrong; `FinishUnit`, `FailUnit`. Implements `DayFetch`. |
| `RelayScope` | `top_by_usage_weight`, `scrape_targets`, `adaptive_percentile`, `scope_coverage`, `fail_backoff_secs`, blocks | operators used by `ScrapePass` |
| `ScrapePass` | `run_pass`, `plan_batch`, `scrape_relay_day`'s bookkeeping, the loop of `scraper.rs`, the scrape resets of `admin.rs` | `Discover`, `StartPass`, `PlanRead` and `PlanDraw` (the planner's two looks; `DrawAcrossMidnight` is the second with midnight inside it), `CheckBatch`, `Spawn`; a unit is `ProbeRejects`/`ProbePasses`, `UnitRecords`, `UnitSucceeds`, `UnitFails`, `UnitVanishes`; `ResetDays`, `ResetRelay`, `Tick`, `Midnight`, `Kill`. What a unit does in between is `ScrapeDay`. |
| `EventIndex`, `QueryPlan` | `schema.rs`, `tokenizer.rs`, `bech32.rs`; `query.rs`, `shard.rs`, `scoring.rs` | `ToDocument`, `Tokenize` and the normalizations; `ParseSearchString`, `Plan`, `Selects`, `ShardsInRange`, `RankKey`. Text is a sequence of character codes, a value is a spelling of a content, a score is an integer. |
| `ShardRegistry` | server `registry.rs`, the requests of `http.rs`, beside a writer | A search is `Begin`, `Anchor`, `Rediscover`, `InsertAnchor`, `PlanSearch`, `Take`/`Put` per worker and shard, `Finish`; a lookup `BeginGet`, `Look`; `MakeDir`, `MakeIndex`, `Commit` the writer; `Reload` the watcher. |
| `Analyses` | the eight registered analyses and `delta.rs` | `Observe…`, `…Report`, `…Patch` per analysis, `MergePatch`. `ObserveFollows`, `ObserveFirst` and `AttachFollows` are given the calls of the stores on disk that fail (`GraphCalls`, `FirstCalls`) or what could be read. |
| `Reports` | live side of registry and pipeline, the ticks and commands of `node.rs`, `reports.rs`, the dashboard's `reports.ts`/`api.ts` | `Observe`, `CommitTick`, `DeltaTick`, `Reset`, `ResetFails`, `Stop`, `Kill` under the pipeline's mutex (the writer thread, or an ingest that folds); `Serve`, `Send` and the lagging receiver; `Timer`, `Seed`, `Arrive`, `GetFails`, `Receive`, `Disconnect`, `Connect` in the browser. |
| `EvictionRace`, `StatsHistory` | history variables over `ShardManager` and `StatsPipeline` | `raced`: events written beside an eviction of their month; `torn`: a save stopped between two of its files; `raised`: analyses that folded an event from the future while they were rebuilt in this process. They observe steps and change none. |
| `MC*` | constants of the runs | model values, symmetry |
| `ShardManagerProofs`, `ArchiveIngestProofs`, `StatsPipelineProofs`, `SubmissionsProofs`, `ScrapeDayProofs`, `ScrapePassProofs`, `ShardRegistryProofs` | theorems and lemmas about the module of that name | |
| `NodeProofs` | theorems and lemmas about the node's writer thread | about `Reports` with `Analyses`, and about `WriterNode`, whose specification has names of its own (`WriterSpec`) |

How they fit: `ShardManager` knows nothing of ids; `ArchiveIngest` and
`WriterNode` see a shard as documents that are buffered or durable (with
`ShardCommit` for the shard's own commits); `ShardRegistry` sees a writer that
makes directories, indexes and commits. `StatsPipeline` sees an analysis as the
bag of events it folded and has stages, files and count-once; `Reports` has the
analyses' real states and patches, with folding reduced to once per event.
`ScrapePass` sees a unit end well or not; `ScrapeDay` is that unit; `DayFetch` is
what `ScrapePass` relies on. `Submissions` reads what `StrfryDump` gives. The header
of each module lists its simplifications. Operators marked *(Fault: ...)* are the
mutated forms of the definition that follows them; the specifications do not use
them.

## 3. Runs

Passing runs, with what each shows and why its bounds are enough:

* `MCShardManager` (1.0 M states): two threads, three events in two months and one
  in the future, room for one open shard, `commit_all` overlapping, any Tantivy
  call failing. `TypeOK`, `NoOrphanWriter`, `CounterCoversQueue`, `CommitAllCovers`,
  `KeptUnlessRaced`. Two threads give every pairwise race, one slot makes every
  second month an eviction; the proofs cover the rest. `KeptUnlessRaced` says that
  the race of `MCShardEvictLoss` is the only way to lose an accepted event: the
  history variable `raced` marks the events written beside an eviction of their
  month.
* `MCArchiveIngest` (3.3 M): two readers, two chunks that share an event, two
  months, the checkpoint and the SIGTERM flush beside the readers, failures, one
  kill, one rerun. `ClaimedWasAccepted`, `ClaimTrailsCommit` (the id store is ahead
  of the index by at most the ids in `late`: added after a claim under way had
  committed their month), `CompletedIsSearchable`.
* `MCStatsBackfill` (494 k), `MCStatsServer` (125 k): follow_graph, pagerank
  (derived) and activity (dependent); the ingest binary with two dumps, live
  events, torn saves, a stop, a kill and failures, or the node with one dump,
  resets, cancellation and a kill. Two dumps and two stages are what an unfinished
  pass, a resumed pass and a wrong order need. One of the two dumps holds an event
  dated in the future and one of the two live events is, as `progress.rs:236` says the
  corpus has them: the backfill then parks a watermark ahead of the clock, and
  `FreshIsConsumed` says that this is the only way, and that a load of what was saved
  (`clamp_watermark`) ends it. `BackfilledIsComplete`,
  `DependentsSeeCompleteWorld`, `RebuildCountsOnce`, `FreshIsConsumed`;
  `DependenciesFirst`, `IngestEnds`, `ResetIsRefilled`. Liveness assumes weak
  fairness of the ingest's steps (a task of its own), of saves, and of a reset's
  handler.
* `MCWriterNode` (123 k): three events, two of them from the firehose, a channel of
  two, a notification buffer of one (so that it lags), one failure, one kill.
  `ClaimedIsDurable`, `DrainedIsDurable`, `ArchivedIsClaimed`. The last assumes weak
  fairness of the writer thread, whose timer always ticks, of the firehose's task
  and of senders waiting for room in the channel (tokio serves them in order); the
  events are finitely many, so starvation of the tick by sustained load is outside
  it, and so is what follows a failed commit (section 5).
* `MCSubmissions` (166 k): two uploads, a dump with a bad line and a strfry database
  that repeats an event of it, batches of two lines (so that a job can be cut inside
  a batch and between two), one worker (the default of
  `SUBMIT_PROCESS_CONCURRENCY`), one failure, one graceful stop whose wait may time
  out, one kill. `ResumeSkipsNothing`, `CountsAddUp`, `ArchivedIsHandedOver`,
  `AcceptedIsProcessed` (weak fairness of the worker, a task that polls every
  second, of the handler once it has received everything, and of the shutdown).
  `WalkIsExact` walks a branch over two leaves and an overflow page in all 24
  layouts of the file, and each with one page number replaced by any other and with
  declared depths from 1 to 4.
* `MCScrapeDay` (315 k): four events in every spread over the three seconds of a
  day, windows of two seconds that split to one, chunks and pages of two, a sink
  that has at most one event; relays with and without negentropy, one that cuts its
  id sets below what it holds; two units and one fault (a failure, a rate limit, an
  empty page, dropped negentropy, a timeout). Three seconds and a page of two make
  a crowded second, a page cut in the middle of a second, and a window that must be
  split. `DoneIsComplete`, `CountedOnce`; `UnitEnds` under weak fairness of the
  unit's own steps, without its timeouts; and the refinement `DayIsFetched`, that
  `ScrapeDay` implements `DayFetch` under `reachable <- Reachable`,
  `stored <- stored \cup dropped` (what the sink gave up on is not the relay's to
  show again), `done <- done # NotDone`.
* `MCScrapePass` (172 k): a healthy and an unreliable relay, two slots, blocks of
  one day, days 0 to 1, records in an old layout, and one of: an admin reset, a
  kill, a midnight, between two steps or inside a draw. With blocks of one day the
  draw in which midnight falls skips whole blocks, which moves the cursor past them;
  the one property that depends on the width, `SkippedIsDone`, also holds with blocks of
  two days. All thresholds are the smallest that still let failures,
  backoff, retirement and release follow each other. `OneUnitPerRelay`,
  `SkippedIsDone`, `RecentAnswerKeepsAlive`; `Covered` and `SetAsideIsRetried` under
  weak fairness of the loop, of time, and of each relay's unit (a task that ends,
  if only by its timeout).
* `MCShardRegistry` (334 k): six events in three months, one of them older than any
  shard when the server starts and one dated in the future, room for two readers; a
  search with any of six filters and two workers, a second search that keeps the
  cache busy, a lookup. Three months against two readers make a wide scan and
  evictions. Each filter combines several operators and spellings, so that between
  them every clause of the planner decides about some event. `SearchIsExact` compares
  the result with `AskedFor`, which says what a filter means without planning it.
* `MCReports` (161 k): five scenarios of one to three events (a replaced and an
  emptied contact list, a late older note, a zap by a service, a relay list), one or
  two faults (restart, reset, failed call of a store, failed save, failed request, lost
  connection), a browser in one of them, a broadcast buffer of one frame. Every subset
  of the calls an event makes to the two stores may fail, a failed clear leaves any part
  and a failed iteration reads any part. `TalliesMatchStores`, `PatchCompletesReport`, and
  `BrowserCatchesUp` under weak fairness of the browser's timer, of requests and of
  the stream. Two faults are what a torn tally that must mend, or a fault behind a
  restart, need; three on a single list were checked as well.

`MCShardEvictLoss` and `MCArchiveHole` are expected to be violated; see section 5.
`CHECK_DEADLOCK FALSE` stands where the modelled run simply ends (a scraped day, a
finished set of requests, a scenario, a bounded number of passes).

## 4. Proofs

Everything below holds for arbitrary constants: any threads, relays, events,
dumps, dependencies, capacities and failures, within the assumptions named. Each
theorem rests on an inductive invariant, stated in named parts, which TLC also finds
unviolated on the run of that component in section 3 (with infinite sets of values
cut to finite ones, and for `ShardRegistry` without the types of a request's fields).

`ShardManagerProofs`:

* `TypeCorrect`; `WritersAreMapped` from `MapInv` (the map is injective on months,
  every handle is to a mapped writer or to one being closed by its holder).
  `NoOrphanWriter` alone is not inductive: an eviction holds a handle of its own
  between its steps, so the invariant has to say where that thread is.
* `CountersCover` from `CountInv`, which adds that a writer in the guarded part of a
  commit is empty and that every queued document is counted or about to be.
* `CommitAllIsComplete` from `CoverInv`: whatever a sweep still owes is in a writer
  it has not visited, because a thread that has returned has counted its document,
  so a zero counter skips only documents the sweep does not owe.
* `OnlyTheRaceLoses`, of `EvictionRace`, from `KeptInv`: what a thread has added is in
  the writer it holds until it is durable, and what is queued in a writer behind
  the commit of its eviction was put there by a thread in the race. With
  `MCShardEvictLoss` this settles the shard writer: that race loses events, and
  nothing else does.

`ArchiveIngestProofs`:

* `TypeCorrect`; `OnlyAcceptedIsClaimed` (`AcceptInv` adds the readers' private `okIds`);
  `ClaimsTrailCommits` from `DurableInv`: ids a reader holds or that are pending have a
  document, and those of a month the claim under way has committed have a durable
  one or are late. `ClaimsTrailCommitsAlone`: if nothing claims while readers run
  (`Claimers = {}`) the store is never ahead at all.
* `CompletedRunIsSearchable` from `CompleteInv`: every event is in a chunk that waits,
  before a reader, or settled, and once finalize runs what it has still to commit is
  in the months it lists.

`NodeProofs`, about `Reports`, for any scenarios of well-formed events (`IsEvent`: counts are
naturals, a contact list is a sequence of keys), any bucket widths and caps, any
browser and any room in the broadcast, with the restarts, resets, failed saves and
failing calls of the stores of the module among them:

* `TalliesStayRight`: `Spec => []TalliesMatchStores`, from `TallyInv`. The counts in memory are
  those of the stores, unless something tore them (`torn`, the four ways of section 5); and a checkpoint that no store has
  left behind (`torn`, `unsaved`) agrees with the stores as well, or has no counts, which
  `follow_graph` then derives, because a restart goes on from it. A follower count is the
  number of edges (an author, a place in the list): a list may name a key twice, and
  both the code's delta and its derivation count each place. `FollowersOfPut` says what
  replacing one author's list does to that number, `DeltaAt` that the two passes of
  `ApplyDelta` do the same to the count, although each saturates at zero on its own;
  this is where the invariant is needed, since a count that was too low would
  saturate. `FirstInPut` and `FirstMatches` say the same of a first-seen time that an older
  event moves from one bucket to another. What the calls do that fail is in
  `FollowsTypes` and `FirstTypes`: a fold that is left half done keeps the types and marks
  its store. Counts derived from the whole adjacency are right again whatever was torn
  before, so the invariant must know that no checkpoint brings the torn ones back:
  without counts in memory there are none in a checkpoint that is not behind.
* `PatchesComplete`: `Spec => []PatchCompletesReport`, from `StoreInv`. What an analysis has not
  marked dirty is in the held report as in the snapshot, and what it has marked only
  gains keys (`Fits`, one part per analysis). The second half is why a merge suffices: a
  patch is merged into the report key by key, so a key that disappears from
  the snapshot would need a null. In three analyses none ever does; in `new_users` a
  bucket that becomes empty does, it is dirty, and the patch has that null. The four
  steps (`ActivityStep`, `ActiveStep`, `ClientStep`, `FirstFits`) show that folding keeps `Fits`, the four
  `...Completes` that `Fits` makes the merged report the snapshot, `SnapshotFits` that a publish
  starts again from equality.

`NodeProofs`, about `WriterNode`, for any set of events, capacities, failures and kills:

* `TypeCorrect`; `StoreTrailsIndex` from `ClaimInv` (indexed ids are buffered or durable, and
  durable while the writer is claiming).
* `ShutdownDrains` from `DrainInv`: what was in the channel at the signal is still queued,
  or refused, or buffered or durable, and only the last or refused once the final
  commit succeeded.

`StatsPipelineProofs`, over any acyclic dependencies (`DepsAssumption`: the code
refuses to start on a cycle) and any number of ingests, stops and kills:

* `BackfillIsComplete`, for the ingest binary and for a node that is `Spared`, from
  `StatsInv`: the analyses a pass rebuilds have folded the dumps it has done with and
  of the group it reads all but what is left (`PassCovers`), and what is on disk claims
  no more than the state beside it, between any two of a save's renames
  (`SavedIsHonest`).
* `DependenciesComeFirst`, under `Spared`, and under `SavedInTurn` if saves may be torn
  (analyses are registered, hence saved, behind those they read, as
  `pipeline.rs:106` does). From `OrderInv`: a plan has nothing that waits for a later
  pass (`PlanInv`), and between two saves the disk is as ordered as memory
  (`SavedInOrder`); with torn saves from `TornOrderInv`: the disk is in order at every
  moment, and claims no more than memory (`TurnInv`). It needs that `Stages` are layers
  of the dependencies and that `Doomed` is closed under dependents after
  `Cardinality(Analyses)` rounds, both lemmas.
* `BackfillSeesCompleteWorld`, for the binary, from `BinaryInv`: a pass that is behind the
  ingest has left the world of its analyses complete (`WorldInv`).
* `ResumedBackfillCountsOnce`, for the binary, if the archive keeps an id in one dump
  (`DumpsApart`: a dump is a day, and an id fixes its date), from `OnceInv`: whoever goes on
  from here, in memory or from the disk, reads only dumps of which nothing is
  counted. This needs that the analyses of a stage are done with the same dumps
  (`Lined`), because a dump one of them still needs is read again for all.
* `NothingFreshIsGated`, for any corpus, if no save of a reset can be torn
  (`ResetsAreSaved`: the binary, or a node without torn saves, with resets beside an
  ingest), from `FreshInv`: an analysis that folded nothing from the future while it
  was pending in this process has its watermark at most at `Now + Skew`, what is loaded is
  clamped there, and an id in a boundary set was counted, on disk before in memory.

These hypotheses are not conveniences; without each the theorem is false, as TLC
shows on the run named, changed as described:

| Theorem | Without | Refuted in |
|---|---|---|
| `BackfillIsComplete` | `Spared` | `MCStatsServer` with `BusyResets` or with `TornSaves` (section 5) |
| `DependenciesComeFirst` | `Spared`; `SavedInTurn` | `MCStatsServer` under `HistorySpec` with `BusyResets`, or with `TornSaves` (a kill inside the save of a reset); `MCStatsBackfill` with `MCDeps` turned around |
| `BackfillSeesCompleteWorld` | `~Server` | `MCStatsServer` under `HistorySpec` with `Files = {f1, f2}` (section 5) |
| `ResumedBackfillCountsOnce` | `~Server` | `MCStatsServer` under `HistorySpec`: a node folds live events into analyses that still rebuild |
| `NothingFreshIsGated` | `ResetsAreSaved` | `MCStatsServer` under `HistorySpec` with `TornSaves = TRUE`, `Events = {a, c, d}`, `LiveEvents = {c, d}`: a kill inside the save of a reset leaves an empty state with the ids of the old one |
| `ResumingSkipsNothing`, `ResumedCountsAddUp` | `~EarlyClaims` | `MCSubmissions` with `EarlyClaims` (section 5) |

`SubmissionsProofs`, for any uploads, contents and workers:

* `ArchivedReachesWriter` from `HandInv`: an archived event that was not sent has a result
  in the hands of a worker, and when the writer is gone no worker has anything
  left, unless something cut it.
* `ResumingSkipsNothing` and `ResumedCountsAddUp` from `PlaceInv`: a saved place, and one in
  memory of a job no worker has, counts each line before it and has it archived; of a
  job a worker has, the lines before the cursor are that or in its batch
  (`Reading`, `Saving`); a job has one worker (`OneWorker`). Under `EarlyClaims` the upload's
  handler and a worker save the same job, which breaks it.

`ScrapeDayProofs`, for any events spread over any day, any caps, windows and floor:

* `RecordedDayIsComplete` and `RecordedDayCountsOnce` from `DayInv`: an event the sink lacks is
  in a window on the stack, or about to be fetched, or hidden (`SyncCovers`); the paged
  walk has had all that a page shows above its bound (`PagesCover`); windows on the
  stack do not overlap, so what is counted is not on it (`Counts`).
* `ImplementsDayFetch`: `Spec => DayIsFetched`, the refinement: each step stores reachable
  events, records a day from which none of them is missing, or is a stutter of
  `DayFetch`. `DoneIsComplete` is what its `Record` step needs.

`ScrapePassProofs`, for any relays, slots, block width, backoff and resets:

* `NothingIsSkipped`: a block is left only when the planner found nothing open in it. A
  cursor that moves over several empty blocks at once is an induction over blocks.
* `UnitsAreAlone` from `Alone` and `Slots`: a relay is drawn only while it is not in flight,
  and stays in flight until its task leaves.
* `AnsweringRelayStays` from `JudgedInv`: a record, and each copy of one a batch or a unit
  holds that is not outdated, tells the truth about the last answer (`Tells`).

`ShardRegistryProofs`, for any events, months, room in the cache, searches with any
number of workers, and lookups, beside a writer that makes shards and commits:

* `CacheBounded` and `WideScanKeepsCache` from `CacheInv`: a reader is opened outside the
  lock, so the invariant says what each one being opened is on and behind
  (`OpeningOK`), and that only a fan-out no wider than the cache opens one to keep.
* `LookupFindsCommitted` from `GetInv`: the shard of a document the lookup owes is still in
  its list. This needs that what was settled stays settled (`SettledStays`): a
  reader taken out of the cache comes back no older than the commit.
* `SearchReturnsAskedFor` from `SearchInv`. What a running fan-out owes is ahead of it (its
  shard unclaimed, or the reader being opened) or found, where found means among
  the hits or outdone by `limit` hits that are no worse (`FanRight`); merging keeps
  that, although each worker cuts its own hits at the limit (`FoundIn`). Before it,
  a search that owes something finds an anchor to plan with (`Anchored`), and the
  months it plans contain each shard it owes (`PlanCovers`).
* `FutureDatedLoses`, from the same invariant: results are sorted by `RankKey`, and a
  recent event has a boost that one dated past the skew has not.

The last two have a hypothesis each, which TLC evaluates on the filters and events
of `MCShardRegistry` as an `ASSUME`. `PlanningIsExact` says that the plan of a filter
selects the documents of the events the filter asks for. It is about pure code, the
planner and the tokenizer, and it compares words that are built by recursion over
text; the theorem carries it through everything that runs concurrently.
`RecencyCounts` says that recency has a weight and a match has a score: the
default weight is 1.0, and BM25 is positive for a document that matches. With a
weight of zero, equal keys could be merged in either order.

The assumptions on constants are named in each module (`ConstantsAssumption`,
`DepsAssumption`, `WindowAssumption`, `ScrapeAssumption`, `RegistryConstants`,
`AnalysesConstants`, `ReportsConstants`, ...); TLC evaluates them in every run.
The types `Typed` in `ScrapePassProofs` leave out `percentile`, which is computed by a sum
over relays and which no proof needs.

Two techniques recur. Induction on natural numbers (windows on a stack, blocks,
layers, rounds of a closure) is by the least counterexample (`LeastNat`, from the
well-foundedness of `<`). A recursive function such as `Layers(S)` or `Downstream(name)` is
unfolded from the union of its partial solutions, since `f[n] = ... f[n - 1] ...` over
`Nat` must be shown to have a solution before it can be used.

What stays with TLC, and why:

* liveness under fairness: `IngestEnds`, `ResetIsRefilled`, `ArchivedIsClaimed`,
  `AcceptedIsProcessed`, `UnitEnds`, `Covered`, `SetAsideIsRetried`, `BrowserCatchesUp`; the prover has no `ENABLED`;
* `WalkIsExact`: `StrfryDump` is recursive over pages, and what a recursive definition
  computes for every file is induction over data;
* `PlanningIsExact`, for the reason given above;
* everything a violated property shows.

## 5. Where the code and its documentation disagree

Two are runs that TLC must refute; `PROJECT.json` quotes the lines in question.

* `MCShardEvictLoss`: an eviction can drop a document another thread has just had
  accepted.
* `MCArchiveHole`: a checkpoint beside running readers can claim an id whose
  document is not committed; a kill then leaves a hole.

The others are found by changing the constants of a configuration, which keeps
its bounds otherwise, and checking the one property named:

| Configuration and change | Refuted | Because |
|---|---|---|
| `MCArchiveHole`, `MaxKills = 0` | `IndexedOnce` | the store and the pending set are asked in an order that misses an id moving between them (`archive_ingest.rs:349`; the comment at :350 rules it out) |
| `MCArchiveHole`, `Claimers = {}` | `IndexedOnce` | a killed run duplicates documents a shard committed on its own (README.md:182 says it does not) |
| `MCStatsBackfill`, `LiveEvents = {}`, `MaxStops = 0` | `CountsOnce` | state and progress are separate renames (`store.rs:113`); after a kill between them the resume folds a group again (`pipeline.rs:473` rules it out) |
| `MCStatsBackfill`, `LiveEvents = {}`, `MaxKills = 0` | `CountsOnce` | a graceful stop in mid-pass saves folds without a position (`pipeline.rs:660`) |
| `MCStatsBackfill`, `LiveEvents = {b}`, `MaxKills = 0`, `MaxStops = 0` | `CountsOnce` | ids folded by a backfill are unknown to the live tail (`registry.rs:526`, against `progress.rs:84`) |
| `MCStatsBackfill` | `FreshIsConsumed` without `raised` | the backfill branch raises the watermark without a bound (`registry.rs:526-529`, against :21), on the future-dated events `progress.rs:236` says the corpus has |
| `MCStatsBackfill` | `FinishSavesFolds` | a skipped refresh makes `finish()` believe nothing was folded (`pipeline.rs:437`, against :659) |
| `MCStatsServer` under `HistorySpec`, `Files = {f1, f2}` | `DependentsSeeCompleteWorld` | `observe_into_stage` folds into every analysis while `live` is set (`pipeline.rs:358`), and a node is live from its start: a replay folds dependents in its first pass (against `ingest_job.rs:60`) |
| `MCStatsServer` under `HistorySpec`, `BusyResets = TRUE` | `BackfilledIsComplete` | an analysis reset during a replay ends up marked complete (`pipeline.rs:612`, against `registry.rs:704`) |
| `MCStatsServer` under `HistorySpec`, `TornSaves = TRUE` | `BackfilledIsComplete` | a kill inside the save of a reset leaves an empty state marked complete (against `pipeline.rs:218`) |
| `MCSubmissions` under `Spec`, `EarlyClaims = TRUE` | `ResumeSkipsNothing` | a worker claims a job before its handler has saved it as queued, and the handler then saves a cursor ahead of the archive (`submit.rs:603`, against the resume note at :481) |
| `MCScrapeDay` under `Spec`, `Relays <- CuttingRelays` | `CappedDayIsComplete` | with a baseline (`local_items`) the reconciliation gives the difference, and its size is compared with the ceiling of whole sets (`scrape.rs:1883`): a cut set goes unnoticed and the day is recorded (against the comment on `neg_cap`) |

Exceptions written into properties instead:

* `ArchivedIsClaimed` excuses a failed commit, which the timer does not retry
  before the next event (`node.rs:318` clears `dirty` whatever the commit returned,
  against :289), and what the firehose skipped while it lagged (`unreached`):
  `firehose.rs:84` leaves that to the gap scraper, but the client has archived the
  event by then, and the scraper asks the archive for what is missing
  (`node.rs:48`);
* `ArchivedIsHandedOver` excuses a batch that is cut by a kill, a failed save or a
  wait that timed out, after which its events are archived, never sent, and
  duplicates to every later producer (`submit.rs:1004`, against `node.rs:48`);
* `FreshIsConsumed` excuses an analysis that folded an event from the future while it was
  pending in this process (`raised`): its watermark is parked there, and live events
  are rejected until the next start, whose load clamps it, or a reset;
* `RebuildCountsOnce` excuses the two cases of the table; `ResetIsRefilled` excuses
  kills, because no process resumes a rebuild by itself;
* `DoneIsComplete` leaves out what the REQ walk cannot show (`HiddenFromPages`): more
  events in one second than the relay's cap, and events of the day's first second
  behind a page that was cut there (`scrape.rs:1995`);
* `RecentAnswerKeepsAlive` leaves out a relay whose unit was drawn on a record that
  another step replaced since (`misjudged`); `Covered` and `SkippedIsDone` leave out days that opened
  again in front of a cursor until the next pass (`reopened`), and those that a draw with
  midnight inside it did not name (`overlooked`, see below);
* `SetAsideIsRetried` leaves out a relay that was found to be none: `plan_batch` never draws
  it again (`scrape.rs:1543`), against the comment at :1655-1657, by which that verdict expires
  and a relay that comes back is picked up again;
* `TalliesMatchStores` leaves out a store that was torn from its tally (`torn`), until a clear
  empties it or the counts are derived anew. There are four ways, and with any one of
  them not excused TLC refutes the property in `MCReports` within three steps:
  * a fall back to a checkpoint older than the store: stores are written with each
    event, tallies with the checkpoint (`FallBack`);
  * a fold left half done (`HalfDone`): `follow_graph.rs:153` logs a failed `put` after the
    counts moved, :147 skips the decrement when the `get` fails; `new_users.rs:41-51`
    reads an error as "never seen" and drops a failed write after the shift;
  * a clear of the first-seen times that failed, or was not made because the handle is
    gone: `new_users.rs:53-62` ignores errors, beside a tally that starts at zero
    (`TornByClear`; a failed clear of the graph, `follow_graph.rs:105`, tears nothing by itself,
    since the counts are derived from what it left);
  * counts derived while an iteration failed: `graph.rs` skips what it cannot read
    (`TornByAttach`).

  `follow_graph` derives its counts only when they are empty (`follow_graph.rs:81`), so the
  first two last until a reset; nothing derives the new users' tallies;
* `SearchIsExact` follows the code where an open `until` ends with the current month
  and where a month is only searched once `earliest` has seen it.

Midnight inside a draw: `plan_batch` takes the start of today once (`scrape.rs:1509`) and counts
its blocks from it, while `day_bounds` reads the clock again for each day (:714, called at
:1574). From a midnight in between on, day names are shifted by one: the newest of a block
belongs to the block before and is dropped (:1575), and the oldest is never named. If
nothing else of the block is open the cursor moves on, or is parked, with that day neither
done nor reopened, which is the falsely exhausted block that the comment at :1565 warns of.
`SkippedIsDone` without `overlooked` is refuted in `MCScrapePass` by `StartPass`, `PlanRead`,
`DrawAcrossMidnight`. The day is open again in the next pass, or when its block is drawn
from once more.

Read in the code and not made into a property: the comment at `delta.rs:22` says that no delta
ever needs a null, which is older than `new_users`, whose patch has one for each bucket that
emptied (`new_users.rs:163`; `PatchCompletesReport` needs it); the stand-alone scraper
(`bin/scrape.rs`) records a day before the checkpoint that commits its documents;
`/sync` computes the relay cut without the filter the scraper applies; `publish`
does not broadcast, so an open dashboard keeps a reset report until its next
timer; an unparsable `kind:` token is dropped from a search, which widens it; a
failing walk of a strfry database does not flush its last batch as the end of a
dump does.

## 6. Not modelled, and the plan

Not modelled: BM25 and the floating point of scores, PageRank's iteration (its
result is reduced to who gets a rank) and language detection, whose outputs no
property tells apart; HTTP routing, rendering, the websocket front end and
authentication; file serving; command-line wiring; the pages of the dashboard;
`kind_breakdown` and `Registry::merge`, which nothing calls; the free-space
arithmetic of uploads. Tantivy, RocksDB, LMDB's writer and the relays are external:
a commit is atomic, one writer per directory, a batch of ids is written whole, a
relay may answer anything it holds.

Overflow of `created_at + LIVE_LAG_SECS` (`progress.rs:276`) is outside the small
times of the models. That eviction always returns is no longer a run of its own:
its loop ends in the step in which it finds no victim (`EvictPick`).

Next: a composition of `Submissions` with `WriterNode`'s channel. Of the safety
properties the runs check, `WalkIsExact` is the one no theorem states.
