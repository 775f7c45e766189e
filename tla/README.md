# narshare in TLA+

narshare serves NARs between the nodes of a small mesh. Every node records which NAR
hashes it holds (*possession*) and which signed path-infos it knows (*facts*), and
gossips both with its peers; a proxy on each node answers Nix from that index and
fetches file segments from several peers at once. These modules model the parts of
the program whose correctness depends on interleavings, crashes, retries and limits.
Source paths below are relative to the repository's `src/` directory, `index.rs` standing
for `src/src/index.rs`.

Check a run with `tlc -config <run>.cfg <MC module>`, the proofs about a module with
`tlapm <module>Proofs.tla`, and the lemmas they share with `tlapm Folding.tla`. Next to
some definitions stands a *mutant*: the same operator with a plausible mistake in it, under
which the property named for it in `PROJECT.json` fails.

## Inventory

Per component: state; operations and interactions; what makes it hard; what makes it
correct.

| component (source) | state | operations and interactions | hard behaviour | correct when |
|---|---|---|---|---|
| possession replication (`index.rs`, `sync.rs`, `store/`) | per origin: clock (gen, seq, tail_seq), holdings, journal, per-peer watermarks; the meta row `self_generation` | `export_ops`, `respond_budgeted`, `apply_suffix`, `apply_snapshot`, `compact`, `remint_generation`, `retract_hold` | responses read clock and body apart; several loops apply one origin; chunked replace; a host crash keeps a synced prefix; a remint is two writes; images | a replica holds what the origin held at its seq, up to events still to come; equal clocks mean equal sets; no seq is reissued; everyone converges |
| catch-up engine and leases (`sync.rs`) | lease per origin, plan (cursor, next, target, retry, buffered), asks in flight | enrol, fill, complete, fail, drain, cancel; peers are drawn from the host pool | answers out of order, short, late, of another generation; cancellation with asks in flight; leases that expire under a running round | nothing owed is dropped, journals have no holes, clocks never go back, the origin is given back |
| sync loops (`sync.rs`) | timers, channels of capacity one, dump cursors | `peer_loop`, `own_db_loop`, `hint_loop`, `reconcile_loop`, `handle_sync`, `handle_hint` | dropped hints, several loops in `handle_sync` | a pull follows the last export |
| facts and reconciliation (`index.rs`, `sync.rs`, `store/rocks.rs`) | fact rows, Merkle aggregates, dump cursors, peers' roots | `merge_atts`, pages, `restart_all_dumps`, `reconcile_facts` | facts move behind a dump's frontier; a cursor marked while a response is handled; capped bucket lists; batches that repeat a fact | the tree is the table; no cursor is ahead of its facts; facts reach whoever lacks them |
| exporter (`sync.rs`, `index.rs`, `db.rs`) | last `data_version`, `diff_state`, NAR-hash map | diff the Nix database, export in chunks, retract, hint | commits between sample, watermark and scan; deletions and signatures no watermark shows | the set converges to the database |
| rocksdb backend (`store/rocks.rs`) | column families, stripe locks, write-ahead log | `apply_events`, `replace_holdings`, `compact_journal`, `merge_atts`, look-ups, `mw_save` | multi-batch operations, unsynced writes, batches invisible to reads | as the components that use it |
| postgres backend (`store/postgres.rs`) | tables | the same trait in transactions | isolation of the database | same |
| circuit breaker (`peers.rs`) | strikes, opened at | `available`, `record_ok`, `record_strike`, `soonest_recovery` | late outcomes, herd after the cooldown | a live peer is let back in |
| host pool (`pool.rs`) | weights | draw, update, save, restore | what a restart keeps | learning survives |
| stream governor (`governor.rs`, `fetch.rs`) | limit, direction, samples | `observe` at the end of an epoch | rounding at the floor, outliers, two epochs closed at once | never stuck below the knee |
| fetch engine (`fetch.rs`) | plan, ranges, requeue, flights, workers, slots, buffer, emission | carve, launch, hedge, hear, requeue, emit, retain, replay, abort | hedges racing, deadlines, shared slots, retained spans against the window | right bytes, once, in order; ends |
| retention planner (`dedup.rs`) | none (pure) | `plan` | repeated segments against a budget | what is kept fits at every moment |
| serve listener (`serve.rs`) | entry cache with seek tables and byte count, manifest cache, builds | look up, build, count, evict, stream | evictions between two steps of a build; requests that leave; bodies that fail half-way | counted, shared, answered; the bytes of the range |
| memory governor (`mem.rs`) | budget | `next_budget` from PSI | shrinking under a build | the cache fits the budget |
| proxy listener (`proxy.rs`) | none but the saved weights | narinfo and NAR look-ups, sources, ranges, weight saver | reads at several moments; tiers; breakers; roaming | an honest miss, a source that was there |
| segment reader (`io.rs`) | inbox, eventfd, slab, in-flight permits | aligned reads, short reads, fallback | sleep against wake-up, slot reuse | every read is answered, once |
| nar and manifest layout (`nar.rs`, `manifest.rs`) | none (pure) | seek tables, slices, manifests, rebuilt layouts | two walks that must agree | the NAR, unit by unit |
| nix formats and signatures (`narinfo.rs`, `sig.rs`, `nixbase32.rs`) | none | parse, verify | none | round trip |
| nix database access (`db.rs`) | read-only connection, hash map | queries, `data_version`, `by_nar_hash` | Nix commits between queries | the current row or nothing |
| configuration, start-up, status (`config.rs`, `main.rs`, `status.rs`) | config | validate, wire, report | none | admits only well-formed meshes |
| wire protocol (`proto/mesh.proto`) | none | SyncRequest, SyncResponse | none | see replication |

`PROJECT.json` has the status of each, what is left out of it, and the list of hazards
with the properties that cover them.

How they interact. The exporter writes this node's own stream and hints the peers. For
every peer, a peer loop claims the origins it may pull, sends its clocks, receives
suffixes and snapshots and a page of facts, and applies them to the store; the peer's
`handle_sync` records the caller's clocks as watermarks and answers from its own store,
that of other origins included (relaying). A truncated suffix hands the origin to the
engine, which pulls ranges from all peers. Watermarks and a backstop let each node compact
the journals it keeps. Every response carries the peer's fact root; roots that differ wake
the reconcile loop. The proxy reads facts, holdings and breakers, and starts a transfer;
the transfer asks the serve listeners of the sources, which stream from entry cache and
segment reader. A serve listener that finds content gone retracts the hold.

## Modules

| module | what it is |
|---|---|
| `Possession`, `MCPossession` | one origin's stream in all nodes, from export to compaction and recovery |
| `Replication` | what that stream promises, without clocks, journals or messages |
| `PossessionProofs` | types, the inductive invariant and the theorems about `Possession`, and that it implements `Replication` |
| `CatchupProofs`, `ExporterProofs`, `FactsProofs`, `ServingProofs`, `LookupProofs`, `TransferProofs` | the same for the modules below: inductive invariant, steps, theorems |
| `Folding` | lemmas about folds, totals and induction that several of them cite |
| `Catchup`, `MCCatchup` | one node's peer loops, leases and engine for one origin |
| `Exporter`, `MCExporter` | the Nix database, the differ, requests by NAR hash, retraction, hints and the pulls they cause |
| `Facts`, `MCFacts` | fact tables, aggregates, dumps and reconciliation of a set of nodes |
| `Lookup` | one request at the proxy listener against an index that moves |
| `Governor` | the stream limit of one peer |
| `WeightSaver` | how learned weights survive restarts |
| `MCProxy` | the last three: none reads what another writes, so a behaviour runs one part while the others rest |
| `Retention` | the planner, as a fold over the occurrences |
| `Transfer`, `MCTransfer` | one transfer: plan, launch loop, workers, breakers, slots, emission |
| `NarLayout` | the two layouts of a NAR, against the format |
| `NarStream`, `MCNarStream` | responses of the serve listener over one segment reader |
| `Serving`, `MCServing` | the caches of the serve listener under the memory governor |

Origins are independent of one another in the code: own clock, journal, holdings and
stripe (a stripe shared by two origins only adds waiting), so one stream is modelled in
`Possession` and in `Catchup`. The two look at the same stream at different grains:
`Possession` has many nodes, every store operation and fault, and applies suffixes and
snapshots chunk by chunk; it has no leases, so any number of loops may apply the origin at
once, which is more than the leases allow. `Catchup` has one node in full and peers that
are clocks following the origin. `Exporter` stops where `Possession` begins, with an
event published; `Lookup` stops where `Transfer` begins, with the sources of a
range; `Transfer` knows its peers by outcomes, of which `Serving` and `NarStream` are the
other side.

### Possession

| state | code |
|---|---|
| `store[n]` | clock, holdings, journal and watermarks of the origin in n's rocksdb |
| `disk[n]` | the part of `store[n]` whose log is synced: what a host crash leaves |
| `selfgen` | meta row `self_generation` at the origin |
| `pull[n][p]` | n's loop for p: phase of the round and what it carries |
| `plan[n]` | the floor `compact` computed before taking the stripe |
| `export` | the export that holds `self_write` |
| `image` | a disk image of the origin taken earlier |

| actions | code |
|---|---|
| `ExportBegin`, `ExportCommit`, `ExportBail` | `export_ops` and `retract_hold`: read the clock under `self_write`, then `apply_events` with the expect gate, synced; bail when the gate fails |
| `Ask`, `HandleSync`, `ReadSuffix`, `ReadSnapshot`, `PullFails` | a round: the requester's clock; the responder's clock read (with the watermark); its journal, or holdings, read later; a failure at any point |
| `CheckSuffix`, `CommitSuffix` | `apply_suffix`: connect to the clock, then the gated batch |
| `BeginReplace`, `ReplaceChunk`, `ReplaceTrim`, `FinishReplace` | `replace_holdings` under the stripe lock: stale test, one batch per hash, journal cut from below, clock last |
| `NoticeFuture`, `StampGeneration` | `check_self_regression` and `remint_generation`: meta row, then clock |
| `PlanCompaction`, `CompactJournal` | `compact`: the floor, and its application under the lock |
| `Crash`, `HostCrash`, `Flush`, `LoseReplica`, `LoseOrigin`, `TakeImage`, `RestoreImage` | what a process crash, a host crash, a wiped store (also one of an older layout) and a restored image do |

Choices. `HandleSync` merges the watermark write with the clock read of the same
request: they touch different state and nothing depends on their order. `ReadSuffix` may
end a suffix anywhere (the byte budget). A peer that skips an origin for want of
budget is a round that ended. Compaction may be planned at any moment, its pacing
being irrelevant to safety, one plan per node. A `Flush` may happen at any moment, and
unsynced writes are lost as a suffix of the log, which is rocksdb's contract.
A clock whose generation the wall clock mints is never below an earlier one: a wall
clock that steps back is a listed hazard outside the model. Peers removed from the
configuration (`retain_origins`) are not modelled.

Four variables are history and no guard of the program reads them: `log`, the rows of the
origin's present line of history; `vouched`, the generation whose numbering `log` is (0
after an image was restored, until the next mint: the program does not claim anything
about such a generation); `stamped` and `mint`, the greatest generation written to the
clock and minted, of which `mint` also stands for the wall clock.

`Mesh` instantiates `Replication`: a node that follows the vouched generation stands at
the seq of its clock with the set it holds, any other at the beginning with nothing;
`Rollback` and `Rebirth` say whether the instance has faults that roll stores back or
lose the origin. `ImplementsReplication` is `Mesh!Spec`: an export is one abstract
step, and snapshots, suffixes, chunks, relays and compaction are only ways to stand further
along in the one history, right about every hash without a later event.

### Catchup

| state | code |
|---|---|
| `clock`, `jour` | this node's clock for the origin, and the seqs it journaled since its last snapshot |
| `lease` | the origin's entry in `Sync::leases` |
| `round[p]` | the classic round of p's loop |
| `queue` | `engine_tx` |
| `plan`, `flights`, `engine` | `OriginPlan`, the asks spawned and not received, the position in the engine loop |
| `origin`, `peer` | the clocks of the mesh around the node |

| actions | code |
|---|---|
| `Claim`, `Answer`, `ApplyRound`, `Settle`, `RoundFails` | `claim_origins`, the exchange and its apply, `settle_leases` with the enrolment |
| `RecvEnrol`, `Tick`, `RecvEvents`, `RecvFailure` | the arms of the engine's `select!` with `enroll`, `complete`, `strike` |
| `Dispatch`, `Unpick`, `Filled` | `next_ask`, the pool's choice, `unpick` when there is no peer |
| `AnswerRange`, `RangeFails` | the range exchange |
| `Take`, `Commit`, `Drained` | `drain_applies`: a contiguous chunk, its gated apply, `finished` |
| `Export`, `Regenerate`, `Follow` | the origin and its copies at peers |

Choices. The classic apply is one step here, since `Possession` has its steps; the
engine's is two, because its cursor moves on whatever the gate says. `Settle` joins the
lease update, done under one lock, with the send that follows it. The number of asks
under way is the cardinality of `flights`. Peers' journals are a tail and a seq. Two
fields are history: `stale` marks an ask whose plan is gone, `stray` a plan that received
the answer to such an ask.

### Exporter

| state | code |
|---|---|
| `rows`, `nextId`, `version`, `changed` | `ValidPaths` with its ids, `data_version`, the inotify event |
| `held`, `facts` | what this node's own origin publishes |
| `seen`, `state`, `due`, `ex` | `last_data_version`, `diff_state`, the timer of full scans, the step of `own_db_loop` |
| `map`, `req`, `retract` | `nar_index`, requests by NAR hash, the spawned retraction |
| `hintSlot`, `hints`, `kick`, `pull` | the channels of one slot and the pulls at peers |
| `unseen`, `owed`, `knows` | history: hashes retracted and not scanned since; peers a hint is owed to; peers that have all |

| actions | code |
|---|---|
| `Register`, `Collect`, `Sign` | commits of Nix (external) |
| `Wake`, `Sample`, `Mark`, `Scan`, `Additions`, `Diff`, `WriteChunk`, `Finish`, `FailDiff` | `own_db_loop`, `export_own_db` with its gate, `sync_own_db` and its incremental form, `export_ops` chunk by chunk |
| `Ask`, `Probe`, `Confirm`, `ScanOnce`, `Swap`, `Reread`, `Answer` | `by_nar_hash`, one action per query, with the rebuild of its map, and what the listener does with the answer |
| `CheckHold`, `DropHold` | `retract_hold`: the look, then the drop |
| `FanOut`, `HandleHint`, `StartPull`, `KickedPull`, `TimedPull`, `Respond`, `Apply`, `FailPull` | `hint_loop`, `handle_hint`, `peer_loop` |

Choices. All queries go through one connection, so each is one step and what lies
between two is where the code can be wrong. The map is kept for one hash. A peer is
reduced to whether it has pulled everything published.

### Facts

A fact is an identity with a set of signatures; `Key` gives the place of a row in key
order, which changes with its signatures, as the hash in the row's key does. Aggregates
are the set of places folded in, so XOR is symmetric difference. `Teach` is a batch that
a suffix or the differ merges, `Merge` the read of a batch, its deduplication and its
moves; `FoldIn` the update of the aggregates in memory after the commit; `Exchange`,
`TakePage` and `Park` a round with its page and the persisted cursor, which
`restart_all_dumps` marks when a round brought a snapshot; `Sweep` to `FetchPage`
`reconcile_loop` and `reconcile_facts` with `RECONCILE_COARSE_MAX`, `_WHOLESALE`,
`_FETCH_MAX` and `_WINDOW`; `Crash` a host that keeps what was synced. `passed` is
history: the rows a cursor is past.

### Lookup, Governor, WeightSaver

`Lookup` runs one request through the reads of `get_narinfo` or `get_nar`, each a step:
the scan of index entries, the bodies one by one (`att_at`), the holders of each row, the
breaker of each holder, the answer. Between any two, facts merge, origins gain and lose
content, breakers open and close, a roaming epoch begins or ends (`MaxChanges` of
them). `feasible` with trust and content addressing, the tier rule of `sources_of`, the
refusals while roaming and `parse_range` with saturating arithmetic are operators. `steady`
and `past` record, for the properties, who could serve all along and what was so at some
moment.

`Governor` is `Governor::observe` in thousandths of a stream and the three critical
sections of `PeerLimit::observe` (`Close`, `Judge`, `Write`), for two completions that may
overtake each other. The link adds throughput up to a knee; outliers, failures, parked
and overlapping epochs and moves of the knee come as `MaxUpsets` disturbances.

`WeightSaver` counts weights as the observations that shaped them. `Wake` takes the snapshot,
`Written` or `NotWritten` ends the write, `Restart` reads back what is stored, or fails to.

### Retention and Transfer

`Retention` translates `plan()` as one fold over the occurrences. `Transfer` starts from a
job (range, whether it is the whole NAR, the layout a manifest claims and whether that is
the truth) and plans it as `manifest_plan` or `fallback_plan` does, merging ranges over
gaps.

| state | code |
|---|---|
| `plan`, `carve`, `requeue`, `gate` | spans and ranges, the carving cursor, chunks to fetch again, `retry_gate` |
| `emitter`, `buffered`, `held`, `bad` | `Emitter`: position, chunks, retained copies; which units are wrong |
| `inflight`, `work` | `Flight`s and the workers that fetch or wait to be heard |
| `slots`, `others`, `parked`, `woken` | `PeerLimit`, also in use by other transfers, and the `Notify` on it |
| `health`, `streak` | breakers, `failure_streak` |
| `pc`, `outcome` | the position in the loop of `run_transfer` and how it ended |

| actions | code |
|---|---|
| `Pump...` | `Emitter::pump`: literals, replays, plain and retained spans, the hash check of `emit`, running dry |
| `Launch`, `Starve`, `LaunchEnds` | the launch loop: window, requeue, fragments, hedge, permits; peers busy or open |
| `Settle`, `GateExpires`, `Timer`, `WakeStarved` | registering with `Notify`, and the arms of the wait |
| `Finish` | a worker's fetch: right, wrong, with a strike or without, in time or not |
| `HearChunk`, `HearTwin`, `HearFailure`, `HearLastStraw` | the join of a worker: deliver, drop the twin's bytes, requeue, give up |
| `Stall`, `Forfeit` | the stall deadline, and the aborts for a plan that cannot be emitted |
| `OtherTakes`, `OtherReleases`, `CooldownElapses` | other transfers, and the clock of a breaker |

Bytes are units and hold only whether they are right; chunk sizes are any of `Chunks`, and a
deadline is a failure at any moment.

### NarLayout, NarStream and Serving

`NarLayout` has the seek table (`Builder::node`, open literal and all), its slices and
pieces, the manifest tree and `synth_layout`, and the NAR format as a reference. A token is
one unit, a unit of a file is its file and index.

`NarStream` runs several responses: `Begin` with the permits of its form, `TakeRaw`,
`TakeEncoded`, `TakeSmall` in piece order from `READ_AHEAD` read tasks, `FailPiece`, the
encoder thread (`Encode`, `Flush`, `FinishFrame`, `TellError`, `Abandon`), a client that
reads or leaves; below them `Ask`, `Wake`, `HearBell`, `StartOp`, `Rearm`, `CompleteOp` and
`FallBack` are `UringPool::read`, `ring_loop` and the blocking pool. A compressed frame is
the units it decodes to and whether it was finished.

`Serving` has one action per critical section of `nar_entry`, `seek_table`, `account`,
`get_manifest` and `spawn_manifest_build`, and `Govern` is `spawn_governor` with
`next_budget`. An entry is named by the request that made it, so two entries of one hash
differ. `Change` collects and re-registers paths under the caches; `Leave` drops a request
wherever it awaits.

## Hazards and properties

Every property was chosen against a hazard of `PROJECT.json`. Each module states a type
invariant `TypeOK`; outside `Possession` it is a conjunct of one of the invariants the
run checks.

`Possession`: `HeadIsExact` (equal clocks, equal sets), `ReplicasFaithful` (no replica on
a generation the origin vouches for has a journal row the origin did not export, nor a
holding that later events will not correct), `SeqsNeverReissued` (within a generation
history only grows), `ImplementsReplication`, `Converges` (once exports and faults are spent
every node ends with the origin's clock and set).

`Catchup`: `Covered` (every seq owed is queued, in flight, buffered, being applied or not
yet asked for), `NoHoles` (journals are contiguous), `NeverBack` (clocks only advance),
`LeaseHasOwner` (the engine's unexpiring lease has a plan or an enrolment behind it),
`Released` (the engine gives the origin back), `AlwaysReleased` (the same without
exception: violated).

`Exporter`: `ExportedWhenQuiet` (no commit falls between two queries and is overlooked),
`HintsAreHonoured` (a hint leads to an answer that covers it), `Converges` (published,
claimed and pulled in the end, with retractions that were wrong undone).

`Facts`: `RootIsTheTable` (tree and rows agree), `CursorIsBehindFacts` (no page is lost to a
crash), `Converges` (who pulls ends with all the facts of its source).

`Lookup`: `MissIsHonest` (a peer that could serve all along means no miss),
`SourcesAreRight` (sources were there, and of the lowest tier that could), `RangeIsWhatWasAsked`.
`Governor`: `KneeIsReached` again and again. `WeightSaver`: `LearningIsStored` in the end, and
never unlearned.

`Transfer`: `EachUnitInOnePlace` (uncarved, requeued, in one flight or buffered, exactly
once), `FlightsAreManned`, `SlotsAreHeldByWorkers`, `NoReleaseIsMissed`, `MemoryIsBounded`,
`ReplaysFindCopies`, `CompletedIsCorrect`, `Ends`.

`NarStream`: `LayoutsAgree` (both walks spell the NAR), `ServedIsTheRange` (a prefix of the
range, all of it when the response ends well), `EveryReadIsSomewhere` (once, in inbox, slab or
pool), `EveryResponseEnds`.

`Serving`: `HeldIsCounted`, `BusyCellsHaveABuilder`, `BudgetIsHonoured`,
`EveryRequestIsAnswered`.

## Runs

| run | instance | checks | what it shows | states |
|---|---|---|---|---|
| `possession_chain` | origin, relay, replica in a line; 2 hashes, 2 events, 2 exchanges at once, backstop 1, fair | `TypeOK`, `HeadIsExact`, `Converges`, `ImplementsReplication` | relaying, snapshots, suffixes and compaction in every order follow the abstract history and converge | 135k |
| `possession_faults` | origin and replica; 1 hash, 2 events, host crashes and lost origin stores, 2 faults, fair | `SeqsNeverReissued`, `Converges`, `ImplementsReplication` | the same through crashes and remints | 344k |
| `possession_restore` | origin and replica that pull from each other; restored images, process crashes, lost replicas, 2 faults, 3 mints | `ReplicasFaithful` | no replica is wrong about a generation that is vouched for | 1.2M |
| `catchup` | 1 peer, 2 generations, backlog 4, chunks and window of 2, 2 strikes, retention of 3 events, 1 failure and any number of unreachable ranges, fair | `LeaseHasOwner`, `NoHoles`, `Covered`, `NeverBack`, `Released` | plans end, nothing is dropped | 550k |
| `catchup_stale_answer` | the same with a second regeneration allowed | `AlwaysReleased` is violated | see Findings |  |
| `transfer_plans` | 2 peers; every layout of 2 and 3 spans that begins with a segment, some of 4 that repeat, one past the window, dishonest ones, ranges without a manifest; window 2, budget 3; a lie or a strike, fair | `MemoryIsBounded`, `ReplaysFindCopies`, `CompletedIsCorrect`, `Ends` | plan, retention and emission fit together | 400k |
| `transfer_races` | a segment kept beyond another; chunks of 1 and 3, 1 stream per peer, any 2 of seven faults | `EachUnitInOnePlace`, `FlightsAreManned`, `SlotsAreHeldByWorkers`, `NoReleaseIsMissed` | hedges, deadlines, aborts and other transfers leave the books in order | 1.3M |
| `streams` | 2 responses in five combinations of plain, encoded and small; reads of 3 units, alignment 2, read-ahead 2, every channel of 1; 2 of five faults; every leaf and some trees laid out, fair | `LayoutsAgree`, `ServedIsTheRange`, `EveryReadIsSomewhere`, `EveryResponseEnds` | the right bytes or none, and an end | 461k |
| `serving` | 3 requests, for one NAR twice, for three NARs, for one manifest twice; tables of 6, 2 and 3 against 8, 2 entries, 1 builder, 1 step of the governor, 1 fault, fair | `HeldIsCounted`, `BusyCellsHaveABuilder`, `BudgetIsHonoured`, `EveryRequestIsAnswered` | shared builds, counts and evictions | 473k |
| `exporter` | 2 paths, 2 hashes, chunks of 1, 1 request or 1 peer, 2 commits, 1 fault, fair | `ExportedWhenQuiet`, `HintsAreHonoured`, `Converges` | the set follows the database | 1.2M |
| `facts` | 2 nodes, one pulls from the other; 2 facts of 2 signatures, pages of 1, 2 of 3 coarse buckets, a batch that repeats a fact, a snapshot, a fault, fair | `RootIsTheTable`, `CursorIsBehindFacts`, `Converges` | dumps may miss, reconciliation repairs | 33k |
| `proxy` | 3 facts on 2 paths and 2 hashes, 2 peers of 2 tiers, 2 changes, 13 Range headers; limits up to 6, knees 1, 4, 6, 2 disturbances; 3 observations, 2 restarts, 1 failed write, fair | `MissIsHonest`, `SourcesAreRight`, `RangeIsWhatWasAsked`, `KneeIsReached`, `LearningIsStored` | the proxy's own state | 549k |

Bounds. Two events on two hashes suffice for a have and a drop of the same hash, for a
hash that an in-between snapshot shows too early, and for a suffix with a gap; a relay
needs three nodes; a remint during a replace needs two generations, a restore three.
Two loops that apply to one replica, and three-node meshes with faults, are beyond TLC in
reasonable time; the proofs cover them.

In `Catchup` the constants 4096 (chunk), 6 (window), 3 (strikes) and 50 000 (backstop) are
scaled to 2, 2, 2 and 3 events: what matters is that an interval splits into several
asks, that two asks are in flight, and that the last strike and the end of the retention
window can be reached. Backlog 4 leaves two asks after the round that hands the origin over.

In `Transfer` a window of 2 or 3 units holds more than one chunk and less than a layout, one
stream per peer makes every launch contend, one or two strikes open a breaker. Budget 3
keeps one of two repeated segments of length 2 and not both. In `NarStream` channels of one
item and one encoder make every hand-over wait, and alignment 2 against odd
offsets makes windows larger than what they are read for. In `Serving` two of the three
tables fit. `Most` = 6 and `PROBE_EPOCHS` = 5 let the climb turn at each knee. The
`Max...` constants bound what the code does not: faults, commits, changes, disturbances.

Deadlock is checked but where a behaviour ends: transfers, responses, requests and the
look-up of `MCProxy` finish, and nothing follows (`CHECK_DEADLOCK FALSE` in `transfer_*`,
`streams`, `serving`, `proxy`; there `Ends`, `EveryResponseEnds` and
`EveryRequestIsAnswered` say that they end well before).

## Fairness

`Possession`: each loop asks again when its timer fires and applies what it received (weak
fairness of applying and of the remint). Asking, answering and reading have strong
fairness: a round may fail, but a peer that is asked for ever answers now and then, and
`MaxInflight` couples loops that are independent in the program. Nothing is owed by
exporter, compaction or faults.

`Catchup`: loops run; an exchange ends, by its timeout if nothing else; the engine loop runs
its steps (weak). Receiving an enrolment and receiving an answer have strong fairness because
`tokio::select!` picks among ready branches at random, so a branch that is ready again
and again is taken.

`Exporter`: the own-db loop runs, and a peer pulls on a kick or on its timer (weak). `Facts`:
commits are folded in, rounds and the reconcile loop, which a timer wakes, run (weak).
`Serving`: tasks that can run do (weak, of all requests and all builds). `NarStream`:
responses, encoder threads, clients that stay, read tasks, the ring and the pool run (weak).
`Transfer`: the loop of `run_transfer` runs and its timers fire (weak); launching, joins of
workers and the wake-up have strong fairness, since `select!` chooses among them; a worker
ends by its deadline, other transfers release what they took, cooldowns elapse (weak).
`MCProxy`: epochs end, a completion takes its next lock, the minute of the weight saver
passes, a save ends (weak).

## Proofs

Seven modules of proofs and one of lemmas (`Folding`) sit beside the modules they are
about; every theorem holds for all values of the constants that the named assumptions
admit, and none uses a bound of a run.

| theorem | states | for every |
|---|---|---|
| `PossessionProofs!TypeCorrect` | `Spec => []TypeOK` | mesh, set of hashes, backstop, choice of faults |
| `PossessionProofs!Faithfulness` | `Spec => []ReplicasFaithful` | same |
| `PossessionProofs!HeadExact` | `Spec => []HeadIsExact` | same |
| `PossessionProofs!NoReissue` | `Spec => SeqsNeverReissued` | same, if no image is restored |
| `PossessionProofs!Refines` | `Spec => ImplementsReplication` | same, all faults |
| `CatchupProofs!NothingIsDropped` | `Spec => []Covered` | peers, backlog, window, chunk, strikes, retention |
| `CatchupProofs!JournalHasNoHoles` | `Spec => []NoHoles` | same |
| `CatchupProofs!CopyNeverGoesBack` | `Spec => NeverBack` | same |
| `CatchupProofs!EngineLeaseHasOwner` | `Spec => []LeaseHasOwner` | same |
| `ExporterProofs!NothingIsOverlooked` | `Spec => []ExportedWhenQuiet` | paths, hashes, signatures, peers, chunk, commits, faults |
| `ExporterProofs!HintsAreKept` | `Spec => []HintsAreHonoured` | same |
| `FactsProofs!TreeIsTheTable` | `Spec => []RootIsTheTable` | nodes, links, facts, signatures, key order, batches, limits |
| `FactsProofs!CursorNeverAhead` | `Spec => []CursorIsBehindFacts` | same |
| `ServingProofs!NobodyWaitsInVain` | `Spec => []BusyCellsHaveABuilder` | requests, sizes, cache limits, floor, faults |
| `ServingProofs!NothingHeldUncounted` | `Spec => []HeldIsCounted` | same |
| `ServingProofs!EvictionHonoursTheBudget` | `Spec => BudgetIsHonoured` | same |
| `LookupProofs!NoCopyIsOverlooked` | `Spec => []MissIsHonest` | facts, peers, tiers, keys, sizes, threshold |
| `LookupProofs!SourcesAreSound` | `Spec => []SourcesAreRight` | same |
| `LookupProofs!RangesAreHonoured` | `Spec => []RangeIsWhatWasAsked` | sizes and headers up to any `MaxU64` |
| `TransferProofs!EachUnitIsOnce` | `Spec => []EachUnitInOnePlace` | layouts, ranges, peers, chunk sizes, window, limits, faults |
| `TransferProofs!NoFlightIsAbandoned` | `Spec => []FlightsAreManned` | same |
| `TransferProofs!SlotsAreGivenBack` | `Spec => []SlotsAreHeldByWorkers` | same |
| `TransferProofs!NoReleaseIsSleptThrough` | `Spec => []NoReleaseIsMissed` | same |
| `TransferProofs!CompletionIsCorrect` | `Spec => []CompletedIsCorrect` | same |
| `TransferProofs!MemoryStaysBounded` | `Spec => []MemoryIsBounded` | same, and every budget |
| `TransferProofs!ReplaysSucceed` | `Spec => []ReplaysFindCopies` | same |
| `TransferProofs!RetentionKeeps` | the steps of a retention plan balance: a replay is due for it, what is kept fits the budget after every step, nothing is left at the end | sequences of segments, budgets |

### Assumptions

Each module declares what it assumes of its constants under a name, and TLC evaluates
it on the runs. Beyond ranges and bounds:

- `Possession`: the origin is a node, links are between configured peers. `Node` and `Hash`
  need not be finite.
- `PeerAssumption` (`Catchup`): no peer is called `"engine"` or `"none"`, the two other
  values of a lease; in the code they are an enum variant and an absent entry.
- `FactsAssumption`: no two rows, that is facts with a set of signatures, share a place in
  key order (the key is a hash of the row), and a batch is a sequence of facts with
  signatures, which may be empty and may repeat.
- `LookupAssumption`: facts and peers are finite; this node is not its own peer.
- `TransferAssumption`: a layout is a sequence of spans of positive length, as a manifest
  with an empty segment is refused and an empty literal is not added; it ends where the
  NAR ends, which `manifest_plan` checks against `NarSize`; its range is the whole NAR. Chunk
  sizes are finite in number: they are clamped between two constants (`fetch.rs:407`).

### The arguments

**Possession.** `ReplicasFaithful` is not inductive: it says nothing of what is under way
or on disk. `IInv` adds, in order:

- `OriginInv`: the origin's own store and its disk carry the complete history `log`,
  one row per seq, with `held = Live(log)`. Exports are synced, so a host crash takes
  at most compaction and watermarks from them.
- `VouchInv`: the vouched generation is the greatest ever stamped, so no clock is ahead
  of it: a store of another generation carries no claim.
- `ImageInv`: an image is a complete history of its own.
- `ReplicaInv`: stores *and* disks of all nodes are faithful.
- `PullInv`: what a loop carries is faithful for its phase. A snapshot is `Settled`: exact
  on every hash without an event after the seq it is labelled with. A suffix is part of
  the log.
- `LockInv`: one replace at a time per node (the stripe).

`Settled` is the key. It is what a torn read gives (`SettledEarlier`: a set read later is
settled at an earlier label), what a partly replaced set keeps (`SettledMixture`: a
mixture of two sets settled at a seq is settled there), and what a suffix preserves
(`SettledSuffix`); at the head it is equality, which is `HeadExact`. The steps follow the
disjuncts of `Next`, with lemmas that frame the pulls a step leaves alone.

**Refinement.** `PossessionProofs` also maps the steps under the same `IInv`: initial states to
initial states, an export to an abstract event, the completion of a snapshot or suffix to a
node that stands further along, a fault to a rollback or a rebirth, everything else to a
stutter. A chunk of a snapshot changes a set before the clock: it shows nothing where the
node does not follow the vouched generation, and else it is a step that stays at its
position, with a mixture that is right up to there. Where no fault can make the origin lose
its past, the abstract instance has no `Rebirth` either, and `SteadyInv` shows that the
origin never leaves its first generation: nothing it hears of its own stream is news.

**Catchup.** That nothing is dropped is a fact about overlap. `TidyInv` says that what a plan
handed out and has not applied (retries, flights that are not stale, the reorder buffer)
is pairwise disjoint and below `next`; without it an answer could push a longer one out of the
buffer, which is what `AlwaysReleased` runs into, so a plan that took a late answer
(`stray`) is exempt from both. `AnswerInv` types what an answer can be for its ask,
`PlanInv` bounds `next` and marks asks of dead plans stale, `EngineInv` ties a commit to the
verdict it was checked against; the gate does the rest, so that `NoHoles` and `NeverBack`
hold even of stray plans. `FreeNumber` shows that a flight below the window has a number.

**Exporter.** What the differ owes the database at rest is a fact about watermarks. `Settled`
says that every row up to the watermark of the last diff is published, or was retracted by a
request since; `Latest` that no row is past that watermark while the version seen is the
current one, and the same for the watermark and version of a diff under way. It holds because
the version is sampled before the watermark is read, and the watermark before the rows: a
commit in between moves the version, so that another diff follows, and its rows are past
the watermark unless the scan has them.
`Reading` and `Writing` carry the rows a diff is responsible for (`Mine`: all up to its
watermark for a full one, those past the last watermark for an incremental one) from what was
read into what is still to be written, also across a retraction between two chunks; `Forms`
says which kind of diff stands where. `Honoured`, the invariant behind `HintsAreHonoured`,
keeps a hint owed only while a kick waits or a pull is unanswered.

**Facts.** `RootIsTheTable` is inductive once the rows are typed: a merge adds to the
places not yet folded in exactly the symmetric difference of the rows before and after it,
whatever the batch repeats, and symmetric difference is associative.
`CursorIsBehindFacts` needs that a page in hand was read past the cursor it will replace
(`PageMoves`), that what is about to be parked is in the table (`Parked`), that the log never
holds more than the table (`Synced`), and `Behind`, its own form for every row passed.

**Serving.** The bytes counted are a fold over the resident entries whose tables are set.
`Seen` bounds it from above by `table_bytes`, `Fresh` says that nobody uses the entry of a
request that has not inserted it, and `EvictionHonoursTheBudget` follows the loop of
`evict_to_budget` as a fold that stops within the budget or at one entry.

**Lookup.** `Remembered` says that whatever a row in hand claims of its holders was so at some
moment of the request, which is what `SourcesAreRight` promises; `Followed` that a copy
which could serve all along is among what is still to be read or among the rows, with its
peer, which is what an honest miss needs.

**Transfer.** The plan comes first: `PlanFits` shows that every plan, of a manifest or not,
tiles the job with spans and covers each span to fetch by one of the ascending ranges, by
induction along the fold `Laid` over the layout. On it `Tidy` and `Placed` say that chunks in
flight and in the requeue are disjoint and behind the carving cursor, that what they still
owe is not buffered, and that every unit to fetch is somewhere; together they are
`EachUnitInOnePlace`. `Inside` ties the emitter to its span, `Attempts` identifies a
worker by offset and peer (so that a slot can be counted), `Sleeping` is
`NoReleaseIsMissed` from the moment the waiter is registered. `Carving` and `Emitting` type
the two cursors.

The memory bound and the replays rest on the planner. `RetentionKeeps` follows `plan()` along
its fold: `Turns` says what each visited occurrence does to the ledger of copies kept and
bytes they take (kept for a later use, replayed and kept on, replayed for the last time, or left
alone), and `Sound` that a copy kept is due at its next occurrence and no other. `PlanKeeps`
carries the ledger from the steps of the planner to the spans of the plan, whose literals
between the segments change nothing, as `Keeping`. `Replaying` is then inductive: what the
emitter holds *is* the ledger at its span (the replays each copy is due for, and the bytes
of those due for any), so a span that replays finds its copy and the bytes held never
exceed `Budget`. `Buffering` bounds the rest: a flight begins inside the window, so no unit
buffered is further than `Window` and the largest chunk from the emitter.

**Folding** has what the proofs need of the community folds: that the recursive function
under a fold exists and solves its equations (`FoldExists`), induction as closure of a set of
indices (`Induct`, `InductOnSubsets`), the largest and least member, and totals over finite
sets (`TotalsAreNat`, `TotalWithout`, `TotalAdds`).

### Only model-checked

- Liveness under fairness and `ENABLED`: `Converges` of `Possession`, `Exporter` and
  `Facts`, `Released`, `Ends`, `EveryRequestIsAnswered`, `EveryResponseEnds`,
  `KneeIsReached`, `LearningIsStored`.
- `LayoutsAgree`, `ServedIsTheRange`, `EveryReadIsSomewhere`: `NarLayout`, and `NarStream` above
  it, use recursive operators over trees, which the prover does not take.
- The three modules of `MCProxy` run interleaved there; the proofs are about `Lookup` alone.

## Findings

**A late answer keeps a plan open** (`catchup_stale_answer`). `complete()` and `strike()` find
the plan by the origin's name (`sync.rs:238-265`). An answer to an ask of a cancelled plan
is filed in the next plan of that origin, past its target or over a longer range
that starts at the same seq (`sync.rs:249`); `next` is past the rest, `finished()` stays
false, and the engine keeps its lease until the head leaves the retention window, though
`sync.rs:425-426` says that the engine removes its leases "itself on completion or abort".

Observed while modelling, without a run of their own.

Possession and catch-up:
- A restored origin that re-exports as many events as it forgot before a peer
  reports them is not found out: `sync.rs:622` asks for a strictly greater clock, where
  `PLAN.md:511-515` promises detection on the next pull.
- A watermark survives its generation: `store/rocks.rs:960` keeps one seq per peer and
  origin, upwards only; `index.rs:287-288` says that a stale one must not unblock
  compaction. The peer then needs a snapshot; nothing is lost.
- Rows of an old generation, in an answer filed late, are journaled under the new
  (`sync.rs:238`, against `store/rocks.rs:22-23`).
- An enrolment queued while the engine gives the origin back starts a plan without a lease
  (`sync.rs:922`, against `sync.rs:121-123`). The expect gate keeps the result
  correct (`NeverBack`, `NoHoles`); bytes travel twice.
- A compaction between the clock and the journal read of one response makes a suffix
  with a gap, which `sync.rs:659-660` holds impossible and the next round repairs.
- A floor computed by `compact` before a snapshot of a new generation is applied after it,
  leaving `tail_seq` beyond `seq`; the node then answers with snapshots. Both are in the model.
- `PLAN.md:516-519` says that a changed trust anchor zeroes peer clocks; the code checks
  feasibility at use (`index.rs:252-262`).

Facts and export:
- `restart_all_dumps` marks cursors that a response under way then overwrites, and a row that
  moves behind a frontier is not sent: only reconciliation repairs both (`Converges` of
  `facts` rests on it).
- `RECONCILE_COARSE_MAX` keeps the first differing buckets (`sync.rs:1064`). Where those differ
  because the *peer* lacks facts and does not pull, later ones are never reached, against the
  comment at `sync.rs:1025`.
- `by_nar_hash` may answer "gone" for a hash that is held, when Nix replaces the path
  between its queries (against `db.rs:68-69`). The retraction that follows is undone by the
  next full scan, which a quiet database gets only on its timer.
- `retract_hold` writes the stream beside the differ; two retractions may both pass their look
  and journal the drop twice.
- The references of a row are read after its scan (`index.rs:754`), when it may be gone.
- A failed incremental diff is tried again at the next event or full scan.

Serving and proxy:
- An entry in the cache answers without the database after its path was collected
  (`serve.rs:630`), until a read fails.
- A failed manifest build is cached as unmanifestable whatever the failure (`serve.rs:366`), and
  cache and `building` are looked at under separate locks, so a second build may start.
- Table bytes counted for an entry that is evicted before its cell is set stay counted
  (`serve.rs:145-147`): `HeldIsCounted` is one-sided.
- An aborted stream task releases its io permit while its ring operation is in flight.
- Index entries and bodies are read apart (`store/rocks.rs:589`), so a fact merged in between
  gives a transient 404.
- While roaming, a best row that is too big is refused though a smaller copy could be served.
- Two epochs closed at once may write their limits in the wrong order; the next repairs it.
- A failed save is not tried again before there is news (`proxy.rs:92`), and `main` does not
  wait for the saver, so "once at shutdown" (`proxy.rs:66-69`) is not assured.

## Plan

Every invariant the runs check has its theorem now but the three of `NarStream`. What is left:

1. `NarStream` with the layout as a parameter in place of `EXTENDS NarLayout`: nothing of
   `EveryReadIsSomewhere` or of the pipeline behind `ServedIsTheRange` needs to know how
   the pieces were computed, so both come into reach; `LayoutsAgree` stays with TLC.
2. `Governor`: the limit stays within 1 and `Most`, for every `Most`.
3. A model of the postgres backend, if its isolation levels are ever in question.

## Not modelled

The HTTP and SQL layers, parsing, encodings and signatures (I/O and pure conversions with
unit tests), configuration and status (straight-line). The postgres backend: each of its
operations is one transaction, so its steps are coarser than those of the rocksdb backend
modelled here; what is its own, row locks and serialization failures, would need a model of
postgres. The numeric part of the host pool (multiplicative weights and a weighted draw on
real numbers): every draw is any choice. In the components that are modelled:
`retain_origins` after a configuration change, a wall clock that steps back, `MAX_ROUNDS`,
a window shared by several origins, references and derivers of facts, chunk size and
deadline arithmetic, the zstd level controller, the decay of stored weights, fetching the
manifest itself, the assembly of narinfo texts.
