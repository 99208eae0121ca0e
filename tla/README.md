# Formal models of elide

TLA+ models of [elide](../src), a log-structured block store: a volume process
turns guest writes into segments, a coordinator uploads them to an object store,
and another host can take a volume over from there. `tlc -config X.cfg M` checks a
run of `PROJECT.json`, `tlapm M.tla` the proofs of a module.

## 1. The system

| Part | Code | State | Operations | Model |
|---|---|---|---|---|
| WAL sync gate | `elide-core/src/sync_gate.rs` | completed and running generation, outcome, sleepers | `sync_through` | `SyncGate`, `SyncService` |
| Writable volume | `volume/mod.rs`, `volume/wal.rs`, `map_layers.rs` | WALs, segments, layered maps, promote jobs | write, zero, flush, rotate, promote, apply, unlink, open, recover | `Volume` |
| Volume actor | `actor.rs` | channels to the worker, stashed promotes, parked replies, GC batch | requests, results, idle tick, shutdown | `Pipeline` |
| Range maps | `lbamap.rs`, `extentindex.rs`, `map_layers.rs` | runs of blocks, owners of bodies, layers | insert, fill gaps, re-key, register, rebuild | `LbaMap`, `MapLayers` |
| Segment rewrites | `volume/repack.rs`, `rewrite_plan.rs`, `rewrite_apply.rs`, `gc.rs` | tiers of segments, plans | close pass, GC pass, apply, finalize, restart | `Rewrite` |
| Coordinator tick | `gc_cycle.rs`, `upload.rs`, `segment_head.rs` | pending directories, index, bucket, HEAD, scratch, barrier | tick, drain, publish, reap, close, seal, stop, start | `DurableCut` |
| Name records | `lifecycle.rs`, `name_store.rs` | `names/<name>` and requests under way | the `mark_*` operations | `NameRecord`, `Names`, `Ownership` |
| Takeover | `claim.rs`, `force_claim.rs`, `rehome.rs`, `supervisor.rs`, `inbound/` | forks, markers, record, jobs | create, stop, start, release, claim, `claim --force`, fence, rehome, discovery | `Takeover` |
| Read path, WAL bytes, ULID mint, imports, ancestor sweep, peer fetch, credentials, block device, CLI, codecs | | | | not modelled (section 6) |

Guest threads call `VolumeClient`; a FLUSH or FUA enters the gate, whose leader
takes the WAL handles under the volume mutex and syncs them outside it. The actor
rotates the WAL into a promote job; the worker writes the segment; the actor
applies the result and unlinks the WAL. The coordinator calls the volume
(`promote_wal`, `reap`, `gc_checkpoint`, `apply_gc_handoffs`, `promote`,
`finalize`, `close_generation`, `sign_snapshot`) and the store (PUT, GET, DELETE);
any call may fail, or have happened although it reports failure. Coordinators on
different hosts meet only in the bucket, at the name's record.

What is hard: a flush between rotation and promote; promotes that fail and are
retried behind later ones; power loss with unsynced directory entries; a crash
during recovery; a full channel in which the actor handles a result inside a
dispatch; a rewrite classified against one view of the maps and applied to a later
one; a HEAD lost, unread or half published; deletes that precede the HEAD that says
so; a displaced owner that does not know it yet. `PROJECT.json` lists these as
hazards at their lines, with the properties that cover each.

## 2. Modules

`SyncService` is what a FLUSH promises: ok only for writes a sync covered.
`SyncGate` models `sync_through` one mutex section per action. `gen` is the write
generation, `completed`, `running` and `failure` are `GateState`; a thread's `pc` is
its place. The round's sync is two actions, `TakeHandles` and `EndRound`, because
the handles are taken after the gate's mutex is released. The refinement mapping
keeps `gen`, `synced` and the calls.

`Volume` numbers records in append order, so a file is a set of numbers. `Write`
and `WriteZeroes` append to the open WAL, creating it when absent, and stage the
claim in `delta`; `DispatchPromote` rotates (`delta` to `frozen`, job to the
worker) or resends a stashed job; `ExecutePromote` writes and renames the segment;
`ApplyPromote` folds the layer into `base` and `index`; `RemoveWal` unlinks.
`TakeHandles` and `SyncFiles` are a sync round. `Crash` loses memory; `PowerLoss`
also keeps any subset of unsynced records and unlinked names (`Keep`).
`OpenRebuild`, `RecoverPromote` and `RecoverLatest` are `Volume::open`, with a crash
point after each recovered WAL. Extents are one block and contents are model values
compared by hash; journal tier, delta and inline encodings are left out.

`Pipeline` is the actor's thread and its worker. `stack` is what the handler under
way still has to do, so that `send_worker_job` on a full queue can take a result and
handle it in place, and that handler dispatch again. `pipe` is `PromotePipeline`
(promotes in flight, stashed ones, parked replies), `ops` is `ParkedOps` (the parked
checkpoint, the batch of plans with the one held back, the single-reply slots).
`promote_gen` and `completed_gen` are only compared, so their difference is kept. A WAL
epoch's number is reused once its file is gone. Left out: a worker that dies, a promote whose apply
fails, the exit on a diverged plan, the reap (answers in place).

`LbaMap` and `MapLayers` are the range maps as operators: disjoint runs with an offset
into their content, the claimant of each run and the count of claims; gap filling
under the blocking rules; layers; registration; the rebuild from segments; the
classification of entries. `Rewrite` drives them: writes of several blocks, promotes,
close passes (list and classify, fold, swap, unlink), collections (checkpoint, pass,
handoff, apply with its refusals, finalize) and restarts. Left out: the journal
bucket, bin-packing thresholds, deltas, reclaim, more than one plan at a time.

`DurableCut` numbers guest writes, so a version of a block is the write that made it
and a segment is a set of writes with the inputs its signed table names. One action
per step of `run_tick`, in its order, each with a failing twin. `scratch`, `barrier`,
`reconcile` and `cache` are the orchestrator's memory, which `Restart` clears.
`BeginSeal` and what follows run in the tick's place: sign a manifest, upload it,
truncate HEAD to an empty body anchored there. `StartVolume` may come while that seal is
still uploading; the ready signal of the new daemon (`NotifyReady`) removes the stop
manifest. A reply may be lost after the volume has done its part: `DrainFails` with the
segment already in the index, `HandoffUnheard` with the output already promoted. Each
manifest upload and each bump of LATEST may fail by itself (`UploadManifests(F, L)`).
`Recovered` is what `force_claim` would materialise. Left out: eviction, the
second reaper over the bucket listing; one GC bucket per pass; the volume itself does
not crash here (that is `Volume`).

`NameRecord` is the record and the guard and effect of each `mark_*` operation.
`Names` runs them as a read with its checks and a later conditional PUT, or an
unconditional DELETE, by any number of coordinators at once; a request that is never
written stands for a lost race, an unreachable store and a coordinator that died. A
completion of an import that is reported failed may still land, also after the clear that
follows it has read the record. `OneEpisode` is an assumption on the callers of a rehome,
which `rehome.rs:126` relies on ("a retry walks the identical sequence and reaches its own
record first"): the rehomes of one fork start from one lost name.
`Ownership` is what the records promise: a name that changes hands is bound to a fork
no name is or was bound to. `Takeover` takes each `mark_*` as one step (the force-claim
alone keeps what it observed) and models what happens around it: the fork's
directory, markers, supervisor and task, sealing, the claim's copies, the fence and
rehome of the displaced fork, restarts. Guest data is a set of tokens there. A stop is
drain, park, halt, seal and mark (`Stop` to `StopMark`), under the snapshot lock up to its
seal; the guest writes until the halt, and what the halt flushes stays pending, outside the
seal. A second stop of a parked fork seals again (`StopAgain`). After a start the daemon's
ready signal (`Ready`) deletes the stop manifests; what only they listed is no longer owed to
anyone (`owed`), so the takeover properties do not count that loss. A tick looks at the record when
something is pending (`TickPass`, in which a record that cannot be read does not fence),
uploads (`TickDrain`) or skips for the lock or a missing daemon (`TickSkip`); a tick with
nothing pending need not look, uploads nothing, but lists what others confirmed
(`TickUnchecked`).

The `MC` modules give the constants and symmetry sets. The proofs are in
`SyncGateProofs`, `NamesProofs` and `DurableCutProofs`; for the volume `VolumeProofs`
(types, durability of flushes, files and promote pipeline), `VolumeMaps` (claims) and
`VolumeOwners` (owners of contents); for the actor `PipelineProofs` (the invariant, its
lemmas, requests and dispatches) and `PipelineTheorems` (what the worker answers, and the
results).

## 3. Runs

| Run | Instance | Shows |
|---|---|---|
| `sync_gate` | 3 threads, 3 generations | an ok is durable, at most two sleeps, refinement of `SyncService`, every call returns |
| `volume` | 2 blocks, 2 contents, 3 writes, 2 crashes, no I/O failure | flushed writes survive, reads give the last surviving write, bodies resolve, maps equal a rebuild |
| `volume_live` | 1 block, 2 writes, 2 failed promotes, 1 failed unlink, 1 crash | every rotated WAL drains |
| `pipeline` | a tick and a snapshot as callers, 2 epochs, 1 slot per channel, 2 plans | no WAL and no caller is lost, checkpoints and plans in the promised order, calls and the shutdown end |
| `rewrite` | 3 blocks, 4 extents, 3 writes, promotes, close passes, a collection, a restart | reads and rebuilds give the last write, maps agree with the segments, a due plan is current |
| `durable_cut` | 2 blocks; 3 writes, 2 failures, 1 restart, 1 stop; or 2 writes, 1 failure, 1 restart, a stop, a start and a late upload | while HEAD's anchor holds, what it yields is a prefix of the writes and never regresses |
| `durable_cut_gc` | five budgets of 2 or 3 writes with passes, reaps, failures, restarts, stops, snapshots | what a takeover needs exists, rebuild and settled recovery are exact |
| `durable_cut_live` | 2 writes, 1 pass, 1 close pass, 1 open reap, 1 failure, 1 restart | every write becomes recoverable |
| `names` | 2 coordinators, 2 names, 3 forks, 2 requests under way | a failed import clears only its own record, as it was or completed late; refinement of `Ownership` |
| `takeover` | 2 hosts, 3 forks, 1 write, 2 verbs a host, 1 fault | a served fork is complete, a claimed one durable, and every segment of the cut is found |
| `takeover_live` | 2 hosts, 2 forks, 2 writes, 3 verbs a host and 4 in all, 1 fault | a displaced fork is rehomed or parked; the cut shrinks only where a stop manifest is deleted |
| `rewrite_close` | as `rewrite`, with a promote not yet applied | violation, section 5 |

Why the bounds are enough for the cases aimed at. Three threads give a leader, a
joiner and a parked request at once; three generations allow three rounds, which a
call that sleeps more than twice needs. Two blocks and three writes give an overwrite
beside an independent write, which a non-prefix image needs; three blocks let one
extent cut another in the middle. Channels of one slot are full after one job, so
every dispatch meets the nested receive. The second crash of `volume` is one during
the recovery from the first (`SecondCrash`). Three forks let a name change hands twice.
Three verbs for a host let it create, stop and start, which the deletion of a stop manifest needs, or stop a fork
again. In the two takeover runs at most `MaxTotal` verbs are given in all, the last of them
one of `LastVerbs` (a claim of either kind in `takeover`, whose properties are about what a
claim finds), writes and faults together are at most `MaxEvent`, and the guest writes only
to the fork the name is bound to (`Scenario`).
`MaxUlid` is at least the number of mints the other bounds allow. Failures, restarts,
passes and reaps are bounded by named constants that only guard the step they count;
the budgets of `DurableCut` and `Rewrite` are chosen in the initial state.
`CHECK_DEADLOCK FALSE` is set where the system may stop: a volume that has shut down,
a takeover whose verbs are used up.

`durable_cut` has no rewrites: with GC, close passes or open reaps the prefix property
does not hold (section 5), and the runs with rewrites check the weaker properties that
do.

`CutIsPrefix` and `NeverRegresses` are said of a HEAD whose anchor is in the bucket, and
the first also of an anchor that no unlisted segment lies below (`AnchorHolds`); `CutNeverShrinks`
leaves out the step that deletes a manifest. A start after a stop breaks all three
(section 5); nothing else in these runs does.

Fairness. `SyncGate`: weak fairness of each thread's steps inside the gate, which is
the operating system's scheduling; a thread need not call. `Volume`: weak fairness of
dispatch, execution, apply, stash and unlink, which are the actor and worker loops.
`Pipeline`: weak fairness of the worker, of the handler under way and of the exit;
strong fairness of taking a result and of the idle tick, because `select!` picks among
the ready channels at random. Nothing is assumed of callers. `DurableCut`: weak
fairness of the tick's next step (the task runs to the end of `run_tick`); strong
fairness of a tick with the cut due and of a publish that does not take the early
return (the cadence comes round). `Takeover`: weak fairness of discovery, of the tick
and of each step of the fence, per fork, so the record is read and the shutdown answered
in the end. Failures are never fair and are finite in
number.

Every property of a passing run has a mutant: a plausible defect in one mapped
definition under which TLC reports that property. They are in the modules, beside the
definition they replace.

## 4. Theorems

Proved for every value of the constants that satisfies the named assumptions:
`GateAssumption` (the generation bound is a natural number), `VolumeAssumption` (the
bounds are natural numbers, `ZERO_HASH` is not one of the contents),
`BudgetsAreNaturals` (so are those of `DurableCut`, whose budgets are finitely many),
`PipelineAssumption` (at least one epoch and one slot; `Nobody` is not a caller), and
those of `NameRecord` and `Names` (bounds are natural numbers; `Nobody` is not a
coordinator). Any number of threads, callers, coordinators, names, blocks and contents.

`SyncGateProofs`. The invariant `IInv` adds to the types: `completed` and `running`
are ordered and below the current generation (`Order`); a thread in each place of the
code has the relation to them that its branch tested (`Place`), which is needed because
a joiner relies on the round it saw still being the one in flight, or having completed,
when it wakes; how often a thread can have slept on reaching each place (`Slept`); a
running round has exactly one leader. From it: `GateTypeCorrect`, `OkIsDurable`,
`RoundsAreExclusive`, `NoLostWakeup`, `BoundedWaits`, and `GateImplementsService`,
whose step lemma maps a return to the service's `Answer`, a round's success to `Sync`,
and the rest to stuttering.

`VolumeProofs`. `VolumeTypeCorrect`. Types alone are not inductive: the record that
governs a block exists only because the record sets of files and layers are within the
numbers of the log (`Bounded`). `FlushedSurvives`: where `fsync` of a file covers its directory
entry (`FileSyncLinks`), every record a flush covered is, after any interleaving of
appends, rotations, promotes, failed promotes, failed unlinks, crashes and power losses,
in a durable segment or in a WAL that recovery finds. The invariant `Durable` has four
parts. `FilesInv`: a ULID names one kind of file and the mint is above all, so a WAL
that a power loss brings back never meets a fresh ULID. `MemoryInv`: a WAL about to be
unlinked has all its records in linked segments. `JobsInv`: a job's segment, once
written, equals its WAL, and an ok result means it is linked. `HeldInv`: every record
that is not lost is in a linked segment or in a WAL the next sync round covers, and the
running round covers what it will report. The last is what makes a flush between a
rotate and its promote safe.

`VolumeProofs`, `VolumeMaps`, `VolumeOwners`. `ReadsAreLatest` (a read returns the last write that was not
lost), `MapsAreDisk` (between two messages the maps in memory are what a rebuild from
disk yields, claimant included) and `ReadsResolve` (every content a read resolves to has a
body in a file that is there), for any number of writes, crashes and power losses. They
assume `FileSyncLinks` and that no promote and no unlink fails, which is how the `volume`
run is set: with one failure of either kind `ReadLatest` is false (section 5). `Durable` is
strengthened by `MapsInv` and `OwnInv`.

- `DiskInv`: the order of the files. A later WAL holds later records and WALs are unlinked
  oldest first, so those a power loss brings back are the newest of the unlinked; what
  was promoted from a WAL is durable in it (`Settled`); a promoted record newer than one
  in a WAL is in a WAL too (`Returns`); a segment holds older records than a lower one
  only while the newer ones are in a WAL or in a segment above both (`SegOrder`). The last two are what makes
  replaying a returned WAL over its own segment harmless.
- `QueueInv`: promotes are dispatched, written, applied and unlinked in the order of their
  WALs (`JobOrder`, `OldestGoes`), and a written segment equals its WAL with only newer
  records above it (`Promoted`, `Sealed`).
- `LayerInv`, `Match`: a layer holds records of its WAL; the claim of every block is the
  one that replaying the unpromoted WALs over the segments yields (`Yields`). Only the
  oldest WAL may have records outside its layer, the ones recovery replayed into base.
- `OwnInv`: at most one of the base index and the layers names an owner of a content
  (`OwnersApart`); the owner is a segment that stores the content or an unpromoted WAL
  that holds it (`OwnerHolds`), in which case its job carries the body (`JobCarries`);
  what a job stages as a DedupRef is stored already or carried by a job ahead of it in the
  queue (`QueueStores`), which is why promotes must not overtake each other.

`NamesProofs`. `NeverReboundHolds`, `OwnedIffHeldHolds`, `ClearsItsOwnHolds` and
`NamesImplementsOwnership`. A conditional PUT succeeds only on the record its request
read, so the invariant says of every request under way what its guard saw
(`GoodRequest`), and of the forks: a bound fork was minted for its name (`Bindings`), a
fork in a request is no other name's (`MintedApart`, `RehomedApart`), a rollback or a
clear names a fork that can only be its own (`Rollbacks`, `ClearsApart`). A completion and
a clear of one import may be under way together, and either may be written first; what
the clear deletes is then the completed record. The half of `NeverReboundHolds` that is
about rehomes rests on `OneEpisode`.

`PipelineProofs`, `PipelineTheorems`.
`WalsAreAccounted` (every WAL file on disk is the open one, about to be dispatched, at
the worker or stashed, and only one of these), `CheckpointsCover` (a GC checkpoint
answered with success has seen every promote that was in flight when it came),
`NobodyIsForgotten` (whoever waits is parked on something that will come),
`PlansAreSingle` (one plan at a time is about to be sent, at the worker or held back),
`ExitIsDrained` (nothing counted as in flight means nothing in flight, so the shutdown
leaves no job and no caller behind) and `PlansWait` (a plan is applied only when no
promote that was dispatched is unresolved; a promote that is prepped and not with the
worker is not counted, section 5). Results, the worker's job and the job
channel are read as one queue, the `Line`, because the first-in-first-out order of the
whole is what the counters rely on: a checkpoint's `left` counts the promotes of its
prefix (`CountOk`), which a result at the front decreases by one whatever nested
dispatches append behind it. `StackOk` says what an interrupted handler may still hold:
a nested receive runs with a partial dispatch on the stack, and the invariant has to
hold there too. `WalOk`, `PlanOk`, `GcOk`, `ReplyOk`, `SlotOk` and `ParkedOk` relate
the WALs, plans and parked replies to the line and the stack.

`DurableCutProofs`. `RebuildsAreExact`: a reopen of the volume at any moment rebuilds the
newest version of each block, for any blocks and any number of writes, failures, ticks,
seals and restarts of the coordinator. The invariant `CutInv` has two halves.

- `DiskInv`: the WAL is newer than every segment (`WalAbove`); of two segments that claim
  a block the higher ULID has the newer version (`Ordered`); the last write to a block is
  in the WAL or in a segment the rebuild sees (`Present`); a GC output holds the last
  writes of its inputs and nothing else, and they stay in the index until it is there or
  proves empty (`PlanCovers`). The last is why a handoff may stop between promote and
  finalize, and a stop may empty `gc/`, at any moment. `Ordered` counts a staged output
  that is not applied yet, since applying it is one step.
- `TickInv`: from the checkpoint to the pass nothing at or above the ULID minted for the
  output is confirmed or about to be (`Fresh`), which is why the output lands above its
  inputs and below the checkpoint's flush; and the upload generation is empty when a
  generation is closed, so the close pass, which replaces it, loses nothing.

Only model-checked. Liveness under fairness (`EveryCallReturns`, `RotatedDrains`,
`EventuallyRecoverable`, `DisplacedIsRehomed`, and the four of `Pipeline`) is out of
the prover's reach. The properties of `Rewrite` are about maps that are folds over
sequences of entries: what a fold computes for every input needs induction over data,
which the prover cannot do. `CutIsPrefix`, `LiveObjectsExist`, `ServedIsComplete`,
`ClaimedIsDurable` and `ClaimSetIsFound` do not hold outside the bounds of their runs
(section 5), so there is nothing to prove without first restating what the code should
promise. `NeverRegresses`, `SettledIsExact` and `CutNeverShrinks` are
checked within the bounds of their runs and have no inductive invariant yet: it has to
relate every interrupted tick, or every interrupted claim and its retries, to the bucket.

## 5. Where code and documentation disagree

`rewrite_close` ends with a counterexample. `start_close_generation` (`actor.rs:1162`)
lists every file of the open generation, also a segment the worker has committed while
its result waits in the actor's queue, and classifies it against layers that hold its
claims under the WAL's ULID: the segment reads as dead. The promote is applied first,
the bucket is folded, and the segment is unlinked. The volume still reads right; the
next open does not. `repack.rs:104` says the listing is pinned to the instant of the
layers. The passing run sets `SettledClose`, a close pass with no promote between its
commit and its apply.

The counterexamples below were found with TLC on these modules, with other bounds or
properties than the runs keep; they have been read against the code, not reproduced on a
running system.

- A stashed promote's layer covers newer data folded into base: after a failed promote
  and a later successful one, reads return the older write until the retry is applied
  (`actor.rs:1440`, `map_layers.rs:232`; `docs/architecture.md:1109`). `ReadLatest` with
  `MaxFailures = 1`.
- A promoted WAL whose unlink failed is replayed over newer segments by the next open
  (`remove_promoted_wal` only warns). `ReadLatest` with `MaxUnlinkFailures = 1`.
- `fsync_dir(wal_dir)` syncs the parent of `wal/`, so a new WAL's entry is durable only
  where `fsync` of a file covers it (`wal.rs:180`, `segment.rs:2405`; `wal.rs:177`).
  `FlushedIsDurable` with `FileSyncLinks = FALSE`.
- The close pass and the open reap drop a block dead only to a WAL write, so a takeover
  may find an image the guest never had until the killer is published too
  (`repack.rs:671`, `handle_reap`; `docs/design/upload-generations.md:143`). `CutIsPrefix`
  with `fold = 1` or `sweep = 1`. `SettledIsExact` shows that a quiet volume, all of it
  published, is recovered exactly.
- An edge is published while the flush of the killing write is still in `pending/open`.
  `CutIsPrefix` with `check = 3`, or `check = 2` and one lost reply to a promote.
- A user snapshot's manifest leaves out a segment that is dead only to a WAL write
  (`live_index_segments`), so the version below that write is gone from the bucket before
  the write is in it. `NeverRegresses` with `snapshot = 1`.
- A start after a stop deletes the stop manifest HEAD is anchored at, or, with no HEAD yet, the
  newest seal (`cleanup_stop_snapshots`, `upload.rs:676`): until the next cut a takeover
  finds less than before the start. `inbound/lifecycle.rs:1493` says the manifest "is no
  longer needed as a recovery basis" and `docs/architecture.md:771` only considers the local fork.
  `NeverRegresses` without its premise, with `stop = 1` and `start = 1`; `CutNeverShrinks`
  without its premise after create, a write, stop, start and the ready signal. When the signal falls
  between a late upload of the manifest and the truncation, HEAD ends at a manifest that is gone.
- A stop that finds `index/` empty mints an anchor above the tail its halt left in
  `pending/open` (the sweep looks directly in `pending/`, `inbound/lifecycle.rs:300`). After a
  start the tail is uploaded below the anchor and no cut lists it. `CutIsPrefix` without
  `AnchorHolds`, with `stop = 1` and `start = 1`.
- Between the bump of LATEST and the truncation of HEAD, a force-claim lays HEAD's delta over
  the newer basis and an older version wins (`upload.rs:663`, `force_claim.rs:605`).
  `CutIsPrefix` with `snapshot = 1` and without `AnchorHolds`.
- After a crash between the reaper's DELETEs and the PUT of HEAD, a regenerated HEAD
  below the barrier lists the deleted input. `LiveObjectsExist` with `fail = 2`,
  `crash = 1`, `reap = 1`.
- A force-claim that is resumed takes the newest earlier binding the journal names as its
  source, and `force_claim.rs:241` says this "survives any chain of crashed claimants
  because every claim/force-claim appends here"; the append is best effort (`:439`).
  After a lost event of a fork that went on to take writes, a claim of that fork cut
  short and resumed re-owns from the fork before it and serves without those writes.
  `ServedIsComplete`, `ClaimedIsDurable` and `ClaimSetIsFound` with `MaxFault = 2`; the
  `takeover` run has one fault.
- After the fence the fork's task exits for good, so a fork that is reclaimed and
  started again on that host is not drained (`tasks.rs:364`).
- The refusal of a plan that drops a claim also fires on plans that are right
  (`volume/mod.rs:4150`).
- A plan may be applied between the prep and the apply of a promote. The wait counts
  promotes that were dispatched; one that was prepped and waits for room in
  `send_worker_job` is not counted, and the result the actor takes to make room may be
  the plan (`actor.rs:898`, `:1283`, `:1584`); nor is one stashed after a failure
  (`:918`), which keeps the snapshots of its prep. `actor.rs:1600` says "Ordering the applies removes the
  window" and `:1605` that a promote dispatched later "preps against post-apply state".
  `PlanBehindPromotes` with the promotes being sent and the stashed ones counted too: a
  counterexample of twelve states in the `pipeline` instance, a promote waiting for room while
  the plan is applied.
- A clear of a failed import deletes without a precondition. `import.rs:619` says it
  "CAS-delete"s and leaves alone a record that "was already flipped"; a completion that was reported
  failed and lands between the clear's read and its DELETE is deleted with it.
  `ClearsItsOwn` with `"importing"` as the only state.
- A plan result waits for ever while promotes keep coming; `actor.rs:1606` says "Nothing
  starves". `HandoffAnswered` is therefore conditional on the promotes in flight running
  out again and again.
- A joiner of a failed sync round may return ok when another round succeeds before it
  has the mutex back; the ok is durable (`OkMeansSynced`), only the report is lost.

Read in the code while modelling, without a run: a `Flush` checkpoint's reply depends on
its own promote only, where `actor.rs:931` says every promote dispatched at or before it;
`pending/open` exists from the first open on, so `release` always takes the path that
needs a drain (`inbound/lifecycle.rs:266`); the rollback
of a failed create deletes the record unconditionally (`inbound/mod.rs:1713`); a fork with
two names to be rehomed from, a stale link in `by_name/` and the name in its `volume.toml`,
could be bound twice, which `OneEpisode` rules out (`rehome.rs:144`).

## 6. Not modelled

Torn and short WAL appends (an append is atomic), the ULID mint's clock and carry (a
counter), the read path's caches and presence bits, eviction, imports, forks and removal
beyond their marks on the name's record, the sweep of ancestor skeletons against a claim
that pulls the same ancestor, the events log's archival, peer fetch, demand fetch,
credentials, the block device front end, the CLI and the codecs. Two hazards of the list
fall here and have no property: a short append (`writelog.rs:182`) and the ancestor sweep
(`liveness.rs:55`). Payload bytes, signatures and wire formats are abstracted everywhere.
