------------------------------- MODULE Volume -------------------------------
(***************************************************************************)
(* The writable volume: guest writes into the write-ahead log (WAL), the   *)
(* rotation of a WAL into a promote job, the worker that commits it as a   *)
(* segment, the apply that re-points the maps, the sync round of a guest   *)
(* flush, and what a crash or a power loss leaves for Volume::open.        *)
(*                                                                         *)
(* elide-core/src/volume/mod.rs, volume/wal.rs, map_layers.rs, actor.rs.   *)
(*                                                                         *)
(* A record is known by its number in the order of appends (log), so a     *)
(* file is a set of numbers and "newer" is "greater".  A ULID is a number  *)
(* of the volume's mint.  Extents are single blocks.                       *)
(***************************************************************************)
EXTENDS Naturals, Sequences, FiniteSetsExt

CONSTANTS
  Lbas,               \* block addresses
  Hashes,             \* contents a guest writes
  ZERO_HASH,          \* the content of a zeroed or never written block
  MaxUlid,            \* bound on minted ULIDs
  MaxWrites,          \* bound on appended records
  MaxCrashes,         \* bound on crashes and power losses
  MaxCrashLog,        \* bound on the records in the log at a second one
  MaxFailures,        \* bound on promotes the worker fails
  MaxUnlinkFailures,  \* bound on WAL unlinks that fail
  FileSyncLinks       \* fsync of a file makes its directory entry durable

ASSUME VolumeAssumption ==
  /\ ZERO_HASH \notin Hashes
  /\ {MaxUlid, MaxWrites, MaxCrashes, MaxCrashLog, MaxFailures, MaxUnlinkFailures} \subseteq Nat
  /\ FileSyncLinks \in BOOLEAN

VARIABLES
  log,        \* history: the records in append order
  flushed,    \* history: the records up to here were covered by a flush
  lost,       \* history: unflushed records a power loss took
  recs,       \* file -> records in it
  bodies,     \* segment -> its records that carry a body
  walFiles,   \* the files of wal/
  segFiles,   \* the committed segments
  synced,     \* WAL -> records in it that a sync has covered
  linked,     \* files whose directory entry is durable
  unlinked,   \* WALs unlinked since the last power loss, oldest first
  phase,      \* "down", "opening" or "up"
  mint,       \* last ULID minted
  wal,        \* the open WAL, 0 for none
  base,       \* block -> record and claimant, the base LBA map
  index,      \* content -> owner, the base extent index
  frozen,     \* layers of rotated epochs
  delta,      \* the layer of the open WAL
  rotated,    \* rotated WALs a sync round still covers
  jobs,       \* promote jobs on the worker's queue
  results,    \* promote results the actor has not applied
  stash,      \* failed promotes awaiting retry, oldest first
  unlinking,  \* the WAL the apply is about to unlink, 0 for none
  syncing,    \* the running sync round
  crashes, failures, unlinkFailures

history  == <<log, flushed, lost>>
disk     == <<recs, bodies, walFiles, segFiles, synced, linked, unlinked>>
maps     == <<base, index, frozen, delta>>
pipeline == <<rotated, jobs, results, stash, unlinking>>
faults   == <<crashes, failures, unlinkFailures>>
vars     == <<history, disk, phase, mint, wal, maps, pipeline, syncing, faults>>

Ulids == 1..MaxUlid
Contents == Hashes \cup {ZERO_HASH}
Layer == [wal: Ulids \cup {0}, recs: SUBSET Nat, own: SUBSET Hashes]
EmptyLayer == [wal |-> 0, recs |-> {}, own |-> {}]
NoClaim == [n |-> 0, by |-> 0]
NoRound == [files |-> {}, upto |-> 0, at |-> "idle"]

HashOf(n) == IF n = 0 THEN ZERO_HASH ELSE log[n].hash

\* The records of R at block l, and the one that governs it: a later record
\* of a file overrides an earlier one.
At(R, l) == {n \in R : log[n].lba = l}
Net(R, l) == IF At(R, l) = {} THEN 0 ELSE Max(At(R, l))

-----------------------------------------------------------------------------
\* MapLayers: delta over the frozen layers, newest first, over base.  Layers
\* are pushed in the order of their WALs, so the newest is the one of the
\* highest WAL.

Upper == frozen \cup {delta}
LayerOf(w) == CHOOSE f \in Upper : f.wal = w
Covering(l) == {f.wal : f \in {g \in Upper : At(g.recs, l) # {}}}

\* The claim a read of block l resolves to.
Claim(l) ==
  LET w == Max(Covering(l))
  IN IF Covering(l) = {} THEN base[l] ELSE [n |-> Net(LayerOf(w).recs, l), by |-> w]

Owning(h) == {f.wal : f \in {g \in Upper : h \in g.own}}

\* lookup_extent: the topmost layer that names a body for h, 0 for none.
lookup_extent(h) == IF Owning(h) = {} THEN index[h] ELSE Max(Owning(h))

\* materialised: the layers folded oldest first, an owner kept once named.
materialised ==
  [h \in Hashes |-> IF index[h] # 0 \/ Owning(h) = {} THEN index[h] ELSE Min(Owning(h))]

\* fold: a layer's claims over base, its owners where base has none.
FoldClaims(b, R, w) ==
  [l \in Lbas |-> IF At(R, l) = {} THEN b[l] ELSE [n |-> Net(R, l), by |-> w]]
FoldOwners(x, own, w) ==
  [h \in Hashes |-> IF x[h] = 0 /\ h \in own THEN w ELSE x[h]]

\* stage_pending_for_promote: of the records of a WAL, the ones that keep
\* their body, every other one becomes a DedupRef.
Staged(R, w, owner) ==
  {n \in R : /\ HashOf(n) # ZERO_HASH
             /\ owner[HashOf(n)] = w
             /\ \A m \in R : m < n => HashOf(m) # HashOf(n)}

\* Mutant: the apply leaves the extent index on the WAL it unlinks.
ApplyOwnersSkipped(x, B, w, s) == x

\* Mutant: the apply leaves the WAL as claimant.
ApplyClaimsSkipped(b, R, s) == b

\* apply_promoted_partition: owners move from the WAL to the segment by
\* compare-and-replace, claimants by set_claimant_if_matches.
ApplyOwners(x, B, w, s) ==
  [h \in Hashes |-> IF x[h] = w /\ \E n \in B : HashOf(n) = h THEN s ELSE x[h]]
ApplyClaims(b, R, s) ==
  [l \in Lbas |->
     IF b[l].by < s /\ \E n \in At(R, l) : b[l].n # 0 /\ HashOf(n) = HashOf(b[l].n)
     THEN [b[l] EXCEPT !.by = s] ELSE b[l]]

\* rebuild: the claim of the highest segment, the owner of the lowest.
RebuiltClaims(S) ==
  [l \in Lbas |->
     LET holding == {s \in S : At(recs[s], l) # {}}
     IN IF holding = {} THEN NoClaim
        ELSE [n |-> Net(recs[Max(holding)], l), by |-> Max(holding)]]
RebuiltOwners(S) ==
  [h \in Hashes |->
     LET holding == {s \in S : \E n \in bodies[s] : HashOf(n) = h}
     IN IF holding = {} THEN 0 ELSE Min(holding)]

WalHashes(w) == {HashOf(n) : n \in recs[w]} \cap Hashes
pending == IF wal = 0 THEN {} ELSE recs[wal]

-----------------------------------------------------------------------------
Init ==
  /\ log = <<>> /\ flushed = 0 /\ lost = {}
  /\ recs = [u \in Ulids |-> {}] /\ bodies = [u \in Ulids |-> {}]
  /\ walFiles = {} /\ segFiles = {}
  /\ synced = [u \in Ulids |-> {}] /\ linked = {} /\ unlinked = <<>>
  /\ phase = "up" /\ mint = 0 /\ wal = 0
  /\ base = [l \in Lbas |-> NoClaim] /\ index = [h \in Hashes |-> 0]
  /\ frozen = {} /\ delta = EmptyLayer
  /\ rotated = {} /\ jobs = <<>> /\ results = <<>> /\ stash = <<>>
  /\ unlinking = 0 /\ syncing = NoRound
  /\ crashes = 0 /\ failures = 0 /\ unlinkFailures = 0

\* write_commit and zero_commit: open a WAL if none is open, append, claim
\* the block in delta, own the content if nothing else does.
Commit(l, h) ==
  LET w == IF wal = 0 THEN mint + 1 ELSE wal
      n == Len(log) + 1
      owns == IF h # ZERO_HASH /\ lookup_extent(h) = 0 THEN {h} ELSE {}
  IN /\ n <= MaxWrites /\ w <= MaxUlid
     /\ log' = Append(log, [lba |-> l, hash |-> h])
     /\ mint' = IF wal = 0 THEN w ELSE mint
     /\ wal' = w
     /\ walFiles' = walFiles \cup {w}
     /\ recs' = [recs EXCEPT ![w] = @ \cup {n}]
     /\ delta' = [wal |-> w, recs |-> delta.recs \cup {n}, own |-> delta.own \cup owns]
     /\ UNCHANGED <<flushed, lost, bodies, segFiles, synced, linked, unlinked,
                    phase, base, index, frozen, pipeline, syncing, faults>>

\* commit_or_skip: a write of the content the block already has changes
\* nothing and is not a step.
Write(l, h) ==
  /\ phase = "up"
  /\ h # HashOf(Claim(l).n)
  /\ Commit(l, h)

\* write_zeroes and trim append whatever the block holds.
WriteZeroes(l) ==
  /\ phase = "up"
  /\ Commit(l, ZERO_HASH)

\* Mutant: the round takes the open WAL only.
TakeOpenHandle ==
  /\ phase = "up" /\ syncing.at = "idle"
  /\ syncing' = [files |-> {wal} \ {0}, upto |-> Len(log), at |-> "busy"]
  /\ UNCHANGED <<history, disk, phase, mint, wal, maps, pipeline, faults>>

\* sync_handles: a sync round takes the open and the rotated WALs.
TakeHandles ==
  /\ phase = "up" /\ syncing.at = "idle"
  /\ syncing' = [files |-> rotated \cup ({wal} \ {0}), upto |-> Len(log), at |-> "busy"]
  /\ UNCHANGED <<history, disk, phase, mint, wal, maps, pipeline, faults>>

SyncedWith(F) == [u \in Ulids |-> IF u \in F THEN recs[u] ELSE synced[u]]
LinkedWith(F) == IF FileSyncLinks THEN linked \cup F ELSE linked

\* The round syncs each of them and the flush returns.
SyncFiles ==
  /\ phase = "up" /\ syncing.at = "busy"
  /\ synced' = SyncedWith(syncing.files)
  /\ linked' = LinkedWith(syncing.files)
  /\ flushed' = Max({flushed, syncing.upto})
  /\ syncing' = NoRound
  /\ UNCHANGED <<log, lost, recs, bodies, walFiles, segFiles, unlinked,
                 phase, mint, wal, maps, pipeline, faults>>

-----------------------------------------------------------------------------
\* The actor thread is between two messages.
ActorIdle == phase = "up" /\ unlinking = 0

\* take_wal_into_promote_job: the epoch's layer freezes under the WAL.  The
\* job holds the records that keep a body, as staged against the frozen maps.
PromoteJob(s) == [wal |-> wal, seg |-> s, bodies |-> Staged(pending, wal, materialised)]

\* dispatch_promote: the oldest stashed job goes out again, then the open WAL
\* if it holds records.  Two ULIDs are minted, the segment's and the journal
\* segment's.
DispatchPromote ==
  /\ ActorIdle
  /\ stash # <<>> \/ pending # {}
  /\ LET retry == SubSeq(stash, 1, IF stash = <<>> THEN 0 ELSE 1)
     IN IF pending = {}
        THEN /\ jobs' = jobs \o retry
             /\ UNCHANGED <<mint, wal, frozen, delta, rotated>>
        ELSE /\ mint + 2 <= MaxUlid
             /\ mint' = mint + 2
             /\ jobs' = jobs \o Append(retry, PromoteJob(mint + 1))
             /\ wal' = 0
             /\ frozen' = IF delta = EmptyLayer THEN frozen ELSE frozen \cup {delta}
             /\ delta' = EmptyLayer
             /\ rotated' = rotated \cup {wal}
  /\ stash' = IF stash = <<>> THEN stash ELSE Tail(stash)
  /\ UNCHANGED <<history, disk, phase, base, index, results, unlinking, syncing, faults>>

\* execute_promote: sync the WAL, write and sync the segment, rename it into
\* place.
WriteSegment(s, w, B) ==
  /\ synced' = SyncedWith({w})
  /\ segFiles' = segFiles \cup {s}
  /\ recs' = [recs EXCEPT ![s] = recs[w]]
  /\ bodies' = [bodies EXCEPT ![s] = B]

\* Mutant: the commit leaves out the directory fsync.
CommitSegmentNoDirSync(s, w, B) ==
  /\ WriteSegment(s, w, B)
  /\ linked' = LinkedWith({w})

\* The directory fsync after the rename makes the segment's entry durable.
CommitSegment(s, w, B) ==
  /\ WriteSegment(s, w, B)
  /\ linked' = LinkedWith({w}) \cup {s}

ExecutePromote ==
  /\ phase = "up" /\ jobs # <<>>
  /\ CommitSegment(Head(jobs).seg, Head(jobs).wal, Head(jobs).bodies)
  /\ jobs' = Tail(jobs)
  /\ results' = Append(results, [job |-> Head(jobs), out |-> "ok"])
  /\ UNCHANGED <<history, walFiles, unlinked, phase, mint, wal, maps,
                 rotated, stash, unlinking, syncing, faults>>

\* A failed promote leaves nothing, or the renamed segment when what failed
\* is the directory fsync.  Syncs before the failure are not counted on.
ExecutePromoteFails ==
  /\ phase = "up" /\ jobs # <<>> /\ failures < MaxFailures
  /\ failures' = failures + 1
  /\ \/ /\ WriteSegment(Head(jobs).seg, Head(jobs).wal, Head(jobs).bodies)
        /\ linked' = LinkedWith({Head(jobs).wal})
     \/ UNCHANGED <<recs, bodies, segFiles, synced, linked>>
  /\ jobs' = Tail(jobs)
  /\ results' = Append(results, [job |-> Head(jobs), out |-> "err"])
  /\ UNCHANGED <<history, walFiles, unlinked, phase, mint, wal, maps, rotated,
                 stash, unlinking, syncing, crashes, unlinkFailures>>

\* fold_promote_result and swap_promote: the epoch's layer folds into base,
\* the promoted entries apply over it, and the layer retires.
ApplyPromote ==
  /\ ActorIdle /\ results # <<>> /\ Head(results).out = "ok"
  /\ LET j == Head(results).job
         layer == {f \in frozen : f.wal = j.wal}
         R == UNION {f.recs : f \in layer}
         own == UNION {f.own : f \in layer}
     IN /\ base' = ApplyClaims(FoldClaims(base, R, j.wal), recs[j.seg], j.seg)
        /\ index' = ApplyOwners(FoldOwners(index, own, j.wal), j.bodies, j.wal, j.seg)
        /\ frozen' = frozen \ layer
        /\ rotated' = rotated \ {j.wal}
        /\ unlinking' = j.wal
  /\ results' = Tail(results)
  /\ UNCHANGED <<history, disk, phase, mint, wal, delta, jobs, stash, syncing, faults>>

\* Mutant: a failed job is dropped.
DropFailedPromote ==
  /\ ActorIdle /\ results # <<>> /\ Head(results).out = "err"
  /\ results' = Tail(results)
  /\ UNCHANGED <<history, disk, phase, mint, wal, maps, rotated, jobs, stash, unlinking,
                 syncing, faults>>

\* handle_worker_result, the failed arm: the job waits for the next trigger.
StashPromote ==
  /\ ActorIdle /\ results # <<>> /\ Head(results).out = "err"
  /\ stash' = Append(stash, Head(results).job)
  /\ results' = Tail(results)
  /\ UNCHANGED <<history, disk, phase, mint, wal, maps, rotated, jobs, unlinking,
                 syncing, faults>>

\* remove_promoted_wal, also the unlink that ends a recovery promote.
RemoveWal ==
  /\ unlinking # 0
  /\ walFiles' = walFiles \ {unlinking}
  /\ unlinked' = Append(unlinked, unlinking)
  /\ unlinking' = 0
  /\ UNCHANGED <<history, recs, bodies, segFiles, synced, linked, phase, mint, wal,
                 maps, rotated, jobs, results, stash, syncing, faults>>

\* A failed unlink is logged and the WAL stays.
RemoveWalFails ==
  /\ phase = "up" /\ unlinking # 0 /\ unlinkFailures < MaxUnlinkFailures
  /\ unlinkFailures' = unlinkFailures + 1
  /\ unlinking' = 0
  /\ UNCHANGED <<history, disk, phase, mint, wal, maps, rotated, jobs, results,
                 stash, syncing, crashes, failures>>

-----------------------------------------------------------------------------
\* The process ends: what it held in memory is gone.  An open that fails
\* partway ends this way too.
LoseMemory ==
  /\ crashes < MaxCrashes /\ crashes' = crashes + 1
  /\ crashes > 0 => Len(log) =< MaxCrashLog
  /\ phase # "down" /\ phase' = "down"
  /\ mint' = 0 /\ wal' = 0
  /\ base' = [l \in Lbas |-> NoClaim] /\ index' = [h \in Hashes |-> 0]
  /\ frozen' = {} /\ delta' = EmptyLayer
  /\ rotated' = {} /\ jobs' = <<>> /\ results' = <<>> /\ stash' = <<>>
  /\ unlinking' = 0 /\ syncing' = NoRound
  /\ UNCHANGED <<log, flushed, failures, unlinkFailures>>

Crash == LoseMemory /\ UNCHANGED <<lost, disk>>

\* The disk with the WALs W, cut to a prefix each, and the segments S.
Keep(W, S, cut) ==
  /\ walFiles' = W /\ segFiles' = S
  /\ recs' = [u \in Ulids |-> IF u \in S THEN recs[u]
                              ELSE IF u \in W THEN recs[u] \cap 0..cut[u] ELSE {}]
  /\ bodies' = [u \in Ulids |-> IF u \in S THEN bodies[u] ELSE {}]
  /\ synced' = [u \in Ulids |-> IF u \in W THEN recs'[u] ELSE {}]
  /\ linked' = W \cup S
  /\ unlinked' = <<>>
  /\ lost' = lost \cup {n \in 1..Len(log) : n > flushed /\ \A u \in Ulids : n \notin recs'[u]}

\* The host loses power.  A WAL keeps a prefix that has every synced record;
\* a file whose entry was not durable may be gone; the latest unlinks may
\* not have reached the disk.
PowerLoss ==
  /\ LoseMemory
  /\ \E gone \in SUBSET ((walFiles \cup segFiles) \ linked), k \in 0..Len(unlinked) :
       LET back == {unlinked[i] : i \in (k + 1)..Len(unlinked)}
           W == (walFiles \ gone) \cup back
       IN \E cut \in [W -> 0..Len(log)] :
            /\ \A w \in W : cut[w] \in recs[w] \cup {0} /\ synced[w] \subseteq 0..cut[w]
            /\ Keep(W, segFiles \ gone, cut)

\* Volume::open: base and index are rebuilt from the segments, a WAL whose
\* segment carries its own ULID is dropped, and the mint starts above both.
OpenRebuild ==
  /\ phase = "down"
  /\ phase' = "opening"
  /\ walFiles' = walFiles \ segFiles
  /\ base' = RebuiltClaims(segFiles) /\ index' = RebuiltOwners(segFiles)
  /\ mint' = Max(segFiles \cup walFiles' \cup {0})
  /\ UNCHANGED <<history, recs, bodies, segFiles, synced, linked, unlinked, wal,
                 frozen, delta, pipeline, syncing, faults>>

Recovering == phase = "opening" /\ unlinking = 0

\* Mutant: the newest WAL is promoted first and the oldest kept open.
NextToPromoteNewest == Max(walFiles)

\* The WALs are promoted lowest first.
NextToPromote == Min(walFiles)

ManyWals == \E u, w \in walFiles : u # w

\* Every WAL but the newest is replayed over the maps and promoted; an empty
\* one is only unlinked.
RecoverPromote ==
  /\ Recovering /\ ManyWals
  /\ LET w == NextToPromote
         claims == FoldClaims(base, recs[w], w)
         owners == FoldOwners(index, WalHashes(w), w)
         B == Staged(recs[w], w, owners)
     IN /\ unlinking' = w
        /\ IF recs[w] = {}
           THEN UNCHANGED <<mint, recs, bodies, segFiles, synced, linked, base, index>>
           ELSE /\ mint + 2 <= MaxUlid
                /\ mint' = mint + 2
                /\ CommitSegment(mint + 1, w, B)
                /\ base' = ApplyClaims(claims, recs[w], mint + 1)
                /\ index' = ApplyOwners(owners, B, w, mint + 1)
  /\ UNCHANGED <<history, walFiles, unlinked, phase, wal, frozen, delta,
                 rotated, jobs, results, stash, syncing, faults>>

\* recover_wal: the last WAL is replayed into base and taken up again.
RecoverLatest ==
  /\ Recovering /\ ~ManyWals
  /\ phase' = "up"
  /\ IF walFiles = {}
     THEN UNCHANGED <<wal, base, index>>
     ELSE /\ wal' = Max(walFiles)
          /\ base' = FoldClaims(base, recs[wal'], wal')
          /\ index' = FoldOwners(index, WalHashes(wal'), wal')
  /\ UNCHANGED <<history, disk, mint, frozen, delta, pipeline, syncing, faults>>

-----------------------------------------------------------------------------
Next ==
  \/ \E l \in Lbas, h \in Hashes : Write(l, h)
  \/ \E l \in Lbas : WriteZeroes(l)
  \/ TakeHandles \/ SyncFiles
  \/ DispatchPromote \/ ApplyPromote \/ StashPromote \/ RemoveWal \/ RemoveWalFails
  \/ ExecutePromote \/ ExecutePromoteFails
  \/ Crash \/ PowerLoss
  \/ OpenRebuild \/ RecoverPromote \/ RecoverLatest

Spec == Init /\ [][Next]_vars

\* The idle tick dispatches, the actor drains its channel and the worker its
\* queue.
FairSpec ==
  /\ Spec
  /\ WF_vars(DispatchPromote) /\ WF_vars(ExecutePromote)
  /\ WF_vars(ApplyPromote) /\ WF_vars(StashPromote) /\ WF_vars(RemoveWal)

-----------------------------------------------------------------------------
Job == [wal: Ulids, seg: Ulids, bodies: SUBSET Nat]

\* Every variable keeps its type.
TypeOK ==
  /\ log \in Seq([lba: Lbas, hash: Contents])
  /\ flushed \in Nat /\ lost \subseteq Nat
  /\ recs \in [Ulids -> SUBSET Nat] /\ bodies \in [Ulids -> SUBSET Nat]
  /\ synced \in [Ulids -> SUBSET Nat]
  /\ walFiles \subseteq Ulids /\ segFiles \subseteq Ulids /\ linked \subseteq Ulids
  /\ unlinked \in Seq(Ulids)
  /\ phase \in {"down", "opening", "up"}
  /\ mint \in Nat /\ wal \in Ulids \cup {0} /\ unlinking \in Ulids \cup {0}
  /\ base \in [Lbas -> [n: Nat, by: Ulids \cup {0}]]
  /\ index \in [Hashes -> Ulids \cup {0}]
  /\ frozen \subseteq Layer /\ delta \in Layer
  /\ rotated \subseteq Ulids
  /\ jobs \in Seq(Job) /\ stash \in Seq(Job)
  /\ results \in Seq([job: Job, out: {"ok", "err"}])
  /\ syncing \in [files: SUBSET Ulids, upto: Nat, at: {"idle", "busy"}]
  /\ {crashes, failures, unlinkFailures} \subseteq Nat

\* Once a flush has returned, every record appended before it began is in a
\* segment or in the synced part of a WAL, under a directory entry that
\* survives a power loss (sync_handles, execute_promote, create_fresh_wal).
FlushedIsDurable ==
  \A n \in 1..flushed : n \notin lost =>
    \/ \E s \in segFiles \cap linked : n \in recs[s]
    \/ \E w \in walFiles \cap linked : n \in synced[w]

Surviving(l) == {n \in 1..Len(log) \ lost : log[n].lba = l}

\* A read of a block returns the last write to it that was not lost, through
\* rotations, promotes, crashes and recovery (MapLayers, Volume::open).
ReadLatest ==
  phase = "up" => \A l \in Lbas : HashOf(Claim(l).n) = HashOf(Net(Surviving(l), l))

HasBody(u, h) ==
  \/ u \in segFiles /\ \E n \in bodies[u] : HashOf(n) = h
  \/ u \in walFiles /\ \E n \in recs[u] : HashOf(n) = h

\* The extent index names a file that is there and holds the content, for
\* every block a read may ask for: staging a record as a DedupRef never
\* drops the last body (classify_pending_dedup_entries, apply_promoted_partition).
Resolvable ==
  phase = "up" => \A l \in Lbas :
    LET h == HashOf(Claim(l).n) IN h # ZERO_HASH => HasBody(lookup_extent(h), h)

\* disk_lbamap_projection: the segments, then every WAL in ULID order.
DiskClaim(l) ==
  LET W == {w \in walFiles : At(recs[w], l) # {}}
  IN IF W = {} THEN RebuiltClaims(segFiles)[l]
     ELSE [n |-> Net(recs[Max(W)], l), by |-> Max(W)]

\* Between two messages of the actor the maps in memory are what a rebuild
\* from disk yields, claimant included (assert_lbamap_consistent).
MapsMatchDisk ==
  ActorIdle => \A l \in Lbas :
    /\ HashOf(Claim(l).n) = HashOf(DiskClaim(l).n)
    /\ Claim(l).by = DiskClaim(l).by

\* A rotated WAL is eventually promoted, failures and retries included
\* (retry_failed_promote on the idle tick).
RotatedDrains == \A u \in Ulids : (u \in rotated) ~> (u \notin rotated)
=============================================================================
