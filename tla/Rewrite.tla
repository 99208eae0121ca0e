------------------------------ MODULE Rewrite -------------------------------
(***************************************************************************)
(* The rewriting of segments under guest writes: extents of several blocks *)
(* are written, promoted into segments of the open generation, sealed and  *)
(* repacked by the close pass, drained into the committed tier, and folded *)
(* by the collector; each rewrite is classified against one view of the    *)
(* maps and applied to a later one.  A restart rebuilds the maps from what *)
(* is on disk at that moment.                                              *)
(*                                                                         *)
(* elide-core/src/volume/mod.rs, volume/repack.rs, actor.rs;               *)
(* elide-coordinator/src/gc.rs, gc_cycle.rs.                               *)
(*                                                                         *)
(* tier of a segment: open and upload (the generations of pending/), index *)
(* (committed) and bare (the output of a collection in gc/).               *)
(***************************************************************************)
EXTENDS MapLayers

CONSTANTS
  Blocks,        \* block addresses, an interval
  Extents,       \* what a guest writes: [start, len, hash]
  Budgets,       \* bounds: how often a thing may happen, by kind
  SettledClose   \* TRUE leaves out the close passes that list a segment whose
                 \* promote is committed and not applied: the code takes them

ASSUME RewriteAssumption ==
  /\ Budgets \subseteq [{"write", "promote", "close", "check", "restart"} -> Nat]
  /\ SettledClose \in BOOLEAN
  /\ \A x \in Extents : Covered(x) \subseteq Blocks /\ x.len > 0
                        /\ (x.hash # ZERO_HASH => Len(x.hash) = x.len)

VARIABLES
  last,      \* history: the content a guest wrote last, by block
  wals,      \* the WAL files: ULID -> records in order
  segs,      \* the segment files: ULID -> [tier, entries, inputs]
  mint,      \* the last ULID minted
  wal,       \* the open WAL, 0 for none
  layers,    \* the maps of the volume
  jobs,      \* jobs sent to the worker
  results,   \* results the actor has not taken
  folded,    \* the apply between its fold and its swap
  unlink,    \* inputs of a landed close pass still to be unlinked
  plan,      \* the collector's plan in gc/
  pc,        \* what the coordinator waits for
  left       \* what the budget still allows

files == <<wals, segs>>
actor == <<layers, folded, unlink>>
queues == <<jobs, results>>
coord == <<plan, pc>>
vars == <<last, files, mint, wal, actor, queues, coord, left>>

Zero == "zero"
NoPlan == [stage |-> "none", out |-> 0, inputs |-> {}, entries |-> <<>>, view |-> EmptyMaps]

Tier(t) == {u \in DOMAIN segs : segs[u].tier = t}
Segment(tier, entries, inputs) == [tier |-> tier, entries |-> entries, inputs |-> inputs]
Without(f, S) == [x \in DOMAIN f \ S |-> f[x]]
InTier(S, tier) == [u \in DOMAIN segs |-> IF u \in S THEN [segs[u] EXCEPT !.tier = tier] ELSE segs[u]]

Queued(q) == {q[i] : i \in DOMAIN q}
Promotes(q) == {j \in Queued(q) : j.kind = "promote"}
promotes_in_flight == Promotes(jobs) \cup Promotes(results)

\* The actor takes its next message or result.
ActorIdle == folded = "none" /\ unlink = <<>>

Spend(b) == left[b] > 0 /\ left' = [left EXCEPT ![b] = @ - 1]

Init ==
  /\ last = [l \in Blocks |-> Zero]
  /\ wals = <<>> /\ segs = <<>> /\ mint = 0 /\ wal = 0
  /\ layers = [base |-> EmptyMaps, frozen |-> <<>>, delta |-> EmptyMaps]
  /\ jobs = <<>> /\ results = <<>> /\ folded = "none" /\ unlink = <<>>
  /\ plan = NoPlan /\ pc = "idle"
  /\ left \in Budgets

-----------------------------------------------------------------------------
\* The guest.

ContentOf(x, l) == IF x.hash = ZERO_HASH THEN Zero ELSE x.hash[l - x.start + 1]

\* write_commit and zero_commit: open a WAL if none is open, append, claim
\* the blocks in delta, own the content if nothing else does.
Commit(x) ==
  LET w == IF wal = 0 THEN mint + 1 ELSE wal
      owns == x.hash # ZERO_HASH /\ OwnersOf(layers, x.hash) = {}
  IN /\ mint' = IF wal = 0 THEN w ELSE mint
     /\ wal' = w
     /\ wals' = IF wal = 0 THEN wals @@ (w :> <<x>>) ELSE [wals EXCEPT ![w] = Append(@, x)]
     /\ layers' = [layers EXCEPT
          !.delta.lba = insert_inner(@, Run(x.start, x.len, 0, x.hash, w)),
          !.delta.own = IF owns THEN @ @@ (x.hash :> InWal(w, Len(wals'[w]))) ELSE @]

\* commit_or_skip: a write the map already records whole is acknowledged and
\* appends nothing; write_zeroes and trim always append.
Write(x) ==
  /\ Spend("write")
  /\ last' = [l \in Blocks |-> IF l \in Covered(x) THEN ContentOf(x, l) ELSE last[l]]
  /\ IF x.hash # ZERO_HASH /\ full_match(layers, x.start, x.len, x.hash)
     THEN UNCHANGED <<mint, wal, wals, layers>>
     ELSE Commit(x)
  /\ UNCHANGED <<segs, folded, unlink, queues, coord>>

-----------------------------------------------------------------------------
\* Promotes.

\* classify_pending_dedup_entries: a record whose content is stored elsewhere,
\* or in another record, becomes a ref.
StagedEntry(maps, w, records, i) ==
  LET r == records[i]
      keeps == r.hash \in DOMAIN maps.own => maps.own[r.hash] = InWal(w, i)
  IN Entry(IF r.hash = ZERO_HASH THEN "zero" ELSE IF keeps THEN "data" ELSE "ref",
           r.start, r.len, r.hash)
stage_pending_for_promote(maps, w, records) ==
  [i \in DOMAIN records |-> StagedEntry(maps, w, records, i)]

PromoteJob(L, s) ==
  [kind |-> "promote", wal |-> wal, out |-> s, inputs |-> {},
   entries |-> stage_pending_for_promote(materialised(L), wal, wals[wal])]

\* take_wal_into_promote_job, to segment s: the epoch freezes.
TakeWal(s) ==
  /\ layers' = freeze(layers, wal)
  /\ jobs' = Append(jobs, PromoteJob(layers', s))
  /\ wal' = 0

\* dispatch_promote: the WAL passed its threshold, or was idle.
DispatchPromote ==
  /\ ActorIdle /\ wal # 0
  /\ Spend("promote")
  /\ mint' = mint + 1
  /\ TakeWal(mint + 1)
  /\ UNCHANGED <<last, files, folded, unlink, results, coord>>

\* The worker takes jobs in order: a promote commits its segment in the open
\* generation, a close pass writes its output beside its inputs.
ExecuteJob ==
  /\ jobs # <<>>
  /\ LET j == Head(jobs)
         tier == IF j.kind = "promote" THEN "open" ELSE "upload"
     IN /\ segs' = IF j.entries = <<>> THEN segs
                   ELSE segs @@ (j.out :> Segment(tier, j.entries, j.inputs))
        /\ results' = Append(results, j)
  /\ jobs' = Tail(jobs)
  /\ UNCHANGED <<last, wals, mint, wal, actor, coord, left>>

\* apply_promoted_partition: owners move from the WAL to the segment by
\* compare-and-replace, claimants by set_claimant_if_matches.
PromotedOwners(own, w, s, entries) ==
  LET moved == {e.hash : e \in {x \in EntriesOf(entries) : x.kind = "data"}}
  IN [h \in DOMAIN own |-> IF own[h].by = w /\ h \in moved THEN InSegment(s) ELSE own[h]]

\* Mutant: only the claims of entries with a body are re-keyed.
PromotedDataClaims(m, s, entries) ==
  FoldLeft(LAMBDA acc, e : IF e.kind = "data"
                           THEN set_claimant_if_matches(acc, e.start, e.len, e.hash, s) ELSE acc,
           m, entries)
PromotedClaims(m, s, entries) ==
  FoldLeft(LAMBDA acc, e : set_claimant_if_matches(acc, e.start, e.len, e.hash, s), m, entries)
apply_promoted_entries(maps, w, s, entries) ==
  [lba |-> PromotedClaims(maps.lba, s, entries),
   own |-> PromotedOwners(maps.own, w, s, entries)]

\* The fold of the WAL's layer and its swap, then the WAL goes.
ApplyPromote ==
  /\ ActorIdle /\ results # <<>> /\ Head(results).kind = "promote"
  /\ LET j == Head(results)
         mine == SelectSeq(layers.frozen, LAMBDA f : f.wal = j.wal)
         maps == FoldFrozen(layers.base, mine)
     IN /\ layers' = [layers EXCEPT
             !.base = apply_promoted_entries(maps, j.wal, j.out, j.entries),
             !.frozen = SelectSeq(@, LAMBDA f : f.wal # j.wal)]
        /\ wals' = Without(wals, {j.wal})
  /\ results' = Tail(results)
  /\ UNCHANGED <<last, segs, mint, wal, folded, unlink, jobs, coord, left>>

-----------------------------------------------------------------------------
\* The fold of a rewrite, common to the close pass and the collector.

carried_hashes(entries) == {e.hash : e \in {x \in EntriesOf(entries) : x.kind # "ref"}}

\* The bodies that go with the inputs: owned by one of them, not carried.
ToRemove(own, r) ==
  UNION {{h \in Bodies(segs[i].entries) \ carried_hashes(r.entries) :
            h \in DOMAIN own /\ own[h].by = i} : i \in r.inputs}

\* Stale liveness: one of them has been referenced since.
Stale(r) ==
  LET view == materialised(layers)
  IN \E h \in ToRemove(view.own, r) : is_referenced(view.lba, h)

\* remove_input_owned, then each entry in order under the rule of an apply.
Folded(pre, r) ==
  LET gone == ToRemove(pre.own, r)
      body(own, e) == RegisterBody(own, e, r.out, r.inputs)
      claim(m, e) == RegisterClaim(m, e, r.out, Consuming(r.inputs))
  IN [lba |-> FoldLeft(claim, pre.lba, r.entries),
      own |-> FoldLeft(body, Without(pre.own, gone), r.entries)]

InputRanges(r) == Ranges(UNION {Claiming(segs[i].entries) : i \in r.inputs})

\* unresolvable_footprint_hashes: a claim in the ranges of the rewrite on one
\* of its contents, or of those it gives up, that nothing owns after the fold.
Orphans(view, r, given) ==
  LET footprint == given \cup {e.hash : e \in EntriesOf(r.entries)}
      at == InputRanges(r) \cup Ranges(Claiming(r.entries))
  IN {x \in view.lba.runs : /\ Covered(x) \cap at # {}
                            /\ x.hash \in footprint \ (DOMAIN view.own \cup {ZERO_HASH})}

-----------------------------------------------------------------------------
\* The close pass.

\* all_live: every body of the segment is referenced.
all_live(maps, u) == \A h \in Bodies(segs[u].entries) : is_referenced(maps.lba, h)

\* A bucket the pass rewrites: any of the admitted segments, except a single
\* one with nothing dead.
Buckets(maps, S) ==
  {B \in SUBSET S : B # {} /\ ~(\E u \in B : B = {u} /\ all_live(maps, u))}

Committed == {j.out : j \in Promotes(results)}

\* prepare_close_generation and execute_repack's classification: the open
\* generation is sealed, its segments listed and the layers pinned.
CloseGeneration ==
  /\ ActorIdle /\ pc = "idle"
  /\ Tier("upload") = {} /\ Tier("open") # {}
  /\ SettledClose => Committed = {}
  /\ Spend("close")
  /\ LET maps == materialised(layers)
         sealed == InTier(Tier("open"), "upload")
     IN /\ segs' = sealed
        /\ mint' = mint + 1
        /\ \/ /\ \E B \in Buckets(maps, Tier("open")) :
                   jobs' = Append(jobs, [kind |-> "close", wal |-> 0, out |-> mint + 1, inputs |-> B,
                                         entries |-> Rewritten(maps, segs, B)])
              /\ pc' = "close"
           \/ UNCHANGED <<jobs, pc>>
  /\ UNCHANGED <<last, wals, wal, actor, results, plan>>

CloseResult == results # <<>> /\ Head(results).kind = "close"

\* refuse_bucket: the output goes, the inputs stay.
RefuseBucket ==
  /\ segs' = Without(segs, {Head(results).out})
  /\ results' = Tail(results)
  /\ folded' = "none" /\ pc' = "idle"
  /\ UNCHANGED <<last, wals, mint, wal, layers, unlink, jobs, plan, left>>

RepackRefused(r) ==
  LET post == materialised(with_base(layers, Folded(layers.base, r)))
  IN Stale(r) \/ Orphans(post, r, UNION {Bodies(segs[i].entries) : i \in r.inputs}) # {}

\* fold_repack_bucket, with the volume unlocked.
FoldBucket ==
  /\ ActorIdle /\ CloseResult
  /\ IF RepackRefused(Head(results))
     THEN RefuseBucket
     ELSE /\ folded' = "close"
          /\ UNCHANGED <<last, files, mint, wal, layers, unlink, queues, coord, left>>

InstallBucket(r) ==
  /\ layers' = with_base(layers, Folded(layers.base, r))
  /\ unlink' = Ascending(r.inputs)
  /\ results' = Tail(results)
  /\ folded' = "none"
  /\ UNCHANGED <<last, files, mint, wal, jobs, coord, left>>

\* Mutant: the swap does not look at what was written since the fold.
SwapBucketUnchecked == folded = "close" /\ InstallBucket(Head(results))

\* swap_repack_bucket: only guest writes came between the two, so base is the
\* one the fold started from.
SwapBucket ==
  /\ folded = "close"
  /\ IF delta_claims_any(layers, ToRemove(layers.base.own, Head(results)))
     THEN RefuseBucket
     ELSE InstallBucket(Head(results))

\* unlink_consumed_inputs, one file at a time; the reply follows the last.
UnlinkInput ==
  /\ unlink # <<>>
  /\ segs' = Without(segs, {Head(unlink)})
  /\ unlink' = Tail(unlink)
  /\ pc' = IF Tail(unlink) = <<>> THEN "idle" ELSE pc
  /\ UNCHANGED <<last, wals, mint, wal, layers, folded, queues, plan, left>>

-----------------------------------------------------------------------------
\* The collector: checkpoint, drain, pass; the plan is applied on a later
\* tick and its output finalised into the index tier.

\* prepare_gc_checkpoint: the output ULID, then the flush above it.
GcCheckpoint ==
  /\ ActorIdle /\ pc = "idle"
  /\ Spend("check")
  /\ plan.stage = "none"
  /\ plan' = [NoPlan EXCEPT !.out = mint + 1]
  /\ pc' = "parked"
  /\ IF wal = 0
     THEN mint' = mint + 1 /\ UNCHANGED <<wal, layers, jobs>>
     ELSE mint' = mint + 2 /\ TakeWal(mint + 2)
  /\ UNCHANGED <<last, files, folded, unlink, results>>

\* Mutant: the checkpoint is answered while promotes sent before it run.
DrainUnparked ==
  /\ ActorIdle
  /\ \/ pc = "idle" /\ Tier("upload") # {} /\ pc' = "idle"
     \/ pc = "parked" /\ pc' = "pass"
  /\ segs' = InTier(Tier("upload"), "index")
  /\ UNCHANGED <<last, wals, mint, wal, actor, queues, plan, left>>

\* The drain of the sealed generation; the pass's follows the reply to the
\* checkpoint, which waits for the promotes sent up to it.
Drain ==
  /\ ActorIdle
  /\ \/ pc = "idle" /\ Tier("upload") # {} /\ pc' = "idle"
     \/ /\ pc = "parked" /\ pc' = "pass"
        /\ \A j \in promotes_in_flight : j.out > plan.out + 1
  /\ segs' = InTier(Tier("upload"), "index")
  /\ UNCHANGED <<last, wals, mint, wal, actor, queues, plan, left>>

\* load_pass_state: the maps rebuilt from the segments on disk. The volume
\* goes on writing and promoting until the WALs are read.
PassRead ==
  /\ pc = "pass" /\ pc' = "replay"
  /\ plan' = [plan EXCEPT !.view = Rebuilt(segs)]
  /\ UNCHANGED <<last, files, mint, wal, actor, queues, left>>

\* The WALs found then, replayed into the claims.
PassView ==
  LET replay(m, w) == FoldLeft(LAMBDA acc, r : insert_inner(acc, Run(r.start, r.len, 0, r.hash, w)),
                               m, wals[w])
  IN [plan.view EXCEPT !.lba = FoldLeft(replay, @, Ascending(DOMAIN wals))]

Plan(inputs, U) ==
  [NoPlan EXCEPT !.stage = "emitted", !.out = plan.out, !.inputs = inputs,
                 !.entries = Rewritten(PassView, segs, U)]

PassEnds == pc = "replay" /\ pc' = "idle" /\ UNCHANGED <<last, files, mint, wal, actor, queues, left>>
NothingToCollect == Tier("bare") # {} \/ Tier("index") = {}

\* Mutant: the plan consumes every committed segment and carries a bucket.
GcPassConsumesAll ==
  /\ PassEnds
  /\ IF NothingToCollect THEN plan' = NoPlan
     ELSE \E U \in (SUBSET Tier("index")) \ {{}} : plan' = Plan(Tier("index"), U)

\* gc_fork and compact_segments: a plan over a bucket of the committed
\* segments, or none while an earlier output is unfinished.
GcPass ==
  /\ PassEnds
  /\ IF NothingToCollect THEN plan' = NoPlan
     ELSE \E U \in (SUBSET Tier("index")) \ {{}} : plan' = Plan(U, U)

\* apply_gc_handoffs: the worker materialises the plan into a scratch file.
GcHandoff ==
  /\ pc = "idle" /\ plan.stage = "emitted"
  /\ pc' = "handoff" /\ plan' = [plan EXCEPT !.stage = "written"]
  /\ UNCHANGED <<last, files, mint, wal, actor, queues, left>>

\* The refusals that say the plan was not derived from what the volume
\* serves: it carries blocks an older claimant outside it holds, or leaves
\* out blocks one of its inputs still claims.
SupersededCarry(pre, r) ==
  {x \in UNION {extents_in_range(pre.lba, e.start, e.start + e.len) :
                  e \in {y \in Claiming(r.entries) :
                           Free(pre.lba, Run(y.start, y.len, 0, y.hash, r.out),
                                Consuming(r.inputs)) # Ranges({y})}} :
     x.by < r.out /\ x.by \notin r.inputs}
DroppedClaim(pre, r) ==
  {x \in pre.lba.runs : /\ x.by \in r.inputs
                        /\ Covered(x) \cap (InputRanges(r) \ Ranges(Claiming(r.entries))) # {}}

PlanRefused(r) ==
  LET pre == below(layers, r.out)
      post == materialised(above(layers, r.out, Folded(pre, r)))
  IN \/ Stale(r)
     \/ Orphans(post, r, ToRemove(materialised(layers).own, r)) # {}
     \/ SupersededCarry(pre, r) # {}
     \/ DroppedClaim(pre, r) # {}

CancelPlan ==
  /\ plan' = NoPlan /\ pc' = "idle" /\ folded' = "none"
  /\ UNCHANGED <<last, files, mint, wal, layers, unlink, queues, left>>

\* fold_plan_apply_result, held back while promotes are in flight.
FoldPlan ==
  /\ ActorIdle /\ plan.stage = "written" /\ promotes_in_flight = {}
  /\ IF PlanRefused(plan)
     THEN CancelPlan
     ELSE /\ folded' = "plan"
          /\ UNCHANGED <<last, files, mint, wal, layers, unlink, queues, coord, left>>

\* swap_plan_apply: the rename of the output is the commit.
SwapPlan ==
  /\ folded = "plan"
  /\ IF delta_claims_any(layers, ToRemove(layers.base.own, plan))
     THEN CancelPlan
     ELSE /\ layers' = above(layers, plan.out, Folded(below(layers, plan.out), plan))
          /\ segs' = segs @@ (plan.out :> Segment("bare", plan.entries, plan.inputs))
          /\ folded' = "none" /\ plan' = NoPlan /\ pc' = "idle"
          /\ UNCHANGED <<last, wals, mint, wal, unlink, queues, left>>

\* promote_segment of a bare output: an index entry unless it is empty, and
\* the entries of its inputs go.
FinalizeHandoff ==
  /\ ActorIdle /\ pc = "idle"
  /\ \E g \in Tier("bare") :
       segs' = Without(InTier({g}, "index"),
                       segs[g].inputs \cup (IF segs[g].entries = <<>> THEN {g} ELSE {}))
  /\ UNCHANGED <<last, wals, mint, wal, actor, queues, coord, left>>

-----------------------------------------------------------------------------
\* The maps of Volume::open: the rebuild with every WAL replayed.
Opened ==
  FoldLeft(LAMBDA acc, w : ReplayWal(acc, w, wals[w]), Rebuilt(segs), Ascending(DOMAIN wals))

\* Volume::open promotes every WAL but the newest, oldest first, and takes up
\* the newest.
OpenPromote(acc, w) ==
  LET maps == ReplayWal(acc.maps, w, wals[w])
      entries == stage_pending_for_promote(maps, w, wals[w])
      s == acc.mint + 1
  IN [maps |-> apply_promoted_entries(maps, w, s, entries),
      segs |-> acc.segs @@ (s :> Segment("open", entries, {})),
      mint |-> s]

Restart ==
  /\ Spend("restart")
  /\ LET order == Ascending(DOMAIN wals)
         from == [maps |-> Rebuilt(segs), segs |-> segs, mint |-> mint]
         done == IF order = <<>> THEN from ELSE FoldLeft(OpenPromote, from, Front(order))
         w == IF order = <<>> THEN 0 ELSE Last(order)
     IN /\ segs' = done.segs /\ mint' = done.mint
        /\ wal' = w
        /\ wals' = [u \in DOMAIN wals \cap {w} |-> wals[u]]
        /\ layers' = [base |-> IF w = 0 THEN done.maps ELSE ReplayWal(done.maps, w, wals[w]),
                      frozen |-> <<>>, delta |-> EmptyMaps]
  /\ jobs' = <<>> /\ results' = <<>> /\ folded' = "none" /\ unlink' = <<>>
  /\ plan' = IF plan.stage = "written" THEN [plan EXCEPT !.stage = "emitted"]
             ELSE IF plan.stage = "none" THEN NoPlan ELSE plan
  /\ pc' = "idle"
  /\ UNCHANGED last

-----------------------------------------------------------------------------
Next ==
  \/ \E x \in Extents : Write(x)
  \/ DispatchPromote \/ ExecuteJob \/ ApplyPromote
  \/ CloseGeneration \/ FoldBucket \/ SwapBucket \/ UnlinkInput
  \/ GcCheckpoint \/ Drain \/ PassRead \/ GcPass \/ GcHandoff \/ FoldPlan \/ SwapPlan \/ FinalizeHandoff
  \/ Restart

Spec == Init /\ [][Next]_vars

-----------------------------------------------------------------------------
\* Some file holds the body of h under this ULID.
Stored(u, h) ==
  \/ u \in DOMAIN segs /\ h \in Bodies(segs[u].entries)
  \/ u \in DOMAIN wals /\ \E i \in DOMAIN wals[u] : wals[u][i].hash = h

\* What a claim reads, given where its content is.
Reads(x, owners) ==
  IF x.hash = ZERO_HASH THEN Zero
  ELSE IF \E u \in owners : Stored(u, x.hash) THEN x.hash[x.off + 1]
  ELSE "unresolvable"
ReadBy(claims, owners(_)) ==
  IF claims = {} THEN Zero ELSE LET x == CHOOSE y \in claims : TRUE IN Reads(x, owners(x.hash))

TypeOK ==
  /\ last \in [Blocks -> UNION {{ContentOf(x, l) : l \in Covered(x)} : x \in Extents} \cup {Zero}]
  /\ wal = 0 \/ wal \in DOMAIN wals
  /\ folded \in {"none", "close", "plan"}
  /\ pc \in {"idle", "close", "parked", "pass", "replay", "handoff"}
  /\ plan.stage \in {"none", "emitted", "written"}
  /\ \A u \in DOMAIN segs : segs[u].tier \in {"open", "upload", "index", "bare"}

MapsOf(L) == {L.base.lba, L.delta.lba} \cup {L.frozen[i].maps.lba : i \in DOMAIN L.frozen}

\* Every map the volume holds has disjoint runs, and counts as many claims of
\* a content as it has runs of it, through every split, gap fill, re-key and
\* fold of lbamap.rs: a count too low lets a rewrite drop a body that is
\* claimed, one too high keeps it forever.
MapSound ==
  /\ TypeOK
  /\ \A m \in MapsOf(layers) :
       /\ \A r, q \in m.runs : r # q => Covered(r) \cap Covered(q) = {}
       /\ m.counts = ClaimCounts(m.runs)

\* A claim of base held by a segment lies in the ranges of that segment's
\* entries: what makes the bounded walks of the dropped-claim refusal and the
\* resolvability gate complete (assert_claims_within_input_ranges), although
\* set_claimant_if_matches re-keys a run whole.
ClaimsWithin ==
  \A r \in layers.base.lba.runs :
    r.by \in DOMAIN segs => Covered(r) \subseteq Ranges(Claiming(segs[r.by].entries))

\* A read finds the content the guest wrote last, in a file that is there,
\* whatever was promoted, repacked, collected and unlinked meanwhile, and
\* whatever was written between a fold and its swap.
ReadLatest ==
  \A l \in Blocks : ReadBy(ClaimAt(layers, l), LAMBDA h : OwnersOf(layers, h)) = last[l]

\* A process that dies now, in the middle of any rewrite, and is opened again
\* reads the same: the rebuild from the files and the replay of the WALs give
\* every block its last content, and a file that stores it.
RebuildLatest ==
  LET maps == Opened
  IN \A l \in Blocks :
       ReadBy(extents_in_range(maps.lba, l, l + 1),
              LAMBDA h : IF h \in DOMAIN maps.own THEN {maps.own[h].by} ELSE {}) = last[l]

\* No output of a close pass is on disk ahead of its apply, or beside inputs
\* it has consumed.
Settled == unlink = <<>> /\ \A j \in Queued(results) : j.kind # "close"

\* The volume and a rebuild agree on who claims each block, and at which
\* offset of what content (the stress-only rebuild check of Volume): the
\* collector classifies against the rebuild, and its plan is applied to the
\* volume's maps.
ClaimsAgree ==
  Settled => LET disk == Opened.lba
                 live == materialised(layers).lba
             IN \A l \in Blocks : extents_in_range(disk, l, l + 1) = extents_in_range(live, l, l + 1)

\* The actor may fold the plan now.
FoldDue == plan.stage = "written" /\ ActorIdle /\ promotes_in_flight = {}

\* A plan that is due, held back for promotes or not, carries no block that an
\* older segment outside it holds: fold_plan_apply_result refuses it otherwise,
\* as an error in the view it was planned from.
NeverSuperseded == FoldDue => SupersededCarry(below(layers, plan.out), plan) = {}

\* A plan that is due drops no block that the volume still serves from one of
\* its inputs, whatever was written, promoted and repacked since the pass
\* classified them from disk; its swap lets those inputs be deleted.
DropsAreDead == FoldDue => DroppedClaim(materialised(layers), plan) = {}
=============================================================================
