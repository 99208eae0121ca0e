----------------------------- MODULE DurableCut -----------------------------
(***************************************************************************)
(* How a writable fork's data becomes recoverable from the bucket: the     *)
(* coordinator's per-volume tick (elide-coordinator/src/gc_cycle.rs), the   *)
(* drain (upload.rs), the GC handoff (gc.rs) and by_id/<vol>/HEAD           *)
(* (segment_head.rs), together with the volume operations the tick calls.  *)
(*                                                                         *)
(* Write n of the log is the n-th guest write, to block log[n]; every      *)
(* write has content of its own, so a version of a block is the number of  *)
(* the write that made it and 0 is the block before any write.  A segment  *)
(* is the set of writes it carries and the inputs its signed table names.  *)
(*                                                                         *)
(* The verbs that seal the volume run in the tick's place, under the       *)
(* snapshot lock: `volume snapshot` signs a user manifest, `volume stop`   *)
(* halts the daemon and signs a stop manifest (inbound/).  Both upload the  *)
(* manifest and truncate HEAD to an empty body anchored at it.              *)
(*                                                                         *)
(* A host that is lost leaves the bucket: force-claim materialises the     *)
(* live set of HEAD over the manifest HEAD is anchored at.                  *)
(***************************************************************************)
EXTENDS Integers, Sequences, FiniteSets, FiniteSetsExt

CONSTANTS
    Lbas,       \* block addresses
    MaxUlid,    \* ULIDs the mint may hand out
    Budgets     \* how often each step of Rationed may happen: one is drawn at Init

\* The steps a behaviour may take a bounded number of times.
Rationed ==
    {"write",     \* guest writes
     "check",     \* ticks on which gc_interval has elapsed
     "fail",      \* store calls and volume IPCs that fail
     "crash",     \* restarts of the coordinator
     "reap",      \* reaper passes that find expired edges
     "fold",      \* close passes that rewrite the sealed generation
     "sweep",     \* reaps of the open generation that unlink something
     "snapshot",  \* `volume snapshot`
     "stop",      \* `volume stop`
     "start",     \* `volume start`
     "late"}      \* manifest uploads that fail and are left to a later drain

ASSUME BudgetsAreNaturals ==
    /\ MaxUlid \in Nat
    /\ Budgets # {} /\ IsFiniteSet(Budgets)
    /\ \A b \in Budgets : b \in [Rationed -> Nat]

MaxWrites == Max({b["write"] : b \in Budgets})

Ulids  == 1..MaxUlid
Writes == 1..MaxWrites
Edges  == Ulids \X Ulids      \* <<input, output>>

VARIABLES
    \* ---- the volume's disk ----
    log,      \* the guest's writes in order
    wal,      \* writes in the open WAL
    segs,     \* every segment ever written, by ULID
    open,     \* pending/open/
    upload,   \* pending/upload/
    index,    \* index/*.idx: segments confirmed in the bucket
    plan,     \* gc/<ulid>.plan or the bare gc/<ulid>
    last,     \* the newest ULID minted
    snaps,    \* snapshots/: signed manifests, and whether the sentinel is there
    power,    \* "up" iff the volume's daemon runs
    \* ---- the bucket ----
    objects,  \* by_id/<vol>/segments/
    head,     \* by_id/<vol>/HEAD; EmptyHead stands for no object
    manifests,\* by_id/<vol>/snapshots/<ulid>.manifest and <ulid>-stop.manifest
    latest,   \* snapshots/LATEST, 0 for none
    \* ---- the coordinator's memory (GcCycleOrchestrator) ----
    scratch,  \* tick_added and tick_superseded
    barrier,  \* "open" iff last_flush_seq > last_plan_pass_seq
    reconcile,\* reconcile_edges
    cache,    \* head_cache: no body, or the last one read or PUT
    tick,     \* where run_tick stands, and what this tick has sampled
    budget    \* how often each rationed step may still happen

seals  == <<snaps, power, manifests, latest>>
disk   == <<log, wal, segs, open, upload, index, plan, last, seals>>
bucket == <<objects, head>>
memory == <<scratch, barrier, reconcile, cache>>
vars   == <<disk, bucket, memory, tick, budget>>

Segments == [recs : SUBSET Writes, inputs : SUBSET Ulids]
Heads    == [anchor : 0..MaxUlid, added : SUBSET Ulids,
             superseded : SUBSET Edges, tombstoned : SUBSET Ulids]
Manifests == [id : Ulids, kind : {"user", "stop"}, segs : SUBSET Ulids]
Plans    == [stage : {"none", "plan", "bare"}, out : 0..MaxUlid,
             inputs : SUBSET Ulids]
Pcs      == {"idle", "volume", "sweep", "handoff", "finalize", "prepare", "drain",
             "pass", "publish", "put", "close", "sign", "halt", "seal", "upload",
             "truncate"}
Jobs     == {"tick", "snapshot", "stop"}   \* what holds the snapshot lock
Ticks    == [pc : Pcs, job : Jobs, due : SUBSET {"cut", "gc"},
             bucket : 0..MaxUlid,
             drain : {"ok", "failed", "closed", "signed"}, draft : Heads]

EmptyAt(anchor) == [anchor |-> anchor, added |-> {}, superseded |-> {},
                    tombstoned |-> {}]
EmptyHead == EmptyAt(0)
NoPlan    == [stage |-> "none", out |-> 0, inputs |-> {}]
NoScratch == [added |-> {}, superseded |-> {}]
Idle      == [pc |-> "idle", job |-> "tick", due |-> {}, bucket |-> 0,
              drain |-> "ok", draft |-> EmptyHead]

SpendAll(B) == /\ \A b \in B : budget[b] > 0
               /\ budget' = [b \in Rationed |-> budget[b] - IF b \in B THEN 1 ELSE 0]
Spend(b) == SpendAll({b})

\* An IPC to the volume fails of itself, or because the daemon is down.
IpcFails == IF power = "up" THEN Spend("fail") ELSE UNCHANGED budget

InTick == tick.job = "tick"

Goto(pc) == tick' = [tick EXCEPT !.pc = pc]

-----------------------------------------------------------------------------
(* Liveness of a write, and the image a set of segments gives.             *)

\* The newest version of block l: the claim the volume's LBA map holds.
Newest(l) == Max({n \in DOMAIN log : log[n] = l} \cup {0})

\* Mutant: an entry is carried whatever the map says of its block.
LiveInLoose(U) == UNION {segs[u].recs : u \in U}

\* The entries of U whose segment is the block's current claimant, as
\* classify_entry and load_pass_state decide it: pending and WAL included.
LiveIn(U) == {n \in UNION {segs[u].recs : u \in U} : n = Newest(log[n])}

\* Rebuild over a set of segments: the highest claimant wins the block, and
\* within a segment its last entry does.
Resolve(U, l) ==
    LET claims == {u \in U : \E n \in segs[u].recs : log[n] = l}
    IN  IF claims = {} THEN 0
        ELSE Max({n \in segs[Max(claims)].recs : log[n] = l})

\* live_set: manifest \cup added - superseded.inputs - tombstoned.
LiveSet(M, h) == ((M \cup h.added) \ {e[1] : e \in h.superseded}) \ h.tombstoned

\* The segments a manifest of one of the kinds lists, {} without one.
Listed(u, kinds) ==
    UNION {m.segs : m \in {x \in manifests : x.id = u /\ x.kind \in kinds}}

\* re_own: the basis is LATEST's manifest, which the new fork pins.  HEAD, or
\* the newest seal when there is none, names the frontier; an anchor without
\* a manifest falls back to the basis.
Basis == Listed(latest, {"user"})

Anchor == IF head = EmptyHead THEN Max({m.id : m \in manifests} \cup {0}) ELSE head.anchor

Frontier ==
    LET kinds == {m.kind : m \in {x \in manifests : x.id = Anchor}}
    IN  IF Anchor > latest /\ kinds # {}
        THEN Listed(Anchor, IF "user" \in kinds THEN {"user"} ELSE {"stop"})
        ELSE Basis

\* The segments copied into the new fork, over what it inherits.
Delta == LiveSet(Frontier, head) \ Basis

\* The block a force-claim of the fork would serve.
Recovered(l) ==
    LET own == Delta \cap objects
    IN  IF \E u \in own : \E n \in segs[u].recs : log[n] = l
        THEN Resolve(own, l)
        ELSE Resolve(Basis \cap objects, l)

-----------------------------------------------------------------------------
(* The volume.                                                             *)

Write(l) ==
    /\ power = "up"
    /\ Spend("write")
    /\ log' = Append(log, l)
    /\ wal' = wal \cup {Len(log) + 1}
    /\ UNCHANGED <<seals, segs, open, upload, index, plan, last, bucket, memory,
                   tick>>

AddSegment(u, recs, inputs) ==
    segs' = [v \in DOMAIN segs \cup {u} |->
                IF v = u THEN [recs |-> recs, inputs |-> inputs] ELSE segs[v]]

\* A WAL flush as the segment u: a promote of the whole WAL into the open
\* generation, nothing when the WAL is empty.
FlushAs(u) ==
    IF wal = {}
    THEN UNCHANGED <<wal, segs, open>>
    ELSE /\ AddSegment(u, wal, {})
         /\ open' = open \cup {u}
         /\ wal' = {}

\* A flush the volume starts by itself, at FLUSH_THRESHOLD.
FlushThreshold ==
    /\ power = "up"
    /\ wal # {}
    /\ last < MaxUlid
    /\ FlushAs(last + 1)
    /\ last' = last + 1
    /\ UNCHANGED <<seals, log, upload, index, plan, bucket, memory, tick, budget>>

\* The volume materialises a staged plan as gc/<out> (apply_gc_handoffs, from
\* the idle arm).  A write that died since the pass keeps its entry, below
\* the ULID of its killer.
ApplyPlan ==
    /\ power = "up"
    /\ plan.stage = "plan"
    /\ plan' = [plan EXCEPT !.stage = "bare"]
    /\ UNCHANGED <<seals, log, wal, segs, open, upload, index, last, bucket, memory,
                   tick, budget>>

-----------------------------------------------------------------------------
(* run_tick: sampling, flush and reap of the open generation.              *)

StartTick(due) ==
    /\ tick.pc = "idle"
    /\ IF "gc" \in due THEN Spend("check") ELSE UNCHANGED budget
    /\ tick' = [Idle EXCEPT !.pc = "volume", !.due = due]
    /\ UNCHANGED <<disk, bucket, memory>>

\* Mutant: a due cut asks for no flush of its own.
FlushDueHeld == barrier = "held" \/ ~InTick

\* flush_due: a cut is due, or a pass holds its edges for a flush.  A seal
\* always flushes.
FlushDue == "cut" \in tick.due \/ barrier = "held" \/ ~InTick

Unsent == {s \in snaps : s.sent = "no"}

\* drain_pending first uploads the manifests an earlier call left behind.
DrainPc == IF Unsent = {} THEN "drain" ELSE "upload"

\* run_volume_compactions: promote_wal when one is due.  Its reply confirms
\* the flush, an empty WAL included, and opens the tick's barrier.
PromoteWal ==
    /\ tick.pc = "volume"
    /\ IF FlushDue
       THEN /\ power = "up"
            /\ wal # {} => last < MaxUlid
            /\ FlushAs(last + 1)
            /\ last' = IF wal = {} THEN last ELSE last + 1
            /\ barrier' = IF InTick THEN "open" ELSE barrier
       ELSE UNCHANGED <<wal, segs, open, last, barrier>>
    /\ Goto(IF InTick THEN "sweep" ELSE DrainPc)
    /\ UNCHANGED <<seals, log, upload, index, plan, bucket, scratch, reconcile, cache,
                   budget>>

\* promote_wal fails or times out: the tick goes on without the flush, a seal
\* gives up.
PromoteWalFails ==
    /\ tick.pc = "volume"
    /\ FlushDue
    /\ IpcFails
    /\ IF InTick THEN Goto("sweep") ELSE tick' = Idle
    /\ UNCHANGED <<disk, bucket, memory>>

AfterSweep == IF "gc" \in tick.due THEN "handoff" ELSE DrainPc

\* handle_reap: the open segments no claim names (sweep_unreachable) leave
\* the maps and then the directory.  Every pass that would unlink something
\* spends from the budget.
Unreachable == {u \in open : LiveIn({u}) = {}}

Sweep ==
    /\ tick.pc = "sweep"
    /\ \/ /\ Unreachable # {}
          /\ power = "up"
          /\ Spend("sweep")
          /\ open' = open \ Unreachable
       \/ /\ Unreachable = {} \/ budget["sweep"] = 0 \/ power = "down"
          /\ UNCHANGED <<open, budget>>
    /\ Goto(AfterSweep)
    /\ UNCHANGED <<seals, log, wal, segs, upload, index, plan, last, bucket, memory>>

-----------------------------------------------------------------------------
(* GC: finishing handoffs, the checkpoint, the pass.                       *)

\* What the promote IPC of a bare output does to index/: an output with
\* entries gets its idx and each consumed input loses its own.
Promoted ==
    (index \ plan.inputs) \cup (IF segs[plan.out].recs = {} THEN {} ELSE {plan.out})

Uploaded == IF segs[plan.out].recs = {} THEN {} ELSE {plan.out}

AfterHandoff ==
    CASE tick.job = "tick"     -> "prepare"
      [] tick.job = "snapshot" -> "sign"
      [] tick.job = "stop"     -> "halt"

\* process_one, first half: PUT the output (unless it is empty), promote.
HandoffPromote ==
    /\ tick.pc = "handoff"
    /\ power = "up"
    /\ plan.stage = "bare"
    /\ objects' = objects \cup Uploaded
    /\ index' = Promoted
    /\ Goto("finalize")
    /\ UNCHANGED <<seals, log, wal, segs, open, upload, plan, last, head, memory, budget>>

\* process_one, second half: finalize deletes gc/<out>; only then does
\* run_handoff_cleanup record the output and its edges.  A seal drops them.
HandoffFinalize ==
    /\ tick.pc = "finalize"
    /\ power = "up"
    /\ plan' = NoPlan
    /\ scratch' = IF InTick
                  THEN [added |-> scratch.added \cup Uploaded,
                        superseded |-> scratch.superseded
                                         \cup (plan.inputs \X {plan.out})]
                  ELSE scratch
    /\ Goto(AfterHandoff)
    /\ UNCHANGED <<seals, log, wal, segs, open, upload, index, last, bucket, barrier,
                   reconcile, cache, budget>>

\* The PUT lands and the promote or the finalize does not: the bare file stays
\* for the next cleanup.  A failed PUT makes a seal give up.
HandoffDefers ==
    /\ tick.pc \in {"handoff", "finalize"}
    /\ plan.stage = "bare"
    /\ IpcFails
    /\ \/ /\ UNCHANGED objects
          /\ IF InTick THEN Goto(AfterHandoff) ELSE tick' = Idle
       \/ /\ objects' = objects \cup Uploaded
          /\ Goto(AfterHandoff)
    /\ UNCHANGED <<disk, head, memory>>

\* The volume promotes or finalizes the output and the reply is lost: nothing
\* is recorded, and after a finalize nothing is left to try again.
HandoffUnheard ==
    /\ power = "up"
    /\ plan.stage = "bare"
    /\ Spend("fail")
    /\ \/ /\ tick.pc = "handoff"
          /\ objects' = objects \cup Uploaded
          /\ index' = Promoted
          /\ UNCHANGED plan
       \/ /\ tick.pc = "finalize"
          /\ plan' = NoPlan
          /\ UNCHANGED <<objects, index>>
    /\ Goto(AfterHandoff)
    /\ UNCHANGED <<seals, log, wal, segs, open, upload, last, head, memory>>

NoHandoff ==
    /\ tick.pc = "handoff"
    /\ plan.stage = "none" \/ (plan.stage = "plan" /\ InTick)
    /\ Goto(AfterHandoff)
    /\ UNCHANGED <<disk, bucket, memory, budget>>

\* A seal has the volume apply a staged plan first (ApplyPlan then takes the
\* step), and carries on when the IPC fails.
ApplyRefused ==
    /\ tick.pc = "handoff"
    /\ ~InTick
    /\ plan.stage = "plan"
    /\ Spend("fail")
    /\ Goto(AfterHandoff)
    /\ UNCHANGED <<disk, bucket, memory>>

\* prepare_gc_pass: gc_checkpoint mints the bucket's ULID and then the
\* flush's, and flushes; staged handoffs apply.
PrepareGcPass ==
    /\ tick.pc = "prepare"
    /\ power = "up"
    /\ last + 2 <= MaxUlid
    /\ FlushAs(last + 2)
    /\ last' = last + 2
    /\ plan' = IF plan.stage = "plan" THEN [plan EXCEPT !.stage = "bare"]
               ELSE plan
    /\ tick' = [tick EXCEPT !.pc = DrainPc, !.bucket = last + 1]
    /\ UNCHANGED <<seals, log, upload, index, bucket, memory, budget>>

\* gc_checkpoint fails, or the checkpoint flushes and apply_gc_handoffs gives
\* no reply or the committed tiers diverge: no pass this tick.
PrepareFails ==
    /\ tick.pc = "prepare"
    /\ IpcFails
    /\ \/ UNCHANGED <<wal, segs, open, last>>
       \/ /\ power = "up"
          /\ last + 2 <= MaxUlid
          /\ FlushAs(last + 2)
          /\ last' = last + 2
    /\ Goto(DrainPc)
    /\ UNCHANGED <<seals, log, upload, index, plan, bucket, memory>>

\* The snapshot floor: the newest local user manifest (latest_snapshot).
Floor == Max({s.id : s \in {x \in snaps : x.kind = "user"}} \cup {0})

Beyond(u, U) == {v \in U : v > u}

\* gc_fork over the inputs U, all above the snapshot floor: each entry live in the pass's view, which holds
\* pending and the live WAL, goes to the output.  A plan is worth emitting
\* when an input holds a dead entry or inputs are packed together.
Compactible(U) ==
    /\ U # {}
    /\ Cardinality(U) > 1 \/ LiveIn(U) # UNION {segs[u].recs : u \in U}

GcPass(U) ==
    /\ tick.pc = "pass"
    /\ plan.stage = "none"
    /\ U \subseteq Beyond(Floor, index)
    /\ Compactible(U)
    /\ AddSegment(tick.bucket, LiveIn(U), U)
    /\ plan' = [stage |-> "plan", out |-> tick.bucket, inputs |-> U]
    /\ barrier' = "held"
    /\ Goto("publish")
    /\ UNCHANGED <<seals, log, wal, open, upload, index, last, bucket, scratch,
                   reconcile, cache, budget>>

\* A pass that errors counts as one that emitted plans (one that staged its
\* plan before the error is a GcPass).
GcPassFails ==
    /\ tick.pc = "pass"
    /\ Spend("fail")
    /\ barrier' = "held"
    /\ Goto("publish")
    /\ UNCHANGED <<disk, bucket, scratch, reconcile, cache>>

\* No candidates, or a handoff still outstanding.
GcPassIdle ==
    /\ tick.pc = "pass"
    /\ Goto("publish")
    /\ UNCHANGED <<disk, bucket, memory, budget>>

-----------------------------------------------------------------------------
(* run_drain / drain_pending: the upload generation, oldest ULID first.     *)

\* A seal drains the upload generation, closes the open one into its place
\* and drains again.
AfterDrain(drain) ==
    IF InTick
    THEN IF drain = "ok" /\ tick.bucket # 0 THEN "pass" ELSE "publish"
    ELSE IF tick.drain = "closed" THEN "handoff" ELSE "close"

DrainOne ==
    /\ tick.pc = "drain"
    /\ power = "up"
    /\ upload # {}
    /\ LET u == Min(upload)
       IN  /\ objects' = objects \cup {u}
           /\ index' = index \cup {u}
           /\ upload' = upload \ {u}
           /\ scratch' = IF InTick THEN [scratch EXCEPT !.added = @ \cup {u}]
                         ELSE scratch
    /\ UNCHANGED <<seals, log, wal, segs, open, plan, last, head, barrier, reconcile,
                   cache, tick, budget>>

\* The PUT fails, or it lands and the promote IPC does not, or the volume
\* promotes the segment and the reply is lost: the drain halts without the
\* segment in its scratch, and a seal gives up.
DrainFails ==
    /\ tick.pc = "drain"
    /\ upload # {}
    /\ IpcFails
    /\ \/ UNCHANGED <<objects, index, upload>>
       \/ /\ objects' = objects \cup {Min(upload)}
          /\ UNCHANGED <<index, upload>>
       \/ /\ power = "up"
          /\ objects' = objects \cup {Min(upload)}
          /\ index' = index \cup {Min(upload)}
          /\ upload' = upload \ {Min(upload)}
    /\ tick' = IF InTick
               THEN [tick EXCEPT !.pc = AfterDrain("failed"), !.drain = "failed"]
               ELSE Idle
    /\ UNCHANGED <<seals, log, wal, segs, open, plan, last, head, memory>>

DrainDone ==
    /\ tick.pc = "drain"
    /\ upload = {}
    /\ Goto(AfterDrain("ok"))
    /\ UNCHANGED <<disk, bucket, memory, budget>>

-----------------------------------------------------------------------------
(* publish_head_delta.                                                     *)

\* Mutant: the table of an output still staged in gc/ counts.
TableEdgesStaged(anchor) ==
    {e \in Edges : e[2] \in (index \cup {plan.out}) \cap DOMAIN segs /\ e[1] \in segs[e[2]].inputs}

\* The edges the signed inputs tables of the confirmed segments beyond the
\* anchor record (confirmed_edges); a close pass signs a table into its
\* outputs too.
TableEdges(anchor) ==
    {e \in Edges : e[2] \in Beyond(anchor, index) /\ e[1] \in segs[e[2]].inputs}

Inputs(E) == {e[1] : e \in E}

\* The whole body from the owner's disk, over its newest user manifest, its
\* edges behind the barrier.
Regenerated ==
    [anchor     |-> Floor,
     added      |-> Beyond(Floor, index) \cup Inputs(TableEdges(Floor)),
     superseded |-> IF barrier = "open" THEN TableEdges(Floor) ELSE {},
     tombstoned |-> {}]

IsEmpty(h) == h = EmptyAt(h.anchor)

\* An empty body is what a fresh or sealed volume has: all that is confirmed
\* beyond its anchor is in the scratch, and no edge is in hand.
EmptyHeadIsLegitimate ==
    scratch.superseded = {} /\ Beyond(head.anchor, index) \subseteq scratch.added

\* The body a publish starts from, and whether it replaces a lost one: a body
\* read from S3 is trusted unless its emptiness lost committed entries.
Base(h, repaired) == [body |-> h, repaired |-> repaired]

Repair == Base(Regenerated, IF IsEmpty(Regenerated) THEN "no" ELSE "yes")

Seed == IF ~IsEmpty(head) \/ EmptyHeadIsLegitimate THEN Base(head, "no") ELSE Repair

\* The cached body if there is one, else a GET's.
Bases == IF cache # {} THEN {Base(h, "no") : h \in cache} ELSE {Seed}

HasScratch == scratch # NoScratch

\* The gate of a publish: cut_interval elapsed and the upload generation
\* empty (cut_due), and a complete drain this tick.
CutHolds == "cut" \in tick.due /\ upload = {} /\ tick.drain = "ok"

\* Mutant: the edge goes and the input stays in added, without a tombstone.
ApplyReapUntombed(h, R) == [h EXCEPT !.superseded = {e \in @ : e[1] \notin R}]

\* apply_reap.
ApplyReap(h, R) ==
    [h EXCEPT !.added = @ \ R,
              !.superseded = {e \in @ : e[1] \notin R},
              !.tombstoned = @ \cup R]

\* The edges missing from h that the reconcile folds back in.
MissingFrom(h) ==
    {e \in TableEdges(h.anchor) : e[1] \notin h.tombstoned \cup Inputs(h.superseded)}

\* Mutant: the tick's own delta is published as the body.
FoldDelta(h, edges) == [h EXCEPT !.added = scratch.added, !.superseded = edges]

\* The fold of one cut into h: the segments confirmed beyond the anchor, the
\* reconcile's edges, the scratch's edges.  An edge whose output a seal left
\* below the anchor is dropped.  Below the barrier an edge only keeps its
\* input in added.
Fold(h, edges) ==
    LET confirmed == h.added \cup Beyond(h.anchor, index)
    IN  IF barrier = "open"
        THEN [h EXCEPT !.added = confirmed,
                       !.superseded = @ \cup {e \in edges : e[2] > h.anchor}]
        ELSE [h EXCEPT !.added = confirmed
                  \cup (Beyond(h.anchor, Inputs(edges))
                            \ (h.tombstoned \cup Inputs(h.superseded)))]

CutEdges(h) ==
    scratch.superseded \cup (IF reconcile = "due" THEN MissingFrom(h) ELSE {})

ClearedScratch ==
    [added |-> {}, superseded |-> IF barrier = "open" THEN {} ELSE scratch.superseded]

\* Nothing changed since the last cut, and the reaper is not due: the cut
\* lands without a PUT.
PublishNothing ==
    /\ tick.pc = "publish"
    /\ ~HasScratch
    /\ Goto(IF CutHolds THEN "close" ELSE "idle")
    /\ UNCHANGED <<disk, bucket, memory, budget>>

PublishHeld ==
    /\ tick.pc = "publish"
    /\ ~CutHolds
    /\ Goto("idle")
    /\ UNCHANGED <<disk, bucket, memory, budget>>

\* The body of the cut from the base b: R is what the reaper takes, of which
\* the DELETEs of D succeed, before HEAD says so.  The reconcile flag is
\* lowered as the edges are folded, ahead of the PUT.  An unchanged body
\* lands at once.
PublishFrom(b, R, D) ==
    LET reaped == ApplyReap(b.body, R)
        draft  == Fold(reaped, CutEdges(reaped))
    IN  /\ objects' = objects \ D
        /\ reconcile' = IF barrier = "open" THEN "done" ELSE reconcile
        /\ IF draft = b.body /\ b.repaired = "no"
           THEN /\ scratch' = ClearedScratch
                /\ cache' = {draft}
                /\ Goto("close")
           ELSE /\ cache' = {}
                /\ UNCHANGED scratch
                /\ tick' = [tick EXCEPT !.pc = "put", !.draft = draft]

\* The reaper is not due, or has nothing to take.
Publish ==
    /\ tick.pc = "publish"
    /\ CutHolds
    /\ \E b \in Bases : PublishFrom(b, {}, {})
    /\ UNCHANGED <<disk, head, barrier, budget>>

\* Edges past retention whose input is not in the local committed tier; a
\* regenerated body restarts the clocks of its edges.
Expired(b) == IF b.repaired = "no" THEN Inputs(b.body.superseded) \ index ELSE {}

\* reap_expired takes some of them in this publish.
PublishReaping ==
    /\ tick.pc = "publish"
    /\ CutHolds
    /\ Spend("reap")
    /\ \E b \in Bases :
        \E R \in SUBSET Expired(b) : R # {} /\ PublishFrom(b, R, R)
    /\ UNCHANGED <<disk, head, barrier>>

\* ... and some of the DELETEs fail.
PublishReapMisses ==
    /\ tick.pc = "publish"
    /\ CutHolds
    /\ SpendAll({"reap", "fail"})
    /\ \E b \in Bases :
        \E R \in SUBSET Expired(b) :
            \E D \in SUBSET R : D # R /\ PublishFrom(b, R, D)
    /\ UNCHANGED <<disk, head, barrier>>

\* The GET fails: the body is regenerated.
PublishUnread ==
    /\ tick.pc = "publish"
    /\ CutHolds
    /\ cache = {}
    /\ Spend("fail")
    /\ PublishFrom(Repair, {}, {})
    /\ UNCHANGED <<disk, head, barrier>>

PutHead ==
    /\ tick.pc = "put"
    /\ head' = tick.draft
    /\ cache' = {tick.draft}
    /\ scratch' = ClearedScratch
    /\ tick' = [tick EXCEPT !.pc = "close", !.draft = EmptyHead]
    /\ UNCHANGED <<disk, objects, barrier, reconcile, budget>>

\* The PUT reports an error, having landed or not.
PutHeadFails ==
    /\ tick.pc = "put"
    /\ Spend("fail")
    /\ \/ UNCHANGED head
       \/ head' = tick.draft
    /\ tick' = Idle
    /\ UNCHANGED <<disk, objects, memory>>

-----------------------------------------------------------------------------
(* close_generation: after a cut that landed.                              *)

\* The tick ends here; a seal drains the generation it closed.
AfterClose == IF InTick THEN Idle ELSE [tick EXCEPT !.pc = DrainPc, !.drain = "closed"]

\* prepare_close_generation rotates pending/open/ into pending/upload/.
CloseGeneration ==
    /\ tick.pc = "close"
    /\ power = "up"
    /\ upload' = upload \cup open
    /\ open' = {}
    /\ tick' = AfterClose
    /\ UNCHANGED <<seals, log, wal, segs, index, plan, last, bucket, memory, budget>>

\* Mutant: the close pass confirms its output before the upload.
CloseAndFoldConfirmed ==
    /\ tick.pc = "close"
    /\ Compactible(open)
    /\ last < MaxUlid
    /\ Spend("fold")
    /\ AddSegment(last + 1, LiveIn(open), open)
    /\ index' = index \cup {last + 1}
    /\ open' = {}
    /\ last' = last + 1
    /\ tick' = Idle
    /\ UNCHANGED <<seals, log, wal, upload, plan, bucket, memory>>

\* ... and the close pass packs the sealed generation into one output that
\* carries the entries live in the volume's map at the rotate.
CloseAndFold ==
    /\ tick.pc = "close"
    /\ power = "up"
    /\ Compactible(open)
    /\ last < MaxUlid
    /\ Spend("fold")
    /\ AddSegment(last + 1, LiveIn(open), open)
    /\ upload' = IF LiveIn(open) = {} THEN {} ELSE {last + 1}
    /\ open' = {}
    /\ last' = last + 1
    /\ tick' = AfterClose
    /\ UNCHANGED <<seals, log, wal, index, plan, bucket, memory>>

\* The IPC fails before the rotate.
CloseFails ==
    /\ tick.pc = "close"
    /\ IpcFails
    /\ tick' = Idle
    /\ UNCHANGED <<disk, bucket, memory>>

-----------------------------------------------------------------------------
(* Seals: `volume snapshot`, `volume stop`, and the `start` after it.       *)

\* snapshot_volume_kind and stop_volume_op take the snapshot lock and drain.
\* On a halted volume `stop` only redoes the seal, and wants an empty WAL.
BeginSeal(job) ==
    /\ tick.pc = "idle"
    /\ job = "snapshot" => power = "up"
    /\ power = "down" => wal = {}
    /\ Spend(job)
    /\ tick' = [Idle EXCEPT !.job = job,
                            !.pc = IF power = "up" THEN "volume" ELSE "seal"]
    /\ UNCHANGED <<disk, bucket, memory>>

\* pick_snapshot_ulid: the newest confirmed segment, or a fresh ULID.
SnapshotUlid == IF index = {} THEN last + 1 ELSE Max(index)

SignedAs(u, kind, U) == [id |-> u, kind |-> kind, segs |-> U, sent |-> "no"]

HasLocal(u, kinds) == \E s \in snaps : s.id = u /\ s.kind \in kinds

Uploading == tick' = [tick EXCEPT !.pc = "upload", !.drain = "signed"]

\* The volume signs a user manifest over index/, without the segments that
\* hold nothing live in its map (live_index_segments): pending and the WAL
\* included.  A manifest of the same ULID is replaced under its sentinel.
SignSnapshot ==
    /\ tick.pc = "sign"
    /\ power = "up"
    /\ SnapshotUlid <= MaxUlid
    /\ LET u    == SnapshotUlid
           live == {v \in index : LiveIn({v}) # {}}
       IN  /\ snaps' = IF HasLocal(u, {"user"})
                       THEN {IF s.id = u /\ s.kind = "user" THEN [s EXCEPT !.segs = live]
                             ELSE s : s \in snaps}
                       ELSE snaps \cup {SignedAs(u, "user", live)}
           /\ last' = Max({last, u})
    /\ Uploading
    /\ UNCHANGED <<log, wal, segs, open, upload, index, plan, power, manifests,
                   latest, bucket, memory, budget>>

\* The sign IPC, the shutdown of a stop, or its seal fails (as it does on a WAL
\* written by a daemon that was started again): the verb returns an error, and
\* a stop whose daemon is already down leaves it down.
SealRefused ==
    /\ tick.pc \in {"sign", "halt", "seal"}
    /\ IF tick.pc = "seal" /\ wal # {} THEN UNCHANGED budget ELSE Spend("fail")
    /\ tick' = Idle
    /\ UNCHANGED <<disk, bucket, memory>>

\* stop: the daemon flushes its WAL into the open generation and exits.
Halt ==
    /\ tick.pc = "halt"
    /\ wal # {} => last < MaxUlid
    /\ FlushAs(last + 1)
    /\ last' = IF wal = {} THEN last ELSE last + 1
    /\ power' = "down"
    /\ Goto("seal")
    /\ UNCHANGED <<log, upload, index, plan, snaps, manifests, latest, bucket,
                   memory, budget>>

\* ... or exits without the flush, and the sweep refuses the WAL it left.
HaltUnflushed ==
    /\ tick.pc = "halt"
    /\ wal # {}
    /\ Spend("fail")
    /\ power' = "down"
    /\ tick' = Idle
    /\ UNCHANGED <<log, wal, segs, open, upload, index, plan, last, snaps,
                   manifests, latest, bucket, memory>>

SealStop(U) ==
    /\ tick.pc = "seal"
    /\ wal = {}
    /\ SnapshotUlid <= MaxUlid
    /\ plan' = NoPlan
    /\ snaps' = snaps \cup IF HasLocal(SnapshotUlid, {"user", "stop"}) THEN {}
                           ELSE {SignedAs(SnapshotUlid, "stop", U)}
    /\ last' = Max({last, SnapshotUlid})
    /\ Uploading
    /\ UNCHANGED <<log, wal, segs, open, upload, index, power, manifests, latest,
                   bucket, memory, budget>>

\* Mutant: the stop manifest lists what the sweep drained.
SealStoppedSwept == SealStop({})

\* sweep_and_seal_stopped: the sweep looks for segments directly in pending/,
\* where there are none; gc/ is emptied; the stop manifest lists index/.  A
\* local manifest of that ULID stands in for it.
SealStopped == SealStop(index)

AfterUpload == IF tick.drain = "signed" THEN Idle ELSE [tick EXCEPT !.pc = "drain"]

AsManifest(s) == [id |-> s.id, kind |-> s.kind, segs |-> s.segs]

\* upload_snapshot_metadata: PUT each manifest without a sentinel and bump
\* LATEST for a user one.  Those of F fail, and so does the bump of those of L,
\* which is not tried again; either is only logged.
UploadManifests(F, L) ==
    LET sent == Unsent \ F
        users == {s.id : s \in {x \in sent \ L : x.kind = "user"}}
    IN  /\ tick.pc = "upload"
        /\ IF F \cup L = {} THEN UNCHANGED budget ELSE Spend("late")
        /\ manifests' = manifests \cup {AsManifest(s) : s \in sent}
        /\ snaps' = (snaps \ sent) \cup {[s EXCEPT !.sent = "yes"] : s \in sent}
        /\ latest' = Max(users \cup {latest})
        /\ tick' = IF sent = {} THEN AfterUpload
                   ELSE [tick EXCEPT !.pc = "truncate",
                                     !.draft = EmptyAt(Max({s.id : s \in sent}))]
        /\ UNCHANGED <<log, wal, segs, open, upload, index, plan, last, power,
                       bucket, memory>>

\* HEAD is overwritten with the empty body at the newest manifest just sent.
TruncateHead ==
    /\ tick.pc = "truncate"
    /\ head' = tick.draft
    /\ cache' = {tick.draft}
    /\ tick' = [AfterUpload EXCEPT !.draft = EmptyHead]
    /\ UNCHANGED <<disk, objects, scratch, barrier, reconcile, budget>>

\* The PUT reports an error, having landed or not.
TruncateHeadFails ==
    /\ tick.pc = "truncate"
    /\ Spend("fail")
    /\ \/ UNCHANGED head
       \/ head' = tick.draft
    /\ cache' = {}
    /\ tick' = [AfterUpload EXCEPT !.draft = EmptyHead]
    /\ UNCHANGED <<disk, objects, scratch, barrier, reconcile>>

\* start_volume_op: the supervisor brings the daemon back.  It does not take
\* the snapshot lock, so a stop may still be sealing.
StartVolume ==
    /\ power = "down"
    /\ Spend("start")
    /\ power' = "up"
    /\ UNCHANGED <<log, wal, segs, open, upload, index, plan, last, snaps,
                   manifests, latest, bucket, memory, tick>>

\* notify_volume_ready_op: the stop manifests this fork sealed go, here and in
\* the bucket.
NotifyReady ==
    /\ power = "up"
    /\ LET stops == {s \in snaps : s.kind = "stop"}
       IN  /\ stops # {}
           /\ snaps' = snaps \ stops
           /\ manifests' = {m \in manifests :
                               ~(m.kind = "stop" /\ \E s \in stops : s.id = m.id)}
    /\ UNCHANGED <<log, wal, segs, open, upload, index, plan, last, power, latest,
                   bucket, memory, tick, budget>>

-----------------------------------------------------------------------------
\* The coordinator restarts: its memory is gone, the disk and the bucket stay.
Restart ==
    /\ Spend("crash")
    /\ scratch' = NoScratch
    /\ barrier' = "held"
    /\ reconcile' = "due"
    /\ cache' = {}
    /\ tick' = Idle
    /\ UNCHANGED <<disk, bucket>>

Init ==
    /\ log = <<>> /\ wal = {} /\ segs = [u \in {} |-> {}]
    /\ open = {} /\ upload = {} /\ index = {}
    /\ plan = NoPlan /\ last = 0
    /\ snaps = {} /\ power = "up" /\ manifests = {} /\ latest = 0
    /\ objects = {} /\ head = EmptyHead
    /\ scratch = NoScratch /\ barrier = "held" /\ reconcile = "due"
    /\ cache = {} /\ tick = Idle
    /\ budget \in Budgets

Tick ==
    \/ PromoteWal \/ PromoteWalFails \/ Sweep
    \/ HandoffPromote \/ HandoffFinalize \/ HandoffDefers \/ HandoffUnheard \/ NoHandoff
    \/ ApplyRefused
    \/ PrepareGcPass \/ PrepareFails
    \/ DrainOne \/ DrainFails \/ DrainDone
    \/ \E U \in SUBSET index : GcPass(U)
    \/ GcPassFails \/ GcPassIdle
    \/ PublishNothing \/ PublishHeld \/ Publish \/ PublishReaping
    \/ PublishReapMisses \/ PublishUnread \/ PutHead \/ PutHeadFails
    \/ CloseGeneration \/ CloseAndFold \/ CloseFails

Seal ==
    \/ \E job \in {"snapshot", "stop"} : BeginSeal(job)
    \/ SignSnapshot \/ SealRefused \/ Halt \/ HaltUnflushed \/ SealStopped
    \/ \E F \in SUBSET Unsent : \E L \in SUBSET (Unsent \ F) : UploadManifests(F, L)
    \/ TruncateHead \/ TruncateHeadFails \/ StartVolume \/ NotifyReady

Next ==
    \/ \E l \in Lbas : Write(l)
    \/ FlushThreshold
    \/ ApplyPlan
    \/ \E due \in SUBSET {"cut", "gc"} : StartTick(due)
    \/ Tick
    \/ Seal
    \/ Restart

Spec == Init /\ [][Next]_vars

\* A tick runs to its end.  The cut clock stays due until a cut lands and the
\* reaper's cadence until a publish runs, so both come round again.
CutTick == \E due \in SUBSET {"cut", "gc"} : "cut" \in due /\ StartTick(due)

Fairness == WF_vars(Tick) /\ SF_vars(CutTick) /\ SF_vars(Publish)

FairSpec == Spec /\ Fairness

-----------------------------------------------------------------------------
(* Properties.                                                             *)

\* Every field of the disk, the bucket and the coordinator holds a value of
\* its type, and each segment a directory, the index or the bucket names was
\* written.
TypeOK ==
    /\ log \in Seq(Lbas) /\ Len(log) <= MaxWrites
    /\ wal \subseteq DOMAIN log
    /\ DOMAIN segs \subseteq Ulids
    /\ \A u \in DOMAIN segs : segs[u] \in Segments
    /\ open \cup upload \cup index \cup objects \subseteq DOMAIN segs
    /\ plan \in Plans /\ last \in 0..MaxUlid
    /\ snaps \subseteq [id : Ulids, kind : {"user", "stop"}, segs : SUBSET Ulids,
                         sent : {"no", "yes"}]
    /\ manifests \subseteq Manifests /\ latest \in 0..MaxUlid
    /\ power \in {"up", "down"}
    /\ head \in Heads /\ cache \subseteq Heads /\ Cardinality(cache) <= 1
    /\ scratch \in [added : SUBSET Ulids, superseded : SUBSET Edges]
    /\ barrier \in {"held", "open"} /\ reconcile \in {"due", "done"}
    /\ tick \in Ticks
    /\ budget \in [Rationed -> Nat]

\* Block l after the first k writes.
After(k, l) == Max({n \in 1..k : log[n] = l} \cup {0})

\* HEAD is anchored at a manifest that is in the bucket, or at none.
Anchored == head.anchor \in {0} \cup {m.id : m \in manifests}

\* ... no older than LATEST, and no committed segment lies below the anchor
\* without being listed there.
AnchorHolds ==
    /\ Anchored /\ head.anchor >= latest
    /\ \A u \in open \cup upload \cup index : u > Anchor \/ u \in Frontier

\* HEAD is crash-consistent: what a force-claim would serve at any moment is
\* the image after some prefix of the guest's writes (durable-cut.md).  Said of
\* the states in which HEAD's anchor holds: a `start` removes the stop manifest
\* HEAD may still be anchored at (cleanup_stop_snapshots), and a stop that
\* finds index/ empty mints an anchor above the tail its halt left pending.
CutIsPrefix ==
    /\ TypeOK
    /\ AnchorHolds => \E k \in 0..Len(log) : \A l \in Lbas : Recovered(l) = After(k, l)

\* No step takes a recoverable block back to an older version, the removal of
\* a stop manifest at a `start` (and a HEAD left or put at a removed manifest)
\* apart: not a publish from a lost or unread HEAD, a failed PUT, a restart, a
\* half drain, nor the seal of a stop that a start overtakes.
NeverRegresses ==
    [][manifests \subseteq manifests' /\ Anchored'
           => \A l \in Lbas : Recovered(l)' >= Recovered(l)]_vars

\* Every segment of HEAD's live set is in the bucket, so that a force-claim,
\* which gives up on a missing one, can complete (force_claim.rs re_own).
LiveObjectsExist == Basis \cup Delta \subseteq objects

\* A reopen of the volume at any moment rebuilds the newest version of each
\* block: neither a GC handoff, a close pass nor a reap of the open
\* generation takes the only copy or puts an old one above a new one.
OnDisk == open \cup upload \cup index \cup (IF plan.stage = "bare" THEN {plan.out} ELSE {})

RebuildIsExact ==
    \A l \in Lbas :
        Newest(l) = IF \E n \in wal : log[n] = l
                    THEN Max({n \in wal : log[n] = l})
                    ELSE Resolve(OnDisk, l)

\* Once a quiet volume has drained, HEAD is anchored no lower than LATEST, and
\* it or its manifest names each confirmed segment that holds anything live, a
\* force-claim serves exactly what the guest last wrote: no edge of a cut and no seal takes a
\* segment whose claims are not published elsewhere.
SettledIsExact ==
    wal \cup open \cup upload = {} /\ plan.stage # "bare" /\ head.anchor >= latest
        /\ {u \in index : LiveIn({u}) # {}} \subseteq head.added \cup Frontier
        => \A l \in Lbas : Recovered(l) = Newest(l)

\* A write becomes recoverable: cuts go on after failed uploads, failed PUTs,
\* held edges and a restart that forgets which segments were drained.
EventuallyRecoverable ==
    \A n \in Writes :
        n <= Len(log) ~> n <= Len(log) /\ Recovered(log[n]) >= n
=============================================================================
