------------------------------ MODULE Takeover ------------------------------
(***************************************************************************)
(* A volume name changing hands between coordinators: create, stop, start, *)
(* release, claim and `claim --force` (inbound/mod.rs,                     *)
(* inbound/lifecycle.rs, claim.rs, force_claim.rs), the displaced owner's  *)
(* fence and rehome (gc_cycle.rs, rehome.rs), and the discovery and        *)
(* supervision of the forks on a host (daemon.rs, supervisor.rs), with     *)
(* failed jobs and restarts of a coordinator anywhere.                     *)
(*                                                                         *)
(* The mark_* operations are those of NameRecord, each taken as one step:  *)
(* Names shows what their read and conditional write come to.  Only the    *)
(* force-claim keeps the record it observed and writes later.              *)
(*                                                                         *)
(* Guest data is a set of write tokens.  A fork holds `own` tokens over    *)
(* the `base` it inherits through its provenance; a drain uploads the own  *)
(* tokens and lists them in HEAD, and a seal truncates HEAD onto a manifest *)
(* (that a cut is a prefix, and what a drain does in detail, is            *)
(* DurableCut's subject).                                                  *)
(***************************************************************************)
EXTENDS NameRecord, FiniteSetsExt, Sequences

CONSTANTS MaxFork,     \* bound: forks minted
          MaxWrite,    \* bound: guest writes
          MaxSnap,     \* bound: user snapshots
          MaxVerb,     \* bound: verbs given to each coordinator
          MaxFault     \* bound: failed jobs and store calls, restarts

ASSUME TakeoverBounds == MaxFork \in Nat /\ MaxWrite \in Nat /\ MaxSnap \in Nat
                            /\ MaxVerb \in Nat /\ MaxFault \in Nat

VARIABLES rec,         \* names/<name>
          journal,     \* events/<name>: the forks the events name, oldest first
          dir,         \* by_id/<fork> on its host
          link,        \* by_name/<name> on each host: a fork or None
          daemon,      \* forks with a serving process
          known,       \* forks the coordinator supervises
          task,        \* per fork: the drain task
          own,         \* per fork: the tokens in its local maps
          base,        \* per fork: the tokens its provenance parent resolves to
          head,        \* per fork: HEAD, the manifest it is anchored at and what it adds
          objs,        \* per fork: the tokens whose segments are under its prefix
          snaps,       \* per fork: published manifests, of snapshots and of stops
          job,         \* per coordinator: the verb it is running
          minted,      \* forks minted so far
          written,     \* tokens written so far
          faults,      \* faults so far
          owed         \* history: per fork, what its claim took over

bucket == <<rec, journal, base, head, objs, snaps>>
host   == <<dir, link, daemon, known, task, own>>
vars   == <<bucket, host, job, minted, written, faults, owed>>

-----------------------------------------------------------------------------
(***************************************************************************)
(* Names, forks and their state on a host.                                 *)
(***************************************************************************)

Forks == 1..MaxFork
Tokens == 1..MaxWrite

Main == 0
NoName == -1
VolNames == {Main} \cup Forks

\* The name fork f is rehomed under when it loses Main: <name>-<suffix>, the
\* suffix a hash of the fork.  A second rehome is out of bounds.
RehomeName(f) == f

NoMarker == -1
NoDir == [home |-> Nobody, claiming |-> FALSE, stopped |-> FALSE,
          marker |-> NoMarker, wal |-> FALSE, ran |-> FALSE, opened |-> FALSE,
          name |-> NoName]

\* is_parked: volume.released or volume.stopped is present.
Parked(f) == dir[f].marker # NoMarker \/ dir[f].stopped

\* VolumeLifecycle::from_dir
Shape(f) == CASE dir[f].marker # NoMarker -> "released"
              [] dir[f].marker = NoMarker /\ dir[f].stopped -> "stopped"
              [] dir[f].marker = NoMarker /\ ~dir[f].stopped /\ f \in daemon -> "running"
              [] OTHER -> "down"

NoTask == [name |-> NoName, pc |-> "none", snap |-> None]
NoJob  == [verb |-> "none", pc |-> "none", name |-> Main, fork |-> None,
           src |-> None, seen |-> NoRecord, snap |-> None, pulled |-> {},
           delta |-> {}, begun |-> 0]

\* No verb is running, and the operator may give another.
Idle(c) == job[c].verb = "none" /\ job[c].begun < MaxVerb
At(c, verb, pc) == job[c].verb = verb /\ job[c].pc = pc
Goto(c, pc) == job' = [job EXCEPT ![c].pc = pc]
Begin(c, q) == job' = [job EXCEPT ![c] = [q EXCEPT !.begun = job[c].begun + 1]]
Done(c) == job' = [job EXCEPT ![c] = [NoJob EXCEPT !.begun = job[c].begun]]

-----------------------------------------------------------------------------
(***************************************************************************)
(* Reading the bucket.                                                     *)
(***************************************************************************)

\* A fork's manifests are ordered by how much they cover, and a ULID names
\* one manifest of one fork.
SnapId(f, toks) == f * (MaxWrite + 2) + Cardinality(toks) + 1
Manifest(f, kind, toks) == [id |-> SnapId(f, toks), kind |-> kind, toks |-> toks]
OfKind(S, kind) == {s \in S : s.kind = kind}

\* latest_published_user_snapshot
LatestOf(S) == Max({None} \cup {s.id : s \in OfKind(S, "user")})
Latest(f) == LatestOf(snaps[f])

\* The tokens of snapshot `id` under fork f's prefix.
ListedIn(S, id) == UNION {s.toks : s \in {t \in S : t.id = id}}
Covered(f, id) == ListedIn(snaps[f], id)
Published(f, id) == \E s \in snaps[f] : s.id = id

\* What a fork is: what it inherits and what it holds itself.
Served(f) == base[f] \cup own[f]

\* The tokens of HEAD's cut when the manifests are S: what HEAD adds to the
\* manifest it is anchored at, or to LATEST when that manifest is missing.
HeadCut(f, S) ==
    head[f].added \cup IF \E s \in S : s.toks = head[f].anchor THEN head[f].anchor
                      ELSE ListedIn(S, LatestOf(S))

\* What the bucket yields of a fork.
Cut(f) == base[f] \cup HeadCut(f, snaps[f])

\* pending/: tokens no confirmed segment holds; index/: the others.
Pending(f) == own[f] \ objs[f]
Index(f) == own[f] \cap objs[f]

\* prior_bindings: the newest fork the journal names, other than f.
PriorBindings(f) == SelectSeq(journal, LAMBDA g : g # f)
LastOf(s) == s[Len(s)]
Log(n, f) == journal' = IF n # Main \/ (journal # <<>> /\ LastOf(journal) = f)
                          THEN journal ELSE Append(journal, f)

SetRecord(n, r) == rec' = [rec EXCEPT ![n] = r]

Upload(f) == objs' = [objs EXCEPT ![f] = @ \cup own[f]]

\* A local manifest of the same ULID stands in for a new one.
Standing(f, kind, toks) == \E s \in snaps[f] : s.toks = toks /\ s.kind \in {"user", kind}

\* Mutant: HEAD is truncated onto a stop manifest that was not sent.
SealUnsent(f, kind, toks) ==
    /\ head' = [head EXCEPT ![f] = [anchor |-> toks, added |-> {}]]
    /\ snaps' = IF kind = "stop" THEN snaps
                ELSE [snaps EXCEPT ![f] = @ \cup {Manifest(f, kind, toks)}]

\* Publish a manifest and truncate HEAD onto it.
Seal(f, kind, toks) ==
    IF Standing(f, kind, toks) THEN UNCHANGED <<head, snaps>>
    ELSE /\ head' = [head EXCEPT ![f] = [anchor |-> toks, added |-> {}]]
         /\ snaps' = [snaps EXCEPT ![f] = @ \cup {Manifest(f, kind, toks)}]

-----------------------------------------------------------------------------
(***************************************************************************)
(* Create, and the life of a fork on its host.                             *)
(***************************************************************************)

\* create_volume_op: the directory is discoverable before the record exists,
\* and volume.toml and the link come last.
CreateBegin(c) ==
    LET f == minted + 1 IN
    /\ Idle(c) /\ minted < MaxFork
    /\ CanCreate(rec[Main])
    /\ minted' = f
    /\ SetRecord(Main, MarkInitial(c, f))
    /\ Log(Main, f)
    /\ dir' = [dir EXCEPT ![f].home = c]
    /\ Begin(c, [NoJob EXCEPT !.verb = "create", !.pc = "named", !.fork = f])
    /\ UNCHANGED <<link, daemon, known, task, own, base, head, objs, snaps, written,
                   faults, owed>>

CreateEnd(c) ==
    LET f == job[c].fork IN
    /\ At(c, "create", "named")
    /\ dir' = [dir EXCEPT ![f].name = Main]
    /\ link' = [link EXCEPT ![c][Main] = f]
    /\ Done(c)
    /\ UNCHANGED <<bucket, daemon, known, task, own, minted, written, faults, owed>>

\* reconcile_marker: the record wins over the local markers, when it is ours
\* or released.  Which fork the record binds is not looked at.
Reconciled(f) ==
    LET d == dir[f]
        r == rec[d.name] IN
    IF d.name = NoName \/ ~Exists(r) \/ (r.state # "released" /\ r.owner # d.home) THEN d
    ELSE [d EXCEPT !.stopped = (r.state = "stopped"),
                   !.marker = IF r.state # "released" THEN NoMarker
                              ELSE IF @ # NoMarker THEN @ ELSE r.handoff]

\* The scan of by_id/ meets a new fork: reconcile its markers, then start its
\* drain task and its supervisor.  The task keeps the name it finds here.
Discover(f) ==
    /\ dir[f].home # Nobody /\ ~dir[f].claiming /\ f \notin known
    /\ dir' = [dir EXCEPT ![f] = Reconciled(f)]
    /\ known' = known \cup {f}
    /\ task' = [task EXCEPT ![f] = [NoTask EXCEPT !.name = dir[f].name, !.pc = "idle"]]
    /\ UNCHANGED <<bucket, link, daemon, own, job, minted, written, faults, owed>>

\* supervise: (re)spawn the daemon unless the fork is parked.  Without a
\* volume.toml the process exits at once.  It will tell the coordinator that
\* it has opened; the model keeps that where there is a stop manifest to delete.
Spawn(f) ==
    /\ f \in known /\ f \notin daemon
    /\ ~Parked(f) /\ dir[f].name # NoName
    /\ daemon' = daemon \cup {f}
    /\ dir' = [dir EXCEPT ![f].wal = TRUE, ![f].ran = TRUE,
                          ![f].opened = OfKind(snaps[f], "stop") # {}]
    /\ UNCHANGED <<bucket, link, known, task, own, job, minted, written, faults, owed>>

\* notify_volume_ready_op, after the daemon has opened: the stop manifests
\* this fork sealed are deleted.  What that takes out of the bucket nobody is
\* owed any longer.
Ready(f) ==
    LET kept == OfKind(snaps[f], "user")
        lost == HeadCut(f, snaps[f]) \ HeadCut(f, kept) IN
    /\ f \in daemon /\ dir[f].opened
    /\ dir' = [dir EXCEPT ![f].opened = FALSE]
    /\ snaps' = [snaps EXCEPT ![f] = kept]
    /\ owed' = [g \in Forks |-> owed[g] \ lost]
    /\ UNCHANGED <<rec, journal, base, head, objs, link, daemon, known, task, own, job,
                   minted, written, faults>>

GuestWrite(f) ==
    /\ f \in daemon /\ written < MaxWrite
    /\ written' = written + 1
    /\ own' = [own EXCEPT ![f] = @ \cup {written + 1}]
    /\ UNCHANGED <<bucket, dir, link, daemon, known, task, job, minted, faults, owed>>

-----------------------------------------------------------------------------
(***************************************************************************)
(* The tick: drain, unless the name is found bound to another fork.        *)
(***************************************************************************)

\* fence_if_displaced: an absent record, and a task that never learnt its
\* name, do not fence.
Displaced(f) == task[f].name # NoName /\ Exists(rec[task[f].name])
                   /\ rec[task[f].name].vol # f

\* With something pending the tick looks at the record first; a record it
\* cannot read does not fence either.
TickPass(f) ==
    /\ task[f].pc = "idle" /\ Pending(f) # {}
    /\ \/ ~Displaced(f) /\ UNCHANGED faults
       \/ Displaced(f) /\ faults < MaxFault /\ faults' = faults + 1
    /\ task' = [task EXCEPT ![f].pc = "checked"]
    /\ UNCHANGED <<bucket, dir, link, daemon, known, own, job, minted, written, owed>>

\* A stop holds the snapshot lock from its drain to its seal.
Locked(f) == \E c \in Coords : /\ job[c].verb = "stop" /\ job[c].fork = f
                                /\ job[c].pc \in {"park", "halt", "seal", "reseal"}

\* Confirmed, and in no cut yet: the cut was not due, or a stop drained them.
Unlisted(f) == Index(f) \ (head[f].anchor \cup head[f].added)

\* A drain lists what it confirms when the cut is due; what was confirmed by
\* others is found again after a restart.
TickDrain(f) ==
    /\ task[f].pc = "checked"
    /\ ~Locked(f) /\ f \in daemon
    /\ \E cut \in {{}, Pending(f), Pending(f) \cup Unlisted(f)} :
         head' = [head EXCEPT ![f].added = @ \cup cut]
    /\ Upload(f)
    /\ task' = [task EXCEPT ![f].pc = "idle"]
    /\ UNCHANGED <<rec, journal, base, snaps, dir, link, daemon, known, own, job,
                   minted, written, faults, owed>>

\* The lock is held, or no daemon confirms an upload.
TickSkip(f) ==
    /\ task[f].pc = "checked"
    /\ Locked(f) \/ f \notin daemon
    /\ task' = [task EXCEPT ![f].pc = "idle"]
    /\ UNCHANGED <<bucket, dir, link, daemon, known, own, job, minted, written, faults, owed>>

\* With no segment pending the tick need not look before the heartbeat.  It
\* uploads nothing, since the writes it flushes are closed after the cut, but
\* it lists what was confirmed before.
TickUnchecked(f) ==
    /\ task[f].pc = "idle" /\ ~Locked(f)
    /\ Unlisted(f) # {}
    /\ head' = [head EXCEPT ![f].added = @ \cup Unlisted(f)]
    /\ UNCHANGED <<rec, journal, base, objs, snaps, host, job, minted, written, faults, owed>>

\* Mutant: only a fork with something to drain looks at its record.
FenceBusy(f) ==
    /\ task[f].pc = "idle" /\ Displaced(f)
    /\ Pending(f) # {}
    /\ daemon' = daemon \ {f}
    /\ task' = [task EXCEPT ![f].pc = "halted"]
    /\ UNCHANGED <<bucket, dir, link, known, own, job, minted, written, faults, owed>>

\* The device is halted first.
Fence(f) ==
    /\ task[f].pc = "idle" /\ Displaced(f)
    /\ daemon' = daemon \ {f}
    /\ task' = [task EXCEPT ![f].pc = "halted"]
    /\ UNCHANGED <<bucket, dir, link, known, own, job, minted, written, faults, owed>>

-----------------------------------------------------------------------------
(***************************************************************************)
(* rehome_displaced_fork, shared by the fence, a refused start and a       *)
(* force-claim that replaces the local fork of the name.                   *)
(***************************************************************************)

\* The fork's own name already resolves to a record that binds it.
Settled(f, n) == dir[f].name \notin {n, NoName} /\ rec[dir[f].name].vol = f

\* A released fork hands off what its marker says, a displaced one its latest
\* published snapshot.
RehomeSnap(f) == IF dir[f].marker # NoMarker THEN dir[f].marker ELSE Latest(f)

\* names/<n> must still exist, and the derived name be free or ours.
CanRehome(f, n) == ~Settled(f, n) /\ n = Main /\ Exists(rec[n])
                      /\ rec[RehomeName(f)].vol \in {None, f}

\* The bucket part: create the ownerless record unless an earlier attempt did.
RehomeRecord(f) ==
    IF Exists(rec[RehomeName(f)]) THEN UNCHANGED rec
    ELSE SetRecord(RehomeName(f), MarkRehomed(f, RehomeSnap(f)))

\* The local part: link, marker, and last the name.
RehomedDir(f, snap) ==
    [dir[f] EXCEPT !.marker = IF @ = NoMarker THEN snap ELSE @, !.name = RehomeName(f)]

FenceRehome(f) ==
    /\ task[f].pc = "halted"
    /\ CanRehome(f, task[f].name)
    /\ RehomeRecord(f)
    /\ task' = [task EXCEPT ![f].pc = "homing", ![f].snap = RehomeSnap(f)]
    /\ UNCHANGED <<journal, base, head, objs, snaps, dir, link, daemon, known, own, job,
                   minted, written, faults, owed>>

\* Then the lost name's link goes and the task ends.
FenceLocal(f) ==
    /\ task[f].pc = "homing"
    /\ dir' = [dir EXCEPT ![f] = RehomedDir(f, task[f].snap)]
    /\ link' = [link EXCEPT ![dir[f].home][RehomeName(f)] = f,
                            ![dir[f].home][task[f].name] = None]
    /\ task' = [task EXCEPT ![f] = NoTask]
    /\ UNCHANGED <<bucket, daemon, known, own, job, minted, written, faults, owed>>

\* An earlier rehome went through: only the link is left to drop.
FenceUnlink(f) ==
    /\ task[f].pc = "halted" /\ Settled(f, task[f].name)
    /\ link' = [link EXCEPT ![dir[f].home][task[f].name] = None]
    /\ task' = [task EXCEPT ![f] = NoTask]
    /\ UNCHANGED <<bucket, dir, daemon, known, own, job, minted, written, faults, owed>>

\* The rehome is refused: park the fork and end the task.
FencePark(f) ==
    /\ task[f].pc = "halted"
    /\ ~Settled(f, task[f].name) /\ ~CanRehome(f, task[f].name)
    /\ dir' = [dir EXCEPT ![f].stopped = TRUE]
    /\ task' = [task EXCEPT ![f] = NoTask]
    /\ UNCHANGED <<bucket, link, daemon, known, own, job, minted, written, faults, owed>>

\* Any other error of the rehome parks it too, with the record written or not,
\* and the local half not begun or stopped before volume.toml.
FenceErrs(f) ==
    /\ task[f].pc \in {"halted", "homing"} /\ faults < MaxFault
    /\ faults' = faults + 1
    /\ \/ /\ dir' = [dir EXCEPT ![f].stopped = TRUE]
          /\ UNCHANGED link
       \/ /\ task[f].pc = "homing"
          /\ \E k \in {dir[f].marker, RehomedDir(f, task[f].snap).marker} :
               dir' = [dir EXCEPT ![f].stopped = TRUE, ![f].marker = k]
          /\ link' = [link EXCEPT ![dir[f].home][RehomeName(f)] = f]
    /\ task' = [task EXCEPT ![f] = NoTask]
    /\ UNCHANGED <<bucket, daemon, known, own, job, minted, written, owed>>

-----------------------------------------------------------------------------
(***************************************************************************)
(* Snapshot, stop, start and release.  `n` is the name the operator gives; *)
(* the fork is the one by_name/<n> points at.                              *)
(***************************************************************************)

Local(c, n) == link[c][n]

\* snapshot_volume: drain, publish the manifest, then the hint in the record.
Snapshot(c, n) ==
    LET f == Local(c, n) IN
    /\ Idle(c) /\ f # None /\ f \in daemon
    /\ ~Locked(f)
    /\ Cardinality(UNION {OfKind(snaps[g], "user") : g \in Forks}) < MaxSnap
    /\ Upload(f)
    /\ Seal(f, "user", own[f])
    /\ Begin(c, [NoJob EXCEPT !.verb = "snapshot", !.pc = "hint", !.name = n, !.fork = f,
                              !.snap = SnapId(f, own[f])])
    /\ UNCHANGED <<rec, journal, base, host, minted, written, faults, owed>>

SnapshotHint(c) ==
    LET q == job[c] IN
    /\ At(c, "snapshot", "hint")
    /\ IF CanRecordLatest(rec[q.name], q.fork, q.snap)
         THEN SetRecord(q.name, RecordLatestSnapshot(rec[q.name], q.snap))
         ELSE UNCHANGED rec
    /\ Done(c)
    /\ UNCHANGED <<journal, base, head, objs, snaps, host, minted, written, faults, owed>>

\* stop_volume_op: drain, park, halt, seal, and then the record.  The drain's
\* segments are in no cut until the seal, and the guest writes until the halt.
Stop(c, n) ==
    LET f == Local(c, n) IN
    /\ Idle(c) /\ f # None /\ Shape(f) = "running"
    /\ Upload(f)
    /\ Begin(c, [NoJob EXCEPT !.verb = "stop", !.pc = "park", !.name = n, !.fork = f])
    /\ UNCHANGED <<rec, journal, base, head, snaps, host, minted, written, faults, owed>>

\* With --force there is no drain and no seal.
StopForce(c, n) ==
    LET f == Local(c, n) IN
    /\ Idle(c) /\ f # None /\ Shape(f) \in {"running", "down"}
    /\ Begin(c, [NoJob EXCEPT !.verb = "halt", !.pc = "park", !.name = n, !.fork = f])
    /\ UNCHANGED <<bucket, host, minted, written, faults, owed>>

\* ensure_stopped_sealed: a stop of a parked fork redoes the seal.
StopAgain(c, n) ==
    LET f == Local(c, n) IN
    /\ Idle(c) /\ f # None /\ Shape(f) = "stopped" /\ dir[f].ran
    /\ Begin(c, [NoJob EXCEPT !.verb = "stop", !.pc = "reseal", !.name = n, !.fork = f])
    /\ UNCHANGED <<bucket, host, minted, written, faults, owed>>

StopPark(c) ==
    /\ job[c].verb \in {"stop", "halt"} /\ job[c].pc = "park"
    /\ dir' = [dir EXCEPT ![job[c].fork].stopped = TRUE]
    /\ Goto(c, "halt")
    /\ UNCHANGED <<bucket, link, daemon, known, task, own, minted, written, faults, owed>>

\* The daemon flushes its WAL into pending/ and exits.
StopHalt(c) ==
    LET q == job[c] IN
    /\ q.verb \in {"stop", "halt"} /\ q.pc = "halt"
    /\ daemon' = daemon \ {q.fork}
    /\ Goto(c, IF q.verb = "stop" THEN "seal" ELSE "mark")
    /\ UNCHANGED <<bucket, dir, link, known, task, own, minted, written, faults, owed>>

\* The shutdown is refused: the marker is taken back and the fork runs on.
StopRefused(c) ==
    LET q == job[c] IN
    /\ q.verb \in {"stop", "halt"} /\ q.pc = "halt" /\ faults < MaxFault
    /\ faults' = faults + 1
    /\ dir' = [dir EXCEPT ![q.fork].stopped = FALSE]
    /\ Done(c)
    /\ UNCHANGED <<bucket, link, daemon, known, task, own, minted, written, owed>>

\* sweep_and_seal_stopped lists index/; what the halt flushed stays pending.
StopSeal(c) ==
    LET q == job[c] IN
    /\ q.verb = "stop" /\ q.pc \in {"seal", "reseal"}
    /\ Seal(q.fork, "stop", Index(q.fork))
    /\ IF q.pc = "seal" THEN Goto(c, "mark") ELSE Done(c)
    /\ UNCHANGED <<rec, journal, base, objs, host, minted, written, faults, owed>>

\* mark_stopped is best effort.
StopMark(c) ==
    LET n == job[c].name IN
    /\ job[c].verb \in {"stop", "halt"} /\ job[c].pc = "mark"
    /\ IF CanStop(rec[n], c) THEN SetRecord(n, MarkStopped(rec[n], c)) ELSE UNCHANGED rec
    /\ Done(c)
    /\ UNCHANGED <<journal, base, head, objs, snaps, host, minted, written, faults, owed>>

\* start_volume_op: only from volume.stopped; the record first (mark_live looks
\* at the owner, not at the fork, and a store error is only logged), then the
\* park marker.
Start(c, n) ==
    LET f == Local(c, n)
        r == rec[n] IN
    /\ Idle(c) /\ f # None /\ Shape(f) = "stopped"
    /\ \/ ~Exists(r) /\ UNCHANGED <<rec, faults>>
       \/ r.state = "live" /\ r.owner = c /\ UNCHANGED <<rec, faults>>
       \/ CanLive(r, c) /\ SetRecord(n, MarkLive(r, c)) /\ UNCHANGED faults
       \/ faults < MaxFault /\ faults' = faults + 1 /\ UNCHANGED rec
    /\ Begin(c, [NoJob EXCEPT !.verb = "start", !.pc = "unpark", !.name = n, !.fork = f])
    /\ UNCHANGED <<journal, base, head, objs, snaps, host, minted, written, owed>>

StartUnpark(c) ==
    /\ At(c, "start", "unpark")
    /\ dir' = [dir EXCEPT ![job[c].fork].stopped = FALSE]
    /\ Done(c)
    /\ UNCHANGED <<bucket, link, daemon, known, task, own, minted, written, faults, owed>>

\* The name is another coordinator's: the fork is rehomed and the start refused.
StartRefused(c, n) ==
    LET f == Local(c, n) IN
    /\ Idle(c) /\ f # None /\ Shape(f) = "stopped"
    /\ Exists(rec[n]) /\ ~CheckOwner(rec[n], c)
    /\ Begin(c, [NoJob EXCEPT !.verb = "start", !.pc = "rehome", !.name = n, !.fork = f])
    /\ UNCHANGED <<bucket, host, minted, written, faults, owed>>

\* release_fast_path_handoff: once a daemon has opened the fork its pending/
\* is not empty, and re-owned segments without a snapshot are not covered.
NeverRan(f) == ~dir[f].ran /\ own[f] = {}

\* release_volume_op: the recorded handoff, else the local snapshot, else an
\* empty one published under the fork the record binds; then the flip.
Release(c, n) ==
    LET f == Local(c, n)
        r == rec[n] IN
    /\ Idle(c) /\ f # None /\ Shape(f) = "stopped" /\ NeverRan(f)
    /\ r.owner = c /\ CanRelease(r, c)
    /\ LET snap == IF Latest(f) # None THEN Latest(f)
                   ELSE IF r.handoff # None THEN r.handoff ELSE SnapId(r.vol, {}) IN
       /\ snaps' = IF Latest(f) = None /\ r.handoff = None
                     THEN [snaps EXCEPT ![r.vol] = @ \cup {Manifest(r.vol, "user", {})}] ELSE snaps
       /\ SetRecord(n, MarkReleased(r, snap))
       /\ Begin(c, [NoJob EXCEPT !.verb = "release", !.pc = "marker", !.name = n, !.fork = f,
                                 !.snap = snap])
    /\ UNCHANGED <<journal, base, head, objs, host, minted, written, faults, owed>>

ReleaseMarker(c) ==
    LET q == job[c] IN
    /\ At(c, "release", "marker")
    /\ dir' = [dir EXCEPT ![q.fork].marker = q.snap]
    /\ Done(c)
    /\ UNCHANGED <<bucket, link, daemon, known, task, own, minted, written, faults, owed>>

-----------------------------------------------------------------------------
(***************************************************************************)
(* Claim of a released name.                                               *)
(***************************************************************************)

\* In-place reclaim of the fork the record binds, or the claim of a name that
\* is already ours: the local fork is parked as stopped.
ClaimLocal(c, n) ==
    LET f == Local(c, n)
        r == rec[n]
        reclaim == CanReclaimLocal(r, f) IN
    /\ Idle(c) /\ f # None /\ f \notin daemon
    /\ reclaim \/ (r.owner = c /\ r.state \in HeldStates)
    /\ dir' = [dir EXCEPT ![f].stopped = TRUE,
                          ![f].marker = IF reclaim THEN NoMarker ELSE @]
    /\ IF reclaim THEN SetRecord(n, MarkReclaimedLocal(r, c, "stopped")) /\ Log(n, f)
                  ELSE UNCHANGED <<rec, journal>>
    /\ Begin(c, NoJob)
    /\ UNCHANGED <<base, head, objs, snaps, link, daemon, known, task, own, minted, written,
                   faults, owed>>

\* start_claim reads the record; early_rebind builds a fork behind
\* volume.claiming, pinned at the released fork's handoff snapshot.
ClaimRead(c, n) ==
    LET f == minted + 1
        r == rec[n] IN
    /\ Idle(c) /\ minted < MaxFork
    /\ CanClaim(r) /\ r.handoff # None
    /\ Local(c, n) # r.vol /\ Local(c, n) \notin daemon
    /\ minted' = f
    /\ dir' = [dir EXCEPT ![f].home = c, ![f].claiming = TRUE]
    /\ base' = [base EXCEPT ![f] = base[r.vol] \cup Covered(r.vol, r.handoff)]
    /\ Begin(c, [NoJob EXCEPT !.verb = "claim", !.pc = "read", !.name = n, !.fork = f,
                              !.src = r.vol, !.snap = r.handoff])
    /\ UNCHANGED <<rec, journal, head, objs, snaps, link, daemon, known, task, own, written,
                   faults, owed>>

\* mark_claimed takes whatever released record it finds.
ClaimBind(c) ==
    LET q == job[c]
        r == rec[q.name] IN
    /\ At(c, "claim", "read")
    /\ CanClaim(r)
    /\ SetRecord(q.name, MarkClaimed(c, q.fork, "stopped"))
    /\ Log(q.name, q.fork)
    /\ dir' = [dir EXCEPT ![q.fork].name = q.name]
    /\ owed' = [owed EXCEPT ![q.fork] = base[r.vol] \cup Covered(r.vol, r.handoff)]
    /\ Goto(c, "bound")
    /\ UNCHANGED <<base, head, objs, snaps, link, daemon, known, task, own, minted, written,
                   faults>>

\* The handoff manifest must be found before the fork is made openable.
ClaimFinalize(c) ==
    LET q == job[c] IN
    /\ At(c, "claim", "bound")
    /\ Published(q.src, q.snap)
    /\ dir' = [dir EXCEPT ![q.fork].wal = TRUE]
    /\ Goto(c, "walled")
    /\ UNCHANGED <<bucket, link, daemon, known, task, own, minted, written, faults, owed>>

-----------------------------------------------------------------------------
(***************************************************************************)
(* claim --force.                                                          *)
(***************************************************************************)

\* start_force_claim keeps the record it read.  The source's skeleton is
\* pulled and a provisional fork pinned at the record's snapshot hint, or on
\* what the source itself inherits when there is none.
ForceObserve(c) ==
    LET f == minted + 1
        r == rec[Main] IN
    /\ Idle(c) /\ minted < MaxFork
    /\ r.state \in Proceeds("force") /\ r.owner # c
    /\ minted' = f
    /\ dir' = [dir EXCEPT ![f].home = c, ![f].claiming = TRUE]
    /\ base' = [base EXCEPT ![f] = base[r.vol] \cup Covered(r.vol, r.latest)]
    /\ Begin(c, [NoJob EXCEPT !.verb = "force", !.pc = "observed", !.fork = f, !.src = r.vol,
                              !.seen = r, !.pulled = base[r.vol]])
    /\ UNCHANGED <<rec, journal, head, objs, snaps, link, daemon, known, task, own, written,
                   faults, owed>>

\* Our own half-built fork: go on with the newest earlier binding the journal
\* names as the source.
ForceResume(c) ==
    LET r == rec[Main]
        f == r.vol IN
    /\ Idle(c)
    /\ r.state \in Proceeds("force") /\ r.owner = c
    /\ dir[f].home = c /\ ~dir[f].wal
    /\ PriorBindings(f) # <<>>
    /\ dir' = [dir EXCEPT ![f].claiming = TRUE, ![f].name = Main]
    /\ LET src == LastOf(PriorBindings(f)) IN
       Begin(c, [NoJob EXCEPT !.verb = "force", !.pc = "rebound", !.fork = f, !.src = src,
                              !.pulled = base[src]])
    /\ UNCHANGED <<bucket, link, daemon, known, task, own, minted, written, faults, owed>>

\* The fence: the forced write, conditioned on the record observed.
ForceBind(c) ==
    LET q == job[c] IN
    /\ At(c, "force", "observed")
    /\ CanClaimForce(rec[Main], q.seen)
    /\ SetRecord(Main, MarkClaimedForce(c, q.fork))
    /\ owed' = [owed EXCEPT ![q.fork] = q.pulled \cup HeadCut(q.src, snaps[q.src])]
    /\ job' = [job EXCEPT ![c].pc = "emit", ![c].seen = NoRecord]
    /\ UNCHANGED <<journal, base, head, objs, snaps, host, minted, written, faults>>

\* Raced: the new directory is removed.
ForceRaced(c) ==
    LET q == job[c] IN
    /\ At(c, "force", "observed")
    /\ ~CanClaimForce(rec[Main], q.seen)
    /\ dir' = [dir EXCEPT ![q.fork] = NoDir]
    /\ Done(c)
    /\ UNCHANGED <<bucket, link, daemon, known, task, own, minted, written, faults, owed>>

\* The event is best effort; volume.toml follows.
ForceEmit(c) ==
    LET q == job[c] IN
    /\ At(c, "force", "emit")
    /\ \/ Log(Main, q.fork) /\ UNCHANGED faults
       \/ faults < MaxFault /\ faults' = faults + 1 /\ UNCHANGED journal
    /\ dir' = [dir EXCEPT ![q.fork].name = Main]
    /\ Goto(c, "rebound")
    /\ UNCHANGED <<rec, base, head, objs, snaps, link, daemon, known, task, own, minted,
                   written, owed>>

\* re_own: LATEST is the basis, one read of HEAD the cut; what the cut adds to
\* the basis is first written as the new fork's HEAD.
ForceCut(c) ==
    LET q == job[c]
        delta == HeadCut(q.src, snaps[q.src]) \ Covered(q.src, Latest(q.src)) IN
    /\ At(c, "force", "rebound")
    /\ head' = IF delta = {} THEN head ELSE [head EXCEPT ![q.fork].added = delta]
    /\ job' = [job EXCEPT ![c].pc = "copy", ![c].snap = Latest(q.src), ![c].delta = delta]
    /\ UNCHANGED <<rec, journal, base, objs, snaps, host, minted, written, faults, owed>>

\* Mutant: no fallback to the earlier bindings.
CopiesOfSource(c, t) == {g \in {job[c].src} : t \in objs[g]}

\* fetch_delta_segment: the source, else an earlier binding of the name.
Copies(c, t) ==
    LET q == job[c]
        prior == PriorBindings(q.fork) IN
    {g \in {q.src} \cup {prior[i] : i \in 1..Len(prior)} : t \in objs[g]}

\* re_own_segment: a copy under the new fork's prefix, then its local form.
\* Each is skipped on its own when it is there.  That a segment nobody has ends
\* the job is ClaimSetIsFound's subject.
ForceCopy(c) ==
    LET q == job[c] IN
    /\ At(c, "force", "copy")
    /\ \E t \in q.delta \ objs[q.fork] :
         Copies(c, t) # {} /\ objs' = [objs EXCEPT ![q.fork] = @ \cup {t}]
    /\ UNCHANGED <<rec, journal, base, head, snaps, host, job, minted, written, faults, owed>>

ForceMaterialise(c) ==
    LET q == job[c] IN
    /\ At(c, "force", "copy")
    /\ \E t \in (q.delta \cap objs[q.fork]) \ own[q.fork] :
         own' = [own EXCEPT ![q.fork] = @ \cup {t}]
    /\ UNCHANGED <<bucket, dir, link, daemon, known, task, job, minted, written, faults, owed>>

\* Mutant: a resume takes the copy in the bucket for the whole work.
ForceFinalizeCopied(c) ==
    LET q == job[c] IN
    /\ At(c, "force", "copy")
    /\ q.delta \subseteq objs[q.fork]
    /\ base' = IF q.snap = None THEN base
               ELSE [base EXCEPT ![q.fork] = q.pulled \cup Covered(q.src, q.snap)]
    /\ dir' = [dir EXCEPT ![q.fork].wal = TRUE]
    /\ Goto(c, "walled")
    /\ UNCHANGED <<rec, journal, head, objs, snaps, link, daemon, known, task, own, minted,
                   written, faults, owed>>

\* Mutant: the provenance stays at the record's hint.
ForceFinalizeAtHint(c) ==
    LET q == job[c] IN
    /\ At(c, "force", "copy")
    /\ q.delta \subseteq objs[q.fork] \cap own[q.fork]
    /\ dir' = [dir EXCEPT ![q.fork].wal = TRUE]
    /\ Goto(c, "walled")
    /\ UNCHANGED <<bucket, link, daemon, known, task, own, minted, written, faults, owed>>

\* finalize: the provenance is moved to the basis LATEST named, then wal/.
ForceFinalize(c) ==
    LET q == job[c] IN
    /\ At(c, "force", "copy")
    /\ q.delta \subseteq objs[q.fork] \cap own[q.fork]
    /\ base' = IF q.snap = None THEN base
               ELSE [base EXCEPT ![q.fork] = q.pulled \cup Covered(q.src, q.snap)]
    /\ dir' = [dir EXCEPT ![q.fork].wal = TRUE]
    /\ Goto(c, "walled")
    /\ UNCHANGED <<rec, journal, head, objs, snaps, link, daemon, known, task, own, minted,
                   written, faults, owed>>

-----------------------------------------------------------------------------
(***************************************************************************)
(* rehome_existing_local_fork, and the end of the claims.                  *)
(***************************************************************************)

\* The fork a running job rehomes: a refused start its own, a force-claim the
\* one its name is linked to.
ToRehome(c) == IF At(c, "start", "rehome") THEN job[c].fork
               ELSE IF At(c, "force", "walled") THEN Local(c, Main) ELSE None

JobRehome(c) ==
    LET g == ToRehome(c) IN
    /\ g # None /\ CanRehome(g, job[c].name)
    /\ RehomeRecord(g)
    /\ job' = [job EXCEPT ![c].pc = "homing", ![c].src = g, ![c].snap = RehomeSnap(g)]
    /\ UNCHANGED <<journal, base, head, objs, snaps, host, minted, written, faults, owed>>

JobRehomed(c) ==
    LET q == job[c] IN
    /\ q.pc = "homing"
    /\ dir' = [dir EXCEPT ![q.src] = RehomedDir(q.src, q.snap)]
    /\ link' = [link EXCEPT ![c][RehomeName(q.src)] = q.src]
    /\ Goto(c, "homed")
    /\ UNCHANGED <<bucket, daemon, known, task, own, minted, written, faults, owed>>

\* The refused start drops the link of the lost name once the fork has another.
StartDone(c) ==
    LET q == job[c]
        homed == At(c, "start", "homed") \/ Settled(q.fork, q.name) IN
    /\ At(c, "start", "homed") \/ (At(c, "start", "rehome") /\ ~CanRehome(q.fork, q.name))
    /\ link' = IF homed THEN [link EXCEPT ![c][q.name] = None] ELSE link
    /\ Done(c)
    /\ UNCHANGED <<bucket, dir, daemon, known, task, own, minted, written, faults, owed>>

\* The link, volume.stopped, and only then volume.claiming off.  A claim does
\* not rehome the fork the link pointed at.
ClaimDone(c) ==
    LET q == job[c]
        g == Local(c, Main) IN
    /\ \/ At(c, "claim", "walled") \/ At(c, "force", "homed")
       \/ At(c, "force", "walled") /\ (g # None => ~CanRehome(g, Main))
    /\ link' = [link EXCEPT ![c][q.name] = q.fork]
    /\ dir' = [dir EXCEPT ![q.fork].stopped = TRUE, ![q.fork].claiming = FALSE]
    /\ Done(c)
    /\ UNCHANGED <<bucket, daemon, known, task, own, minted, written, faults, owed>>

\* A claim that cannot go on ends in an error: the name is no longer released,
\* or the handoff manifest is not under the fork it was pinned to.
ClaimFails(c) ==
    LET q == job[c] IN
    /\ \/ At(c, "claim", "read") /\ ~CanClaim(rec[q.name])
       \/ At(c, "claim", "bound") /\ ~Published(q.src, q.snap)
    /\ Done(c)
    /\ UNCHANGED <<bucket, host, minted, written, faults, owed>>

-----------------------------------------------------------------------------
(***************************************************************************)
(* Faults: a job that dies at any point, and a coordinator that restarts   *)
(* while the daemons it spawned keep serving.                              *)
(***************************************************************************)

JobFails(c) ==
    /\ job[c].verb # "none" /\ faults < MaxFault
    /\ faults' = faults + 1
    /\ Done(c)
    /\ UNCHANGED <<bucket, host, minted, written, owed>>

\* reconcile_volume_metadata at startup: a name without a link is linked to a
\* fork whose volume.toml carries it.
Named(c, n) == {f \in Forks : dir[f].home = c /\ ~dir[f].claiming /\ dir[f].name = n}

Restart(c) ==
    LET here == {f \in Forks : dir[f].home = c} IN
    /\ faults < MaxFault
    /\ faults' = faults + 1
    /\ known' = known \ here
    /\ task' = [f \in Forks |-> IF f \in here THEN NoTask ELSE task[f]]
    /\ \E g \in Forks :
         link' = [link EXCEPT ![c] = [n \in VolNames |->
                    IF @[n] # None THEN @[n]
                    ELSE IF g \in Named(c, n) THEN g ELSE Max({None} \cup Named(c, n))]]
    /\ Done(c)
    /\ UNCHANGED <<bucket, dir, daemon, own, minted, written, owed>>

-----------------------------------------------------------------------------

ForkStep(f) ==
    \/ Discover(f) \/ Spawn(f) \/ Ready(f) \/ GuestWrite(f)
    \/ TickPass(f) \/ TickDrain(f) \/ TickSkip(f) \/ TickUnchecked(f)
    \/ Fence(f) \/ FenceRehome(f) \/ FenceLocal(f) \/ FenceUnlink(f) \/ FencePark(f)
    \/ FenceErrs(f)

VerbBegins(c, n) ==
    \/ Snapshot(c, n) \/ Stop(c, n) \/ StopForce(c, n) \/ StopAgain(c, n)
    \/ Start(c, n) \/ StartRefused(c, n) \/ Release(c, n)
    \/ ClaimLocal(c, n) \/ ClaimRead(c, n)

JobStep(c) ==
    \/ CreateEnd(c) \/ SnapshotHint(c) \/ StartUnpark(c) \/ ReleaseMarker(c)
    \/ StopPark(c) \/ StopHalt(c) \/ StopRefused(c) \/ StopSeal(c) \/ StopMark(c)
    \/ ClaimBind(c) \/ ClaimFinalize(c) \/ ClaimFails(c) \/ ClaimDone(c)
    \/ ForceBind(c) \/ ForceRaced(c) \/ ForceEmit(c) \/ ForceCut(c) \/ ForceCopy(c)
    \/ ForceMaterialise(c) \/ ForceFinalize(c)
    \/ JobRehome(c) \/ JobRehomed(c) \/ StartDone(c)

Next ==
    \/ \E f \in Forks : ForkStep(f)
    \/ \E c \in Coords :
         \/ CreateBegin(c) \/ ForceObserve(c) \/ ForceResume(c)
         \/ \E n \in VolNames : VerbBegins(c, n)
         \/ JobStep(c)
         \/ JobFails(c) \/ Restart(c)

Init ==
    /\ rec = [n \in VolNames |-> NoRecord]
    /\ journal = <<>>
    /\ dir = [f \in Forks |-> NoDir] /\ link = [c \in Coords |-> [n \in VolNames |-> None]]
    /\ daemon = {} /\ known = {} /\ task = [f \in Forks |-> NoTask]
    /\ own = [f \in Forks |-> {}] /\ base = [f \in Forks |-> {}]
    /\ head = [f \in Forks |-> [anchor |-> {}, added |-> {}]] /\ objs = [f \in Forks |-> {}]
    /\ snaps = [f \in Forks |-> {}]
    /\ job = [c \in Coords |-> NoJob]
    /\ minted = 0 /\ written = 0 /\ faults = 0
    /\ owed = [f \in Forks |-> {}]

Spec == Init /\ [][Next]_vars

\* The scan and the tick run for as long as the coordinator does.
FairSpec ==
    /\ Spec
    /\ \A f \in Forks :
         /\ WF_vars(Discover(f)) /\ WF_vars(TickDrain(f)) /\ WF_vars(TickSkip(f))
         /\ WF_vars(Fence(f))
         /\ WF_vars(FenceRehome(f)) /\ WF_vars(FenceLocal(f))
         /\ WF_vars(FenceUnlink(f)) /\ WF_vars(FencePark(f))

-----------------------------------------------------------------------------
(***************************************************************************)
(* Properties.                                                             *)
(***************************************************************************)

SnapIds == {None} \cup {SnapId(f, 1..k) : f \in Forks, k \in 0..MaxWrite}

\* Record states, markers and job fields stay within their types
\* (name_record.rs, volume_state.rs).
TypeOK ==
    /\ \A n \in VolNames :
         /\ rec[n].state \in NameStates \cup {"absent"}
         /\ rec[n].vol \in {None} \cup Forks /\ rec[n].owner \in Coords \cup {Nobody}
         /\ rec[n].handoff \in SnapIds /\ rec[n].latest \in SnapIds
    /\ \A f \in Forks :
         /\ dir[f].home \in Coords \cup {Nobody} /\ dir[f].name \in VolNames \cup {NoName}
         /\ dir[f].marker \in SnapIds \cup {NoMarker}
         /\ own[f] \cup base[f] \cup objs[f] \cup owed[f] \subseteq Tokens
         /\ head[f].anchor \cup head[f].added \subseteq Tokens
         /\ task[f].pc \in {"none", "idle", "checked", "halted", "homing"}
    /\ \A c \in Coords : job[c].fork \in {None} \cup Forks /\ link[c] \in [VolNames -> {None} \cup Forks]
    /\ daemon \subseteq Forks /\ known \subseteq Forks

\* A fork that a daemon serves holds everything its claim took over: what the
\* released fork's handoff covered, or the cut in the displaced owner's HEAD at
\* the forced write.  volume.claiming keeps the half-built fork out of
\* supervision, whatever fails in between (claim.rs, force_claim.rs,
\* daemon.rs discover_volumes).
ServedIsComplete ==
    /\ TypeOK
    /\ \A f \in daemon : owed[f] \subseteq Served(f)

\* Once a claim has taken volume.claiming off, the bucket alone yields what was
\* taken over: through the provenance it published, or through HEAD with every
\* segment HEAD names copied under the new fork's prefix (force_claim.rs
\* re_own, finalize).
ClaimedIsDurable ==
    \A f \in Forks : dir[f].home # Nobody /\ ~dir[f].claiming
                       => owed[f] \subseteq base[f] \cup (HeadCut(f, snaps[f]) \cap objs[f])

\* Every segment of the cut a force-claim reads is found, under the source or
\* an earlier binding of the name, also when the source is itself a claim that
\* was cut short after its intent (force_claim.rs fetch_delta_segment).
ClaimSetIsFound ==
    \A c \in Coords : At(c, "force", "copy")
                        => \A t \in job[c].delta \ objs[job[c].fork] : Copies(c, t) # {}

\* What the bucket yields of a fork never shrinks, whoever writes: the drain,
\* a seal over an index/ that lacks what the halt flushed, a stop that dies in
\* between, the intent of a force-claim, its move from the provisional
\* provenance to the basis, or a resume that finds another basis
\* (force_claim.rs re_own, finalize).  The one exception is the code's own:
\* once a started daemon is ready the stop manifest is deleted, and with it
\* what HEAD rested on (cleanup_stop_snapshots).
CutNeverShrinks ==
    [][\A f \in Forks : snaps[f] \subseteq snaps'[f] => Cut(f) \subseteq Cut(f)']_vars

\* A fork on a coordinator that knows its name and has lost the name is in the
\* end rehomed or parked, idle or not, and whatever restarts in between
\* (gc_cycle.rs fence_if_displaced, FENCE_HEARTBEAT).
Lost(f) == task[f].name = Main /\ Exists(rec[Main]) /\ rec[Main].vol # f
DisplacedIsRehomed ==
    \A f \in Forks : Lost(f) ~> (dir[f].name # Main \/ Parked(f))
=============================================================================
