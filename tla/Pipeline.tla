------------------------------ MODULE Pipeline ------------------------------
(***************************************************************************)
(* The volume actor and its worker thread (elide-core/src/actor.rs): the   *)
(* two bounded channels between them, the promotes in flight and the ones  *)
(* stashed after a failure, the replies parked on worker results, the      *)
(* batch of GC plans, the plan result held back behind promotes, and the   *)
(* shutdown that drains them all.                                          *)
(*                                                                         *)
(* The actor is one thread.  `stack' is what it still has to do in the     *)
(* handler it is in, innermost first: a dispatch that meets a full job     *)
(* queue takes a result and handles it in place (send_worker_job), and     *)
(* that may dispatch again.  A WAL epoch is a number that is reused once   *)
(* its WAL file is gone; the maps it carries are in Rewrite and Volume.    *)
(* promote_gen and completed_gen are only ever compared, so the model      *)
(* keeps their difference.  Left out: the death of the worker thread, a    *)
(* promote whose segment committed and whose apply fails, which leaves its *)
(* WAL to the next open, the exit on a plan that diverged, and the reap,   *)
(* which answers in place and skips while a promote is in flight.          *)
(***************************************************************************)
EXTENDS Naturals, Sequences, FiniteSets

CONSTANTS
  Asks,      \* the clients of the actor, one call at a time each, and their calls
  MaxEpochs, \* WAL files that may exist at once: bounds the guest's writes
  Capacity,  \* slots of the job channel and of the result channel
  MaxPlans   \* plan files in gc/ at once

VARIABLES
  wal,     \* the epoch of the open WAL, 0 while it is empty
  wals,    \* the epochs whose WAL file is on disk
  plans,   \* number of plan files
  phase,   \* "open", "closing" once the job sender is dropped, "exited"
  stack,   \* what the actor's current handler still has to do
  jobs, running, results, \* job channel, worker, result channel
  pipe,    \* PromotePipeline
  ops,     \* ParkedOps
  call     \* what each caller waits for

files == <<wal, wals, plans>>
worker == <<jobs, running, results>>
vars == <<files, phase, stack, worker, pipe, ops, call>>

Epochs == 1 .. MaxEpochs
Nobody == "nobody"
Callers == DOMAIN Asks

ASSUME PipelineAssumption ==
  /\ MaxEpochs \in Nat \ {0} /\ Capacity \in Nat \ {0}
  /\ MaxPlans \in Nat /\ Nobody \notin Callers

\* The calls with a reply slot of their own.
Slots == {"close", "sign", "reclaim"}

Job(kind, id) == [kind |-> kind, id |-> id]
NoJob == Job("none", 0)
NoGc == [kind |-> "none", epoch |-> 0, left |-> 0, who |-> Nobody, due |-> {}]
NoBatch == [left |-> 0, who |-> Nobody, on |-> FALSE]
Task(op, who, job) == [op |-> op, who |-> who, job |-> job, left |-> 0]

Elems(s) == {s[i] : i \in DOMAIN s}
\* The jobs the worker side holds: queued, running or answered.
AtWorker == Elems(jobs) \cup {running} \cup {Job(r.kind, r.id) : r \in Elems(results)}
\* Promotes dispatched and not yet resolved.
Dispatched == {j.id : j \in {x \in AtWorker : x.kind = "promote"}}

Init ==
  /\ wal = 0 /\ wals = {} /\ plans = 0
  /\ phase = "open" /\ stack = <<>>
  /\ jobs = <<>> /\ running = NoJob /\ results = <<>>
  /\ pipe = [in_flight |-> 0, lag |-> 0, gc |-> NoGc, wal |-> {}, segments |-> {}, failed |-> <<>>]
  /\ ops = [batch |-> NoBatch, flying |-> FALSE, deferred |-> FALSE, slot |-> [k \in Slots |-> Nobody]]
  /\ call = [c \in Callers |-> "none"]

-----------------------------------------------------------------------------
\* The guest, the collector and the worker thread.

\* A write opens a WAL when there is none; later ones append to it.
GuestWrite ==
  /\ wal = 0 /\ phase # "exited"
  /\ \E e \in Epochs \ wals :
       /\ \A f \in Epochs \ wals : e <= f
       /\ wal' = e /\ wals' = wals \cup {e}
  /\ UNCHANGED <<plans, phase, stack, worker, pipe, ops, call>>

\* The coordinator leaves a plan in gc/.
EmitPlan ==
  /\ plans < MaxPlans /\ phase = "open"
  /\ plans' = plans + 1
  /\ UNCHANGED <<wal, wals, phase, stack, worker, pipe, ops, call>>

\* worker_thread: one job at a time, in order; a result waits for a slot.
WorkerTakes ==
  /\ running = NoJob /\ jobs # <<>>
  /\ running' = Head(jobs) /\ jobs' = Tail(jobs)
  /\ UNCHANGED <<files, phase, stack, results, pipe, ops, call>>

WorkerAnswers ==
  /\ running # NoJob /\ Len(results) < Capacity
  /\ \E ok \in BOOLEAN :
       results' = Append(results, [kind |-> running.kind, id |-> running.id, ok |-> ok])
  /\ running' = NoJob
  /\ UNCHANGED <<files, phase, stack, jobs, pipe, ops, call>>

-----------------------------------------------------------------------------
\* Dispatch.

\* try_send finds a slot.
Room == Len(jobs) < Capacity
Idle == stack = <<>>
Answered(cs) == [c \in Callers |-> IF c \in cs THEN "none" ELSE call[c]]
Pop == Tail(stack)

\* send_worker_job with what its caller records once the job is in the
\* queue: the promote counters, the parked reply or the slot of the kind.
SendJob ==
  /\ ~Idle /\ Head(stack).op = "send" /\ Room
  /\ LET t == Head(stack)
         j == t.job
     IN /\ jobs' = Append(jobs, j)
        /\ pipe' = IF j.kind = "promote"
                   THEN [pipe EXCEPT !.in_flight = @ + 1, !.lag = @ + 1,
                                     !.wal = IF t.who = Nobody THEN @
                                             ELSE @ \cup {[epoch |-> j.id, who |-> t.who]}]
                   ELSE IF j.kind = "segment" THEN [pipe EXCEPT !.segments = @ \cup {t.who}]
                   ELSE pipe
        /\ ops' = IF j.kind \in Slots THEN [ops EXCEPT !.slot[j.kind] = t.who] ELSE ops
  /\ stack' = Pop
  /\ UNCHANGED <<files, phase, running, results, call>>

\* dispatch_next_handoff: the batch is out of its slot meanwhile. A plan that
\* does not read back is removed and passed over, and once the job sender is
\* gone the batch fails.
NextHandoff ==
  /\ ~Idle /\ Head(stack).op = "plan"
  /\ LET t == Head(stack) IN
     \/ /\ t.left > 0 /\ Room /\ phase = "open"
        /\ jobs' = Append(jobs, Job("plan", 0))
        /\ ops' = [ops EXCEPT !.flying = TRUE,
                              !.batch = [left |-> t.left - 1, who |-> t.who, on |-> TRUE]]
        /\ stack' = Pop
        /\ UNCHANGED <<plans, call>>
     \/ /\ t.left > 0
        /\ stack' = <<[t EXCEPT !.left = @ - 1]>> \o Pop
        /\ plans' = plans - 1
        /\ UNCHANGED <<jobs, ops, call>>
     \/ /\ t.left = 0 \/ phase # "open"
        /\ stack' = Pop
        /\ call' = Answered({t.who})
        /\ UNCHANGED <<plans, jobs, ops>>
  /\ UNCHANGED <<wal, wals, phase, running, results, pipe>>

\* retry_failed_promote: the oldest stashed job, one per trigger.
Retried == IF pipe.failed = <<>> THEN 0 ELSE Head(pipe.failed)
RetryTask == IF Retried = 0 THEN <<>> ELSE <<Task("send", Nobody, Job("promote", Retried))>>

\* A handler that begins with a retry and goes on with `op'.
Begin(op, who) ==
  /\ Idle /\ phase = "open"
  /\ stack' = RetryTask \o <<Task(op, who, Job("promote", Retried))>>
  /\ pipe' = [pipe EXCEPT !.failed = IF @ = <<>> THEN @ ELSE Tail(@)]
  /\ UNCHANGED <<files, phase, worker, ops>>

\* prepare_promote on a WAL with records: the epoch is cut and the WAL empty.
CutWal == wal # 0 /\ wal' = 0 /\ UNCHANGED <<wals, plans>>
PromoteTask(who) == Task("send", who, Job("promote", wal))

-----------------------------------------------------------------------------
\* The requests. One that is refused, has nothing to do or whose prep fails is
\* answered at once and leaves no trace.

\* CheckPromote, sent by a writer past the threshold: dispatch_promote.
CheckPromote == wal # 0 /\ Begin("promote", Nobody) /\ UNCHANGED call

\* The idle tick: dispatch_promote, then the plans found in gc/.
IdleTick ==
  /\ wal # 0 \/ pipe.failed # <<>> \/ (plans > 0 /\ ~ops.batch.on)
  /\ Begin("tick", Nobody) /\ UNCHANGED call

Promote ==
  /\ ~Idle /\ Head(stack).op \in {"promote", "tick"}
  /\ LET scan == IF Head(stack).op = "tick" /\ plans > 0 /\ ~ops.batch.on
                 THEN <<[Task("plan", Nobody, NoJob) EXCEPT !.left = plans]>> ELSE <<>>
     IN \/ CutWal /\ stack' = <<PromoteTask(Nobody)>> \o scan
        \/ stack' = scan /\ UNCHANGED files
  /\ UNCHANGED <<phase, worker, pipe, ops, call>>

\* PromoteWal: the reply is parked on the epoch it cut, or on the epoch it
\* retried when there was nothing to cut.
CallPromoteWal(c) ==
  /\ "wal" \in Asks[c] /\ call[c] = "none" /\ Begin("wal", c) /\ call' = [call EXCEPT ![c] = "wal"]

PromoteWal ==
  /\ ~Idle /\ Head(stack).op = "wal"
  /\ LET t == Head(stack) IN
     \/ CutWal /\ stack' = <<PromoteTask(t.who)>> /\ UNCHANGED <<pipe, call>>
     \/ /\ wal = 0 /\ t.job.id # 0 /\ stack' = Pop
        /\ pipe' = [pipe EXCEPT !.wal = @ \cup {[epoch |-> t.job.id, who |-> t.who]}]
        /\ UNCHANGED <<files, call>>
     \/ /\ wal # 0 \/ t.job.id = 0
        /\ stack' = Pop /\ call' = Answered({t.who}) /\ UNCHANGED <<files, pipe>>
  /\ UNCHANGED <<phase, worker, ops>>

CallCheckpoint(c) ==
  /\ "checkpoint" \in Asks[c] /\ call[c] = "none" /\ pipe.gc = NoGc
  /\ Begin("checkpoint", c) /\ call' = [call EXCEPT ![c] = "checkpoint"]

\* ParkedGc; `due' is what the reply promises: the promotes in flight then.
Flush(c) == [kind |-> "flush", epoch |-> wal, left |-> 0, who |-> c, due |-> Dispatched \cup {wal}]
Barrier(c, n) == [kind |-> "barrier", epoch |-> 0, left |-> n, who |-> c, due |-> Dispatched]

\* Mutant: the barrier leaves out the promote dispatched last.
StartCheckpointShort ==
  /\ ~Idle /\ Head(stack).op = "checkpoint"
  /\ LET c == Head(stack).who IN
     \/ /\ CutWal /\ stack' = <<PromoteTask(Nobody)>>
        /\ pipe' = [pipe EXCEPT !.gc = Flush(c)]
        /\ UNCHANGED call
     \/ /\ wal = 0 /\ pipe.lag > 1 /\ stack' = Pop
        /\ pipe' = [pipe EXCEPT !.gc = Barrier(c, pipe.lag - 1)]
        /\ UNCHANGED <<files, call>>
     \/ /\ wal # 0 \/ pipe.lag <= 1
        /\ stack' = Pop /\ call' = Answered({c}) /\ UNCHANGED <<files, pipe>>
  /\ UNCHANGED <<phase, worker, ops>>

\* start_gc_checkpoint: parked on the epoch it cut, or on the generation of
\* the promotes in flight when there was nothing to cut.
StartCheckpoint ==
  /\ ~Idle /\ Head(stack).op = "checkpoint"
  /\ LET c == Head(stack).who IN
     \/ /\ CutWal /\ stack' = <<PromoteTask(Nobody)>>
        /\ pipe' = [pipe EXCEPT !.gc = Flush(c)]
        /\ UNCHANGED call
     \/ /\ wal = 0 /\ pipe.lag > 0 /\ stack' = Pop
        /\ pipe' = [pipe EXCEPT !.gc = Barrier(c, pipe.lag)]
        /\ UNCHANGED <<files, call>>
     \/ /\ wal # 0 \/ pipe.lag = 0
        /\ stack' = Pop /\ call' = Answered({c}) /\ UNCHANGED <<files, pipe>>
  /\ UNCHANGED <<phase, worker, ops>>

\* Mutant: a batch in progress is not looked for.
CallHandoffsTwice(c) ==
  /\ "handoffs" \in Asks[c] /\ Idle /\ phase = "open" /\ call[c] = "none" /\ plans > 0
  /\ stack' = <<[Task("plan", c, NoJob) EXCEPT !.left = plans]>>
  /\ call' = [call EXCEPT ![c] = "handoffs"]
  /\ UNCHANGED <<files, phase, worker, pipe, ops>>

\* start_gc_handoffs with a reply.
CallHandoffs(c) ==
  /\ "handoffs" \in Asks[c] /\ Idle /\ phase = "open" /\ call[c] = "none" /\ ~ops.batch.on /\ plans > 0
  /\ stack' = <<[Task("plan", c, NoJob) EXCEPT !.left = plans]>>
  /\ call' = [call EXCEPT ![c] = "handoffs"]
  /\ UNCHANGED <<files, phase, worker, pipe, ops>>

\* The calls with one job and one reply: a slot, or for promote_segment a
\* list. A reclaim sends the epoch it cut ahead of its job.
CallSlot(c, kind) ==
  /\ Idle /\ phase = "open" /\ call[c] = "none"
  /\ kind \in Slots => ops.slot[kind] = Nobody
  /\ \/ /\ stack' = <<Task("send", c, Job(kind, c))>> /\ UNCHANGED files
     \/ /\ kind = "reclaim" /\ CutWal
        /\ stack' = <<PromoteTask(Nobody), Task("send", c, Job(kind, c))>>
  /\ call' = [call EXCEPT ![c] = kind]
  /\ UNCHANGED <<phase, worker, pipe, ops>>

-----------------------------------------------------------------------------
\* The results.

Sending ==
  ~Idle /\ LET t == Head(stack) IN t.op = "send" \/ (t.op = "plan" /\ t.left > 0)

\* Mutant: a dispatch blocks until the queue has room.
ReceivesIdle == results # <<>> /\ phase # "exited" /\ Idle

\* The actor receives between two requests, or in a dispatch that found the
\* job queue full.
Receives ==
  /\ results # <<>> /\ phase # "exited"
  /\ Idle \/ (Sending /\ phase = "open" /\ ~Room)

\* Mutant: a result that is held back is applied whatever is still in flight.
HeldUnordered(n, arrived) == FALSE

\* apply_or_defer_gc_plan: a plan result, held back or arriving, waits while
\* n promotes are in flight.
Held(n, arrived) == n > 0 /\ (arrived \/ ops.deferred)

\* Mutant: an apply that fails is tried again.
ApplyPlanAgain(p, called) ==
  LET b == ops.batch IN
  \E ok \in BOOLEAN :
    LET left == IF ok THEN b.left ELSE b.left + 1 IN
    /\ pipe' = p
    /\ ops' = [ops EXCEPT !.flying = FALSE, !.deferred = FALSE, !.batch = NoBatch]
    /\ plans' = IF ok THEN plans - 1 ELSE plans
    /\ stack' = IF left > 0 THEN <<[Task("plan", b.who, NoJob) EXCEPT !.left = left]>> \o stack ELSE stack
    /\ call' = [c \in Callers |-> IF c = b.who /\ left = 0 THEN "none" ELSE called[c]]

\* apply_gc_plan, and the batch's next step. An apply that fails ends the
\* batch and leaves the plan in gc/.
ApplyPlan(p, called) ==
  LET b == ops.batch IN
  \E ok \in BOOLEAN :
    /\ pipe' = p
    /\ ops' = [ops EXCEPT !.flying = FALSE, !.deferred = FALSE, !.batch = NoBatch]
    /\ plans' = IF ok THEN plans - 1 ELSE plans
    /\ stack' = IF ok /\ b.left > 0
                THEN <<[Task("plan", b.who, NoJob) EXCEPT !.left = b.left]>> \o stack ELSE stack
    /\ call' = [c \in Callers |-> IF c = b.who /\ ~(ok /\ b.left > 0) THEN "none" ELSE called[c]]

\* The end of handle_worker_result: a held plan whose last promote resolved.
Settle(p, called, arrived) ==
  IF ops.deferred \/ arrived
  THEN IF Held(p.in_flight, arrived)
       THEN /\ ops' = [ops EXCEPT !.deferred = TRUE]
            /\ pipe' = p /\ call' = called /\ UNCHANGED <<stack, plans>>
       ELSE ApplyPlan(p, called)
  ELSE pipe' = p /\ call' = called /\ UNCHANGED <<ops, stack, plans>>

\* Mutant: a failure leaves a barrier parked.
SatisfiesOnSuccess(r) ==
  \/ pipe.gc.kind = "flush" /\ pipe.gc.epoch = r.id
  \/ pipe.gc.kind = "barrier" /\ pipe.gc.left = 1 /\ r.ok

\* The checkpoint a promote's result answers (take_satisfied_gc_checkpoint);
\* a failure answers any barrier.
Satisfies(r) ==
  \/ pipe.gc.kind = "flush" /\ pipe.gc.epoch = r.id
  \/ pipe.gc.kind = "barrier" /\ (pipe.gc.left = 1 \/ ~r.ok)

\* Mutant: a failed promote is forgotten.
StashedDropped(r) == pipe.failed

\* Mutant: the stash is a stack.
StashedFirst(r) == IF r.ok THEN pipe.failed ELSE <<r.id>> \o pipe.failed

Stashed(r) == IF r.ok THEN pipe.failed ELSE Append(pipe.failed, r.id)

\* The checkpoint that waits on once the promote of e is resolved.
Passed(g, e) == [g EXCEPT !.due = @ \ {e}, !.left = IF @ = 0 THEN 0 ELSE @ - 1]

\* A promote's result: counters, its checkpoint, its PromoteWal callers, the
\* stash. A promote that succeeded loses its WAL once it is applied.
PromoteResult ==
  /\ Receives /\ Head(results).kind = "promote"
  /\ LET r == Head(results)
         mine == {w \in pipe.wal : w.epoch = r.id}
         gc == Satisfies(r)
         p == [pipe EXCEPT !.in_flight = @ - 1, !.lag = @ - 1, !.wal = @ \ mine,
                           !.failed = Stashed(r),
                           !.gc = IF gc THEN NoGc ELSE Passed(pipe.gc, r.id)]
         called == Answered({w.who : w \in mine} \cup (IF gc THEN {pipe.gc.who} ELSE {}))
     IN /\ wals' = IF r.ok THEN wals \ {r.id} ELSE wals
        /\ Settle(p, called, FALSE)
  /\ results' = Tail(results)
  /\ UNCHANGED <<wal, phase, jobs, running>>

PlanResult ==
  /\ Receives /\ Head(results).kind = "plan"
  /\ IF Head(results).ok
     THEN Settle(pipe, call, TRUE)
     ELSE /\ ops' = [ops EXCEPT !.flying = FALSE, !.batch = NoBatch]
          /\ call' = Answered({ops.batch.who})
          /\ UNCHANGED <<pipe, stack, plans>>
  /\ results' = Tail(results)
  /\ UNCHANGED <<wal, wals, phase, jobs, running>>

\* The other results: applied or failed, and answered.
SlotResult ==
  /\ Receives /\ Head(results).kind \in Slots \cup {"segment"}
  /\ LET r == Head(results) IN
     /\ call' = Answered({r.id})
     /\ IF r.kind = "segment"
        THEN pipe' = [pipe EXCEPT !.segments = @ \ {r.id}] /\ ops' = ops
        ELSE ops' = [ops EXCEPT !.slot[r.kind] = Nobody] /\ pipe' = pipe
  /\ results' = Tail(results)
  /\ UNCHANGED <<files, phase, stack, jobs, running>>

-----------------------------------------------------------------------------
\* Shutdown: the job sender is dropped, and results are handled while
\* anything is in flight.

\* Mutant: the plan on the worker is not waited for.
WorkInFlightNoPlan ==
  \/ pipe.in_flight > 0 \/ pipe.segments # {}
  \/ \E k \in Slots : ops.slot[k] # Nobody

\* Mutant: the stash is waited for.
WorkInFlightStash ==
  \/ pipe.in_flight > 0 \/ pipe.segments # {} \/ ops.flying \/ pipe.failed # <<>>
  \/ \E k \in Slots : ops.slot[k] # Nobody

\* work_in_flight: what the shutdown waits for.
WorkInFlight ==
  \/ pipe.in_flight > 0 \/ pipe.segments # {} \/ ops.flying
  \/ \E k \in Slots : ops.slot[k] # Nobody

Shutdown ==
  /\ Idle /\ phase = "open" /\ phase' = "closing"
  /\ UNCHANGED <<files, stack, worker, pipe, ops, call>>

Exit ==
  /\ Idle /\ phase = "closing" /\ ~WorkInFlight
  /\ phase' = "exited"
  /\ UNCHANGED <<files, stack, worker, pipe, ops, call>>

-----------------------------------------------------------------------------
Handle == PromoteResult \/ PlanResult \/ SlotResult
Step == SendJob \/ NextHandoff \/ Promote \/ PromoteWal \/ StartCheckpoint
Request ==
  \/ CheckPromote \/ Shutdown
  \/ \E c \in Callers :
       \/ CallPromoteWal(c) \/ CallCheckpoint(c) \/ CallHandoffs(c)
       \/ \E k \in Asks[c] \cap (Slots \cup {"segment"}) : CallSlot(c, k)

Next ==
  \/ GuestWrite \/ EmitPlan \/ WorkerTakes \/ WorkerAnswers
  \/ Request \/ IdleTick \/ Step \/ Handle \/ Exit

Spec == Init /\ [][Next]_vars

\* The threads keep running; the actor's select takes results and ticks that
\* are ready again and again, whatever requests it is given.
FairSpec ==
  /\ Spec
  /\ WF_vars(WorkerTakes) /\ WF_vars(WorkerAnswers) /\ WF_vars(Step) /\ WF_vars(Exit)
  /\ SF_vars(Handle) /\ SF_vars(IdleTick)

-----------------------------------------------------------------------------
\* Every variable is of its type: a channel holds no more than its slots, and
\* no more promotes are in flight than there are WALs.
TypeOK ==
  /\ wal \in Epochs \cup {0} /\ wals \subseteq Epochs
  /\ plans \in 0 .. MaxPlans
  /\ phase \in {"open", "closing", "exited"}
  /\ Len(jobs) <= Capacity /\ Len(results) <= Capacity
  /\ pipe.in_flight \in 0 .. MaxEpochs /\ pipe.lag \in 0 .. MaxEpochs
  /\ \A c \in Callers : call[c] \in Asks[c] \cup {"none"}

Sends == {t.job.id : t \in {x \in Elems(stack) : x.op = "send" /\ x.job.kind = "promote"}}

\* Every WAL file on disk is accounted for, once: it is open, or its promote is
\* about to be dispatched, at the worker or stashed. A WAL outside these is held
\* until the next open, one in two of them is promoted twice under one ULID.
WalsAccounted ==
  /\ TypeOK
  /\ wals = ({wal} \ {0}) \cup Sends \cup Dispatched \cup Elems(pipe.failed)
  /\ Cardinality(wals) = Cardinality({wal} \ {0}) + Cardinality(Sends) + Cardinality(Dispatched)
                          + Len(pipe.failed)

PlanAtWorker == \E j \in AtWorker : j.kind = "plan"

Awaits(c) ==
  \/ \E t \in Elems(stack) : t.who = c
  \/ \E w \in pipe.wal : w.who = c /\ w.epoch \in Dispatched
  \/ /\ pipe.gc.who = c
     /\ \/ pipe.gc.kind = "flush" /\ pipe.gc.epoch \in Dispatched \cup Sends
        \/ pipe.gc.left \in 1 .. Cardinality(Dispatched)
  \/ ops.batch.who = c /\ (PlanAtWorker \/ (ops.deferred /\ Dispatched # {}))
  \/ Job(call[c], c) \in AtWorker

\* A caller that waits is parked on something that will come: a job the worker
\* has, a checkpoint on promotes that are in flight, a batch on a plan at the
\* worker or held behind a promote that is, whatever failed and was retried
\* under a nested dispatch.
NobodyForgotten == \A c \in Callers : call[c] # "none" => Awaits(c)

\* One plan at a time is materialised, held back or about to be sent:
\* scan_plan_handoffs deletes the scratch files in gc/, so a scan while a plan
\* is out would delete the output that its apply renames.
OnePlan ==
  Cardinality({t \in Elems(stack) : t.op = "plan"})
    + (IF PlanAtWorker THEN 1 ELSE 0) + (IF ops.deferred THEN 1 ELSE 0) <= 1

\* A GC checkpoint that is about to be answered with success has seen the
\* result of every promote that was in flight when it came: the collector reads
\* segments first and WALs second, and a promote that moves between the two
\* would be missed (start_gc_checkpoint).
CheckpointCovers ==
  (results # <<>> /\ Head(results).kind = "promote" /\ Head(results).ok /\ Satisfies(Head(results)))
    => pipe.gc.due \subseteq {Head(results).id}

\* Once nothing is counted as in flight, the shutdown leaves no job, no result
\* and no caller behind (shutdown_worker).
ExitDrained ==
  (phase # "open" /\ Idle /\ ~WorkInFlight)
    => /\ AtWorker = {NoJob} /\ ~ops.deferred
       /\ \A c \in Callers : call[c] = "none"

PlanHere == ops.deferred \/ \E r \in Elems(results) : r.kind = "plan" /\ r.ok

\* A plan is applied only when no promote that was dispatched is unresolved:
\* its worker may be about to refer to what the plan drops
\* (apply_or_defer_gc_plan).  Nothing is said of a promote that was prepped and
\* is not with the worker: one that waits for room in send_worker_job, inside
\* which the plan may be applied, or one stashed after a failure.
PlanBehindPromotes == [][PlanHere /\ ~PlanHere' => Dispatched' = {}]_vars

\* Every call is answered although both channels are bounded, jobs fail and
\* other callers keep coming: nobody waits on a full queue that waits on them.
\* Handoffs are in the next property.
EveryCallAnswered ==
  \A c \in Callers : (call[c] \notin {"none", "handoffs"}) ~> (call[c] = "none")

\* A batch of plans is held behind promotes; it is answered if the promotes in
\* flight run out again and again. The code gives no bound when they do not.
HandoffAnswered ==
  ([]<>(Dispatched = {})) => \A c \in Callers : (call[c] = "handoffs") ~> (call[c] = "none")

\* A stashed promote is sent again, although nothing is written any more and
\* however many are stashed before it (retry_failed_promote, the idle tick).
StashRetried ==
  \A e \in Epochs : (e \in Elems(pipe.failed)) ~> (e \notin Elems(pipe.failed) \/ phase # "open")

\* A shutdown ends, with a plan held back or a batch half done.
ShutdownEnds == (phase = "closing") ~> (phase = "exited")
=============================================================================
