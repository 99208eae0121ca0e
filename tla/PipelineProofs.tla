--------------------------- MODULE PipelineProofs ---------------------------
(***************************************************************************)
(* The inductive invariant of Pipeline, for any callers, number of WALs,   *)
(* channel capacity and number of plans, and how the guest, the worker     *)
(* thread, the dispatch and the requests preserve it.                      *)
(*                                                                         *)
(* The two channels and the worker are one queue, the Line: a job enters   *)
(* at the end, the worker's steps leave the Line alone, and the actor      *)
(* takes its head.  What the properties say of jobs follows from the order *)
(* of the Line, from no job being in it twice, and from a stack whose      *)
(* sends are not in it yet.                                                *)
(***************************************************************************)
EXTENDS Pipeline, Integers, TLAPS

-----------------------------------------------------------------------------
(* The types of the variables.                                             *)

Whos == Callers \cup {Nobody}
SlotKinds == Slots \cup {"segment"}
Openings == {"promote", "tick", "wal", "checkpoint"}

(* A promote of an epoch, a plan, or the job of a caller.                  *)
Jobs == [kind : {"promote"}, id : Epochs] \cup [kind : {"plan"}, id : {0}]
          \cup [kind : SlotKinds, id : Callers]
Results == [kind : {"promote"}, id : Epochs, ok : BOOLEAN]
             \cup [kind : {"plan"}, id : {0}, ok : BOOLEAN]
             \cup [kind : SlotKinds, id : Callers, ok : BOOLEAN]
(* The opening of a handler names the epoch that the handler's retry sends. *)
Tasks == [op : {"send"}, who : Whos, job : Jobs, left : {0}]
           \cup [op : {"plan"}, who : Whos, job : {NoJob}, left : Nat]
           \cup [op : Openings, who : Whos, job : [kind : {"promote"}, id : Epochs \cup {0}],
                 left : {0}]
Parked == [kind : {"none", "flush", "barrier"}, epoch : Epochs \cup {0}, left : Nat, who : Whos,
           due : SUBSET Epochs]
Pipes == [in_flight : Nat, lag : Nat, gc : Parked, wal : SUBSET [epoch : Epochs, who : Callers],
          segments : SUBSET Callers, failed : Seq(Epochs)]
Batches == [left : Nat, who : Whos, on : BOOLEAN]
Operations == [batch : Batches, flying : BOOLEAN, deferred : BOOLEAN, slot : [Slots -> Whos]]
Calls == (UNION {Asks[c] : c \in Callers}) \cup {"none"}

Types ==
  /\ wal \in Epochs \cup {0} /\ wals \subseteq Epochs
  /\ plans \in 0 .. MaxPlans
  /\ phase \in {"open", "closing", "exited"}
  /\ stack \in Seq(Tasks)
  /\ jobs \in Seq(Jobs) /\ running \in Jobs \cup {NoJob} /\ results \in Seq(Results)
  /\ Len(jobs) <= Capacity /\ Len(results) <= Capacity
  /\ pipe \in Pipes /\ ops \in Operations
  /\ call \in [Callers -> Calls] /\ \A c \in Callers : call[c] \in Asks[c] \cup {"none"}

-----------------------------------------------------------------------------
(* The Line: results, the running job, and the jobs that wait, in order.   *)

Busy(run) == IF run = NoJob THEN 0 ELSE 1
LineOf(rs, run, js) ==
  [i \in 1 .. Len(rs) + Busy(run) + Len(js) |->
     IF i <= Len(rs) THEN Job(rs[i].kind, rs[i].id)
     ELSE IF i <= Len(rs) + Busy(run) THEN run
     ELSE js[i - Len(rs) - Busy(run)]]
Line == LineOf(results, running, jobs)

Once(s) == \A i, j \in DOMAIN s : s[i] = s[j] => i = j

(* The epochs whose promote is in Line L, or about to be sent by stack s.  *)
Promotes(L) == {e \in Epochs : Job("promote", e) \in Elems(L)}
Unsent(s) == {e \in Epochs : \E t \in Elems(s) : t.op = "send" /\ t.job = Job("promote", e)}

-----------------------------------------------------------------------------
(* The invariant, as predicates over stack s, Line L and what they concern.*)

(* A send is a promote or the job of the caller it answers.                *)
GoodTask(t) ==
  /\ t.op = "send" => /\ t.job.kind # "plan"
                      /\ t.job.kind \in SlotKinds => t.who = t.job.id
  /\ t.op \in {"promote", "tick"} => t.who = Nobody
  /\ t.op \in {"wal", "checkpoint"} => t.who \in Callers

(* Two tasks are about different jobs, batches and callers.                *)
Apart(t, u) ==
  /\ ~(t.op = "send" /\ u.op = "send" /\ t.job = u.job)
  /\ ~(t.op = "send" /\ u.op = "send" /\ t.job.kind \in Slots /\ u.job.kind = t.job.kind)
  /\ ~(t.op = "plan" /\ u.op = "plan")
  /\ ~(t.who = u.who /\ t.who \in Callers)

(* No job that is still to be sent is in the Line.  An opening is the last *)
(* thing a handler does but for what it leads to, and the retry before it  *)
(* goes out right before it.                                               *)
StackOk(s, L) ==
  /\ \A i \in DOMAIN s : GoodTask(s[i])
  /\ \A i, j \in DOMAIN s : i # j => Apart(s[i], s[j])
  /\ \A i \in DOMAIN s : s[i].op = "send" => s[i].job \notin Elems(L)
  /\ \A i \in DOMAIN s : s[i].op \in Openings => i = Len(s)
  /\ \A i \in DOMAIN s : s[i].op \in Openings /\ s[i].job.id # 0 =>
       IF i = 1 THEN s[i].job \in Elems(L)
       ELSE s[i - 1].op = "send" /\ s[i - 1].job = s[i].job

(* Every WAL is open, about to be sent, dispatched or stashed, and no two. *)
WalOk(w, ws, S, D, f) ==
  /\ ws = ({w} \ {0}) \cup S \cup D \cup Elems(f)
  /\ w \notin S \cup D \cup Elems(f)
  /\ S \cap D = {} /\ Elems(f) \cap (S \cup D) = {}
  /\ Once(f)

CountOk(p, L) == p.in_flight = Cardinality(Promotes(L)) /\ p.lag = p.in_flight

(* The batch is in its slot exactly while its plan is at the worker or     *)
(* held back, and out of it while its task is on the stack.                *)
PlanOk(o, n, s, L) ==
  /\ o.flying = o.batch.on
  /\ o.batch.on <=> (Job("plan", 0) \in Elems(L) \/ o.deferred)
  /\ ~(Job("plan", 0) \in Elems(L) /\ o.deferred)
  /\ o.deferred => Promotes(L) # {}
  /\ o.batch.on => o.batch.left < n
  /\ ~o.batch.on => o.batch = NoBatch
  /\ \A t \in Elems(s) : t.op = "plan" => ~o.batch.on /\ t.left <= n

(* A flush waits for its epoch, with everything due ahead of it in the     *)
(* Line.  A barrier counts the promotes that are due, and they are the     *)
(* first ones of the Line.                                                 *)
FlushOk(g, S, L) ==
  /\ g.who \in Callers /\ g.left = 0 /\ g.epoch \in S \cup Promotes(L)
  /\ g.due \subseteq Promotes(L) \cup {g.epoch}
  /\ \A i, j \in DOMAIN L :
       (L[i] = Job("promote", g.epoch) /\ L[j].kind = "promote" /\ L[j].id \in g.due) => j <= i

BarrierOk(g, L) ==
  /\ g.who \in Callers /\ g.left > 0 /\ g.left = Cardinality(g.due)
  /\ g.due \subseteq Promotes(L)
  /\ \A i, j \in DOMAIN L :
       (/\ L[i].kind = "promote" /\ L[i].id \notin g.due
        /\ L[j].kind = "promote" /\ L[j].id \in g.due) => j < i

GcOk(g, s, L) ==
  /\ g.kind = "none" => g = NoGc
  /\ g.kind = "flush" => FlushOk(g, Unsent(s), L)
  /\ g.kind = "barrier" => BarrierOk(g, L)
  /\ \A t \in Elems(s) : t.op = "checkpoint" => g = NoGc

(* What the caller that task t works for has asked.                        *)
AskOf(t) ==
  IF t.op = "send" THEN IF t.job.kind = "promote" THEN "wal" ELSE t.job.kind
  ELSE IF t.op = "plan" THEN "handoffs" ELSE t.op

(* A reply is parked for a caller that asked for it, and in one place.     *)
ReplyOk(k, s, L, p, o) ==
  /\ \A t \in Elems(s) : t.who \in Callers => k[t.who] = AskOf(t)
  /\ \A w \in p.wal : w.epoch \in Promotes(L) /\ k[w.who] = "wal"
  /\ \A v, w \in p.wal : v.who = w.who => v = w
  /\ \A w \in p.wal : \A t \in Elems(s) : t.who # w.who
  /\ p.gc.who \in Callers => k[p.gc.who] = "checkpoint"
  /\ o.batch.who \in Callers => k[o.batch.who] = "handoffs"
  /\ \A j \in Elems(L) : j.kind \in SlotKinds => k[j.id] = j.kind

(* The slots are those of the jobs in the Line.                            *)
SlotOk(p, o, s, L) ==
  /\ \A k \in Slots : o.slot[k] # Nobody => Job(k, o.slot[k]) \in Elems(L)
  /\ \A j \in Elems(L) : j.kind \in Slots => o.slot[j.kind] = j.id
  /\ \A c \in Callers : c \in p.segments <=> Job("segment", c) \in Elems(L)
  /\ \A t \in Elems(s) : t.op = "send" /\ t.job.kind \in Slots => o.slot[t.job.kind] = Nobody

(* A caller that waits has its reply parked somewhere.                     *)
Holds(c, s, L, p, o) ==
  \/ \E t \in Elems(s) : t.who = c
  \/ \E w \in p.wal : w.who = c
  \/ p.gc.who = c
  \/ o.batch.who = c
  \/ \E j \in Elems(L) : j.kind \in SlotKinds /\ j.id = c

ParkedOk(k, s, L, p, o) == \A c \in Callers : k[c] # "none" => Holds(c, s, L, p, o)

IInv ==
  /\ Types
  /\ Once(Line)
  /\ StackOk(stack, Line)
  /\ WalOk(wal, wals, Unsent(stack), Promotes(Line), pipe.failed)
  /\ CountOk(pipe, Line)
  /\ PlanOk(ops, plans, stack, Line)
  /\ GcOk(pipe.gc, stack, Line)
  /\ ReplyOk(call, stack, Line, pipe, ops)
  /\ SlotOk(pipe, ops, stack, Line)
  /\ ParkedOk(call, stack, Line, pipe, ops)

-----------------------------------------------------------------------------
(* Sequences.                                                              *)

\* Sequences are equal when they agree everywhere.
LEMMA SameSeq ==
  ASSUME NEW S, NEW s \in Seq(S), NEW t \in Seq(S), Len(s) = Len(t),
         \A i \in 1 .. Len(s) : s[i] = t[i]
  PROVE  s = t
  OBVIOUS

\* What Append adds, and that it repeats nothing when the element is new.
LEMMA AppendFacts ==
  ASSUME NEW S, NEW s \in Seq(S), NEW x \in S
  PROVE  /\ Append(s, x) \in Seq(S)
         /\ DOMAIN Append(s, x) = 1 .. Len(s) + 1
         /\ \A i \in 1 .. Len(s) : Append(s, x)[i] = s[i]
         /\ Append(s, x)[Len(s) + 1] = x
         /\ Elems(Append(s, x)) = Elems(s) \cup {x}
         /\ Once(s) /\ x \notin Elems(s) => Once(Append(s, x))
  BY DEF Elems, Once

\* What Tail leaves of a sequence without repetitions.
LEMMA TailFacts ==
  ASSUME NEW S, NEW s \in Seq(S), s # <<>>
  PROVE  /\ Tail(s) \in Seq(S) /\ Head(s) \in S /\ Len(s) > 0
         /\ DOMAIN Tail(s) = 1 .. Len(s) - 1 /\ Len(Tail(s)) = Len(s) - 1
         /\ \A i \in 1 .. Len(s) - 1 : Tail(s)[i] = s[i + 1]
         /\ Head(s) = s[1] /\ Head(s) \in Elems(s)
         /\ Elems(s) = {Head(s)} \cup Elems(Tail(s))
         /\ Once(s) => Once(Tail(s)) /\ Elems(Tail(s)) = Elems(s) \ {Head(s)}
<1>1. /\ Tail(s) \in Seq(S) /\ Head(s) \in S /\ Len(s) > 0
      /\ DOMAIN Tail(s) = 1 .. Len(s) - 1 /\ Len(Tail(s)) = Len(s) - 1
      /\ \A i \in 1 .. Len(s) - 1 : Tail(s)[i] = s[i + 1]
      /\ Head(s) = s[1] /\ DOMAIN s = 1 .. Len(s) /\ Len(s) \in Nat
  OBVIOUS
<1>2. Elems(s) = {Head(s)} \cup Elems(Tail(s))
  <2>1. ASSUME NEW x \in Elems(s) PROVE x \in {Head(s)} \cup Elems(Tail(s))
    <3>1. PICK i \in 1 .. Len(s) : x = s[i]
      BY Zenon, <1>1 DEF Elems
    <3>2. CASE i # 1
      <4>1. i - 1 \in 1 .. Len(s) - 1 /\ Tail(s)[i - 1] = s[i]
        BY <1>1, <3>2
      <4> QED BY <1>1, <3>1, <4>1, Zenon DEF Elems
    <3> QED BY Zenon, <1>1, <3>1, <3>2
  <2>2. ASSUME NEW x \in Elems(Tail(s)) PROVE x \in Elems(s)
    <3>1. PICK i \in 1 .. Len(s) - 1 : x = Tail(s)[i]
      BY Zenon, <1>1 DEF Elems
    <3>2. i + 1 \in 1 .. Len(s) /\ x = s[i + 1]
      BY <1>1, <3>1
    <3> QED BY Zenon, <1>1, <3>2 DEF Elems
  <2>3. Head(s) \in Elems(s)
    BY <1>1 DEF Elems
  <2> QED BY Zenon, <2>1, <2>2, <2>3
<1>3. ASSUME Once(s) PROVE Once(Tail(s)) /\ Head(s) \notin Elems(Tail(s))
  <2>1. Once(Tail(s))
    BY <1>1, <1>3 DEF Once
  <2>2. \A i \in 1 .. Len(s) - 1 : s[i + 1] # s[1]
    BY <1>1, <1>3 DEF Once
  <2> QED BY <1>1, <2>1, <2>2 DEF Elems
<1> QED BY Zenon, <1>1, <1>2, <1>3

\* A task in front of a stack.
LEMMA ConsFacts ==
  ASSUME NEW S, NEW s \in Seq(S), NEW x \in S
  PROVE  /\ <<x>> \o s \in Seq(S)
         /\ DOMAIN (<<x>> \o s) = 1 .. Len(s) + 1 /\ Len(<<x>> \o s) = Len(s) + 1
         /\ (<<x>> \o s)[1] = x /\ <<x>> \o s # <<>>
         /\ \A i \in 2 .. Len(s) + 1 : (<<x>> \o s)[i] = s[i - 1]
         /\ Elems(<<x>> \o s) = {x} \cup Elems(s)
<1> DEFINE u == <<x>> \o s
<1>1. /\ u \in Seq(S) /\ DOMAIN u = 1 .. Len(s) + 1 /\ Len(u) = Len(s) + 1 /\ u[1] = x /\ u # <<>>
      /\ \A i \in 2 .. Len(s) + 1 : u[i] = s[i - 1]
      /\ DOMAIN s = 1 .. Len(s) /\ Len(s) \in Nat
  OBVIOUS
<1> HIDE DEF u
<1>2. \A i \in DOMAIN s : i + 1 \in DOMAIN u /\ u[i + 1] = s[i]
  BY <1>1
<1>3. \A i \in DOMAIN u : i # 1 => i - 1 \in DOMAIN s /\ u[i] = s[i - 1]
  BY <1>1
<1>4. 1 \in DOMAIN u
  BY <1>1
<1>5. Elems(u) = {x} \cup Elems(s)
  BY <1>1, <1>2, <1>3, <1>4 DEF Elems
<1> QED BY Zenon, <1>1, <1>5 DEF u

\* The short stacks that a handler begins with.
LEMMA ShortFacts ==
  ASSUME NEW S, NEW x \in S, NEW y \in S
  PROVE  /\ <<x>> \in Seq(S) /\ <<x, y>> \in Seq(S) /\ <<>> \in Seq(S)
         /\ DOMAIN <<x>> = {1} /\ Len(<<x>>) = 1 /\ <<x>>[1] = x
         /\ DOMAIN <<x, y>> = {1, 2} /\ Len(<<x, y>>) = 2 /\ <<x, y>>[1] = x /\ <<x, y>>[2] = y
         /\ <<x>> \o <<y>> = <<x, y>> /\ <<>> \o <<y>> = <<y>> /\ <<x>> \o <<>> = <<x>>
         /\ DOMAIN <<>> = {}
<1>1. <<x>> \in Seq(S) /\ <<x, y>> \in Seq(S) /\ <<>> \in Seq(S)
  OBVIOUS
<1>2. /\ Len(<<x>>) = 1 /\ <<x>>[1] = x
      /\ Len(<<x, y>>) = 2 /\ <<x, y>>[1] = x /\ <<x, y>>[2] = y /\ DOMAIN <<>> = {}
  OBVIOUS
<1>3. 1 .. 1 = {1} /\ 1 .. 2 = {1, 2}
  OBVIOUS
<1>4. DOMAIN <<x>> = 1 .. 1 /\ DOMAIN <<x, y>> = 1 .. 2
  OBVIOUS
<1>5. <<x>> \o <<y>> = <<x, y>>
  <2>1. <<x>> \o <<y>> \in Seq(S) /\ Len(<<x>> \o <<y>>) = 2
        /\ (<<x>> \o <<y>>)[1] = x /\ (<<x>> \o <<y>>)[2] = y
    BY <1>1, <1>2
  <2> QED BY <1>1, <1>2, <1>3, <2>1, SameSeq, Zenon
<1>6. <<>> \o <<y>> = <<y>>
  OBVIOUS
<1>7. <<x>> \o <<>> = <<x>>
  OBVIOUS
<1> QED BY Zenon, <1>1, <1>2, <1>3, <1>4, <1>5, <1>6, <1>7

\* Two single tasks, one after the other.
LEMMA ConcatTwo == \A x, y : <<x>> \o <<y>> = <<x, y>>
<1> SUFFICES ASSUME NEW x, NEW y PROVE <<x>> \o <<y>> = <<x, y>>
  BY Zenon
<1>1. x \in {x, y} /\ y \in {x, y}
  BY Zenon
<1> QED BY <1>1, ShortFacts, Zenon

\* What the short stacks hold.
LEMMA ShortElems ==
  /\ Elems(<<>>) = {}
  /\ \A x : Elems(<<x>>) = {x}
  /\ \A x, y : Elems(<<x, y>>) = {x, y}
<1>1. Elems(<<>>) = {}
  BY DEF Elems
<1>2. ASSUME NEW x, NEW y PROVE Elems(<<x>>) = {x} /\ Elems(<<x, y>>) = {x, y}
  <2>1. /\ DOMAIN <<x>> = {1} /\ <<x>>[1] = x
        /\ DOMAIN <<x, y>> = {1, 2} /\ <<x, y>>[1] = x /\ <<x, y>>[2] = y
    <3>1. x \in {x, y} /\ y \in {x, y}
      BY Zenon
    <3> QED BY <3>1, ShortFacts, Zenon
  <2> QED BY Zenon, <2>1 DEF Elems
<1> QED BY <1>1, <1>2, Zenon

-----------------------------------------------------------------------------
(* The Line.                                                               *)

\* A result carries the job it answers.
LEMMA ResultJobs ==
  ASSUME NEW r \in Results
  PROVE  Job(r.kind, r.id) \in Jobs /\ r.ok \in BOOLEAN
  BY Zenon DEF Results, Jobs, Job

\* The empty job is no job.
LEMMA NoJobApart ==
  /\ NoJob \notin Jobs
  /\ \A j \in Jobs : j = Job(j.kind, j.id) /\ j.kind # "none"
  BY DEF NoJob, Jobs, Job, SlotKinds, Slots

\* The Line is a sequence of jobs.
LEMMA LineType ==
  ASSUME NEW rs \in Seq(Results), NEW run \in Jobs \cup {NoJob}, NEW js \in Seq(Jobs)
  PROVE  /\ LineOf(rs, run, js) \in Seq(Jobs)
         /\ Len(LineOf(rs, run, js)) = Len(rs) + Busy(run) + Len(js)
         /\ Busy(run) \in Nat /\ Busy(run) <= 1 /\ Len(rs) \in Nat /\ Len(js) \in Nat
<1> DEFINE n == Len(rs) + Busy(run) + Len(js)
           L == LineOf(rs, run, js)
<1>1. /\ Len(rs) \in Nat /\ Len(js) \in Nat /\ Busy(run) \in Nat /\ Busy(run) <= 1
      /\ \A i \in 1 .. Len(rs) : rs[i] \in Results
      /\ \A i \in 1 .. Len(js) : js[i] \in Jobs
      /\ Busy(run) = 1 => run \in Jobs
  BY DEF Busy
<1>2. ASSUME NEW i \in 1 .. n PROVE L[i] \in Jobs
  <2>1. CASE i <= Len(rs)
    BY <1>1, <2>1, ResultJobs DEF LineOf
  <2>2. CASE i > Len(rs) /\ i <= Len(rs) + Busy(run)
    BY <1>1, <2>2 DEF LineOf
  <2>3. CASE i > Len(rs) + Busy(run)
    <3>1. i - Len(rs) - Busy(run) \in 1 .. Len(js) /\ L[i] = js[i - Len(rs) - Busy(run)]
      BY <1>1, <2>3 DEF LineOf
    <3> QED BY Zenon, <1>1, <3>1
  <2> QED BY <1>1, <2>1, <2>2, <2>3
<1>3. n \in Nat /\ L = [i \in 1 .. n |-> L[i]]
  BY <1>1 DEF LineOf
<1> HIDE DEF n, L
<1>4. L \in [1 .. n -> Jobs]
  BY Zenon, <1>2, <1>3
<1>5. L \in Seq(Jobs) /\ Len(L) = n
  BY <1>3, <1>4
<1> QED BY Zenon, <1>1, <1>5 DEF n, L

\* The worker moves a job along the Line.
LEMMA TakesLine ==
  ASSUME Types, WorkerTakes
  PROVE  Line' = Line
<1>1. /\ running = NoJob /\ running' = jobs[1] /\ results' = results /\ Len(jobs) > 0
      /\ Len(jobs') = Len(jobs) - 1 /\ \A i \in 1 .. Len(jobs) - 1 : jobs'[i] = jobs[i + 1]
      /\ jobs[1] \in Jobs /\ jobs' \in Seq(Jobs) /\ jobs \in Seq(Jobs) /\ results \in Seq(Results)
  BY TailFacts DEF Types, WorkerTakes
<1>2. Busy(running) = 0 /\ Busy(running') = 1
  BY Zenon, <1>1, NoJobApart DEF Busy
<1>3. /\ Line \in Seq(Jobs) /\ Len(Line) = Len(results) + Len(jobs)
      /\ Line' \in Seq(Jobs) /\ Len(Line') = Len(results) + 1 + Len(jobs')
      /\ Len(results) \in Nat /\ Len(jobs) \in Nat
  <2>1. Line = LineOf(results, running, jobs) /\ Line' = LineOf(results, running', jobs')
    BY Zenon, <1>1 DEF Line
  <2>2. running \in Jobs \cup {NoJob} /\ running' \in Jobs \cup {NoJob}
    BY Zenon, <1>1
  <2>3. /\ Line \in Seq(Jobs) /\ Len(Line) = Len(results) + Busy(running) + Len(jobs)
        /\ Len(results) \in Nat /\ Len(jobs) \in Nat
    BY <1>1, <2>1, <2>2, LineType, Zenon
  <2>4. Line' \in Seq(Jobs) /\ Len(Line') = Len(results) + Busy(running') + Len(jobs')
    BY <1>1, <2>1, <2>2, LineType, Zenon
  <2> QED BY <1>2, <2>3, <2>4
<1>4. ASSUME NEW i \in 1 .. Len(Line) PROVE Line'[i] = Line[i]
  <2>1. CASE i <= Len(results)
    BY <1>1, <1>2, <1>3, <2>1 DEF Line, LineOf
  <2>2. CASE i = Len(results) + 1
    BY <1>1, <1>2, <1>3, <2>2 DEF Line, LineOf
  <2>3. CASE i > Len(results) + 1
    <3>1. Line[i] = jobs[i - Len(results)] /\ Line'[i] = jobs'[i - Len(results) - 1]
      BY <1>1, <1>2, <1>3, <2>3 DEF Line, LineOf
    <3> QED BY <1>1, <1>3, <2>3, <3>1
  <2> QED BY <1>3, <2>1, <2>2, <2>3
<1> QED BY <1>1, <1>3, <1>4, SameSeq

\* A running job becomes a result at the same place of the Line.
LEMMA AnswersLine ==
  ASSUME Types, WorkerAnswers
  PROVE  Line' = Line
<1>1. /\ running # NoJob /\ running' = NoJob /\ jobs' = jobs /\ running \in Jobs
      /\ \E ok \in BOOLEAN : results' = Append(results, [kind |-> running.kind, id |-> running.id, ok |-> ok])
      /\ results \in Seq(Results) /\ jobs \in Seq(Jobs)
  BY Zenon DEF Types, WorkerAnswers
<1>2. /\ Len(results') = Len(results) + 1 /\ \A i \in 1 .. Len(results) : results'[i] = results[i]
      /\ results'[Len(results) + 1].kind = running.kind /\ results'[Len(results) + 1].id = running.id
  BY <1>1
<1>3. results' \in Seq(Results)
  <2>1. \A ok \in BOOLEAN : [kind |-> running.kind, id |-> running.id, ok |-> ok] \in Results
    BY Zenon, <1>1 DEF Jobs, Results
  <2> QED BY <1>1, <2>1
<1>4. Busy(running) = 1 /\ Busy(running') = 0 /\ running = Job(running.kind, running.id)
  BY Zenon, <1>1, NoJobApart DEF Busy
<1>5. /\ Line \in Seq(Jobs) /\ Len(Line) = Len(results) + 1 + Len(jobs)
      /\ Line' \in Seq(Jobs) /\ Len(Line') = Len(results) + 1 + Len(jobs)
      /\ Len(results) \in Nat /\ Len(jobs) \in Nat
  <2>1. Line = LineOf(results, running, jobs) /\ Line' = LineOf(results', running', jobs)
    BY Zenon, <1>1 DEF Line
  <2>2. running \in Jobs \cup {NoJob} /\ running' \in Jobs \cup {NoJob}
    BY Zenon, <1>1
  <2>3. /\ Line \in Seq(Jobs) /\ Len(Line) = Len(results) + Busy(running) + Len(jobs)
        /\ Len(results) \in Nat /\ Len(jobs) \in Nat
    BY <1>1, <2>1, <2>2, LineType, Zenon
  <2>4. Line' \in Seq(Jobs) /\ Len(Line') = Len(results') + Busy(running') + Len(jobs)
    BY <1>1, <1>3, <2>1, <2>2, LineType, Zenon
  <2> QED BY <1>2, <1>4, <2>3, <2>4
<1>6. ASSUME NEW i \in 1 .. Len(Line) PROVE Line'[i] = Line[i]
  <2>1. CASE i <= Len(results)
    BY <1>1, <1>2, <1>4, <1>5, <2>1 DEF Line, LineOf
  <2>2. CASE i = Len(results) + 1
    BY <1>1, <1>2, <1>4, <1>5, <2>2 DEF Line, LineOf
  <2>3. CASE i > Len(results) + 1
    BY <1>1, <1>2, <1>4, <1>5, <2>3 DEF Line, LineOf
  <2> QED BY <1>5, <2>1, <2>2, <2>3
<1> QED BY Zenon, <1>5, <1>6, SameSeq

\* A job that is sent enters the Line at its end.
LEMMA SendLine ==
  ASSUME Types, NEW j \in Jobs, jobs' = Append(jobs, j), UNCHANGED <<running, results>>
  PROVE  Line' = Append(Line, j)
<1>1. /\ jobs' \in Seq(Jobs) /\ Len(jobs') = Len(jobs) + 1 /\ jobs \in Seq(Jobs)
      /\ \A i \in 1 .. Len(jobs) : jobs'[i] = jobs[i]
      /\ jobs'[Len(jobs) + 1] = j /\ results \in Seq(Results) /\ running \in Jobs \cup {NoJob}
  BY AppendFacts DEF Types
<1>2. /\ Line \in Seq(Jobs) /\ Len(Line) = Len(results) + Busy(running) + Len(jobs)
      /\ Line' \in Seq(Jobs) /\ Len(Line') = Len(results) + Busy(running) + Len(jobs) + 1
      /\ Len(results) \in Nat /\ Len(jobs) \in Nat /\ Busy(running) \in Nat
  <2>1. Line = LineOf(results, running, jobs) /\ Line' = LineOf(results, running, jobs')
    BY Zenon DEF Line
  <2>2. /\ Line \in Seq(Jobs) /\ Len(Line) = Len(results) + Busy(running) + Len(jobs)
        /\ Len(results) \in Nat /\ Len(jobs) \in Nat /\ Busy(running) \in Nat
    BY <1>1, <2>1, LineType, Zenon
  <2>3. Line' \in Seq(Jobs) /\ Len(Line') = Len(results) + Busy(running) + Len(jobs')
    BY <1>1, <2>1, LineType, Zenon
  <2> QED BY <1>1, <2>2, <2>3
<1>3. ASSUME NEW i \in 1 .. Len(Line') PROVE Line'[i] = Append(Line, j)[i]
  <2>1. CASE i <= Len(results) + Busy(running)
    BY <1>1, <1>2, <2>1 DEF Line, LineOf
  <2>2. CASE i > Len(results) + Busy(running) /\ i <= Len(Line)
    <3>1. Line'[i] = jobs'[i - Len(results) - Busy(running)]
      BY <1>1, <1>2, <2>2 DEF Line, LineOf
    <3>2. Line[i] = jobs[i - Len(results) - Busy(running)]
      BY <1>1, <1>2, <2>2 DEF Line, LineOf
    <3>3. i - Len(results) - Busy(running) \in 1 .. Len(jobs)
      BY <1>2, <2>2
    <3> QED BY <1>1, <1>2, <2>2, <3>1, <3>2, <3>3
  <2>3. CASE i = Len(Line) + 1
    <3>1. /\ i = Len(results) + Busy(running) + Len(jobs) + 1 /\ Len(results) \in Nat
          /\ Len(jobs) \in Nat /\ Busy(running) \in Nat /\ Len(jobs') = Len(jobs) + 1
      BY Zenon, <1>1, <1>2, <2>3
    <3>2. Line'[i] = jobs'[i - Len(results) - Busy(running)]
      BY <3>1 DEF Line, LineOf
    <3>3. i - Len(results) - Busy(running) = Len(jobs) + 1 /\ Append(Line, j)[i] = j
      BY <1>2, <2>3, <3>1
    <3> QED BY Zenon, <1>1, <3>2, <3>3
  <2> QED BY <1>2, <2>1, <2>2, <2>3
<1>4. Append(Line, j) \in Seq(Jobs) /\ Len(Append(Line, j)) = Len(Line')
  BY <1>2
<1> QED BY Zenon, <1>2, <1>3, <1>4, SameSeq

\* The Line holds the jobs at the worker, and no others.
LEMMA AtWorkerIs ==
  ASSUME Types
  PROVE  /\ Line \in Seq(Jobs) /\ Elems(Line) \subseteq Jobs
         /\ \A j \in Jobs : j \in AtWorker <=> j \in Elems(Line)
         /\ Line = <<>> => AtWorker = {NoJob}
<1>1. results \in Seq(Results) /\ running \in Jobs \cup {NoJob} /\ jobs \in Seq(Jobs)
  BY Zenon DEF Types
<1>2. /\ Line \in Seq(Jobs) /\ Len(Line) = Len(results) + Busy(running) + Len(jobs)
      /\ Len(results) \in Nat /\ Len(jobs) \in Nat /\ Busy(running) \in Nat /\ Busy(running) <= 1
  BY <1>1, LineType, Zenon DEF Line
<1>3. Elems(Line) \subseteq Jobs
  BY <1>2 DEF Elems
<1>4. ASSUME NEW j \in Jobs, j \in AtWorker PROVE j \in Elems(Line)
  <2>1. CASE j \in Elems(jobs)
    <3>1. PICK i \in 1 .. Len(jobs) : jobs[i] = j
      BY <1>1, <2>1 DEF Elems
    <3>2. Line[Len(results) + Busy(running) + i] = j
      BY <1>2, <3>1 DEF Line, LineOf
    <3>3. Len(results) + Busy(running) + i \in 1 .. Len(Line)
      BY <1>2
    <3> QED BY <1>2, <3>2, <3>3 DEF Elems
  <2>2. CASE j = running
    <3>1. Busy(running) = 1
      BY Zenon, <2>2, NoJobApart DEF Busy
    <3>2. Line[Len(results) + 1] = j /\ Len(results) + 1 \in 1 .. Len(Line)
      BY <1>2, <2>2, <3>1 DEF Line, LineOf
    <3> QED BY <1>2, <3>2 DEF Elems
  <2>3. CASE j \in {Job(r.kind, r.id) : r \in Elems(results)}
    <3>1. PICK i \in 1 .. Len(results) : Job(results[i].kind, results[i].id) = j
      BY <1>1, <2>3 DEF Elems
    <3>2. Line[i] = j /\ i \in 1 .. Len(Line)
      BY <1>2, <3>1 DEF Line, LineOf
    <3> QED BY <1>2, <3>2 DEF Elems
  <2> QED BY Zenon, <1>4, <2>1, <2>2, <2>3 DEF AtWorker
<1>5. ASSUME NEW j \in Elems(Line) PROVE j \in AtWorker
  <2>1. PICK i \in 1 .. Len(Line) : Line[i] = j
    BY <1>2 DEF Elems
  <2>2. CASE i <= Len(results)
    <3>1. j = Job(results[i].kind, results[i].id) /\ i \in DOMAIN results
      BY <1>1, <1>2, <2>1, <2>2 DEF Line, LineOf
    <3> QED BY Zenon, <3>1 DEF AtWorker, Elems
  <2>3. CASE i > Len(results) /\ i <= Len(results) + Busy(running)
    <3>1. j = running
      BY <1>2, <2>1, <2>3 DEF Line, LineOf
    <3> QED BY Zenon, <3>1 DEF AtWorker
  <2>4. CASE i > Len(results) + Busy(running)
    <3>1. j = jobs[i - Len(results) - Busy(running)]
      BY <1>2, <2>1, <2>4 DEF Line, LineOf
    <3>2. i - Len(results) - Busy(running) \in DOMAIN jobs
      BY <1>1, <1>2, <2>1, <2>4
    <3> QED BY Zenon, <3>1, <3>2 DEF AtWorker, Elems
  <2> QED BY <1>2, <2>1, <2>2, <2>3, <2>4
<1>6. ASSUME Line = <<>> PROVE AtWorker = {NoJob}
  <2>1. Len(results) = 0 /\ Len(jobs) = 0 /\ Busy(running) = 0
    BY <1>2, <1>6
  <2>2. results = <<>> /\ jobs = <<>> /\ running = NoJob
    BY <1>1, <2>1 DEF Busy
  <2> QED BY <2>2 DEF AtWorker, Elems
<1> QED BY Zenon, <1>2, <1>3, <1>4, <1>5, <1>6

\* What the properties count, in terms of the Line and the stack.
LEMMA ViewsAre ==
  ASSUME Types
  PROVE  /\ Dispatched = Promotes(Line) /\ Sends = Unsent(stack)
         /\ PlanAtWorker <=> Job("plan", 0) \in Elems(Line)
<1>1. /\ \A j \in Jobs : j \in AtWorker <=> j \in Elems(Line)
      /\ \A j \in AtWorker : j \in Jobs \/ j = NoJob
  <2>1. Elems(jobs) \subseteq Jobs /\ running \in Jobs \cup {NoJob}
        /\ \A r \in Elems(results) : r \in Results
    BY DEF Types, Elems
  <2> QED BY Zenon, <2>1, AtWorkerIs, ResultJobs DEF AtWorker
<1>2. \A j \in Jobs : /\ j.kind = "promote" => j.id \in Epochs /\ j = Job("promote", j.id)
                      /\ j.kind = "plan" => j = Job("plan", 0)
  BY DEF Jobs, Job, SlotKinds, Slots
<1>3. /\ \A e \in Epochs : Job("promote", e) \in Jobs /\ Job("promote", e).kind = "promote"
                            /\ Job("promote", e).id = e
      /\ Job("plan", 0) \in Jobs /\ Job("plan", 0).kind = "plan"
  BY Zenon DEF Jobs, Job
<1>4. NoJob.kind = "none"
  BY Zenon DEF NoJob, Job
<1>5. Dispatched = Promotes(Line)
  BY <1>1, <1>2, <1>3, <1>4 DEF Dispatched, Promotes
<1>6. PlanAtWorker <=> Job("plan", 0) \in Elems(Line)
  BY Zenon, <1>1, <1>2, <1>3, <1>4 DEF PlanAtWorker
<1>7. Sends = Unsent(stack)
  <2>1. \A t \in Elems(stack) : t \in Tasks
    BY DEF Types, Elems
  <2>2. \A t \in Tasks : t.op = "send" => t.job \in Jobs
    BY Zenon DEF Tasks, Openings
  <2>3. \A e \in Epochs : e \in Sends <=> \E t \in Elems(stack) : t.op = "send" /\ t.job = Job("promote", e)
    BY <1>2, <1>3, <2>1, <2>2 DEF Sends
  <2>4. Sends \subseteq Epochs
    BY Zenon, <1>2, <2>1, <2>2 DEF Sends
  <2> QED BY Zenon, <2>3, <2>4 DEF Unsent
<1> QED BY Zenon, <1>5, <1>6, <1>7

-----------------------------------------------------------------------------
(* The stack.                                                              *)

\* A task that leads nowhere is done, or a plan goes out: the rest stays.
LEMMA StackPop ==
  ASSUME NEW s \in Seq(Tasks), NEW L, NEW M, StackOk(s, L), s # <<>>, Head(s).op # "send",
         Elems(L) \subseteq Elems(M), \A j \in Elems(M) \ Elems(L) : j.kind = "plan"
  PROVE  StackOk(Tail(s), M)
<1>1. /\ DOMAIN Tail(s) = 1 .. Len(s) - 1 /\ Len(Tail(s)) = Len(s) - 1 /\ Len(s) \in Nat
      /\ \A i \in 1 .. Len(s) - 1 : Tail(s)[i] = s[i + 1]
      /\ Head(s) = s[1] /\ DOMAIN s = 1 .. Len(s)
  BY TailFacts
<1>2. \A i \in DOMAIN Tail(s) : GoodTask(Tail(s)[i])
  BY <1>1 DEF StackOk
<1>3. \A i, j \in DOMAIN Tail(s) : i # j => Apart(Tail(s)[i], Tail(s)[j])
  BY <1>1 DEF StackOk
<1>4. \A i \in DOMAIN Tail(s) : Tail(s)[i].op = "send" => Tail(s)[i].job \notin Elems(M)
  BY <1>1, <1>2 DEF StackOk, GoodTask
<1>5. \A i \in DOMAIN Tail(s) : Tail(s)[i].op \in Openings => i = Len(Tail(s))
  BY <1>1 DEF StackOk
<1>6. ASSUME NEW i \in DOMAIN Tail(s), Tail(s)[i].op \in Openings, Tail(s)[i].job.id # 0
      PROVE  i # 1 /\ Tail(s)[i - 1].op = "send" /\ Tail(s)[i - 1].job = Tail(s)[i].job
  <2>1. i + 1 \in DOMAIN s /\ i + 1 # 1 /\ s[i + 1] = Tail(s)[i]
    BY <1>1
  <2>2. s[i].op = "send" /\ s[i].job = s[i + 1].job
    BY <1>1, <1>6, <2>1 DEF StackOk
  <2>3. i # 1
    BY Zenon, <1>1, <2>2
  <2> QED BY <1>1, <2>1, <2>2, <2>3
<1> QED BY <1>2, <1>3, <1>4, <1>5, <1>6, Zenon DEF StackOk

\* A send leaves the stack and its job enters the Line.
LEMMA StackSend ==
  ASSUME NEW s \in Seq(Tasks), NEW L, NEW M, StackOk(s, L), s # <<>>, Head(s).op = "send",
         Elems(M) = Elems(L) \cup {Head(s).job}
  PROVE  StackOk(Tail(s), M)
<1>1. /\ DOMAIN Tail(s) = 1 .. Len(s) - 1 /\ Len(Tail(s)) = Len(s) - 1 /\ Len(s) \in Nat
      /\ \A i \in 1 .. Len(s) - 1 : Tail(s)[i] = s[i + 1]
      /\ Head(s) = s[1] /\ DOMAIN s = 1 .. Len(s) /\ Len(s) > 0
  BY TailFacts
<1>2. \A i \in DOMAIN Tail(s) : GoodTask(Tail(s)[i])
  BY <1>1 DEF StackOk
<1>3. \A i, j \in DOMAIN Tail(s) : i # j => Apart(Tail(s)[i], Tail(s)[j])
  BY <1>1 DEF StackOk
<1>4. ASSUME NEW i \in DOMAIN Tail(s), Tail(s)[i].op = "send" PROVE Tail(s)[i].job \notin Elems(M)
  <2>1. i + 1 \in DOMAIN s /\ 1 \in DOMAIN s /\ i + 1 # 1 /\ s[i + 1] = Tail(s)[i]
    BY <1>1
  <2>2. s[i + 1].job # s[1].job /\ s[i + 1].job \notin Elems(L)
    BY <1>1, <1>4, <2>1 DEF StackOk, Apart
  <2> QED BY Zenon, <1>1, <2>1, <2>2
<1>5. \A i \in DOMAIN Tail(s) : Tail(s)[i].op \in Openings => i = Len(Tail(s))
  BY <1>1 DEF StackOk
<1>6. ASSUME NEW i \in DOMAIN Tail(s), Tail(s)[i].op \in Openings, Tail(s)[i].job.id # 0
      PROVE  IF i = 1 THEN Tail(s)[i].job \in Elems(M)
             ELSE Tail(s)[i - 1].op = "send" /\ Tail(s)[i - 1].job = Tail(s)[i].job
  <2>1. i + 1 \in DOMAIN s /\ i + 1 # 1 /\ s[i + 1] = Tail(s)[i]
    BY <1>1
  <2>2. s[i].op = "send" /\ s[i].job = s[i + 1].job
    BY <1>1, <1>6, <2>1 DEF StackOk
  <2>3. CASE i = 1
    BY Zenon, <1>1, <2>1, <2>2, <2>3
  <2>4. CASE i # 1
    BY <1>1, <2>1, <2>2, <2>4
  <2> QED BY Zenon, <2>3, <2>4
<1> QED BY <1>2, <1>3, <1>4, <1>5, <1>6, Zenon DEF StackOk

\* The stacks a handler begins with.
LEMMA StackOne ==
  ASSUME NEW L, NEW t \in Tasks, GoodTask(t), t.op = "send" => t.job \notin Elems(L),
         t.op \in Openings /\ t.job.id # 0 => t.job \in Elems(L)
  PROVE  StackOk(<<t>>, L)
  BY ShortFacts DEF StackOk

\* An idle actor has nothing to send.
LEMMA StackNone == \A L : StackOk(<<>>, L)
  BY DEF StackOk

\* Two sends in a row, as a reclaim leaves them.
LEMMA StackTwo ==
  ASSUME NEW L, NEW t \in Tasks, NEW u \in Tasks, GoodTask(t), GoodTask(u), Apart(t, u), Apart(u, t),
         t.op = "send", t.job \notin Elems(L), u.op = "send" => u.job \notin Elems(L),
         u.op \in Openings => u.job = t.job
  PROVE  StackOk(<<t, u>>, L)
<1>1. t.op \notin Openings
  BY Zenon DEF Openings
<1> DEFINE s == <<t, u>>
<1>2. DOMAIN s = {1, 2} /\ Len(s) = 2 /\ s[1] = t /\ s[2] = u
  BY ShortFacts
<1> HIDE DEF s
<1>3. StackOk(s, L)
  BY <1>1, <1>2 DEF StackOk
<1> QED BY Zenon, <1>3 DEF s

\* A handler whose opening is on top has nothing else to do.
LEMMA StackAlone ==
  ASSUME NEW s \in Seq(Tasks), NEW L, StackOk(s, L), s # <<>>, Head(s).op \in Openings
  PROVE  /\ Tail(s) = <<>> /\ Elems(s) = {Head(s)} /\ Unsent(s) = {}
         /\ Head(s).job.id # 0 => Head(s).job \in Elems(L)
<1>1. Head(s) = s[1] /\ 1 \in DOMAIN s /\ DOMAIN s = 1 .. Len(s) /\ Len(s) \in Nat
  OBVIOUS
<1>2. Len(s) = 1
  BY Zenon, <1>1 DEF StackOk
<1>3. Tail(s) = <<>> /\ DOMAIN s = {1}
  <2>1. Tail(s) \in Seq(Tasks) /\ Len(Tail(s)) = 0
    BY <1>2, TailFacts
  <2>2. 1 .. 1 = {1}
    OBVIOUS
  <2>3. \A u \in Seq(Tasks) : Len(u) = 0 => u = <<>>
    OBVIOUS
  <2>4. Tail(s) = <<>>
    BY <2>1, <2>3, Zenon
  <2>5. DOMAIN s = {1}
    BY Zenon, <1>1, <1>2, <2>2
  <2> QED BY Zenon, <2>4, <2>5
<1>4. Unsent(s) = {} /\ Elems(s) = {Head(s)}
  BY <1>1, <1>3, Zenon DEF Unsent, Openings, Elems
<1> QED BY Zenon, <1>1, <1>2, <1>3, <1>4 DEF StackOk

\* A plan that does not read back: the task goes on with one plan less.
LEMMA StackSkip ==
  ASSUME NEW s \in Seq(Tasks), NEW L, StackOk(s, L), s # <<>>, Head(s).op = "plan",
         NEW t \in Tasks, t.op = "plan", t.who = Head(s).who
  PROVE  /\ StackOk(<<t>> \o Tail(s), L) /\ <<t>> \o Tail(s) \in Seq(Tasks)
<1> DEFINE u == <<t>> \o Tail(s)
<1>1. /\ Tail(s) \in Seq(Tasks) /\ Len(Tail(s)) = Len(s) - 1
      /\ \A i \in 1 .. Len(s) - 1 : Tail(s)[i] = s[i + 1]
      /\ Head(s) = s[1] /\ DOMAIN s = 1 .. Len(s) /\ Len(s) \in Nat /\ Len(s) > 0
  BY TailFacts
<1>2. /\ u \in Seq(Tasks) /\ DOMAIN u = 1 .. Len(s) /\ Len(u) = Len(s) /\ u[1] = t
      /\ \A i \in 2 .. Len(s) : u[i] = Tail(s)[i - 1]
  BY <1>1, ConsFacts
<1> HIDE DEF u
<1>3. ASSUME NEW i \in DOMAIN s, i # 1 PROVE u[i] = s[i]
  <2>1. i \in 2 .. Len(s) /\ i - 1 \in 1 .. Len(s) - 1
    BY <1>1, <1>3
  <2>2. u[i] = Tail(s)[i - 1] /\ Tail(s)[i - 1] = s[(i - 1) + 1]
    BY Zenon, <1>1, <1>2, <2>1
  <2> QED BY <2>1, <2>2
<1>4. GoodTask(t) /\ t.op \notin Openings /\ t.op # "send"
  BY Zenon DEF GoodTask, Openings
<1>5. \A i \in DOMAIN u : GoodTask(u[i])
  BY Zenon, <1>1, <1>2, <1>3, <1>4 DEF StackOk
<1>6. \A v : /\ Apart(Head(s), v) => Apart(t, v)
             /\ Apart(v, Head(s)) => Apart(v, t)
  BY Zenon, <1>4 DEF Apart
<1>7. \A i, j \in DOMAIN u : i # j => Apart(u[i], u[j])
  <2> SUFFICES ASSUME NEW i \in DOMAIN s, NEW j \in DOMAIN s, i # j PROVE Apart(u[i], u[j])
    BY Zenon, <1>1, <1>2
  <2>1. Apart(s[i], s[j])
    BY Zenon DEF StackOk
  <2> QED BY <1>1, <1>2, <1>3, <1>6, <2>1
<1>8. \A i \in DOMAIN u : u[i].op = "send" => u[i].job \notin Elems(L)
  BY Zenon, <1>1, <1>2, <1>3, <1>4 DEF StackOk
<1>9. \A i \in DOMAIN u : u[i].op \in Openings => i = Len(u)
  BY Zenon, <1>1, <1>2, <1>3, <1>4 DEF StackOk
<1>10. ASSUME NEW i \in DOMAIN u, u[i].op \in Openings, u[i].job.id # 0
       PROVE  i # 1 /\ u[i - 1].op = "send" /\ u[i - 1].job = u[i].job
  <2>1. i \in DOMAIN s /\ i # 1 /\ u[i] = s[i]
    BY Zenon, <1>1, <1>2, <1>3, <1>4, <1>10
  <2>2. s[i - 1].op = "send" /\ s[i - 1].job = s[i].job
    BY Zenon, <1>10, <2>1 DEF StackOk
  <2>3. i - 1 # 1
    BY Zenon, <1>1, <2>2
  <2>4. i - 1 \in DOMAIN s
    BY <1>1, <2>1
  <2>5. u[i - 1] = s[i - 1]
    BY <1>3, <2>3, <2>4, Zenon
  <2> QED BY Zenon, <2>1, <2>2, <2>5
<1> QED BY <1>1, <1>2, <1>3, <1>5, <1>7, <1>8, <1>9, <1>10, Zenon DEF StackOk, u

-----------------------------------------------------------------------------
(* The promotes of the Line and of the stack.                              *)

\* Jobs are told apart by kind and id.
LEMMA JobShape ==
  /\ \A k, i : Job(k, i).kind = k /\ Job(k, i).id = i
  /\ \A k, i, l, m : Job(k, i) = Job(l, m) <=> k = l /\ i = m
  /\ \A j \in Jobs : /\ j = Job(j.kind, j.id)
                     /\ j.kind = "promote" => j.id \in Epochs
                     /\ j.kind = "plan" => j.id = 0
                     /\ j.kind \in SlotKinds => j.id \in Callers
                     /\ j.kind \in {"promote", "plan"} \cup SlotKinds
  /\ \A e \in Epochs : Job("promote", e) \in Jobs
  /\ Job("plan", 0) \in Jobs
  /\ \A k \in SlotKinds, c \in Callers : Job(k, c) \in Jobs
  /\ "promote" \notin SlotKinds /\ "plan" \notin SlotKinds /\ Slots \subseteq SlotKinds
  /\ "segment" \in SlotKinds \ Slots
<1>1. \A k, i : Job(k, i).kind = k /\ Job(k, i).id = i
  BY Zenon DEF Job
<1>2. "promote" \notin SlotKinds /\ "plan" \notin SlotKinds /\ Slots \subseteq SlotKinds
      /\ "segment" \in SlotKinds \ Slots
  BY Zenon DEF SlotKinds, Slots
<1>3. \A j \in Jobs : /\ j = Job(j.kind, j.id)
                      /\ j.kind = "promote" => j.id \in Epochs
                      /\ j.kind = "plan" => j.id = 0
                      /\ j.kind \in SlotKinds => j.id \in Callers
                      /\ j.kind \in {"promote", "plan"} \cup SlotKinds
  BY <1>2 DEF Jobs, Job
<1>4. /\ \A e \in Epochs : Job("promote", e) \in Jobs
      /\ Job("plan", 0) \in Jobs
      /\ \A k \in SlotKinds, c \in Callers : Job(k, c) \in Jobs
  BY Zenon DEF Jobs, Job
<1>5. ASSUME NEW k, NEW i, NEW l, NEW m PROVE Job(k, i) = Job(l, m) <=> k = l /\ i = m
  BY Zenon DEF Job
<1> QED BY Zenon, <1>1, <1>2, <1>3, <1>4, <1>5

\* A job enters or leaves the Line.
LEMMA PromotesSend ==
  ASSUME NEW L, NEW M, NEW j \in Jobs, Elems(M) = Elems(L) \cup {j}
  PROVE  /\ j.kind = "promote" => Promotes(M) = Promotes(L) \cup {j.id}
         /\ j.kind # "promote" => Promotes(M) = Promotes(L)
  BY JobShape DEF Promotes

\* The promotes in flight once a result has left the Line.
LEMMA PromotesReceive ==
  ASSUME NEW L, NEW M, NEW j \in Jobs, Elems(M) = Elems(L) \ {j}
  PROVE  /\ j.kind = "promote" => Promotes(M) = Promotes(L) \ {j.id}
         /\ j.kind # "promote" => Promotes(M) = Promotes(L)
  BY JobShape DEF Promotes

\* The top of the stack is about other jobs and callers than the rest.
LEMMA PopFacts ==
  ASSUME NEW s \in Seq(Tasks), NEW L, StackOk(s, L), s # <<>>
  PROVE  /\ Head(s) \in Tasks /\ Tail(s) \in Seq(Tasks) /\ GoodTask(Head(s)) /\ Head(s) \in Elems(s)
         /\ Elems(s) = {Head(s)} \cup Elems(Tail(s)) /\ Elems(s) \subseteq Tasks
         /\ \A t \in Elems(Tail(s)) : Apart(Head(s), t) /\ Apart(t, Head(s)) /\ GoodTask(t)
         /\ Head(s).op = "send" => Head(s).job \in Jobs /\ Head(s).job \notin Elems(L)
<1>1. /\ DOMAIN Tail(s) = 1 .. Len(s) - 1 /\ Len(s) \in Nat
      /\ \A i \in 1 .. Len(s) - 1 : Tail(s)[i] = s[i + 1]
      /\ Head(s) = s[1] /\ DOMAIN s = 1 .. Len(s) /\ Len(s) > 0 /\ 1 \in DOMAIN s
      /\ Head(s) \in Tasks /\ Tail(s) \in Seq(Tasks)
      /\ Elems(s) = {Head(s)} \cup Elems(Tail(s)) /\ Head(s) \in Elems(s)
  BY TailFacts
<1>2. Elems(s) \subseteq Tasks
  BY DEF Elems
<1>3. ASSUME NEW t \in Elems(Tail(s)) PROVE Apart(Head(s), t) /\ Apart(t, Head(s)) /\ GoodTask(t)
  <2>1. PICK i \in DOMAIN Tail(s) : t = Tail(s)[i]
    BY Zenon DEF Elems
  <2>2. i + 1 \in DOMAIN s /\ i + 1 # 1 /\ t = s[i + 1]
    BY <1>1, <2>1
  <2> QED BY <1>1, <2>2 DEF StackOk
<1>4. GoodTask(Head(s)) /\ (Head(s).op = "send" => Head(s).job \notin Elems(L))
  BY <1>1 DEF StackOk
<1>5. Head(s).op = "send" => Head(s).job \in Jobs
  BY Zenon, <1>1 DEF Tasks, Openings
<1> QED BY Zenon, <1>1, <1>2, <1>3, <1>4, <1>5

\* A task leaves the stack.
LEMMA UnsentPop ==
  ASSUME NEW s \in Seq(Tasks), NEW L, StackOk(s, L), s # <<>>
  PROVE  /\ Head(s).op = "send" /\ Head(s).job.kind = "promote"
              => Unsent(Tail(s)) = Unsent(s) \ {Head(s).job.id} /\ Head(s).job.id \in Unsent(s)
         /\ ~(Head(s).op = "send" /\ Head(s).job.kind = "promote") => Unsent(Tail(s)) = Unsent(s)
<1> DEFINE h == Head(s)
           T == Elems(Tail(s))
<1>1. /\ Elems(s) = {h} \cup T /\ \A t \in T : Apart(h, t)
      /\ h.op = "send" => h.job \in Jobs
  BY Zenon, PopFacts
<1>2. \A e \in Epochs : Job("promote", e).kind = "promote" /\ Job("promote", e).id = e
  BY Zenon, JobShape
<1>3. h.op = "send" /\ h.job.kind = "promote" => h.job = Job("promote", h.job.id) /\ h.job.id \in Epochs
  BY Zenon, <1>1, JobShape
<1>4. /\ Unsent(s) = {e \in Epochs : \E t \in {h} \cup T : t.op = "send" /\ t.job = Job("promote", e)}
      /\ Unsent(Tail(s)) = {e \in Epochs : \E t \in T : t.op = "send" /\ t.job = Job("promote", e)}
  BY Zenon, <1>1 DEF Unsent
<1>5. h.op = "send" => \A t \in T : t.op = "send" => t.job # h.job
  BY Zenon, <1>1 DEF Apart
<1> HIDE DEF h, T
<1>6. h.op = "send" /\ h.job.kind = "promote"
        => Unsent(Tail(s)) = Unsent(s) \ {h.job.id} /\ h.job.id \in Unsent(s)
  BY <1>2, <1>3, <1>4, <1>5
<1>7. ~(h.op = "send" /\ h.job.kind = "promote") => Unsent(Tail(s)) = Unsent(s)
  BY <1>2, <1>4
<1> QED BY Zenon, <1>6, <1>7 DEF h

\* The sends of the short stacks, and of a stack with a plan on top.
LEMMA UnsentShort ==
  ASSUME NEW t \in Tasks, NEW u \in Tasks, NEW s \in Seq(Tasks)
  PROVE  /\ Unsent(<<>>) = {}
         /\ Unsent(<<t>>) = {e \in Epochs : t.op = "send" /\ t.job = Job("promote", e)}
         /\ Unsent(<<t, u>>) = Unsent(<<t>>) \cup Unsent(<<u>>)
         /\ t.op = "plan" => Unsent(<<t>> \o s) = Unsent(s)
<1>1. Elems(<<t>> \o s) = {t} \cup Elems(s)
  BY Zenon, ConsFacts
<1>2. Elems(<<>>) = {} /\ Elems(<<t>>) = {t} /\ Elems(<<u>>) = {u} /\ Elems(<<t, u>>) = {t, u}
  BY ShortElems, Zenon
<1> DEFINE P(e, v) == v.op = "send" /\ v.job = Job("promote", e)
           E0 == Elems(<<>>)
           E1 == Elems(<<t>>)
           E2 == Elems(<<u>>)
           E3 == Elems(<<t, u>>)
           E4 == Elems(<<t>> \o s)
<1>3. /\ Unsent(<<>>) = {e \in Epochs : \E v \in E0 : P(e, v)}
      /\ Unsent(<<t>>) = {e \in Epochs : \E v \in E1 : P(e, v)}
      /\ Unsent(<<u>>) = {e \in Epochs : \E v \in E2 : P(e, v)}
      /\ Unsent(<<t, u>>) = {e \in Epochs : \E v \in E3 : P(e, v)}
      /\ Unsent(<<t>> \o s) = {e \in Epochs : \E v \in E4 : P(e, v)}
      /\ Unsent(s) = {e \in Epochs : \E v \in Elems(s) : P(e, v)}
  BY Zenon DEF Unsent
<1>4. E0 = {} /\ E1 = {t} /\ E2 = {u} /\ E3 = {t, u} /\ E4 = {t} \cup Elems(s)
  BY <1>1, <1>2, Zenon
<1>5. t.op = "plan" => \A e : ~P(e, t)
  BY Zenon
<1> HIDE DEF P, E0, E1, E2, E3, E4
<1>6. Unsent(<<>>) = {}
  BY Zenon, <1>3, <1>4
<1>7. Unsent(<<t>>) = {e \in Epochs : P(e, t)}
  BY <1>3, <1>4, Zenon
<1>8. Unsent(<<t, u>>) = Unsent(<<t>>) \cup Unsent(<<u>>)
  BY <1>3, <1>4, Zenon
<1>9. t.op = "plan" => Unsent(<<t>> \o s) = Unsent(s)
  <2>1. ASSUME \A e : ~P(e, t), NEW e PROVE (\E v \in E4 : P(e, v)) <=> \E v \in Elems(s) : P(e, v)
    BY <1>4, <2>1, Zenon
  <2> QED BY <1>3, <1>5, <2>1, Zenon
<1> QED BY Zenon, <1>6, <1>7, <1>8, <1>9 DEF P

(* What counting sets of epochs comes to.  It is a theorem about finite sets *)
(* (EpochsCount of PipelineTheorems); the lemmas that count assume it.       *)
Counting ==
  \A D \in SUBSET Epochs :
    /\ Cardinality(D) \in Nat
    /\ Cardinality(D) = 0 <=> D = {}
    /\ \A C \in SUBSET D : Cardinality(C) <= Cardinality(D)
    /\ \A e \in Epochs :
         /\ e \notin D => Cardinality(D \cup {e}) = Cardinality(D) + 1
         /\ e \in D => Cardinality(D) > 0 /\ Cardinality(D \ {e}) = Cardinality(D) - 1
         /\ Cardinality(D) = 1 /\ e \in D => D = {e}

\* One promote more, or one less.
LEMMA CountOne ==
  ASSUME Counting, NEW D, D \subseteq Epochs, NEW e \in Epochs
  PROVE  /\ Cardinality(D) \in Nat
         /\ e \notin D => Cardinality(D \cup {e}) = Cardinality(D) + 1
         /\ e \in D => Cardinality(D) > 0 /\ Cardinality(D \ {e}) = Cardinality(D) - 1
         /\ Cardinality(D) = 0 <=> D = {}
         /\ Cardinality(D) = 1 /\ e \in D => D = {e}
  BY Zenon DEF Counting

-----------------------------------------------------------------------------
(* What every step starts from.                                            *)

\* It depends on the sends of the stack, not on the rest of it.
LEMMA GcSame ==
  ASSUME NEW g, NEW s, NEW t, NEW L, GcOk(g, s, L), Unsent(s) \subseteq Unsent(t),
         \A u \in Elems(t) : u.op = "checkpoint" => g = NoGc \/ \E v \in Elems(s) : v.op = "checkpoint"
  PROVE  GcOk(g, t, L)
  BY Zenon DEF GcOk, FlushOk

\* The facts of the invariant that most steps start from.
LEMMA IInvFacts ==
  ASSUME IInv
  PROVE  /\ Line \in Seq(Jobs) /\ Elems(Line) \subseteq Jobs /\ Once(Line)
         /\ stack \in Seq(Tasks) /\ StackOk(stack, Line) /\ Elems(stack) \subseteq Tasks
         /\ pipe \in Pipes /\ ops \in Operations
         /\ Promotes(Line) \subseteq Epochs /\ Unsent(stack) \subseteq Epochs
         /\ Nobody \notin Callers /\ 0 \notin Epochs /\ plans \in Nat /\ wal \in Epochs \cup {0} /\ Types
         /\ WalOk(wal, wals, Unsent(stack), Promotes(Line), pipe.failed)
<1>1. Types /\ Once(Line) /\ StackOk(stack, Line)
  BY Zenon DEF IInv
<1>2. Line \in Seq(Jobs) /\ Elems(Line) \subseteq Jobs
  BY Zenon, <1>1, AtWorkerIs
<1>3. stack \in Seq(Tasks) /\ pipe \in Pipes /\ ops \in Operations
  BY Zenon, <1>1 DEF Types
<1>4. Elems(stack) \subseteq Tasks
  BY <1>3 DEF Elems
<1>5. Nobody \notin Callers /\ 0 \notin Epochs
  BY PipelineAssumption DEF Epochs
<1>6. /\ plans \in 0 .. MaxPlans /\ wal \in Epochs \cup {0}
      /\ WalOk(wal, wals, Unsent(stack), Promotes(Line), pipe.failed)
  BY Zenon, <1>1 DEF IInv, Types
<1>7. plans \in Nat
  BY <1>6, PipelineAssumption
<1> QED BY <1>1, <1>2, <1>3, <1>4, <1>5, <1>6, <1>7, Zenon DEF Promotes, Unsent

\* Callers whose reply is parked nowhere any more are answered.
LEMMA Answer ==
  ASSUME NEW k, NEW m, NEW s, NEW L, NEW p \in Pipes, NEW o, ReplyOk(k, s, L, p, o), Elems(L) \subseteq Jobs,
         \A c \in Callers : \/ m[c] = "none" /\ ~Holds(c, s, L, p, o)
                            \/ m[c] = k[c] /\ (k[c] # "none" => Holds(c, s, L, p, o))
  PROVE  ReplyOk(m, s, L, p, o) /\ ParkedOk(m, s, L, p, o)
<1>1. \A c \in Callers : Holds(c, s, L, p, o) => m[c] = k[c]
  BY Zenon
<1>2. ParkedOk(m, s, L, p, o)
  BY Zenon DEF ParkedOk
<1>3. /\ \A t \in Elems(s) : t.who \in Callers => m[t.who] = k[t.who]
      /\ \A w \in p.wal : w.who \in Callers /\ m[w.who] = k[w.who]
      /\ p.gc.who \in Callers => m[p.gc.who] = k[p.gc.who]
      /\ o.batch.who \in Callers => m[o.batch.who] = k[o.batch.who]
  BY Zenon, <1>1 DEF Holds, Pipes
<1>4. \A j \in Elems(L) : j.kind \in SlotKinds => m[j.id] = k[j.id]
  BY Zenon, <1>1, JobShape DEF Holds
<1>5. ReplyOk(m, s, L, p, o)
  BY Zenon, <1>3, <1>4 DEF ReplyOk
<1> QED BY Zenon, <1>2, <1>5

\* The types survive an answer.
LEMMA AnswerTypes ==
  ASSUME Types, NEW A
  PROVE  /\ Answered(A) \in [Callers -> Calls]
         /\ \A c \in Callers : Answered(A)[c] \in Asks[c] \cup {"none"}
         /\ Answered(A) = [c \in Callers |-> IF c \in A THEN "none" ELSE call[c]]
  BY Zenon DEF Types, Answered, Calls

\* What an idle actor's stack holds, and what a task is made of.
LEMMA IdleFacts ==
  ASSUME Idle
  PROVE  Elems(stack) = {} /\ Unsent(stack) = {}
  BY Zenon, ShortElems DEF Idle, Unsent

\* What an empty stack does not hold.
LEMMA EmptyStack ==
  ASSUME NEW s, s = <<>>
  PROVE  /\ Elems(s) = {} /\ Unsent(s) = {} /\ s \in Seq(Tasks)
         /\ \A L : StackOk(s, L)
<1>1. Elems(s) = {}
  BY ShortElems, Zenon
<1>2. s \in Seq(Tasks)
  OBVIOUS
<1>3. \A L : StackOk(s, L)
  BY StackNone, Zenon
<1> QED BY Zenon, <1>1, <1>2, <1>3 DEF Unsent

-----------------------------------------------------------------------------
(* What the invariant says.                                                *)

\* A promote leaves the Line: it was due, and the barrier counts one less.
LEMMA BarrierPromote ==
  ASSUME Counting, NEW g \in Parked, NEW L \in Seq(Jobs), L # <<>>, Once(L), BarrierOk(g, L),
         Head(L).kind = "promote"
  PROVE  /\ Head(L).id \in g.due
         /\ g.left # 1 => BarrierOk(Passed(g, Head(L).id), Tail(L))
<1> DEFINE M == Tail(L)
           n == Len(L) - 1
           e == Head(L).id
           h == Passed(g, e)
<1>1. /\ n \in Nat /\ DOMAIN L = 1 .. n + 1 /\ DOMAIN M = 1 .. n
      /\ \A i \in 1 .. n : M[i] = L[i + 1]
      /\ Elems(M) = Elems(L) \ {Head(L)} /\ Head(L) \in Jobs /\ Head(L) = L[1]
  BY TailFacts
<1>2. Promotes(M) = Promotes(L) \ {e} /\ e \in Epochs
  BY <1>1, PromotesReceive, JobShape
<1>3. g.due \subseteq Epochs /\ g.left \in Nat /\ g.left > 0 /\ g.left = Cardinality(g.due)
  BY Zenon DEF BarrierOk, Parked
<1>4. e \in g.due
  <2>1. g.due # {}
    <3>1. Cardinality(g.due) # 0
      BY <1>3
    <3> QED BY <1>2, <1>3, <3>1, CountOne, Zenon
  <2>2. PICK d \in g.due : d \in Promotes(L)
    BY Zenon, <2>1 DEF BarrierOk
  <2>3. PICK k \in DOMAIN L : L[k] = Job("promote", d)
    BY Zenon, <2>2 DEF Promotes, Elems
  <2>4. L[k].kind = "promote" /\ L[k].id \in g.due
    BY <2>3, JobShape
  <2>5. ~ k < 1 /\ 1 \in DOMAIN L /\ L[1].kind = "promote" /\ L[1].id = e
    BY <1>1
  <2> QED BY Zenon, <2>4, <2>5 DEF BarrierOk
<1>5. ASSUME g.left # 1 PROVE BarrierOk(h, M)
  <2>1. h.who = g.who /\ h.left = g.left - 1 /\ h.due = g.due \ {e}
    BY <1>3 DEF Passed, Parked
  <2>2. h.left > 0 /\ h.left = Cardinality(h.due)
    BY <1>2, <1>3, <1>4, <1>5, <2>1, CountOne
  <2>3. h.who \in Callers /\ h.due \subseteq Promotes(M)
    BY Zenon, <1>2, <2>1 DEF BarrierOk
  <2> HIDE DEF M, n, h
  <2>4. \A i \in DOMAIN M : i + 1 \in DOMAIN L /\ M[i] = L[i + 1] /\ L[i + 1] # L[1]
    BY <1>1 DEF Once
  <2>5. ASSUME NEW i \in DOMAIN M, NEW k \in DOMAIN M, M[i].kind = "promote", M[i].id \notin h.due,
               M[k].kind = "promote", M[k].id \in h.due
        PROVE  k < i
    <3>1. M[i] \in Elems(M) /\ Elems(M) \subseteq Jobs
      BY <1>1 DEF Elems
    <3>2. M[i] # Head(L) /\ M[i] \in Jobs
      BY Zenon, <1>1, <3>1
    <3>3. M[i].id # e
      BY <1>1, <2>5, <3>2, JobShape
    <3>4. k + 1 < i + 1
      BY <2>1, <2>4, <2>5, <3>3 DEF BarrierOk
    <3> QED BY <1>1, <3>4
  <2> QED BY Zenon, <2>2, <2>3, <2>5 DEF BarrierOk
<1> QED BY Zenon, <1>4, <1>5 DEF M, h

\* A checkpoint that the head of the Line answers has nothing else due.
LEMMA AnswerCovers ==
  ASSUME Counting, NEW g \in Parked, NEW s, NEW L \in Seq(Jobs), L # <<>>, Once(L), GcOk(g, s, L),
         Head(L).kind = "promote",
         \/ g.kind = "flush" /\ g.epoch = Head(L).id
         \/ g.kind = "barrier" /\ g.left = 1
  PROVE  g.due \subseteq {Head(L).id}
<1> DEFINE e == Head(L).id
<1>1. /\ Head(L) \in Jobs /\ Head(L) = L[1] /\ 1 \in DOMAIN L /\ DOMAIN L = 1 .. Len(L) /\ Len(L) \in Nat
      /\ Head(L) = Job("promote", e) /\ e \in Epochs
  BY TailFacts, JobShape
<1>2. CASE g.kind = "flush" /\ g.epoch = e
  <2> SUFFICES ASSUME NEW d \in g.due, d # e PROVE FALSE
    BY Zenon
  <2>1. FlushOk(g, Unsent(s), L)
    BY Zenon, <1>2 DEF GcOk
  <2>2. d \in Promotes(L)
    BY Zenon, <1>2, <2>1 DEF FlushOk
  <2>3. PICK k \in DOMAIN L : L[k] = Job("promote", d)
    BY Zenon, <2>2 DEF Promotes, Elems
  <2>4. L[k].kind = "promote" /\ L[k].id \in g.due /\ L[k] # L[1]
    BY <1>1, <2>3, JobShape
  <2>5. k <= 1
    BY Zenon, <1>1, <1>2, <2>1, <2>4 DEF FlushOk
  <2> QED BY <1>1, <2>4, <2>5
<1>3. CASE g.kind = "barrier" /\ g.left = 1
  <2>1. BarrierOk(g, L)
    BY <1>3, Zenon DEF GcOk
  <2>2. e \in g.due
    BY Zenon, <2>1, BarrierPromote
  <2>3. Cardinality(g.due) = 1 /\ g.due \subseteq Epochs
    BY Zenon, <1>3, <2>1 DEF BarrierOk, Parked
  <2>4. g.due = {e}
    BY <1>1, <2>2, <2>3, CountOne, Zenon
  <2> QED BY Zenon, <2>4
<1> QED BY Zenon, <1>2, <1>3

\* The promotes a checkpoint waits for are ahead in the Line of the one that answers it.
LEMMA InvCovers == Counting /\ IInv => CheckpointCovers
<1> SUFFICES ASSUME Counting, IInv, results # <<>>, Head(results).kind = "promote", Head(results).ok,
                    Satisfies(Head(results))
             PROVE  pipe.gc.due \subseteq {Head(results).id}
  BY Zenon DEF CheckpointCovers
<1>1. /\ Types /\ Line \in Seq(Jobs) /\ Once(Line) /\ GcOk(pipe.gc, stack, Line) /\ pipe.gc \in Parked
      /\ results \in Seq(Results) /\ running \in Jobs \cup {NoJob} /\ jobs \in Seq(Jobs)
  BY IInvFacts, Zenon DEF IInv, Types, Pipes
<1>2. Line # <<>> /\ Head(Line) = Job(Head(results).kind, Head(results).id)
  <2>1. Len(results) > 0 /\ Head(results) = results[1]
    BY <1>1
  <2>2. Len(Line) = Len(results) + Busy(running) + Len(jobs) /\ Len(results) \in Nat /\ Busy(running) \in Nat /\ Len(jobs) \in Nat
    BY <1>1, LineType, Zenon DEF Line
  <2>3. Line[1] = Job(results[1].kind, results[1].id)
    BY <2>1, <2>2 DEF Line, LineOf
  <2> QED BY <1>1, <2>1, <2>2, <2>3
<1>3. Head(Line).kind = "promote" /\ Head(Line).id = Head(results).id
  BY <1>2, JobShape
<1>4. \/ pipe.gc.kind = "flush" /\ pipe.gc.epoch = Head(Line).id
      \/ pipe.gc.kind = "barrier" /\ pipe.gc.left = 1
  BY Zenon, <1>3 DEF Satisfies
<1>5. pipe.gc.due \subseteq {Head(Line).id}
  BY <1>1, <1>2, <1>3, <1>4, AnswerCovers, Zenon
<1> QED BY Zenon, <1>3, <1>5

\* Where a reply is parked there is something that answers it.
LEMMA InvAwaits == Counting /\ IInv => NobodyForgotten
<1> SUFFICES ASSUME Counting, IInv, NEW c \in Callers, call[c] # "none" PROVE Awaits(c)
  BY Zenon DEF NobodyForgotten
<1> DEFINE D == Promotes(Line)
<1>1. /\ Types /\ pipe \in Pipes /\ pipe.gc \in Parked /\ D \subseteq Epochs /\ Nobody \notin Callers
      /\ PlanOk(ops, plans, stack, Line) /\ GcOk(pipe.gc, stack, Line) /\ ReplyOk(call, stack, Line, pipe, ops)
      /\ Elems(Line) \subseteq Jobs
  BY IInvFacts, Zenon DEF IInv, Pipes
<1>2. /\ Dispatched = D /\ Sends = Unsent(stack) /\ (PlanAtWorker <=> Job("plan", 0) \in Elems(Line))
  BY Zenon, <1>1, ViewsAre
<1>3. Holds(c, stack, Line, pipe, ops)
  BY Zenon DEF IInv, ParkedOk
<1>4. CASE \E t \in Elems(stack) : t.who = c
  BY Zenon, <1>4 DEF Awaits
<1>5. CASE \E w \in pipe.wal : w.who = c
  BY <1>1, <1>2, <1>5, Zenon DEF Awaits, ReplyOk
<1>6. CASE pipe.gc.who = c
  <2>1. pipe.gc.kind # "none"
    BY <1>1, <1>6 DEF GcOk, NoGc
  <2>2. pipe.gc.kind = "flush" => pipe.gc.epoch \in Unsent(stack) \cup D
    BY <1>1, Zenon DEF GcOk, FlushOk
  <2>3. pipe.gc.kind = "barrier" => pipe.gc.left \in 1 .. Cardinality(D)
    <3> SUFFICES ASSUME pipe.gc.kind = "barrier" PROVE pipe.gc.left \in 1 .. Cardinality(D)
      BY Zenon
    <3>1. pipe.gc.left = Cardinality(pipe.gc.due) /\ pipe.gc.left > 0 /\ pipe.gc.due \subseteq D
      BY <1>1, Zenon DEF GcOk, BarrierOk
    <3>2. Cardinality(D) \in Nat /\ pipe.gc.left \in Nat
      BY <1>1, Zenon DEF Counting, Parked
    <3>3. Cardinality(pipe.gc.due) <= Cardinality(D)
      BY <1>1, <3>1, Zenon DEF Counting
    <3> QED BY <3>1, <3>2, <3>3
  <2>4. pipe.gc.kind \in {"none", "flush", "barrier"}
    BY <1>1, Zenon DEF Parked
  <2> QED BY <1>2, <1>6, <2>1, <2>2, <2>3, <2>4, Zenon DEF Awaits
<1>7. CASE ops.batch.who = c
  <2>1. ops.batch.on
    BY <1>1, <1>7 DEF PlanOk, NoBatch
  <2> QED BY <1>1, <1>2, <1>7, <2>1, Zenon DEF Awaits, PlanOk
<1>8. CASE \E j \in Elems(Line) : j.kind \in SlotKinds /\ j.id = c
  <2>1. PICK j \in Elems(Line) : j.kind \in SlotKinds /\ j.id = c
    BY <1>8, Zenon
  <2>2. call[c] = j.kind /\ j \in Jobs
    BY Zenon, <1>1, <2>1 DEF ReplyOk
  <2>3. Job(call[c], c) = j
    BY <2>1, <2>2, JobShape, Zenon
  <2>4. j \in AtWorker
    BY Zenon, <1>1, <2>1, <2>2, AtWorkerIs
  <2> QED BY Zenon, <2>3, <2>4 DEF Awaits
<1> QED BY Zenon, <1>3, <1>4, <1>5, <1>6, <1>7, <1>8 DEF Holds

\* What is counted as in flight is all there is to wait for.
LEMMA InvDrained == Counting /\ IInv => ExitDrained
<1> SUFFICES ASSUME Counting, IInv, Idle, ~WorkInFlight
             PROVE  AtWorker = {NoJob} /\ ~ops.deferred /\ \A c \in Callers : call[c] = "none"
  BY Zenon DEF ExitDrained
<1> DEFINE D == Promotes(Line)
<1>1. /\ Types /\ pipe \in Pipes /\ pipe.gc \in Parked /\ D \subseteq Epochs /\ Nobody \notin Callers
      /\ PlanOk(ops, plans, stack, Line) /\ GcOk(pipe.gc, stack, Line) /\ ReplyOk(call, stack, Line, pipe, ops)
      /\ Elems(Line) \subseteq Jobs /\ Line \in Seq(Jobs) /\ SlotOk(pipe, ops, stack, Line) /\ CountOk(pipe, Line)
      /\ ParkedOk(call, stack, Line, pipe, ops) /\ pipe.in_flight \in Nat /\ ops \in Operations
  BY IInvFacts, Zenon DEF IInv, Pipes
<1>2. pipe.in_flight = 0 /\ pipe.segments = {} /\ ~ops.flying /\ \A k \in Slots : ops.slot[k] = Nobody
  BY <1>1 DEF WorkInFlight
<1>3. D = {}
  <2>1. Cardinality(D) = 0
    BY <1>1, <1>2, Zenon DEF CountOk
  <2> QED BY <1>1, <2>1, Zenon DEF Counting
<1>4. ~ops.batch.on /\ ~ops.deferred /\ Job("plan", 0) \notin Elems(Line) /\ ops.batch = NoBatch
  BY <1>1, <1>2, Zenon DEF PlanOk
<1>5. ASSUME NEW j \in Elems(Line) PROVE FALSE
  <2>1. j \in Jobs /\ j = Job(j.kind, j.id) /\ j.kind \in {"promote", "plan"} \cup SlotKinds
    BY Zenon, <1>1, JobShape
  <2>2. j.kind # "promote"
    <3> SUFFICES ASSUME j.kind = "promote" PROVE FALSE
      BY Zenon
    <3>1. j.id \in Epochs
      BY Zenon, <2>1, JobShape
    <3> QED BY Zenon, <1>3, <2>1, <3>1 DEF Promotes
  <2>3. j.kind # "plan"
    BY <1>4, <2>1, JobShape
  <2>4. j.id \in Callers /\ j.kind \in SlotKinds
    BY <2>1, <2>2, <2>3, JobShape, Zenon
  <2>5. j.kind \notin Slots
    BY <1>1, <1>2, <2>4 DEF SlotOk
  <2>6. j.kind = "segment"
    BY Zenon, <2>4, <2>5 DEF SlotKinds
  <2> QED BY <1>1, <1>2, <2>1, <2>4, <2>6 DEF SlotOk
<1>6. Line = <<>>
  <2>1. Len(Line) \in Nat /\ (Len(Line) > 0 => Line[1] \in Elems(Line))
    BY <1>1 DEF Elems
  <2>2. Len(Line) = 0
    BY <1>5, <2>1
  <2> QED BY <1>1, <2>2
<1>7. AtWorker = {NoJob}
  BY Zenon, <1>1, <1>6, AtWorkerIs
<1>8. ASSUME NEW c \in Callers, call[c] # "none" PROVE FALSE
  <2>1. Holds(c, stack, Line, pipe, ops)
    BY Zenon, <1>1, <1>8 DEF ParkedOk
  <2>2. Elems(stack) = {} /\ Unsent(stack) = {}
    BY IdleFacts, Zenon
  <2>3. pipe.wal = {}
    BY Zenon, <1>1, <1>3 DEF ReplyOk
  <2>4. pipe.gc.who # c
    <3>1. pipe.gc.kind # "flush"
      BY <1>1, <1>3, <2>2, Zenon DEF GcOk, FlushOk
    <3>2. pipe.gc.kind # "barrier"
      <4> SUFFICES ASSUME pipe.gc.kind = "barrier" PROVE FALSE
        BY Zenon
      <4>1. pipe.gc.left > 0 /\ pipe.gc.left = Cardinality(pipe.gc.due) /\ pipe.gc.due \subseteq D
        BY <1>1, Zenon DEF GcOk, BarrierOk
      <4>2. pipe.gc.due = {} /\ {} \subseteq Epochs
        BY <1>3, <4>1, Zenon
      <4>3. Cardinality(pipe.gc.due) = 0
        BY <4>2, Zenon DEF Counting
      <4> QED BY <4>1, <4>3
    <3> QED BY <1>1, <3>1, <3>2 DEF GcOk, NoGc, Parked
  <2>5. ops.batch.who # c
    BY <1>1, <1>4 DEF NoBatch
  <2> QED BY Zenon, <1>5, <2>1, <2>2, <2>3, <2>4, <2>5 DEF Holds
<1> QED BY Zenon, <1>4, <1>7, <1>8

\* Nothing is dispatched when no promote is counted as in flight.
LEMMA NoneInFlight == Counting /\ IInv => (pipe.in_flight = 0 => Dispatched = {})
<1> SUFFICES ASSUME Counting, IInv, pipe.in_flight = 0 PROVE Dispatched = {}
  BY Zenon
<1>1. Dispatched = Promotes(Line) /\ pipe.in_flight = Cardinality(Promotes(Line)) /\ Promotes(Line) \subseteq Epochs
  BY IInvFacts, ViewsAre, Zenon DEF IInv, CountOk
<1> QED BY Zenon, <1>1 DEF Counting

\* A plan result stays with the actor until no promote is in flight.
LEMMA SettleHolds ==
  ASSUME ops \in Operations, NEW p, NEW called, NEW here \in BOOLEAN, Settle(p, called, here),
         ops.deferred \/ here, ~ops'.deferred
  PROVE  ~(pipe'.in_flight > 0)
<1>1. CASE p.in_flight > 0
  <2>1. ops' = [ops EXCEPT !.deferred = TRUE]
    BY Zenon, <1>1 DEF Settle, Held
  <2> QED BY Zenon, <2>1 DEF Operations
<1>2. CASE ~(p.in_flight > 0)
  <2>1. pipe' = p
    BY Zenon, <1>2 DEF Settle, Held, ApplyPlan
  <2> QED BY Zenon, <1>2, <2>1
<1> QED BY Zenon, <1>1, <1>2

\* A step that takes no plan's result from the actor leaves it there.
LEMMA PlanStays ==
  ASSUME PlanHere, ops'.deferred = ops.deferred,
         \A r \in Elems(results) : r.kind = "plan" /\ r.ok => r \in Elems(results')
  PROVE  PlanHere'
  BY Zenon DEF PlanHere

\* A plan result leaves the actor's hands only when no promote is counted.
LEMMA InvPlanWaits ==
  ASSUME IInv, IInv', (pipe.in_flight = 0 => Dispatched = {})', Next, PlanHere, ~PlanHere'
  PROVE  Dispatched' = {}
<1>1. /\ results \in Seq(Results) /\ ops \in Operations /\ pipe' \in Pipes /\ pipe'.in_flight \in Nat
  BY Zenon DEF IInv, Types, Pipes
<1>2. ~(pipe'.in_flight > 0) => Dispatched' = {}
  BY <1>1
<1>3. ops'.deferred = FALSE \/ ~ops'.deferred
  BY Zenon DEF PlanHere
<1>4. ASSUME results' = Tail(results), results # <<>>, NEW r \in Elems(results), r # Head(results)
      PROVE  r \in Elems(results')
  BY <1>1, <1>4, TailFacts
<1>5. CASE \/ GuestWrite \/ EmitPlan \/ WorkerTakes \/ Shutdown \/ Exit \/ Promote \/ PromoteWal \/ StartCheckpoint
           \/ CheckPromote \/ IdleTick
           \/ \E c \in Callers : \/ CallPromoteWal(c) \/ CallCheckpoint(c) \/ CallHandoffs(c)
                                 \/ \E k \in Asks[c] \cap (Slots \cup {"segment"}) : CallSlot(c, k)
  <2>1. UNCHANGED <<ops, results>>
    BY <1>5, Zenon DEF GuestWrite, EmitPlan, WorkerTakes, Shutdown, Exit, Promote, PromoteWal, StartCheckpoint,
                CheckPromote, IdleTick, CallPromoteWal, CallCheckpoint, CallHandoffs, CallSlot, Begin, worker
  <2> QED BY <2>1, PlanStays, Zenon
<1>6. CASE WorkerAnswers
  <2>1. PICK x : results' = Append(results, x) /\ ops' = ops
    BY Zenon, <1>6 DEF WorkerAnswers
  <2>2. results \in Seq(Results \cup {x}) /\ x \in Results \cup {x}
    BY <1>1
  <2>3. Elems(results') = Elems(results) \cup {x}
    BY <2>1, <2>2, AppendFacts
  <2> QED BY Zenon, <2>1, <2>3, PlanStays
<1>7. CASE SendJob \/ NextHandoff
  <2>1. results' = results /\ ops'.deferred = ops.deferred
    BY <1>1, <1>7, Zenon DEF SendJob, NextHandoff, Operations
  <2> QED BY Zenon, <2>1, PlanStays
<1>8. CASE SlotResult
  <2>1. /\ results' = Tail(results) /\ results # <<>> /\ Head(results).kind # "plan"
        /\ ops'.deferred = ops.deferred
    BY Zenon, <1>1, <1>8 DEF SlotResult, Receives, Slots, Operations
  <2> QED BY Zenon, <1>4, <2>1, PlanStays
<1>9. CASE PromoteResult
  <2>1. /\ results' = Tail(results) /\ results # <<>> /\ Head(results).kind = "promote"
        /\ \E p, called : Settle(p, called, FALSE)
    BY <1>9, Zenon DEF PromoteResult, Receives
  <2>2. CASE ops.deferred
    BY <1>1, <1>2, <1>3, <2>1, <2>2, SettleHolds, Zenon
  <2>3. CASE ~ops.deferred
    <3>1. PICK r \in Elems(results) : r.kind = "plan" /\ r.ok
      BY Zenon, <2>3 DEF PlanHere
    <3> QED BY Zenon, <1>4, <2>1, <3>1 DEF PlanHere
  <2> QED BY Zenon, <2>2, <2>3
<1>10. CASE PlanResult
  <2>1. results' = Tail(results) /\ results # <<>>
    BY Zenon, <1>10 DEF PlanResult, Receives
  <2>2. CASE Head(results).ok
    <3>1. Settle(pipe, call, TRUE)
      BY <1>10, <2>2, Zenon DEF PlanResult
    <3> QED BY <1>1, <1>2, <1>3, <3>1, SettleHolds, Zenon
  <2>3. CASE ~Head(results).ok
    <3>1. ops'.deferred = ops.deferred
      BY <1>1, <1>10, <2>3, Zenon DEF PlanResult, Operations
    <3> QED BY Zenon, <1>4, <2>1, <2>3, <3>1, PlanStays
  <2> QED BY Zenon, <2>2, <2>3
<1> QED BY <1>5, <1>6, <1>7, <1>8, <1>9, <1>10, Zenon DEF Next, Request, Step, Handle

-----------------------------------------------------------------------------
(* The guest, the collector, the worker thread and the shutdown.           *)

\* Nothing but the phase changes.
LEMMA IInvStutter ==
  ASSUME IInv, UNCHANGED <<files, stack, worker, pipe, ops, call>>, phase' \in {"open", "closing", "exited"}
  PROVE  IInv'
<1>1. /\ UNCHANGED <<wal, wals, plans>> /\ UNCHANGED <<jobs, running, results>>
      /\ UNCHANGED <<stack, pipe, ops, call>>
  BY Zenon DEF files, worker
<1>2. Line' = Line
  BY Zenon, <1>1 DEF Line
<1>3. Types'
  BY Zenon, <1>1 DEF IInv, Types
<1> QED BY Zenon, <1>1, <1>2, <1>3 DEF IInv

\* A write that opens a WAL takes an epoch that no promote is about.
LEMMA IInvGuestWrite ==
  ASSUME IInv, GuestWrite
  PROVE  IInv'
<1>1. /\ UNCHANGED <<plans, phase, stack, pipe, ops, call>> /\ UNCHANGED <<jobs, running, results>>
      /\ wal = 0 /\ wal' \in Epochs \ wals /\ wals' = wals \cup {wal'}
  BY Zenon DEF GuestWrite, worker
<1>2. Line' = Line
  BY Zenon, <1>1 DEF Line
<1>3. Types'
  BY Zenon, <1>1 DEF IInv, Types
<1>4. WalOk(wal', wals', Unsent(stack), Promotes(Line), pipe.failed)
  <2>1. WalOk(wal, wals, Unsent(stack), Promotes(Line), pipe.failed)
    BY Zenon DEF IInv
  <2>2. wal' # 0
    BY <1>1, PipelineAssumption DEF Epochs
  <2> QED BY Zenon, <1>1, <2>1, <2>2 DEF WalOk
<1> QED BY Zenon, <1>1, <1>2, <1>3, <1>4 DEF IInv

\* A plan file more leaves every batch with enough files.
LEMMA IInvEmitPlan ==
  ASSUME IInv, EmitPlan
  PROVE  IInv'
<1>1. /\ UNCHANGED <<wal, wals, phase, stack, pipe, ops, call>> /\ UNCHANGED <<jobs, running, results>>
      /\ plans < MaxPlans /\ plans' = plans + 1
  BY Zenon DEF EmitPlan, worker
<1>2. Line' = Line
  BY Zenon, <1>1 DEF Line
<1>3. /\ plans \in 0 .. MaxPlans /\ MaxPlans \in Nat /\ stack \in Seq(Tasks) /\ ops \in Operations
      /\ Elems(stack) \subseteq Tasks
  BY PipelineAssumption DEF IInv, Types, Elems
<1>4. plans' \in 0 .. MaxPlans
  BY <1>1, <1>3
<1>5. Types'
  BY Zenon, <1>1, <1>4 DEF IInv, Types
<1>6. PlanOk(ops, plans', stack, Line)
  <2>1. PlanOk(ops, plans, stack, Line)
    BY Zenon DEF IInv
  <2>2. ops.batch.on => ops.batch.left < plans'
    BY <1>1, <1>3, <2>1 DEF PlanOk, Operations, Batches
  <2>3. \A t \in Elems(stack) : t.op = "plan" => t.left <= plans'
    <3>1. \A t \in Tasks : t.left \in Nat
      BY DEF Tasks
    <3> QED BY <1>1, <1>3, <2>1, <3>1 DEF PlanOk
  <2> QED BY Zenon, <2>1, <2>2, <2>3 DEF PlanOk
<1> QED BY Zenon, <1>1, <1>2, <1>5, <1>6 DEF IInv

\* worker_thread takes a job: the Line does not move.
LEMMA IInvWorkerTakes ==
  ASSUME IInv, WorkerTakes
  PROVE  IInv'
<1>1. Types
  BY Zenon DEF IInv
<1>2. Line' = Line
  BY Zenon, <1>1, TakesLine
<1>3. /\ UNCHANGED <<wal, wals, plans>> /\ UNCHANGED <<phase, stack, results, pipe, ops, call>>
      /\ jobs # <<>> /\ running' = Head(jobs) /\ jobs' = Tail(jobs)
  BY Zenon DEF WorkerTakes, files
<1>4. jobs' \in Seq(Jobs) /\ Len(jobs') <= Capacity /\ running' \in Jobs
  <2>1. jobs \in Seq(Jobs) /\ Len(jobs) <= Capacity /\ Capacity \in Nat
    BY Zenon, <1>1, PipelineAssumption DEF Types
  <2>2. Tail(jobs) \in Seq(Jobs) /\ Len(Tail(jobs)) = Len(jobs) - 1 /\ Head(jobs) \in Jobs /\ Len(jobs) \in Nat
    BY <1>3, <2>1, TailFacts
  <2> QED BY <1>3, <2>1, <2>2
<1>5. Types'
  BY Zenon, <1>1, <1>3, <1>4 DEF Types
<1> QED BY Zenon, <1>2, <1>3, <1>5 DEF IInv

\* worker_thread answers: the Line does not move.
LEMMA IInvWorkerAnswers ==
  ASSUME IInv, WorkerAnswers
  PROVE  IInv'
<1>1. Types
  BY Zenon DEF IInv
<1>2. Line' = Line
  BY Zenon, <1>1, AnswersLine
<1>3. /\ UNCHANGED <<wal, wals, plans>> /\ UNCHANGED <<phase, stack, jobs, pipe, ops, call>>
      /\ running # NoJob /\ Len(results) < Capacity /\ running' = NoJob
  BY Zenon DEF WorkerAnswers, files
<1>4. PICK ok \in BOOLEAN : results' = Append(results, [kind |-> running.kind, id |-> running.id, ok |-> ok])
  BY Zenon DEF WorkerAnswers
<1>5. results' \in Seq(Results) /\ Len(results') <= Capacity
  <2>1. results \in Seq(Results) /\ running \in Jobs /\ Capacity \in Nat
    BY Zenon, <1>1, <1>3, PipelineAssumption DEF Types
  <2>2. [kind |-> running.kind, id |-> running.id, ok |-> ok] \in Results
    BY Zenon, <2>1 DEF Jobs, Results
  <2> QED BY <1>3, <1>4, <2>1, <2>2
<1>6. Types'
  BY Zenon, <1>1, <1>3, <1>5 DEF Types
<1> QED BY Zenon, <1>2, <1>3, <1>6 DEF IInv

\* Dropping the job sender, and the exit, change the phase alone.
LEMMA IInvShutdown ==
  ASSUME IInv, Shutdown \/ Exit
  PROVE  IInv'
  BY Zenon, IInvStutter DEF Shutdown, Exit

-----------------------------------------------------------------------------
(* Dispatch.                                                               *)

\* A job that enters the Line is behind everything that is due.
LEMMA GcSend ==
  ASSUME NEW g, NEW s, NEW t, NEW L \in Seq(Jobs), NEW j \in Jobs, j \notin Elems(L), GcOk(g, s, L),
         Unsent(s) \subseteq Unsent(t) \cup Promotes(Append(L, j)),
         \A u \in Elems(t) : u.op = "checkpoint" => \E v \in Elems(s) : v.op = "checkpoint"
  PROVE  GcOk(g, t, Append(L, j))
<1> DEFINE M == Append(L, j)
           n == Len(L)
<1>1. /\ n \in Nat /\ DOMAIN L = 1 .. n /\ DOMAIN M = 1 .. n + 1 /\ M[n + 1] = j
      /\ \A i \in 1 .. n : M[i] = L[i] /\ L[i] # j /\ L[i] \in Jobs
      /\ Elems(M) = Elems(L) \cup {j}
  BY AppendFacts DEF Elems
<1>2. Promotes(L) \subseteq Promotes(M) /\ (j.kind = "promote" => j.id \notin Promotes(L))
  BY <1>1, JobShape DEF Promotes
<1>3. Unsent(s) \subseteq Unsent(t) \cup Promotes(M)
  BY Zenon
<1> HIDE DEF M, n
<1>4. ASSUME FlushOk(g, Unsent(s), L) PROVE FlushOk(g, Unsent(t), M)
  <2>1. /\ g.who \in Callers /\ g.left = 0 /\ g.epoch \in Unsent(t) \cup Promotes(M)
        /\ g.due \subseteq Promotes(M) \cup {g.epoch} /\ g.due \subseteq Promotes(L) \cup {g.epoch}
    BY Zenon, <1>2, <1>3, <1>4 DEF FlushOk
  <2>2. ASSUME NEW i \in DOMAIN M, NEW k \in DOMAIN M, M[i] = Job("promote", g.epoch),
               M[k].kind = "promote", M[k].id \in g.due
        PROVE  k <= i
    <3>1. CASE i <= n /\ k <= n
      BY <1>1, <1>4, <2>2, <3>1 DEF FlushOk
    <3>2. CASE i = n + 1
      BY <1>1, <2>2, <3>2
    <3>3. CASE i <= n /\ k = n + 1
      <4>1. j.kind = "promote" /\ j.id = g.epoch
        BY Zenon, <1>1, <1>2, <2>1, <2>2, <3>3
      <4>2. j = Job("promote", g.epoch)
        BY Zenon, <4>1, JobShape
      <4> QED BY <1>1, <2>2, <3>3, <4>2
    <3> QED BY <1>1, <3>1, <3>2, <3>3
  <2> QED BY Zenon, <2>1, <2>2 DEF FlushOk
<1>5. ASSUME BarrierOk(g, L) PROVE BarrierOk(g, M)
  <2>1. ASSUME NEW i \in DOMAIN M, NEW k \in DOMAIN M, M[i].kind = "promote", M[i].id \notin g.due,
               M[k].kind = "promote", M[k].id \in g.due
        PROVE  k < i
    <3>1. k <= n
      BY <1>1, <1>2, <1>5, <2>1 DEF BarrierOk
    <3>2. CASE i <= n
      BY <1>1, <1>5, <2>1, <3>1, <3>2 DEF BarrierOk
    <3> QED BY <1>1, <3>1, <3>2
  <2> QED BY Zenon, <1>2, <1>5, <2>1 DEF BarrierOk
<1>6. GcOk(g, t, M)
  BY <1>4, <1>5, Zenon DEF GcOk
<1> QED BY Zenon, <1>6 DEF M

\* send_worker_job: the job leaves the stack, enters the Line at its end, and
\* its reply is parked with it.
LEMMA IInvSendJob ==
  ASSUME Counting, IInv, SendJob
  PROVE  IInv'
<1> DEFINE t == Head(stack)
           j == t.job
           L == Line
           s == stack
           T == Tail(stack)
           M == Append(L, j)
<1>1. /\ s # <<>> /\ t.op = "send" /\ Len(jobs) < Capacity /\ jobs' = Append(jobs, j) /\ stack' = T
      /\ pipe' = IF j.kind = "promote"
                   THEN [pipe EXCEPT !.in_flight = @ + 1, !.lag = @ + 1,
                                     !.wal = IF t.who = Nobody THEN @
                                             ELSE @ \cup {[epoch |-> j.id, who |-> t.who]}]
                   ELSE IF j.kind = "segment" THEN [pipe EXCEPT !.segments = @ \cup {t.who}]
                   ELSE pipe
      /\ ops' = IF j.kind \in Slots THEN [ops EXCEPT !.slot[j.kind] = t.who] ELSE ops
      /\ UNCHANGED <<wal, wals, plans>> /\ UNCHANGED <<phase, running, results, call>>
  BY Zenon DEF SendJob, Idle, Room, Pop, files
<1>2. /\ L \in Seq(Jobs) /\ Elems(L) \subseteq Jobs /\ Once(L) /\ s \in Seq(Tasks) /\ StackOk(s, L)
      /\ pipe \in Pipes /\ ops \in Operations /\ Promotes(L) \subseteq Epochs /\ Unsent(s) \subseteq Epochs
      /\ Nobody \notin Callers /\ Types
  BY Zenon, IInvFacts DEF IInv
<1>3. /\ t \in Tasks /\ T \in Seq(Tasks) /\ GoodTask(t) /\ t \in Elems(s)
      /\ Elems(s) = {t} \cup Elems(T) /\ Elems(s) \subseteq Tasks
      /\ \A u \in Elems(T) : Apart(t, u) /\ Apart(u, t)
      /\ j \in Jobs /\ j \notin Elems(L)
  BY <1>1, <1>2, PopFacts, Zenon
<1>4. /\ j = Job(j.kind, j.id) /\ j.kind # "plan" /\ t.who \in Whos
      /\ j.kind = "promote" => j.id \in Epochs
      /\ j.kind \in SlotKinds => j.id \in Callers /\ t.who = j.id
      /\ j.kind \in {"promote"} \cup SlotKinds /\ "promote" \notin SlotKinds
      /\ Slots \subseteq SlotKinds /\ "segment" \in SlotKinds \ Slots /\ SlotKinds = Slots \cup {"segment"}
  BY Zenon, <1>1, <1>3, JobShape DEF GoodTask, Tasks, SlotKinds
<1>5. /\ Line' = M /\ M \in Seq(Jobs) /\ Elems(M) = Elems(L) \cup {j} /\ Once(M)
  BY <1>1, <1>2, <1>3, SendLine, AppendFacts
<1>6. /\ j.kind = "promote" => Promotes(M) = Promotes(L) \cup {j.id} /\ j.id \notin Promotes(L)
                               /\ Unsent(T) = Unsent(s) \ {j.id} /\ j.id \in Unsent(s)
      /\ j.kind # "promote" => Promotes(M) = Promotes(L) /\ Unsent(T) = Unsent(s)
  <2>1. j.kind = "promote" => j.id \notin Promotes(L)
    BY Zenon, <1>3, <1>4 DEF Promotes
  <2>2. /\ j.kind = "promote" => Promotes(M) = Promotes(L) \cup {j.id}
        /\ j.kind # "promote" => Promotes(M) = Promotes(L)
    BY <1>3, <1>5, PromotesSend, Zenon
  <2>3. /\ j.kind = "promote" => Unsent(T) = Unsent(s) \ {j.id} /\ j.id \in Unsent(s)
        /\ j.kind # "promote" => Unsent(T) = Unsent(s)
    BY <1>1, <1>2, UnsentPop, Zenon
  <2> QED BY <2>1, <2>2, <2>3, Zenon
<1>7. StackOk(T, M)
  BY <1>1, <1>2, <1>5, StackSend, Zenon
<1> HIDE DEF t, j, L, s, T, M
<1>8. Types'
  <2>1. jobs' \in Seq(Jobs) /\ Len(jobs') <= Capacity
    BY <1>1, <1>2, <1>3, PipelineAssumption DEF Types
  <2>2. pipe' \in Pipes
    <3>1. CASE j.kind = "promote"
      <4>1. t.who # Nobody => [epoch |-> j.id, who |-> t.who] \in [epoch : Epochs, who : Callers]
        BY Zenon, <1>4, <3>1 DEF Whos
      <4>2. (IF t.who = Nobody THEN pipe.wal ELSE pipe.wal \cup {[epoch |-> j.id, who |-> t.who]})
              \in SUBSET [epoch : Epochs, who : Callers]
        BY <1>2, <4>1, Zenon DEF Pipes
      <4> DEFINE w == IF t.who = Nobody THEN pipe.wal ELSE pipe.wal \cup {[epoch |-> j.id, who |-> t.who]}
      <4>3. pipe' = [pipe EXCEPT !.in_flight = @ + 1, !.lag = @ + 1, !.wal = w]
        BY Zenon, <1>1, <3>1
      <4> HIDE DEF w
      <4>4. w \in SUBSET [epoch : Epochs, who : Callers]
        BY Zenon, <4>2 DEF w
      <4>5. pipe.in_flight + 1 \in Nat /\ pipe.lag + 1 \in Nat
        BY <1>2 DEF Pipes
      <4> QED BY <1>2, <4>3, <4>4, <4>5, Zenon DEF Pipes
    <3>2. CASE j.kind = "segment"
      BY <1>1, <1>2, <1>4, <3>2, Zenon DEF Pipes
    <3>3. CASE j.kind \in Slots
      BY Zenon, <1>1, <1>2, <1>4, <3>3
    <3> QED BY Zenon, <1>4, <3>1, <3>2, <3>3
  <2>3. ops' \in Operations
    BY <1>1, <1>2, <1>4, Zenon DEF Operations
  <2> QED BY <1>1, <1>2, <1>3, <2>1, <2>2, <2>3, Zenon DEF Types
<1>9. /\ pipe'.gc = pipe.gc /\ pipe'.failed = pipe.failed
      /\ ops'.batch = ops.batch /\ ops'.flying = ops.flying /\ ops'.deferred = ops.deferred
      /\ \A k \in Slots : ops'.slot[k] = IF k = j.kind THEN t.who ELSE ops.slot[k]
      /\ j.kind = "segment" => pipe'.segments = pipe.segments \cup {t.who}
      /\ j.kind # "segment" => pipe'.segments = pipe.segments
  BY Zenon, <1>1, <1>2, <1>4 DEF Pipes, Operations
<1>10. /\ j.kind # "promote" \/ t.who = Nobody => pipe'.wal = pipe.wal
       /\ j.kind = "promote" /\ t.who # Nobody => pipe'.wal = pipe.wal \cup {[epoch |-> j.id, who |-> t.who]}
       /\ j.kind = "promote" => pipe'.in_flight = pipe.in_flight + 1 /\ pipe'.lag = pipe.lag + 1
       /\ j.kind # "promote" => pipe'.in_flight = pipe.in_flight /\ pipe'.lag = pipe.lag
  BY <1>1, <1>2, <1>4, Zenon DEF Pipes
<1>11. WalOk(wal, wals, Unsent(T), Promotes(M), pipe'.failed)
  <2>1. WalOk(wal, wals, Unsent(s), Promotes(L), pipe.failed)
    BY Zenon DEF IInv, s, L
  <2> QED BY <1>6, <1>9, <2>1 DEF WalOk
<1>12. CountOk(pipe', M)
  <2>1. CountOk(pipe, L)
    BY Zenon DEF IInv, L
  <2>2. j.kind = "promote" => Cardinality(Promotes(M)) = Cardinality(Promotes(L)) + 1
    BY <1>2, <1>4, <1>6, CountOne
  <2> QED BY Zenon, <1>6, <1>10, <2>1, <2>2 DEF CountOk
<1>13. PlanOk(ops', plans, T, M)
  <2>1. PlanOk(ops, plans, s, L)
    BY Zenon DEF IInv, s, L
  <2>2. Job("plan", 0) \in Elems(M) <=> Job("plan", 0) \in Elems(L)
    BY <1>4, <1>5, JobShape
  <2>3. Promotes(L) \subseteq Promotes(M)
    BY Zenon, <1>6
  <2> QED BY Zenon, <1>3, <1>9, <2>1, <2>2, <2>3 DEF PlanOk
<1>14. GcOk(pipe'.gc, T, M)
  <2>1. GcOk(pipe.gc, s, L)
    BY Zenon DEF IInv, s, L
  <2>2. Unsent(s) \subseteq Unsent(T) \cup Promotes(M)
    BY Zenon, <1>6
  <2>3. \A u \in Elems(T) : u.op = "checkpoint" => \E v \in Elems(s) : v.op = "checkpoint"
    BY Zenon, <1>3
  <2>4. GcOk(pipe.gc, T, M)
    BY <1>2, <1>3, <2>1, <2>2, <2>3, GcSend, Zenon DEF M
  <2> QED BY Zenon, <1>9, <2>4
<1>15. ReplyOk(call, T, M, pipe', ops')
  <2>1. ReplyOk(call, s, L, pipe, ops)
    BY Zenon DEF IInv, s, L
  <2>2. t.who \in Callers => call[t.who] = AskOf(t) /\ \A u \in Elems(T) : u.who # t.who
    BY Zenon, <1>3, <2>1 DEF ReplyOk, Apart
  <2>3. /\ j.kind = "promote" => AskOf(t) = "wal"
        /\ j.kind # "promote" => AskOf(t) = j.kind
    BY <1>1, Zenon DEF AskOf, j
  <2>4. \A u \in Elems(T) : u.who \in Callers => call[u.who] = AskOf(u)
    BY <1>3, <2>1, Zenon DEF ReplyOk
  <2>5. \A x \in Elems(M) : x.kind \in SlotKinds => call[x.id] = x.kind
    BY <1>4, <1>5, <2>1, <2>2, <2>3, Zenon DEF ReplyOk
  <2>6. CASE j.kind = "promote" /\ t.who # Nobody
    <3> DEFINE n == [epoch |-> j.id, who |-> t.who]
    <3>1. pipe'.wal = pipe.wal \cup {n} /\ n.epoch = j.id /\ n.who = t.who /\ t.who \in Callers
      BY <1>4, <1>10, <2>6, Zenon DEF Whos
    <3> HIDE DEF n
    <3>2. \A w \in pipe'.wal : w.epoch \in Promotes(M) /\ call[w.who] = "wal"
      BY <1>6, <2>1, <2>2, <2>3, <2>6, <3>1, Zenon DEF ReplyOk
    <3>3. \A w \in pipe.wal : w.who # n.who
      BY <1>3, <2>1, <3>1 DEF ReplyOk
    <3>4. \A v, w \in pipe'.wal : v.who = w.who => v = w
      BY <2>1, <3>1, <3>3, Zenon DEF ReplyOk
    <3>5. \A w \in pipe'.wal : \A u \in Elems(T) : u.who # w.who
      BY <1>3, <2>1, <2>2, <3>1, Zenon DEF ReplyOk
    <3> QED BY Zenon, <1>9, <2>1, <2>4, <2>5, <3>2, <3>4, <3>5 DEF ReplyOk
  <2>7. CASE ~(j.kind = "promote" /\ t.who # Nobody)
    <3>1. pipe'.wal = pipe.wal /\ Promotes(L) \subseteq Promotes(M) /\ Elems(T) \subseteq Elems(s)
      BY <1>3, <1>6, <1>10, <2>7, Zenon
    <3> QED BY <1>9, <2>1, <2>4, <2>5, <3>1, Zenon DEF ReplyOk
  <2> QED BY Zenon, <2>6, <2>7
<1>16. SlotOk(pipe', ops', T, M)
  <2>1. SlotOk(pipe, ops, s, L)
    BY Zenon DEF IInv, s, L
  <2>2. j.kind \in Slots => ops.slot[j.kind] = Nobody /\ \A x \in Elems(L) : x.kind # j.kind
    <3> SUFFICES ASSUME j.kind \in Slots
                 PROVE  ops.slot[j.kind] = Nobody /\ \A x \in Elems(L) : x.kind # j.kind
      BY Zenon
    <3>1. ops.slot[j.kind] = Nobody
      BY Zenon, <1>1, <1>3, <2>1 DEF SlotOk, j
    <3>2. ASSUME NEW x \in Elems(L), x.kind = j.kind PROVE FALSE
      <4>1. x.id = Nobody
        BY <2>1, <3>1, <3>2, Zenon DEF SlotOk
      <4>2. x.id \in Callers
        BY <1>2, <1>4, <3>2, JobShape, Zenon
      <4> QED BY <1>2, <4>1, <4>2, Zenon
    <3> QED BY Zenon, <3>1, <3>2
  <2>3. \A k \in Slots : ops'.slot[k] # Nobody => Job(k, ops'.slot[k]) \in Elems(M)
    BY <1>4, <1>5, <1>9, <2>1, Zenon DEF SlotOk
  <2>4. \A x \in Elems(M) : x.kind \in Slots => ops'.slot[x.kind] = x.id
    BY <1>4, <1>5, <1>9, <2>1, <2>2, Zenon DEF SlotOk
  <2>5. \A c \in Callers : c \in pipe'.segments <=> Job("segment", c) \in Elems(M)
    BY <1>4, <1>5, <1>9, <2>1, JobShape DEF SlotOk
  <2>6. \A u \in Elems(T) : u.op = "send" /\ u.job.kind \in Slots => ops'.slot[u.job.kind] = Nobody
    BY Zenon, <1>1, <1>3, <1>9, <2>1 DEF SlotOk, Apart, j
  <2> QED BY Zenon, <2>3, <2>4, <2>5, <2>6 DEF SlotOk
<1>17. ParkedOk(call, T, M, pipe', ops')
  <2>1. ParkedOk(call, s, L, pipe, ops)
    BY Zenon DEF IInv, s, L
  <2> SUFFICES ASSUME NEW c \in Callers, Holds(c, s, L, pipe, ops) PROVE Holds(c, T, M, pipe', ops')
    BY <2>1, Zenon DEF ParkedOk
  <2>2. pipe.wal \subseteq pipe'.wal /\ Elems(L) \subseteq Elems(M) /\ j \in Elems(M)
    BY <1>5, <1>10, Zenon
  <2>3. CASE c = t.who
    <3>1. CASE j.kind = "promote"
      <4>1. [epoch |-> j.id, who |-> t.who] \in pipe'.wal
        BY Zenon, <1>2, <1>10, <2>3, <3>1
      <4>2. [epoch |-> j.id, who |-> t.who].who = c
        BY <2>3, Zenon
      <4> QED BY <4>1, <4>2, Zenon DEF Holds
    <3>2. CASE j.kind \in SlotKinds
      BY <1>4, <2>2, <2>3, <3>2, Zenon DEF Holds
    <3> QED BY <1>4, <3>1, <3>2, Zenon
  <2>4. CASE c # t.who
    BY Zenon, <1>3, <1>9, <2>2, <2>4 DEF Holds
  <2> QED BY Zenon, <2>3, <2>4
<1> QED BY Zenon, <1>1, <1>5, <1>7, <1>8, <1>11, <1>12, <1>13, <1>14, <1>15, <1>16, <1>17 DEF IInv

\* dispatch_next_handoff sends the next plan: the batch is in its slot again.
LEMMA IInvHandoffSend ==
  ASSUME IInv, stack # <<>>, Head(stack).op = "plan", Head(stack).left > 0, Room,
         jobs' = Append(jobs, Job("plan", 0)),
         ops' = [ops EXCEPT !.flying = TRUE,
                            !.batch = [left |-> Head(stack).left - 1, who |-> Head(stack).who, on |-> TRUE]],
         stack' = Tail(stack), UNCHANGED <<plans, call>>, UNCHANGED <<wal, wals, phase, running, results, pipe>>
  PROVE  IInv'
<1> DEFINE t == Head(stack)
           j == Job("plan", 0)
           L == Line
           s == stack
           T == Tail(stack)
           M == Append(L, j)
<1>1. /\ L \in Seq(Jobs) /\ Elems(L) \subseteq Jobs /\ Once(L) /\ s \in Seq(Tasks) /\ StackOk(s, L)
      /\ pipe \in Pipes /\ ops \in Operations /\ Types
      /\ PlanOk(ops, plans, s, L) /\ GcOk(pipe.gc, s, L) /\ ReplyOk(call, s, L, pipe, ops)
      /\ SlotOk(pipe, ops, s, L) /\ ParkedOk(call, s, L, pipe, ops)
  BY Zenon, IInvFacts DEF IInv
<1>2. /\ t \in Tasks /\ T \in Seq(Tasks) /\ t \in Elems(s)
      /\ Elems(s) = {t} \cup Elems(T) /\ Elems(s) \subseteq Tasks
      /\ \A u \in Elems(T) : Apart(t, u) /\ Apart(u, t)
      /\ j \in Jobs /\ j.kind = "plan" /\ t.left \in Nat /\ t.who \in Whos
  BY <1>1, PopFacts, JobShape DEF Tasks
<1>3. /\ ~ops.batch.on /\ j \notin Elems(L) /\ ~ops.deferred /\ t.left <= plans /\ t.left > 0
      /\ plans \in Nat /\ \A u \in Elems(T) : u.op # "plan"
  BY <1>1, <1>2 DEF PlanOk, Types, Apart
<1>4. /\ Line' = M /\ M \in Seq(Jobs) /\ Elems(M) = Elems(L) \cup {j} /\ Once(M)
  BY <1>1, <1>2, <1>3, SendLine, AppendFacts
<1>5. Promotes(M) = Promotes(L) /\ Unsent(T) = Unsent(s)
  BY <1>1, <1>2, <1>4, PromotesSend, UnsentPop, Zenon
<1>6. StackOk(T, M)
  BY <1>1, <1>2, <1>4, StackPop, Zenon
<1>7. /\ ops'.batch = [left |-> t.left - 1, who |-> t.who, on |-> TRUE] /\ ops'.flying = TRUE
      /\ ops'.deferred = ops.deferred /\ ops'.slot = ops.slot
      /\ ops'.batch.left = t.left - 1 /\ ops'.batch.who = t.who /\ ops'.batch.on = TRUE
  BY Zenon, <1>1 DEF Operations
<1>8. Types'
  <2>1. jobs' \in Seq(Jobs) /\ Len(jobs') <= Capacity
    BY <1>1, <1>2, PipelineAssumption DEF Types, Room
  <2>2. [left |-> t.left - 1, who |-> t.who, on |-> TRUE] \in Batches
    BY <1>2 DEF Batches
  <2>3. ops' \in Operations
    BY <1>1, <2>2, Zenon DEF Operations
  <2> QED BY Zenon, <1>1, <1>2, <2>1, <2>3 DEF Types
<1>9. stack' = T
  BY Zenon
<1> HIDE DEF t, j, L, s, T, M
<1>10. PlanOk(ops', plans, T, M)
  <2>1. ops'.batch.left < plans
    BY <1>2, <1>3, <1>7
  <2>2. Job("plan", 0) \in Elems(M) /\ ~ops'.deferred /\ ops'.batch.on /\ ops'.flying = ops'.batch.on
    BY <1>3, <1>4, <1>7, Zenon DEF j
  <2>3. \A u \in Elems(T) : u.op # "plan"
    BY Zenon, <1>3
  <2> QED BY <2>1, <2>2, <2>3, Zenon DEF PlanOk
<1>11. GcOk(pipe.gc, T, M)
  <2>1. Unsent(s) \subseteq Unsent(T) \cup Promotes(M)
    BY Zenon, <1>5
  <2>2. \A u \in Elems(T) : u.op = "checkpoint" => \E v \in Elems(s) : v.op = "checkpoint"
    BY Zenon, <1>2
  <2> QED BY <1>1, <1>2, <1>3, <2>1, <2>2, GcSend, Zenon DEF M
<1>12. ReplyOk(call, T, M, pipe, ops')
  <2>1. t.who \in Callers => call[t.who] = "handoffs"
    BY <1>1, <1>2, Zenon DEF ReplyOk, AskOf, t
  <2>2. j.kind \notin SlotKinds
    BY Zenon, <1>2, JobShape
  <2> QED BY <1>1, <1>2, <1>4, <1>5, <1>7, <2>1, <2>2 DEF ReplyOk
<1>13. SlotOk(pipe, ops', T, M)
  <2>1. j.kind \notin Slots /\ \A k, c : Job(k, c) = j => k = "plan"
    BY <1>2, JobShape
  <2>2. "plan" \notin Slots /\ "plan" # "segment"
    BY Zenon DEF Slots
  <2> QED BY <1>1, <1>2, <1>4, <1>7, <2>1, <2>2, Zenon DEF SlotOk
<1>14. ParkedOk(call, T, M, pipe, ops')
  <2>1. ops.batch.who = Nobody /\ Nobody \notin Callers
    BY <1>1, <1>3, PipelineAssumption DEF PlanOk, NoBatch
  <2> QED BY <1>1, <1>2, <1>4, <1>7, <2>1, Zenon DEF ParkedOk, Holds
<1>15. WalOk(wal, wals, Unsent(T), Promotes(M), pipe.failed) /\ CountOk(pipe, M)
  BY Zenon, <1>5 DEF IInv, CountOk, s, L
<1> QED BY <1>4, <1>6, <1>8, <1>9, <1>10, <1>11, <1>12, <1>13, <1>14, <1>15, Zenon DEF IInv

\* A plan that does not read back is removed.
LEMMA IInvHandoffSkip ==
  ASSUME IInv, stack # <<>>, Head(stack).op = "plan", Head(stack).left > 0,
         stack' = <<[Head(stack) EXCEPT !.left = @ - 1]>> \o Tail(stack), plans' = plans - 1,
         UNCHANGED <<jobs, ops, call>>, UNCHANGED <<wal, wals, phase, running, results, pipe>>
  PROVE  IInv'
<1> DEFINE t == Head(stack)
           n == [t EXCEPT !.left = @ - 1]
           L == Line
           s == stack
           T == Tail(stack)
           S == <<n>> \o T
<1>1. /\ L \in Seq(Jobs) /\ s \in Seq(Tasks) /\ StackOk(s, L) /\ Types /\ ops \in Operations
      /\ PlanOk(ops, plans, s, L) /\ GcOk(pipe.gc, s, L) /\ ReplyOk(call, s, L, pipe, ops)
      /\ SlotOk(pipe, ops, s, L) /\ ParkedOk(call, s, L, pipe, ops)
  BY Zenon, IInvFacts DEF IInv
<1>2. /\ t \in Tasks /\ T \in Seq(Tasks) /\ t \in Elems(s)
      /\ Elems(s) = {t} \cup Elems(T) /\ Elems(s) \subseteq Tasks
      /\ \A u \in Elems(T) : Apart(t, u) /\ Apart(u, t)
      /\ t.left \in Nat
  <2>1. \A u \in Tasks : u.left \in Nat
    BY DEF Tasks
  <2> QED BY <1>1, <2>1, PopFacts, Zenon
<1>3. /\ n \in Tasks /\ n.op = "plan" /\ n.who = t.who /\ n.left = t.left - 1
  BY <1>2 DEF Tasks, Openings
<1>4. /\ ~ops.batch.on /\ t.left <= plans /\ plans \in 0 .. MaxPlans /\ MaxPlans \in Nat
      /\ \A u \in Elems(T) : u.op # "plan"
  BY Zenon, <1>1, <1>2, PipelineAssumption DEF PlanOk, Types, Apart
<1>5. StackOk(S, L) /\ S \in Seq(Tasks)
  BY <1>1, <1>2, <1>3, StackSkip, Zenon
<1>6. Elems(S) = {n} \cup Elems(T)
  BY <1>2, <1>3, ConsFacts, Zenon
<1>7. Unsent(S) = Unsent(s)
  <2>1. Unsent(S) = Unsent(T)
    BY <1>2, <1>3, UnsentShort, Zenon
  <2> QED BY Zenon, <1>1, <2>1, UnsentPop
<1>8. Line' = L
  BY Zenon DEF Line
<1>9. stack' = S
  BY Zenon
<1>10. plans' \in 0 .. MaxPlans
  BY <1>2, <1>4
<1>11. Types'
  BY Zenon, <1>1, <1>5, <1>9, <1>10 DEF Types
<1>12. t.op = "plan" /\ t.left > 0
  BY Zenon
<1> HIDE DEF t, n, L, s, T, S
<1>13. PlanOk(ops, plans', S, L)
  <2>1. n.left <= plans'
    BY <1>2, <1>3, <1>4
  <2>2. \A u \in Elems(S) : u.op = "plan" => ~ops.batch.on /\ u.left <= plans'
    BY <1>4, <1>6, <2>1, Zenon
  <2> QED BY <1>1, <1>4, <2>2, Zenon DEF PlanOk
<1>14. GcOk(pipe.gc, S, L)
  BY <1>1, <1>2, <1>3, <1>6, <1>7, GcSame, Zenon
<1>15. ReplyOk(call, S, L, pipe, ops)
  <2>1. AskOf(n) = AskOf(t)
    BY Zenon, <1>3, <1>12 DEF AskOf
  <2>2. \A u \in Elems(S) : u.who \in Callers => call[u.who] = AskOf(u)
    <3>1. \A u \in Elems(s) : u.who \in Callers => call[u.who] = AskOf(u)
      BY <1>1, Zenon DEF ReplyOk
    <3>2. n.who \in Callers => call[n.who] = AskOf(n)
      BY <1>2, <1>3, <2>1, <3>1, Zenon
    <3> QED BY <1>2, <1>6, <3>1, <3>2, Zenon
  <2>3. \A w \in pipe.wal : \A u \in Elems(S) : u.who # w.who
    <3>1. \A w \in pipe.wal : \A u \in Elems(s) : u.who # w.who
      BY <1>1, Zenon DEF ReplyOk
    <3>2. \A w \in pipe.wal : n.who # w.who
      BY <1>2, <1>3, <3>1, Zenon
    <3> QED BY <1>2, <1>6, <3>1, <3>2, Zenon
  <2> QED BY <1>1, <2>2, <2>3, Zenon DEF ReplyOk
<1>16. SlotOk(pipe, ops, S, L)
  BY <1>1, <1>2, <1>3, <1>6, Zenon DEF SlotOk
<1>17. ParkedOk(call, S, L, pipe, ops)
  BY <1>1, <1>2, <1>3, <1>6, Zenon DEF ParkedOk, Holds
<1>18. WalOk(wal, wals, Unsent(S), Promotes(L), pipe.failed) /\ CountOk(pipe, L) /\ Once(L)
  BY <1>7, Zenon DEF IInv, s, L
<1> QED BY <1>5, <1>8, <1>9, <1>11, <1>13, <1>14, <1>15, <1>16, <1>17, <1>18, Zenon DEF IInv

\* The actor is done with what is on top of the stack and answers its caller.
LEMMA IInvDone ==
  ASSUME IInv, stack # <<>>, Head(stack).op # "send", stack' = Tail(stack),
         call' = Answered({Head(stack).who}),
         UNCHANGED <<wal, wals, plans>>, UNCHANGED <<phase, jobs, running, results, pipe, ops>>
  PROVE  IInv'
<1> DEFINE t == Head(stack)
           L == Line
           s == stack
           T == Tail(stack)
<1>1. /\ L \in Seq(Jobs) /\ s \in Seq(Tasks) /\ StackOk(s, L) /\ Types /\ pipe \in Pipes
      /\ Elems(L) \subseteq Jobs /\ Nobody \notin Callers
      /\ PlanOk(ops, plans, s, L) /\ GcOk(pipe.gc, s, L) /\ ReplyOk(call, s, L, pipe, ops)
      /\ SlotOk(pipe, ops, s, L) /\ ParkedOk(call, s, L, pipe, ops)
  BY IInvFacts, Zenon DEF IInv
<1>2. /\ t \in Tasks /\ T \in Seq(Tasks) /\ t \in Elems(s)
      /\ Elems(s) = {t} \cup Elems(T) /\ \A u \in Elems(T) : Apart(t, u) /\ Apart(u, t)
  BY <1>1, PopFacts, Zenon
<1>3. StackOk(T, L) /\ Unsent(T) = Unsent(s)
  BY <1>1, StackPop, UnsentPop, Zenon
<1>4. Line' = L
  BY Zenon DEF Line
<1>5. Types'
  BY <1>1, <1>2, AnswerTypes, Zenon DEF Types
<1>6. call' = [c \in Callers |-> IF c \in {t.who} THEN "none" ELSE call[c]]
  BY <1>1, AnswerTypes, Zenon
<1>7. stack' = T /\ t.op # "send" /\ t.op \in {"plan"} \cup Openings
  BY Zenon, <1>2 DEF Tasks
<1> HIDE DEF t, L, s, T
<1>8. PlanOk(ops, plans, T, L) /\ SlotOk(pipe, ops, T, L) /\ ReplyOk(call, T, L, pipe, ops)
  BY <1>1, <1>2, Zenon DEF PlanOk, SlotOk, ReplyOk
<1>9. GcOk(pipe.gc, T, L)
  BY <1>1, <1>2, <1>3, GcSame, Zenon
<1>10. ASSUME t.who \in Callers PROVE ~Holds(t.who, T, L, pipe, ops)
  <2>1. call[t.who] = AskOf(t) /\ \A u \in Elems(T) : u.who # t.who
    BY <1>1, <1>2, <1>10, Zenon DEF ReplyOk, Apart
  <2>2. AskOf(t) = IF t.op = "plan" THEN "handoffs" ELSE t.op
    BY Zenon, <1>7 DEF AskOf
  <2>3. AskOf(t) \notin SlotKinds
    BY <1>7, <2>2, Zenon DEF SlotKinds, Slots, Openings
  <2>4. \A w \in pipe.wal : w.who # t.who
    BY <1>1, <1>2, Zenon DEF ReplyOk
  <2>5. pipe.gc.who # t.who
    <3>1. SUFFICES ASSUME pipe.gc.who = t.who PROVE FALSE
      BY Zenon
    <3>2. t.op = "checkpoint"
      BY Zenon, <1>1, <1>10, <2>1, <2>2, <3>1 DEF ReplyOk
    <3>3. pipe.gc.who = Nobody
      BY <1>1, <1>2, <3>2 DEF GcOk, NoGc
    <3> QED BY Zenon, <1>1, <1>10, <3>1, <3>3
  <2>6. ops.batch.who # t.who
    <3>1. SUFFICES ASSUME ops.batch.who = t.who PROVE FALSE
      BY Zenon
    <3>2. t.op = "plan"
      BY <1>1, <1>7, <1>10, <2>1, <2>2, <3>1, Zenon DEF ReplyOk, Openings
    <3>3. ops.batch.who = Nobody
      BY <1>1, <1>2, <3>2 DEF PlanOk, NoBatch
    <3> QED BY <1>1, <1>10, <3>1, <3>3, Zenon
  <2>7. \A j \in Elems(L) : ~(j.kind \in SlotKinds /\ j.id = t.who)
    BY <1>1, <2>1, <2>3, Zenon DEF ReplyOk
  <2> QED BY <2>1, <2>4, <2>5, <2>6, <2>7, Zenon DEF Holds
<1>11. \A c \in Callers : c \notin {t.who} /\ call[c] # "none" => Holds(c, T, L, pipe, ops)
  BY Zenon, <1>1, <1>2 DEF ParkedOk, Holds
<1>12. ReplyOk(call', T, L, pipe, ops) /\ ParkedOk(call', T, L, pipe, ops)
  <2>1. \A c \in Callers : \/ call'[c] = "none" /\ ~Holds(c, T, L, pipe, ops)
                           \/ call'[c] = call[c] /\ (call[c] # "none" => Holds(c, T, L, pipe, ops))
    BY Zenon, <1>6, <1>10, <1>11
  <2>2. pipe \in Pipes /\ ReplyOk(call, T, L, pipe, ops) /\ Elems(L) \subseteq Jobs
    BY <1>1, <1>8, Zenon
  <2> QED BY <2>1, <2>2, Answer, Zenon
<1>13. WalOk(wal, wals, Unsent(T), Promotes(L), pipe.failed) /\ CountOk(pipe, L) /\ Once(L)
  BY Zenon, <1>3 DEF IInv, s, L
<1> QED BY <1>3, <1>4, <1>5, <1>7, <1>8, <1>9, <1>12, <1>13, Zenon DEF IInv

\* dispatch_next_handoff: the plan is sent, passed over, or ends its batch.
LEMMA IInvNextHandoff ==
  ASSUME IInv, NextHandoff
  PROVE  IInv'
<1> DEFINE t == Head(stack)
<1>1. /\ stack # <<>> /\ t.op = "plan" /\ UNCHANGED <<wal, wals, phase, running, results, pipe>>
  BY Zenon DEF NextHandoff, Idle
<1>2. CASE /\ t.left > 0 /\ Room
           /\ jobs' = Append(jobs, Job("plan", 0))
           /\ ops' = [ops EXCEPT !.flying = TRUE,
                                 !.batch = [left |-> t.left - 1, who |-> t.who, on |-> TRUE]]
           /\ stack' = Tail(stack) /\ UNCHANGED <<plans, call>>
  BY Zenon, <1>1, <1>2, IInvHandoffSend
<1>3. CASE /\ t.left > 0 /\ stack' = <<[t EXCEPT !.left = @ - 1]>> \o Tail(stack)
           /\ plans' = plans - 1 /\ UNCHANGED <<jobs, ops, call>>
  BY Zenon, <1>1, <1>3, IInvHandoffSkip
<1>4. CASE stack' = Tail(stack) /\ call' = Answered({t.who}) /\ UNCHANGED <<plans, jobs, ops>>
  BY <1>1, <1>4, IInvDone, Zenon
<1> QED BY <1>2, <1>3, <1>4, Zenon DEF NextHandoff, Pop

-----------------------------------------------------------------------------
(* The requests, and the steps of their handlers.                          *)

\* A handler begins or goes on: the stack changes, and with it the open WAL and
\* the stash, while the Line, the checkpoint and the slots stay.
LEMMA IInvStack ==
  ASSUME IInv, UNCHANGED <<plans, wals, phase, ops>>, UNCHANGED <<jobs, running, results>>,
         NEW f \in Seq(Epochs), pipe' = [pipe EXCEPT !.failed = f], wal' \in Epochs \cup {0},
         stack' \in Seq(Tasks), StackOk(stack', Line), Unsent(stack) \subseteq Unsent(stack'),
         WalOk(wal', wals, Unsent(stack'), Promotes(Line), f),
         call' \in [Callers -> Calls], \A c \in Callers : call'[c] \in Asks[c] \cup {"none"},
         \A t \in Elems(stack') :
           /\ t.op = "plan" => ~ops.batch.on /\ t.left <= plans
           /\ t.op = "checkpoint" => pipe.gc = NoGc
           /\ t.op = "send" /\ t.job.kind \in Slots => ops.slot[t.job.kind] = Nobody
           /\ t.who \in Callers => /\ call'[t.who] = AskOf(t)
                                   /\ call[t.who] = "none" \/ \E u \in Elems(stack) : u.who = t.who,
         \A c \in Callers : call'[c] = call[c] \/ (call[c] = "none" /\ \E t \in Elems(stack') : t.who = c),
         \A t \in Elems(stack) : t.who \in Callers => \E u \in Elems(stack') : u.who = t.who
  PROVE  IInv'
<1> DEFINE L == Line
           s == stack
           S == stack'
<1>1. /\ L \in Seq(Jobs) /\ Types /\ pipe \in Pipes /\ Elems(L) \subseteq Jobs
      /\ PlanOk(ops, plans, s, L) /\ GcOk(pipe.gc, s, L) /\ ReplyOk(call, s, L, pipe, ops)
      /\ SlotOk(pipe, ops, s, L) /\ ParkedOk(call, s, L, pipe, ops) /\ CountOk(pipe, L) /\ Once(L)
  BY Zenon, IInvFacts DEF IInv
<1>2. /\ pipe' \in Pipes /\ pipe'.gc = pipe.gc /\ pipe'.wal = pipe.wal /\ pipe'.segments = pipe.segments
      /\ pipe'.failed = f /\ pipe'.in_flight = pipe.in_flight /\ pipe'.lag = pipe.lag
  BY <1>1, Zenon DEF Pipes
<1>3. Line' = L
  BY Zenon DEF Line
<1>4. Types'
  BY <1>1, <1>2, Zenon DEF Types
<1> HIDE DEF L, s
<1>5. PlanOk(ops, plans, S, L) /\ SlotOk(pipe', ops, S, L) /\ CountOk(pipe', L)
  BY Zenon, <1>1, <1>2 DEF PlanOk, SlotOk, CountOk
<1>6. GcOk(pipe'.gc, S, L)
  BY <1>1, <1>2, GcSame DEF s
<1>7. \A c \in Callers : call[c] # "none" => call'[c] = call[c]
  BY Zenon
<1>8. \A k \in SlotKinds : k # "none"
  BY Zenon DEF SlotKinds, Slots
<1>9. \A w \in pipe.wal : w.who \in Callers /\ call[w.who] = "wal" /\ \A u \in Elems(s) : u.who # w.who
  BY Zenon, <1>1 DEF Pipes, ReplyOk
<1>10. ReplyOk(call', S, L, pipe', ops)
  <2>1. \A w \in pipe.wal : w.epoch \in Promotes(L) /\ call'[w.who] = "wal"
    BY <1>1, <1>7, <1>9 DEF ReplyOk
  <2>2. \A w \in pipe.wal : \A t \in Elems(S) : t.who # w.who
    <3> SUFFICES ASSUME NEW w \in pipe.wal, NEW t \in Elems(S), t.who = w.who PROVE FALSE
      BY Zenon
    <3>1. call[t.who] = "wal" /\ t.who \in Callers
      BY <1>9
    <3>2. \E u \in Elems(s) : u.who = t.who
      BY <3>1, Zenon DEF s
    <3> QED BY <1>9, <3>2
  <2>3. pipe.gc.who \in Callers => call'[pipe.gc.who] = "checkpoint"
    BY Zenon, <1>1, <1>7 DEF ReplyOk
  <2>4. ops.batch.who \in Callers => call'[ops.batch.who] = "handoffs"
    BY <1>1, <1>7, Zenon DEF ReplyOk
  <2>5. \A j \in Elems(L) : j.kind \in SlotKinds => call'[j.id] = j.kind
    BY <1>1, <1>7, <1>8, JobShape DEF ReplyOk
  <2>6. \A v, w \in pipe.wal : v.who = w.who => v = w
    BY Zenon, <1>1 DEF ReplyOk
  <2> QED BY <1>2, <2>1, <2>2, <2>3, <2>4, <2>5, <2>6, Zenon DEF ReplyOk
<1>11. ParkedOk(call', S, L, pipe', ops)
  <2> SUFFICES ASSUME NEW c \in Callers, call'[c] # "none" PROVE Holds(c, S, L, pipe', ops)
    BY Zenon DEF ParkedOk
  <2>1. CASE \E t \in Elems(S) : t.who = c
    BY Zenon, <2>1 DEF Holds
  <2>2. CASE call'[c] = call[c]
    <3>1. Holds(c, s, L, pipe, ops)
      BY <1>1, <2>2, Zenon DEF ParkedOk
    <3> QED BY <1>2, <3>1 DEF Holds, s
  <2> QED BY Zenon, <2>1, <2>2
<1> QED BY <1>1, <1>2, <1>3, <1>4, <1>5, <1>6, <1>10, <1>11, Zenon DEF IInv, L

\* The parts of a task.
LEMMA TaskFacts ==
  ASSUME NEW op, NEW who \in Whos, NEW j
  PROVE  /\ Task(op, who, j).op = op /\ Task(op, who, j).who = who /\ Task(op, who, j).job = j
         /\ Task(op, who, j).left = 0
         /\ op = "send" /\ j \in Jobs => Task(op, who, j) \in Tasks
         /\ op \in Openings /\ j.kind = "promote" /\ j.id \in Epochs \cup {0} /\ j = Job(j.kind, j.id)
              => Task(op, who, j) \in Tasks
<1>1. /\ Task(op, who, j).op = op /\ Task(op, who, j).who = who /\ Task(op, who, j).job = j
      /\ Task(op, who, j).left = 0
  BY Zenon DEF Task
<1>2. op = "send" /\ j \in Jobs => Task(op, who, j) \in Tasks
  BY Zenon DEF Task, Tasks
<1>3. ASSUME op \in Openings, j.kind = "promote", j.id \in Epochs \cup {0}, j = Job(j.kind, j.id)
      PROVE  Task(op, who, j) \in Tasks
  <2>1. j \in [kind : {"promote"}, id : Epochs \cup {0}]
    BY <1>3, Zenon DEF Job
  <2> QED BY Zenon, <1>3, <2>1 DEF Task, Tasks
<1> QED BY Zenon, <1>1, <1>2, <1>3

\* A handler begins with the retry of the oldest stashed promote.
LEMMA IInvBegin ==
  ASSUME IInv, NEW op \in Openings, NEW who \in Whos, Begin(op, who),
         op \in {"promote", "tick"} => who = Nobody, op \in {"wal", "checkpoint"} => who \in Callers,
         op = "checkpoint" => pipe.gc = NoGc,
         who = Nobody => call' = call,
         who \in Callers => call[who] = "none" /\ op \in Asks[who] /\ call' = [call EXCEPT ![who] = op]
  PROVE  IInv'
<1> DEFINE L == Line
           f == IF pipe.failed = <<>> THEN pipe.failed ELSE Tail(pipe.failed)
           u == Task(op, who, Job("promote", Retried))
           r == Task("send", Nobody, Job("promote", Retried))
<1>1. /\ Idle /\ stack' = RetryTask \o <<u>> /\ pipe' = [pipe EXCEPT !.failed = f]
      /\ UNCHANGED <<wal, wals, plans>> /\ UNCHANGED <<phase, ops>> /\ UNCHANGED <<jobs, running, results>>
  BY Zenon DEF Begin, files, worker
<1>2. /\ Types /\ pipe.failed \in Seq(Epochs) /\ Nobody \notin Callers /\ Nobody \in Whos /\ 0 \notin Epochs
      /\ WalOk(wal, wals, Unsent(stack), Promotes(L), pipe.failed) /\ wal \in Epochs \cup {0}
  BY IInvFacts, Zenon DEF IInv, Types, Pipes, Whos
<1>3. Elems(stack) = {} /\ Unsent(stack) = {}
  BY Zenon, <1>1, IdleFacts
<1>4. Retried \in Epochs \cup {0} /\ (Retried = 0 <=> pipe.failed = <<>>) /\ f \in Seq(Epochs)
      /\ (Retried # 0 => Retried = Head(pipe.failed) /\ Retried \in Elems(pipe.failed)
                         /\ Elems(f) = Elems(pipe.failed) \ {Retried} /\ Once(f))
  <2>1. CASE pipe.failed = <<>>
    BY <1>2, <2>1, Zenon DEF Retried
  <2>2. CASE pipe.failed # <<>>
    <3>1. /\ Tail(pipe.failed) \in Seq(Epochs) /\ Head(pipe.failed) \in Epochs
          /\ Head(pipe.failed) \in Elems(pipe.failed)
          /\ Once(pipe.failed) => Once(Tail(pipe.failed))
                                  /\ Elems(Tail(pipe.failed)) = Elems(pipe.failed) \ {Head(pipe.failed)}
      BY <1>2, <2>2, TailFacts, Zenon
    <3>2. Once(pipe.failed) /\ Retried = Head(pipe.failed) /\ f = Tail(pipe.failed)
      BY <1>2, <2>2, Zenon DEF WalOk, Retried
    <3> QED BY <1>2, <2>2, <3>1, <3>2, Zenon
  <2> QED BY <2>1, <2>2, Zenon
<1>5. /\ u \in Tasks /\ u.op = op /\ u.who = who /\ u.job = Job("promote", Retried)
      /\ r.op = "send" /\ r.who = Nobody /\ r.job = Job("promote", Retried)
      /\ Job("promote", Retried).id = Retried /\ Job("promote", Retried).kind = "promote"
      /\ Retried # 0 => r \in Tasks
  <2> DEFINE j == Job("promote", Retried)
  <2>1. j.id = Retried /\ j.kind = "promote" /\ j = Job(j.kind, j.id) /\ (Retried # 0 => j \in Jobs)
    BY <1>4, JobShape
  <2> HIDE DEF j
  <2>2. /\ Task(op, who, j) \in Tasks /\ Task(op, who, j).op = op /\ Task(op, who, j).who = who
        /\ Task(op, who, j).job = j
    BY <1>4, <2>1, TaskFacts
  <2>3. /\ Task("send", Nobody, j).op = "send" /\ Task("send", Nobody, j).who = Nobody
        /\ Task("send", Nobody, j).job = j /\ (j \in Jobs => Task("send", Nobody, j) \in Tasks)
    <3>1. /\ Task("send", Nobody, j).op = "send" /\ Task("send", Nobody, j).who = Nobody
          /\ Task("send", Nobody, j).job = j
      BY Zenon DEF Task
    <3>2. j \in Jobs => Task("send", Nobody, j) \in Tasks
      BY Zenon, <1>2 DEF Task, Tasks
    <3> QED BY <3>1, <3>2, Zenon
  <2> QED BY <2>1, <2>2, <2>3, Zenon DEF j
<1>6. /\ GoodTask(u) /\ GoodTask(r) /\ Apart(r, u) /\ Apart(u, r) /\ op # "send" /\ op # "plan"
  <2>1. op # "send" /\ op # "plan" /\ "promote" # "plan"
    BY Zenon DEF Openings
  <2>2. GoodTask(r)
    BY <1>2, <1>5, JobShape DEF GoodTask
  <2>3. GoodTask(u)
    BY <1>5, <2>1, Zenon DEF GoodTask
  <2>4. Apart(r, u) /\ Apart(u, r)
    BY <1>2, <1>5, <2>1, Zenon DEF Apart
  <2> QED BY <2>1, <2>2, <2>3, <2>4, Zenon
<1>7. /\ Retried = 0 => stack' = <<u>>
      /\ Retried # 0 => stack' = <<r, u>>
  <2>1. /\ Retried = 0 => RetryTask = <<>>
        /\ Retried # 0 => RetryTask = <<r>>
    BY Zenon DEF RetryTask
  <2> HIDE DEF u, r
  <2>2. <<>> \o <<u>> = <<u>>
    BY <1>5, ShortFacts, Zenon
  <2>3. <<r>> \o <<u>> = <<r, u>>
    BY ConcatTwo, Zenon
  <2> QED BY <1>1, <2>1, <2>2, <2>3, Zenon
<1>8. /\ Retried = 0 => Elems(stack') = {u} /\ Unsent(stack') = {}
      /\ Retried # 0 => Elems(stack') = {r, u} /\ Unsent(stack') = {Retried}
      /\ stack' \in Seq(Tasks)
  <2>1. CASE Retried = 0
    <3> HIDE DEF u, r
    <3>1. Elems(stack') = {u} /\ stack' \in Seq(Tasks)
      <4>1. Elems(<<u>>) = {u}
        BY ShortElems, Zenon
      <4>2. <<u>> \in Seq(Tasks)
        BY <1>5, <2>1, ShortFacts, Zenon
      <4> QED BY <1>7, <2>1, <4>1, <4>2, Zenon
    <3>2. Unsent(stack') = {}
      BY <1>5, <1>6, <3>1, Zenon DEF Unsent
    <3> QED BY Zenon, <2>1, <3>1, <3>2
  <2>2. CASE Retried # 0
    <3> HIDE DEF u, r
    <3>1. Elems(stack') = {r, u} /\ stack' \in Seq(Tasks)
      <4>1. Elems(<<r, u>>) = {r, u}
        BY ShortElems, Zenon
      <4>2. <<r, u>> \in Seq(Tasks)
        BY <1>5, <2>2, ShortFacts, Zenon
      <4> QED BY <1>7, <2>2, <4>1, <4>2, Zenon
    <3>2. \A e \in Epochs : Job("promote", Retried) = Job("promote", e) <=> e = Retried
      BY JobShape
    <3>3. Unsent(stack') = {Retried}
      BY <1>4, <1>5, <1>6, <2>2, <3>1, <3>2 DEF Unsent
    <3> QED BY Zenon, <2>2, <3>1, <3>3
  <2> QED BY <2>1, <2>2, Zenon
<1> HIDE DEF L, u, r, f
<1>9. WalOk(wal', wals, Unsent(stack'), Promotes(L), f)
  <2>1. Retried = 0 => f = pipe.failed
    BY <1>4, Zenon DEF f
  <2> QED BY <1>1, <1>2, <1>3, <1>4, <1>8, <2>1, SMTT(30) DEF WalOk
<1>10. StackOk(stack', L)
  <2>1. CASE Retried = 0
    BY <1>5, <1>6, <1>7, <2>1, StackOne
  <2>2. CASE Retried # 0
    <3>1. Job("promote", Retried) \notin Elems(L)
      BY <1>2, <1>4, <2>2, Zenon DEF WalOk, Promotes
    <3> QED BY <1>5, <1>6, <1>7, <2>2, <3>1, StackTwo
  <2> QED BY <2>1, <2>2, Zenon
<1>11. ASSUME NEW t \in Elems(stack')
       PROVE  /\ t.op = "plan" => ~ops.batch.on /\ t.left <= plans
              /\ t.op = "checkpoint" => pipe.gc = NoGc
              /\ t.op = "send" /\ t.job.kind \in Slots => ops.slot[t.job.kind] = Nobody
              /\ t.who \in Callers => t = u /\ who \in Callers
  <2>1. t = u \/ (t = r /\ Retried # 0)
    BY <1>8, Zenon
  <2>2. "promote" \notin Slots
    BY Zenon DEF Slots
  <2> QED BY <1>2, <1>5, <1>6, <2>1, <2>2
<1>12. who \in Callers => AskOf(u) = op /\ u \in Elems(stack')
  BY Zenon, <1>5, <1>6, <1>8 DEF AskOf
<1>13. /\ call \in [Callers -> Calls] /\ \A c \in Callers : call[c] \in Asks[c] \cup {"none"}
       /\ who \in Callers => op \in Calls
  BY <1>2, Zenon DEF Types, Calls
<1>14. /\ call' \in [Callers -> Calls] /\ \A c \in Callers : call'[c] \in Asks[c] \cup {"none"}
       /\ \A c \in Callers : call'[c] = call[c] \/ (call[c] = "none" /\ c = who)
       /\ who \in Callers => call'[who] = op
  BY <1>13, Zenon DEF Whos
<1>15. ASSUME NEW t \in Elems(stack')
       PROVE  t.who \in Callers => call'[t.who] = AskOf(t) /\ call[t.who] = "none"
  BY <1>5, <1>11, <1>12, <1>14, Zenon
<1>16. \A c \in Callers : call'[c] = call[c] \/ (call[c] = "none" /\ \E t \in Elems(stack') : t.who = c)
  BY Zenon, <1>5, <1>12, <1>14
<1> QED
  BY <1>1, <1>2, <1>3, <1>4, <1>8, <1>9, <1>10, <1>11, <1>14, <1>15, <1>16, IInvStack, Zenon DEF L

\* The requests that begin with a retry of the oldest stashed promote.
LEMMA IInvBegins ==
  ASSUME IInv, CheckPromote \/ IdleTick \/ \E c \in Callers : CallPromoteWal(c) \/ CallCheckpoint(c)
  PROVE  IInv'
<1>1. Nobody \in Whos /\ Callers \subseteq Whos /\ Nobody \notin Callers /\ call \in [Callers -> Calls]
  BY IInvFacts, Zenon DEF Whos, IInv, Types
<1>2. {"promote", "tick", "wal", "checkpoint"} = Openings
  BY Zenon DEF Openings
<1>3. CASE CheckPromote
  <2>1. Begin("promote", Nobody) /\ call' = call
    BY <1>3, Zenon DEF CheckPromote
  <2> QED BY Zenon, <1>1, <1>2, <2>1, IInvBegin
<1>4. CASE IdleTick
  <2>1. Begin("tick", Nobody) /\ call' = call
    BY <1>4, Zenon DEF IdleTick
  <2> QED BY Zenon, <1>1, <1>2, <2>1, IInvBegin
<1>5. ASSUME NEW c \in Callers, CallPromoteWal(c) PROVE IInv'
  <2>1. Begin("wal", c) /\ call[c] = "none" /\ "wal" \in Asks[c] /\ call' = [call EXCEPT ![c] = "wal"]
    BY <1>5, Zenon DEF CallPromoteWal
  <2> QED BY <1>1, <1>2, <2>1, IInvBegin, Zenon
<1>6. ASSUME NEW c \in Callers, CallCheckpoint(c) PROVE IInv'
  <2>1. /\ Begin("checkpoint", c) /\ call[c] = "none" /\ "checkpoint" \in Asks[c] /\ pipe.gc = NoGc
        /\ call' = [call EXCEPT ![c] = "checkpoint"]
    BY Zenon, <1>6 DEF CallCheckpoint
  <2> QED BY <1>1, <1>2, <2>1, IInvBegin, Zenon
<1> QED BY Zenon, <1>3, <1>4, <1>5, <1>6

\* The send of the epoch that prepare_promote cut.
LEMMA CutTask ==
  ASSUME IInv, wal # 0, NEW who \in Whos
  PROVE  LET p == PromoteTask(who) IN
         /\ p \in Tasks /\ p.op = "send" /\ p.who = who /\ p.job = Job("promote", wal)
         /\ p.job.kind = "promote" /\ p.job.kind \notin SlotKinds /\ GoodTask(p)
         /\ p.job \notin Elems(Line) /\ wal \in Epochs
         /\ AskOf(p) = "wal"
         /\ \A s : (/\ p \in Elems(s)
                    /\ \A t \in Elems(s) : t = p \/ t.op # "send" \/ t.job.kind # "promote")
                   => Unsent(s) = {wal}
<1> DEFINE p == PromoteTask(who)
           j == Job("promote", wal)
<1>1. wal \in Epochs /\ j \in Jobs /\ j.kind = "promote" /\ j.kind \notin SlotKinds /\ j.kind # "plan"
      /\ \A e \in Epochs : /\ j = Job("promote", e) <=> e = wal
                           /\ Job("promote", e).kind = "promote"
  <2>1. wal \in Epochs
    BY Zenon DEF IInv, Types
  <2> QED BY <2>1, JobShape
<1>2. p.op = "send" /\ p.who = who /\ p.job = j
  BY Zenon DEF PromoteTask, Task
<1>3. p \in Tasks
  BY <1>1, Zenon DEF PromoteTask, Task, Tasks
<1>4. j \notin Elems(Line)
  <2>1. WalOk(wal, wals, Unsent(stack), Promotes(Line), pipe.failed)
    BY Zenon DEF IInv
  <2> QED BY <1>1, <2>1, Zenon DEF WalOk, Promotes
<1> HIDE DEF p, j
<1>5. GoodTask(p) /\ AskOf(p) = "wal"
  BY Zenon, <1>1, <1>2 DEF GoodTask, AskOf
<1>6. ASSUME NEW s, p \in Elems(s), \A t \in Elems(s) : t = p \/ t.op # "send" \/ t.job.kind # "promote"
      PROVE  Unsent(s) = {wal}
  BY <1>1, <1>2, <1>6, Zenon DEF Unsent
<1> QED BY <1>1, <1>2, <1>3, <1>4, <1>5, <1>6, Zenon DEF p, j

\* The epoch that was cut is about to be sent.
LEMMA WalCut ==
  ASSUME IInv, wal # 0, Unsent(stack) = {}
  PROVE  WalOk(0, wals, {wal}, Promotes(Line), pipe.failed)
<1>1. /\ WalOk(wal, wals, {}, Promotes(Line), pipe.failed)
      /\ 0 \notin Epochs /\ Promotes(Line) \subseteq Epochs /\ wals \subseteq Epochs
  BY IInvFacts, Zenon DEF IInv, Types
<1> QED BY Zenon, <1>1 DEF WalOk

\* The task that a batch of plans begins with.
PlanTask(who) == [Task("plan", who, NoJob) EXCEPT !.left = plans]

\* The task of a batch that is about to start.
LEMMA PlanTaskIs ==
  ASSUME IInv, NEW who \in Whos
  PROVE  LET q == PlanTask(who) IN
         /\ q \in Tasks /\ q.op = "plan" /\ q.who = who /\ q.left = plans
         /\ GoodTask(q) /\ AskOf(q) = "handoffs" /\ q.op \notin Openings
<1> DEFINE q == PlanTask(who)
<1>1. plans \in Nat
  BY IInvFacts, Zenon
<1>2. q = [op |-> "plan", who |-> who, job |-> NoJob, left |-> plans]
  BY DEF PlanTask, Task
<1>3. q \in Tasks
  BY <1>1, <1>2 DEF Tasks
<1> QED BY <1>2, <1>3 DEF GoodTask, AskOf, Openings

\* dispatch_promote, and the plans of an idle tick.
LEMMA IInvPromote ==
  ASSUME IInv, Promote
  PROVE  IInv'
<1> DEFINE L == Line
           t == Head(stack)
           p == PromoteTask(Nobody)
           q == PlanTask(Nobody)
           scan == IF t.op = "tick" /\ plans > 0 /\ ~ops.batch.on THEN <<q>> ELSE <<>>
<1>1. /\ stack # <<>> /\ t.op \in {"promote", "tick"}
      /\ \/ wal # 0 /\ wal' = 0 /\ UNCHANGED <<wals, plans>> /\ stack' = <<p>> \o scan
         \/ stack' = scan /\ UNCHANGED <<wal, wals, plans>>
      /\ UNCHANGED <<phase, pipe, ops, call>> /\ UNCHANGED <<jobs, running, results>>
  BY Zenon DEF Promote, Idle, CutWal, files, worker, PlanTask
<1>2. /\ stack \in Seq(Tasks) /\ StackOk(stack, L) /\ pipe \in Pipes /\ Nobody \notin Callers
      /\ WalOk(wal, wals, Unsent(stack), Promotes(L), pipe.failed) /\ wal \in Epochs \cup {0}
      /\ Types /\ Nobody \in Whos /\ plans \in Nat /\ 0 \notin Epochs
  BY IInvFacts, Zenon DEF Whos
<1>3. Elems(stack) = {t} /\ Unsent(stack) = {} /\ t.who = Nobody
  <2>1. t.op \in Openings
    BY <1>1, Zenon DEF Openings
  <2>2. GoodTask(t)
    BY <1>1, <1>2, PopFacts, Zenon
  <2> QED BY <1>1, <1>2, <2>1, <2>2, StackAlone, Zenon DEF GoodTask
<1>4. /\ q \in Tasks /\ q.op = "plan" /\ q.who = Nobody /\ q.left = plans /\ GoodTask(q)
      /\ q.op \notin Openings
  BY <1>2, PlanTaskIs, Zenon
<1>5. wal # 0 => /\ p \in Tasks /\ p.op = "send" /\ p.who = Nobody /\ GoodTask(p) /\ p.job \notin Elems(L)
                 /\ p.job.kind = "promote" /\ p.op \notin Openings
                 /\ \A s : (/\ p \in Elems(s)
                            /\ \A u \in Elems(s) : u = p \/ u.op # "send" \/ u.job.kind # "promote")
                           => Unsent(s) = {wal}
  BY Zenon, <1>2, CutTask DEF Openings
<1>6. pipe.failed \in Seq(Epochs) /\ pipe' = [pipe EXCEPT !.failed = pipe.failed]
  BY Zenon, <1>1, <1>2 DEF Pipes
<1>7. /\ call' \in [Callers -> Calls] /\ \A c \in Callers : call'[c] \in Asks[c] \cup {"none"}
      /\ \A c \in Callers : call'[c] = call[c]
  BY <1>1, <1>2, Zenon DEF Types
<1> HIDE DEF L, p, q, t
<1>8. /\ stack' \in Seq(Tasks) /\ StackOk(stack', L) /\ wal' \in Epochs \cup {0}
      /\ WalOk(wal', wals, Unsent(stack'), Promotes(L), pipe.failed)
      /\ \A u \in Elems(stack') : (u = p /\ wal # 0) \/ (u = q /\ ~ops.batch.on)
  <2>1. CASE stack' = <<>> /\ wal' = wal
    <3>1. Elems(stack') = {} /\ Unsent(stack') = {} /\ stack' \in Seq(Tasks)
      BY <2>1, ShortElems DEF Unsent
    <3> QED BY <1>2, <1>3, <2>1, <3>1, StackNone, Zenon
  <2>2. CASE stack' = <<q>> /\ wal' = wal /\ ~ops.batch.on
    <3>1. Elems(stack') = {q} /\ stack' \in Seq(Tasks)
      BY <1>4, <2>2, ShortElems
    <3>2. Unsent(stack') = {}
      BY Zenon, <1>4, <3>1 DEF Unsent
    <3>3. StackOk(stack', L)
      BY <1>4, <2>2, StackOne, Zenon
    <3> QED BY <1>2, <1>3, <2>2, <3>1, <3>2, <3>3, Zenon
  <2>3. CASE stack' = <<p>> /\ wal # 0 /\ wal' = 0
    <3>1. Elems(stack') = {p} /\ stack' \in Seq(Tasks)
      BY <1>5, <2>3, ShortElems
    <3>2. Unsent(stack') = {wal}
      BY <1>5, <2>3, <3>1, Zenon
    <3>3. StackOk(stack', L)
      BY <1>5, <2>3, StackOne, Zenon
    <3> QED BY <1>3, <2>3, <3>1, <3>2, <3>3, WalCut, Zenon DEF L
  <2>4. CASE stack' = <<p, q>> /\ wal # 0 /\ wal' = 0 /\ ~ops.batch.on
    <3>1. Elems(stack') = {p, q} /\ stack' \in Seq(Tasks)
      BY <1>4, <1>5, <2>4, ShortElems
    <3>2. Unsent(stack') = {wal}
      BY <1>4, <1>5, <2>4, <3>1, Zenon
    <3>3. Apart(p, q) /\ Apart(q, p)
      BY <1>2, <1>4, <1>5, <2>4, Zenon DEF Apart
    <3>4. StackOk(stack', L)
      BY Zenon, <1>4, <1>5, <2>4, <3>3, StackTwo
    <3> QED BY <1>3, <2>4, <3>1, <3>2, <3>4, WalCut, Zenon DEF L
  <2>5. <<p>> \o <<q>> = <<p, q>>
    BY ConcatTwo, Zenon
  <2>6. <<p>> \o <<>> = <<p>>
    OBVIOUS
  <2>7. scan = <<>> \/ (scan = <<q>> /\ ~ops.batch.on)
    BY Zenon
  <2> HIDE DEF scan
  <2> QED BY <1>1, <2>1, <2>2, <2>3, <2>4, <2>5, <2>6, <2>7, Zenon
<1>9. ASSUME NEW u \in Elems(stack')
      PROVE  /\ u.op = "plan" => ~ops.batch.on /\ u.left <= plans
             /\ u.op = "checkpoint" => pipe.gc = NoGc
             /\ u.op = "send" /\ u.job.kind \in Slots => ops.slot[u.job.kind] = Nobody
             /\ u.who \notin Callers
  <2>1. "promote" \notin Slots
    BY Zenon DEF Slots
  <2> QED BY <1>2, <1>4, <1>5, <1>8, <2>1
<1> QED BY <1>1, <1>2, <1>3, <1>6, <1>7, <1>8, <1>9, IInvStack, Zenon DEF L

\* An opening on top of the stack is all there is on it.
LEMMA OpeningFacts ==
  ASSUME IInv, stack # <<>>, Head(stack).op \in Openings
  PROVE  /\ Head(stack) \in Tasks /\ GoodTask(Head(stack)) /\ Elems(stack) = {Head(stack)}
         /\ Tail(stack) = <<>> /\ Unsent(stack) = {}
         /\ Head(stack).job.id # 0 => Head(stack).job.id \in Promotes(Line)
<1>1. stack \in Seq(Tasks) /\ StackOk(stack, Line)
  BY IInvFacts, Zenon
<1>2. Head(stack) \in Tasks /\ GoodTask(Head(stack))
  BY <1>1, PopFacts, Zenon
<1>3. /\ Elems(stack) = {Head(stack)} /\ Tail(stack) = <<>> /\ Unsent(stack) = {}
      /\ Head(stack).job.id # 0 => Head(stack).job \in Elems(Line)
  BY <1>1, StackAlone, Zenon
<1>4. Head(stack).job.kind = "promote" /\ Head(stack).job.id \in Epochs \cup {0}
      /\ Head(stack).job = Job("promote", Head(stack).job.id)
  <2>1. Head(stack).job \in [kind : {"promote"}, id : Epochs \cup {0}]
    BY Zenon, <1>2 DEF Tasks, Openings
  <2> QED BY <2>1, Zenon DEF Job
<1> QED BY Zenon, <1>2, <1>3, <1>4 DEF Promotes

\* PromoteWal cuts an epoch for its caller.
LEMMA IInvWalCut ==
  ASSUME IInv, stack # <<>>, Head(stack).op = "wal", wal # 0, wal' = 0, UNCHANGED <<wals, plans>>,
         stack' = <<PromoteTask(Head(stack).who)>>, UNCHANGED <<phase, pipe, ops, call>>,
         UNCHANGED <<jobs, running, results>>
  PROVE  IInv'
<1> DEFINE L == Line
           t == Head(stack)
           p == PromoteTask(t.who)
<1>1. /\ t \in Tasks /\ GoodTask(t) /\ Elems(stack) = {t} /\ Unsent(stack) = {} /\ t.op = "wal"
  BY Zenon, OpeningFacts DEF Openings
<1>2. t.who \in Callers /\ t.who \in Whos /\ pipe \in Pipes /\ Types /\ ReplyOk(call, stack, L, pipe, ops)
  BY <1>1, IInvFacts, Zenon DEF GoodTask, Whos, IInv
<1>3. /\ p \in Tasks /\ p.op = "send" /\ p.who = t.who /\ GoodTask(p) /\ p.job \notin Elems(L)
      /\ p.job.kind = "promote" /\ AskOf(p) = "wal" /\ p.op \notin Openings
      /\ \A s : (/\ p \in Elems(s)
                 /\ \A u \in Elems(s) : u = p \/ u.op # "send" \/ u.job.kind # "promote")
                => Unsent(s) = {wal}
  BY Zenon, <1>2, CutTask DEF Openings
<1>4. pipe.failed \in Seq(Epochs) /\ pipe' = [pipe EXCEPT !.failed = pipe.failed]
  BY Zenon, <1>2 DEF Pipes
<1>5. /\ call' \in [Callers -> Calls] /\ \A c \in Callers : call'[c] \in Asks[c] \cup {"none"}
      /\ \A c \in Callers : call'[c] = call[c]
  BY <1>2, Zenon DEF Types
<1>6. stack' = <<p>>
  BY Zenon
<1> HIDE DEF L, p, t
<1>7. Elems(stack') = {p} /\ stack' \in Seq(Tasks) /\ StackOk(stack', L)
  BY <1>3, <1>6, ShortElems, StackOne
<1>8. Unsent(stack') = {wal}
  BY <1>3, <1>7, Zenon
<1>9. WalOk(wal', wals, Unsent(stack'), Promotes(L), pipe.failed)
  BY <1>1, <1>8, WalCut, Zenon DEF L
<1>10. call[t.who] = "wal"
  BY Zenon, <1>1, <1>2 DEF ReplyOk, AskOf
<1>11. "promote" \notin Slots
  BY Zenon DEF Slots
<1>12. ASSUME NEW u \in Elems(stack')
       PROVE  /\ u.op = "plan" => ~ops.batch.on /\ u.left <= plans
              /\ u.op = "checkpoint" => pipe.gc = NoGc
              /\ u.op = "send" /\ u.job.kind \in Slots => ops.slot[u.job.kind] = Nobody
              /\ u.who \in Callers => /\ call'[u.who] = AskOf(u)
                                      /\ call[u.who] = "none" \/ \E v \in Elems(stack) : v.who = u.who
  BY <1>1, <1>2, <1>3, <1>5, <1>7, <1>10, <1>11, Zenon
<1>13. \A v \in Elems(stack) : v.who \in Callers => \E u \in Elems(stack') : u.who = v.who
  BY <1>1, <1>3, <1>7, Zenon
<1>14. Unsent(stack) \subseteq Unsent(stack') /\ wal' \in Epochs \cup {0}
  BY <1>1, Zenon
<1> QED BY <1>4, <1>5, <1>7, <1>9, <1>12, <1>13, <1>14, IInvStack, Zenon DEF L

\* PromoteWal with nothing to cut parks its caller on the epoch it retried.
LEMMA IInvWalPark ==
  ASSUME IInv, stack # <<>>, Head(stack).op = "wal", Head(stack).job.id # 0, stack' = Tail(stack),
         pipe' = [pipe EXCEPT !.wal = @ \cup {[epoch |-> Head(stack).job.id, who |-> Head(stack).who]}],
         UNCHANGED <<wal, wals, plans>>, UNCHANGED <<phase, ops, call>>, UNCHANGED <<jobs, running, results>>
  PROVE  IInv'
<1> DEFINE L == Line
           t == Head(stack)
           n == [epoch |-> t.job.id, who |-> t.who]
<1>1. /\ t \in Tasks /\ GoodTask(t) /\ Elems(stack) = {t} /\ Unsent(stack) = {} /\ t.op = "wal"
      /\ stack' = <<>> /\ t.job.id \in Promotes(L)
  BY OpeningFacts, Zenon DEF Openings
<1>2. /\ t.who \in Callers /\ pipe \in Pipes /\ Types /\ ReplyOk(call, stack, L, pipe, ops) /\ Once(L)
      /\ WalOk(wal, wals, Unsent(stack), Promotes(L), pipe.failed) /\ CountOk(pipe, L)
      /\ PlanOk(ops, plans, stack, L) /\ GcOk(pipe.gc, stack, L) /\ SlotOk(pipe, ops, stack, L)
      /\ ParkedOk(call, stack, L, pipe, ops) /\ Promotes(L) \subseteq Epochs
  BY Zenon, <1>1, IInvFacts DEF GoodTask, IInv
<1>3. Line' = L
  BY Zenon DEF Line
<1>4. n.epoch = t.job.id /\ n.who = t.who /\ n \in [epoch : Epochs, who : Callers]
      /\ pipe' = [pipe EXCEPT !.wal = @ \cup {n}]
  BY <1>1, <1>2, Zenon
<1> HIDE DEF n, L, t
<1>5. /\ pipe' \in Pipes /\ pipe'.wal = pipe.wal \cup {n} /\ pipe'.gc = pipe.gc /\ pipe'.failed = pipe.failed
      /\ pipe'.segments = pipe.segments /\ pipe'.in_flight = pipe.in_flight /\ pipe'.lag = pipe.lag
  <2>1. pipe.wal \cup {n} \in SUBSET [epoch : Epochs, who : Callers]
    BY Zenon, <1>2, <1>4 DEF Pipes
  <2> DEFINE w == pipe.wal \cup {n}
  <2>2. pipe' = [pipe EXCEPT !.wal = w]
    BY <1>4, Zenon
  <2> HIDE DEF w
  <2>3. pipe' \in Pipes /\ pipe'.wal = w
    BY <1>2, <2>1, <2>2, Zenon DEF Pipes, w
  <2> QED BY <1>2, <2>2, <2>3, Zenon DEF Pipes, w
<1>6. Elems(stack') = {} /\ Unsent(stack') = {} /\ stack' \in Seq(Tasks) /\ StackOk(stack', L)
  BY <1>1, EmptyStack, Zenon
<1>7. Types'
  BY <1>2, <1>5, <1>6, Zenon DEF Types
<1>8. PlanOk(ops, plans, stack', L) /\ SlotOk(pipe', ops, stack', L) /\ CountOk(pipe', L)
  BY <1>2, <1>5, <1>6, Zenon DEF PlanOk, SlotOk, CountOk
<1>9. GcOk(pipe'.gc, stack', L)
  BY Zenon, <1>1, <1>2, <1>5, <1>6, GcSame
<1>10. call[t.who] = "wal" /\ \A w \in pipe.wal : w.who # t.who
  BY <1>1, <1>2, Zenon DEF ReplyOk, AskOf
<1>11. ReplyOk(call, stack', L, pipe', ops)
  BY <1>1, <1>2, <1>4, <1>5, <1>6, <1>10 DEF ReplyOk
<1>12. ParkedOk(call, stack', L, pipe', ops)
  BY <1>1, <1>2, <1>4, <1>5, <1>6 DEF ParkedOk, Holds
<1>13. WalOk(wal, wals, Unsent(stack'), Promotes(L), pipe'.failed)
  BY <1>1, <1>2, <1>5, <1>6, Zenon
<1> QED BY Zenon, <1>2, <1>3, <1>6, <1>7, <1>8, <1>9, <1>11, <1>12, <1>13 DEF IInv

\* PromoteWal: the reply goes with the epoch that is cut, or with the retry.
LEMMA IInvPromoteWal ==
  ASSUME IInv, PromoteWal
  PROVE  IInv'
<1> DEFINE t == Head(stack)
<1>1. /\ stack # <<>> /\ t.op = "wal" /\ UNCHANGED <<phase, ops>> /\ UNCHANGED <<jobs, running, results>>
  BY Zenon DEF PromoteWal, Idle, worker
<1>2. CASE wal # 0 /\ wal' = 0 /\ UNCHANGED <<wals, plans>> /\ stack' = <<PromoteTask(t.who)>> /\ UNCHANGED <<pipe, call>>
  BY Zenon, <1>1, <1>2, IInvWalCut
<1>3. CASE /\ t.job.id # 0 /\ stack' = Tail(stack)
           /\ pipe' = [pipe EXCEPT !.wal = @ \cup {[epoch |-> t.job.id, who |-> t.who]}]
           /\ UNCHANGED <<wal, wals, plans>> /\ UNCHANGED call
  BY Zenon, <1>1, <1>3, IInvWalPark
<1>4. CASE stack' = Tail(stack) /\ call' = Answered({t.who}) /\ UNCHANGED <<wal, wals, plans>> /\ UNCHANGED pipe
  BY Zenon, <1>1, <1>4, IInvDone
<1> QED BY Zenon, <1>2, <1>3, <1>4 DEF PromoteWal, Pop, CutWal, files

\* start_gc_checkpoint parks its caller.
LEMMA IInvCheckpointPark ==
  ASSUME IInv, stack # <<>>, Head(stack).op = "checkpoint", NEW g \in Parked, g.who = Head(stack).who,
         g.kind # "none", GcOk(g, stack', Line), pipe' = [pipe EXCEPT !.gc = g],
         stack' \in Seq(Tasks), StackOk(stack', Line), wal' \in Epochs \cup {0}, UNCHANGED <<wals, plans>>,
         WalOk(wal', wals, Unsent(stack'), Promotes(Line), pipe.failed),
         \A t \in Elems(stack') : t.op = "send" /\ t.job.kind = "promote" /\ t.who = Nobody,
         UNCHANGED <<phase, ops, call>>, UNCHANGED <<jobs, running, results>>
  PROVE  IInv'
<1> DEFINE L == Line
           t == Head(stack)
<1>1. /\ t \in Tasks /\ GoodTask(t) /\ Elems(stack) = {t} /\ t.op = "checkpoint"
  BY Zenon, OpeningFacts DEF Openings
<1>2. /\ t.who \in Callers /\ pipe \in Pipes /\ Types /\ ReplyOk(call, stack, L, pipe, ops) /\ Once(L)
      /\ CountOk(pipe, L) /\ PlanOk(ops, plans, stack, L) /\ GcOk(pipe.gc, stack, L)
      /\ SlotOk(pipe, ops, stack, L) /\ ParkedOk(call, stack, L, pipe, ops) /\ Nobody \notin Callers
  BY Zenon, <1>1, IInvFacts DEF GoodTask, IInv
<1>3. Line' = L
  BY Zenon DEF Line
<1>4. /\ pipe' \in Pipes /\ pipe'.wal = pipe.wal /\ pipe'.gc = g /\ pipe'.failed = pipe.failed
      /\ pipe'.segments = pipe.segments /\ pipe'.in_flight = pipe.in_flight /\ pipe'.lag = pipe.lag
  BY <1>2, Zenon DEF Pipes
<1>5. Types'
  BY Zenon, <1>2, <1>4 DEF Types
<1>6. GcOk(g, stack', L) /\ g.who = t.who
  BY Zenon
<1>7. WalOk(wal', wals, Unsent(stack'), Promotes(L), pipe'.failed) /\ StackOk(stack', L)
  BY Zenon, <1>4
<1>8. pipe.gc.who = Nobody
  BY <1>1, <1>2 DEF GcOk, NoGc
<1>9. call[t.who] = "checkpoint" /\ "promote" \notin Slots
  BY <1>1, <1>2, Zenon DEF ReplyOk, AskOf, Slots
<1> HIDE DEF L, t
<1>10. PlanOk(ops, plans, stack', L) /\ SlotOk(pipe', ops, stack', L) /\ CountOk(pipe', L)
  BY Zenon, <1>2, <1>4, <1>9 DEF PlanOk, SlotOk, CountOk
<1>11. ReplyOk(call, stack', L, pipe', ops)
  <2>1. \A w \in pipe.wal : w.who \in Callers
    BY Zenon, <1>2 DEF Pipes
  <2> QED BY <1>2, <1>4, <1>6, <1>9, <2>1 DEF ReplyOk
<1>12. ParkedOk(call, stack', L, pipe', ops)
  BY <1>1, <1>2, <1>4, <1>6, <1>8 DEF ParkedOk, Holds
<1> QED BY <1>2, <1>3, <1>4, <1>5, <1>6, <1>7, <1>10, <1>11, <1>12 DEF IInv

\* A flush is behind every promote in flight; a barrier counts them.
LEMMA IInvStartCheckpoint ==
  ASSUME IInv, StartCheckpoint
  PROVE  IInv'
<1> DEFINE L == Line
           t == Head(stack)
           c == t.who
           p == PromoteTask(Nobody)
<1>1. /\ stack # <<>> /\ t.op = "checkpoint" /\ UNCHANGED <<phase, ops>> /\ UNCHANGED <<jobs, running, results>>
  BY Zenon DEF StartCheckpoint, Idle, worker
<1>2. /\ t \in Tasks /\ GoodTask(t) /\ Elems(stack) = {t} /\ Unsent(stack) = {} /\ Tail(stack) = <<>>
  BY Zenon, <1>1, OpeningFacts DEF Openings
<1>3. /\ c \in Callers /\ c \in Whos /\ Nobody \in Whos /\ Dispatched = Promotes(L)
      /\ Promotes(L) \subseteq Epochs /\ wal \in Epochs \cup {0} /\ CountOk(pipe, L)
      /\ WalOk(wal, wals, Unsent(stack), Promotes(L), pipe.failed) /\ L \in Seq(Jobs)
      /\ pipe \in Pipes
  BY <1>1, <1>2, IInvFacts, ViewsAre, Zenon DEF GoodTask, Whos, IInv, Types
<1>4. CASE /\ wal # 0 /\ wal' = 0 /\ UNCHANGED <<wals, plans>> /\ stack' = <<p>>
           /\ pipe' = [pipe EXCEPT !.gc = Flush(c)] /\ UNCHANGED call
  <2>1. /\ p \in Tasks /\ p.op = "send" /\ p.who = Nobody /\ GoodTask(p) /\ p.job \notin Elems(L)
        /\ p.job.kind = "promote" /\ p.op \notin Openings /\ p.job = Job("promote", wal) /\ wal \in Epochs
        /\ \A s : (/\ p \in Elems(s)
                   /\ \A u \in Elems(s) : u = p \/ u.op # "send" \/ u.job.kind # "promote")
                  => Unsent(s) = {wal}
    BY Zenon, <1>3, <1>4, CutTask DEF Openings
  <2> HIDE DEF p
  <2>2. Elems(stack') = {p} /\ stack' \in Seq(Tasks) /\ StackOk(stack', L)
    BY <1>4, <2>1, ShortElems, StackOne
  <2>3. Unsent(stack') = {wal}
    BY Zenon, <2>1, <2>2
  <2>4. WalOk(wal', wals, Unsent(stack'), Promotes(L), pipe.failed)
    BY <1>2, <1>4, <2>3, WalCut, Zenon
  <2> DEFINE g == Flush(c)
  <2>5. /\ g \in Parked /\ g.who = c /\ g.kind = "flush" /\ g.epoch = wal /\ g.left = 0
        /\ g.due = Promotes(L) \cup {wal}
    BY Zenon, <1>3, <2>1 DEF Flush, Parked
  <2> HIDE DEF g
  <2>6. \A i \in DOMAIN L : L[i] # Job("promote", wal)
    BY Zenon, <2>1 DEF Elems
  <2>7. FlushOk(g, Unsent(stack'), L)
    BY <1>3, <2>3, <2>5, <2>6, Zenon DEF FlushOk
  <2>8. GcOk(g, stack', L)
    BY <2>1, <2>2, <2>5, <2>7, Zenon DEF GcOk
  <2> QED BY <1>1, <1>4, <2>1, <2>2, <2>4, <2>5, <2>8, IInvCheckpointPark DEF g
<1>5. CASE /\ wal = 0 /\ pipe.lag > 0 /\ stack' = Tail(stack)
           /\ pipe' = [pipe EXCEPT !.gc = Barrier(c, pipe.lag)] /\ UNCHANGED <<wal, wals, plans>> /\ UNCHANGED call
  <2>1. stack' = <<>>
    BY Zenon, <1>2, <1>5
  <2>2. Elems(stack') = {}
    BY Zenon, <2>1, EmptyStack
  <2>3. stack' \in Seq(Tasks) /\ StackOk(stack', L) /\ Unsent(stack') = {}
    BY Zenon, <2>1, EmptyStack
  <2> DEFINE g == Barrier(c, pipe.lag)
  <2>4. /\ g \in Parked /\ g.who = c /\ g.kind = "barrier" /\ g.left = pipe.lag /\ g.due = Promotes(L)
    BY <1>3, Zenon DEF Barrier, Parked, Pipes
  <2> HIDE DEF g
  <2>5. ASSUME NEW i \in DOMAIN L, L[i].kind = "promote" PROVE L[i].id \in Promotes(L)
    <3>1. L[i] \in Elems(L) /\ L[i] \in Jobs
      BY <1>3 DEF Elems
    <3>2. L[i] = Job("promote", L[i].id) /\ L[i].id \in Epochs
      BY Zenon, <2>5, <3>1, JobShape
    <3> QED BY <3>1, <3>2, Zenon DEF Promotes
  <2>6. BarrierOk(g, L)
    BY <1>3, <1>5, <2>4, <2>5, Zenon DEF BarrierOk, CountOk
  <2>7. GcOk(g, stack', L)
    BY Zenon, <2>2, <2>4, <2>6 DEF GcOk
  <2>8. WalOk(wal', wals, Unsent(stack'), Promotes(L), pipe.failed)
    BY <1>2, <1>3, <1>5, <2>3, Zenon
  <2> QED BY Zenon, <1>1, <1>3, <1>5, <2>2, <2>3, <2>4, <2>7, <2>8, IInvCheckpointPark DEF g
<1>6. CASE stack' = Tail(stack) /\ call' = Answered({c}) /\ UNCHANGED <<wal, wals, plans>> /\ UNCHANGED pipe
  BY <1>1, <1>6, IInvDone, Zenon
<1> QED BY Zenon, <1>4, <1>5, <1>6 DEF StartCheckpoint, Pop, CutWal, files

\* A caller that asks when nothing is on the stack: `own' is the task that works for it.
LEMMA IInvAsk ==
  ASSUME IInv, Idle, NEW c \in Callers, NEW ask \in Asks[c], call[c] = "none", call' = [call EXCEPT ![c] = ask],
         UNCHANGED <<wals, plans, phase, pipe, ops>>, UNCHANGED <<jobs, running, results>>,
         wal' \in Epochs \cup {0}, stack' \in Seq(Tasks), StackOk(stack', Line),
         WalOk(wal', wals, Unsent(stack'), Promotes(Line), pipe.failed),
         NEW own \in Elems(stack'), own.who = c, AskOf(own) = ask,
         own.op # "checkpoint", own.op = "plan" => ~ops.batch.on /\ own.left <= plans,
         own.op = "send" /\ own.job.kind \in Slots => ops.slot[own.job.kind] = Nobody,
         \A t \in Elems(stack') : t = own \/ (t.op = "send" /\ t.job.kind = "promote" /\ t.who = Nobody)
  PROVE  IInv'
<1>1. /\ Elems(stack) = {} /\ Unsent(stack) = {}
  BY IdleFacts, Zenon
<1>2. /\ Types /\ pipe \in Pipes /\ Nobody \notin Callers
  BY IInvFacts, Zenon DEF IInv
<1>3. pipe.failed \in Seq(Epochs) /\ pipe' = [pipe EXCEPT !.failed = pipe.failed]
  BY Zenon, <1>2 DEF Pipes
<1>4. /\ call \in [Callers -> Calls] /\ \A d \in Callers : call[d] \in Asks[d] \cup {"none"}
      /\ ask \in Calls
  BY <1>2, Zenon DEF Types, Calls
<1>5. /\ call' \in [Callers -> Calls] /\ \A d \in Callers : call'[d] \in Asks[d] \cup {"none"}
      /\ \A d \in Callers : call'[d] = call[d] \/ (call[d] = "none" /\ \E t \in Elems(stack') : t.who = d)
      /\ call'[c] = ask
  BY <1>4, Zenon
<1>6. "promote" \notin Slots
  BY Zenon DEF Slots
<1>7. ASSUME NEW t \in Elems(stack')
      PROVE  /\ t.op = "plan" => ~ops.batch.on /\ t.left <= plans
             /\ t.op = "checkpoint" => pipe.gc = NoGc
             /\ t.op = "send" /\ t.job.kind \in Slots => ops.slot[t.job.kind] = Nobody
             /\ t.who \in Callers => call'[t.who] = AskOf(t) /\ call[t.who] = "none"
  <2>1. CASE t = own
    BY <1>5, <2>1, Zenon
  <2>2. CASE t.op = "send" /\ t.job.kind = "promote" /\ t.who = Nobody
    BY <1>2, <1>6, <2>2, Zenon
  <2> QED BY <2>1, <2>2, Zenon
<1>8. ASSUME NEW t \in Elems(stack')
      PROVE  /\ t.op = "plan" => ~ops.batch.on /\ t.left <= plans
             /\ t.op = "checkpoint" => pipe.gc = NoGc
             /\ t.op = "send" /\ t.job.kind \in Slots => ops.slot[t.job.kind] = Nobody
             /\ t.who \in Callers => /\ call'[t.who] = AskOf(t)
                                     /\ call[t.who] = "none" \/ \E u \in Elems(stack) : u.who = t.who
  BY <1>7, Zenon
<1>9. \A t \in Elems(stack) : t.who \in Callers => \E u \in Elems(stack') : u.who = t.who
  BY <1>1, Zenon
<1>10. Unsent(stack) \subseteq Unsent(stack')
  BY Zenon, <1>1
<1>11. UNCHANGED <<plans, wals, phase, ops>>
  BY Zenon
<1> QED BY <1>3, <1>5, <1>8, <1>9, <1>10, <1>11, IInvStack, Zenon

\* start_gc_handoffs for a caller: no batch is in its slot.
LEMMA IInvCallHandoffs ==
  ASSUME IInv, NEW c \in Callers, CallHandoffs(c)
  PROVE  IInv'
<1> DEFINE q == PlanTask(c)
<1>1. /\ "handoffs" \in Asks[c] /\ Idle /\ call[c] = "none" /\ ~ops.batch.on /\ stack' = <<q>>
      /\ call' = [call EXCEPT ![c] = "handoffs"] /\ UNCHANGED <<wal, wals, plans, phase, pipe, ops>>
      /\ UNCHANGED <<jobs, running, results>>
  BY Zenon DEF CallHandoffs, PlanTask, files, worker
<1>2. /\ q \in Tasks /\ q.op = "plan" /\ q.who = c /\ q.left = plans
      /\ GoodTask(q) /\ AskOf(q) = "handoffs" /\ q.op \notin Openings
  BY Zenon, PlanTaskIs DEF Whos
<1>3. /\ WalOk(wal, wals, Unsent(stack), Promotes(Line), pipe.failed) /\ wal \in Epochs \cup {0} /\ plans \in Nat
      /\ Unsent(stack) = {}
  BY <1>1, IInvFacts, IdleFacts, Zenon
<1> HIDE DEF q
<1>4. Elems(stack') = {q} /\ stack' \in Seq(Tasks) /\ StackOk(stack', Line)
  BY <1>1, <1>2, ShortElems, StackOne
<1>5. Unsent(stack') = {}
  BY <1>2, <1>4, Zenon DEF Unsent
<1>6. WalOk(wal', wals, Unsent(stack'), Promotes(Line), pipe.failed) /\ wal' \in Epochs \cup {0}
  BY <1>1, <1>3, <1>5, Zenon
<1>7. /\ q \in Elems(stack') /\ q.op # "checkpoint" /\ (q.op = "plan" => ~ops.batch.on /\ q.left <= plans)
      /\ (q.op = "send" /\ q.job.kind \in Slots => ops.slot[q.job.kind] = Nobody)
  <2>1. "plan" # "checkpoint" /\ "plan" # "send" /\ q.left <= plans
    BY <1>2, <1>3
  <2> QED BY <1>1, <1>2, <1>4, <2>1, Zenon
<1>8. \A t \in Elems(stack') : t = q \/ (t.op = "send" /\ t.job.kind = "promote" /\ t.who = Nobody)
  BY <1>4, Zenon
<1> QED BY ZenonT(30), <1>1, <1>2, <1>4, <1>6, <1>7, <1>8, IInvAsk

\* The requests with one job: the slot is free, and a reclaim cuts the WAL.
LEMMA IInvCallSlot ==
  ASSUME IInv, NEW c \in Callers, NEW kind \in Asks[c] \cap SlotKinds, CallSlot(c, kind)
  PROVE  IInv'
<1> DEFINE j == Job(kind, c)
           q == Task("send", c, j)
           p == PromoteTask(Nobody)
<1>1. /\ Idle /\ call[c] = "none" /\ (kind \in Slots => ops.slot[kind] = Nobody)
      /\ \/ stack' = <<q>> /\ UNCHANGED <<wal, wals, plans>>
         \/ wal # 0 /\ wal' = 0 /\ UNCHANGED <<wals, plans>> /\ stack' = <<p, q>>
      /\ call' = [call EXCEPT ![c] = kind] /\ UNCHANGED <<phase, pipe, ops>> /\ UNCHANGED <<jobs, running, results>>
  BY Zenon DEF CallSlot, CutWal, files, worker
<1>2. /\ j \in Jobs /\ j.kind = kind /\ j.id = c /\ c \in Whos /\ Nobody \in Whos /\ Nobody \notin Callers
      /\ kind # "promote" /\ kind # "plan" /\ kind # "none"
  BY JobShape, PipelineAssumption DEF Whos, SlotKinds, Slots
<1>3. j \notin Elems(Line)
  <2>1. ReplyOk(call, stack, Line, pipe, ops)
    BY Zenon DEF IInv
  <2> QED BY <1>1, <1>2, <2>1, Zenon DEF ReplyOk
<1>4. q \in Tasks /\ q.op = "send" /\ q.who = c /\ q.job = j
  BY <1>2, Zenon DEF Task, Tasks
<1>5. GoodTask(q) /\ AskOf(q) = kind /\ q.op \notin Openings
  BY <1>2, <1>4, Zenon DEF GoodTask, AskOf, Openings
<1>6. wal # 0 => /\ p \in Tasks /\ p.op = "send" /\ p.who = Nobody /\ GoodTask(p) /\ p.job \notin Elems(Line)
                 /\ p.job.kind = "promote" /\ p.job.kind \notin Slots
                 /\ \A s : (/\ p \in Elems(s)
                            /\ \A u \in Elems(s) : u = p \/ u.op # "send" \/ u.job.kind # "promote")
                           => Unsent(s) = {wal}
  BY Zenon, <1>2, CutTask DEF SlotKinds
<1>7. /\ WalOk(wal, wals, Unsent(stack), Promotes(Line), pipe.failed) /\ wal \in Epochs \cup {0}
      /\ Unsent(stack) = {}
  BY <1>1, IdleFacts, Zenon DEF IInv, Types
<1> HIDE DEF j, q, p
<1>8. CASE stack' = <<q>> /\ UNCHANGED <<wal, wals, plans>>
  <2>1. Elems(stack') = {q} /\ stack' \in Seq(Tasks) /\ StackOk(stack', Line)
    BY <1>3, <1>4, <1>5, <1>8, ShortElems, StackOne
  <2>2. Unsent(stack') = {}
    <3>1. \A e \in Epochs : Job("promote", e).kind = "promote"
      BY JobShape, Zenon
    <3> QED BY <1>2, <1>4, <2>1, <3>1, Zenon DEF Unsent
  <2>3. WalOk(wal', wals, Unsent(stack'), Promotes(Line), pipe.failed) /\ wal' \in Epochs \cup {0}
    BY <1>7, <1>8, <2>2, Zenon
  <2>4. /\ q \in Elems(stack') /\ q.op # "checkpoint" /\ q.op # "plan"
        /\ (q.op = "send" /\ q.job.kind \in Slots => ops.slot[q.job.kind] = Nobody)
    BY <1>1, <1>2, <1>4, <2>1, Zenon
  <2>5. \A t \in Elems(stack') : t = q \/ (t.op = "send" /\ t.job.kind = "promote" /\ t.who = Nobody)
    BY <2>1, Zenon
  <2>6. kind \in Asks[c] /\ UNCHANGED <<wals, plans, phase, pipe, ops>>
    BY Zenon, <1>1, <1>8
  <2> QED BY <1>1, <1>4, <1>5, <2>1, <2>3, <2>4, <2>5, <2>6, IInvAsk, Zenon
<1>9. CASE wal # 0 /\ wal' = 0 /\ UNCHANGED <<wals, plans>> /\ stack' = <<p, q>>
  <2>1. Elems(stack') = {p, q} /\ stack' \in Seq(Tasks)
    BY <1>4, <1>6, <1>9, ShortElems
  <2>2. Unsent(stack') = {wal}
    BY <1>2, <1>4, <1>6, <1>9, <2>1, Zenon
  <2>3. Apart(p, q) /\ Apart(q, p)
    BY <1>2, <1>4, <1>6, <1>9, Zenon DEF Apart
  <2>4. StackOk(stack', Line)
    BY Zenon, <1>3, <1>4, <1>5, <1>6, <1>9, <2>3, StackTwo
  <2>5. WalOk(wal', wals, Unsent(stack'), Promotes(Line), pipe.failed)
    BY <1>7, <1>9, <2>2, WalCut, Zenon
  <2>6. /\ q \in Elems(stack')
        /\ \A t \in Elems(stack') : t = q \/ (t.op = "send" /\ t.job.kind = "promote" /\ t.who = Nobody)
    BY <1>6, <1>9, <2>1, Zenon
  <2>7. /\ wal' \in Epochs \cup {0} /\ kind \in Asks[c] /\ q.op # "checkpoint" /\ q.op # "plan"
        /\ (q.op = "send" /\ q.job.kind \in Slots => ops.slot[q.job.kind] = Nobody)
        /\ UNCHANGED <<wals, plans, phase, pipe, ops>>
    BY Zenon, <1>1, <1>2, <1>4, <1>9
  <2> QED BY <1>1, <1>4, <1>5, <2>1, <2>4, <2>5, <2>6, <2>7, IInvAsk, Zenon
<1> QED BY Zenon, <1>1, <1>8, <1>9

=============================================================================
