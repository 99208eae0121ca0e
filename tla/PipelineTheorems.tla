-------------------------- MODULE PipelineTheorems --------------------------
(***************************************************************************)
(* How the handlers of the results preserve the invariant of               *)
(* PipelineProofs, that it holds in every reachable state, and what it     *)
(* says of the pipeline.                                                   *)
(***************************************************************************)
EXTENDS PipelineProofs, FiniteSetTheorems

-----------------------------------------------------------------------------
(* The head of the Line is taken.                                          *)

\* A result that is taken was the head of the Line.
LEMMA ReceiveLine ==
  ASSUME Types, results # <<>>, results' = Tail(results), UNCHANGED <<jobs, running>>
  PROVE  /\ Line # <<>> /\ Line' = Tail(Line)
         /\ Head(Line) = Job(Head(results).kind, Head(results).id)
<1>1. /\ results \in Seq(Results) /\ results' \in Seq(Results) /\ Len(results) > 0
      /\ Len(results') = Len(results) - 1 /\ Head(results) = results[1]
      /\ \A i \in 1 .. Len(results) - 1 : results'[i] = results[i + 1]
      /\ running \in Jobs \cup {NoJob} /\ jobs \in Seq(Jobs)
  BY TailFacts DEF Types
<1>2. /\ Line \in Seq(Jobs) /\ Len(Line) = Len(results) + Busy(running) + Len(jobs)
      /\ Line' \in Seq(Jobs) /\ Len(Line') = Len(Line) - 1
      /\ Len(results) \in Nat /\ Len(jobs) \in Nat /\ Busy(running) \in Nat
  <2>1. Line = LineOf(results, running, jobs) /\ Line' = LineOf(results', running, jobs)
    BY Zenon DEF Line
  <2>2. /\ Line \in Seq(Jobs) /\ Len(Line) = Len(results) + Busy(running) + Len(jobs)
        /\ Len(results) \in Nat /\ Len(jobs) \in Nat /\ Busy(running) \in Nat
    BY <1>1, <2>1, LineType, Zenon
  <2>3. Line' \in Seq(Jobs) /\ Len(Line') = Len(results') + Busy(running) + Len(jobs)
    BY <1>1, <2>1, LineType, Zenon
  <2> QED BY <1>1, <2>2, <2>3
<1>3. Line # <<>> /\ Head(Line) = Line[1] /\ Line[1] = Job(Head(results).kind, Head(results).id)
  BY <1>1, <1>2 DEF Line, LineOf
<1>4. /\ Tail(Line) \in Seq(Jobs) /\ Len(Tail(Line)) = Len(Line')
      /\ \A i \in 1 .. Len(Line') : Tail(Line)[i] = Line[i + 1]
  BY <1>2, <1>3
<1>5. ASSUME NEW i \in 1 .. Len(Line') PROVE Line'[i] = Line[i + 1]
  <2>1. CASE i <= Len(results')
    BY <1>1, <1>2, <2>1 DEF Line, LineOf
  <2>2. CASE i > Len(results')
    BY <1>1, <1>2, <2>2 DEF Line, LineOf
  <2> QED BY <1>1, <1>2, <2>1, <2>2
<1> QED BY <1>2, <1>3, <1>4, <1>5, SameSeq, Zenon

\* A result is taken between two handlers or within a dispatch.
LEMMA StackReceive ==
  ASSUME NEW s \in Seq(Tasks), NEW L, NEW M, StackOk(s, L),
         s = <<>> \/ Head(s).op \notin Openings, Elems(M) \subseteq Elems(L)
  PROVE  StackOk(s, M)
<1>1. s # <<>> => Head(s) = s[1]
  OBVIOUS
<1>2. \A i \in DOMAIN s : i = 1 => s[i].op \notin Openings
  BY <1>1
<1> QED BY Zenon, <1>2 DEF StackOk

\* The next plan of a batch goes on top of what the actor was doing.
LEMMA StackPush ==
  ASSUME NEW s \in Seq(Tasks), NEW L, StackOk(s, L), s = <<>> \/ Head(s).op \notin Openings,
         NEW t \in Tasks, t.op = "plan",
         \A v \in Elems(s) : v.op # "plan" /\ (t.who \in Callers => v.who # t.who)
  PROVE  StackOk(<<t>> \o s, L)
<1> DEFINE u == <<t>> \o s
<1>1. /\ DOMAIN u = 1 .. Len(s) + 1 /\ Len(u) = Len(s) + 1 /\ u[1] = t /\ Len(s) \in Nat
      /\ \A i \in 2 .. Len(s) + 1 : u[i] = s[i - 1]
      /\ DOMAIN s = 1 .. Len(s)
      /\ \A i \in DOMAIN s : s[i].op # "plan" /\ (t.who \in Callers => s[i].who # t.who)
  BY ConsFacts DEF Elems
<1> HIDE DEF u
<1>2. \A i \in 2 .. Len(s) + 1 : i - 1 \in DOMAIN s /\ u[i] = s[i - 1]
  BY <1>1
<1>3. GoodTask(t) /\ t.op \notin Openings /\ t.op # "send"
  BY Zenon DEF GoodTask, Openings
<1>4. \A i \in DOMAIN u : GoodTask(u[i])
  BY <1>1, <1>2, <1>3 DEF StackOk
<1>5. ASSUME NEW i \in DOMAIN u, NEW j \in DOMAIN u, i # j PROVE Apart(u[i], u[j])
  <2>1. CASE i # 1 /\ j # 1
    <3>1. i - 1 \in DOMAIN s /\ j - 1 \in DOMAIN s /\ i - 1 # j - 1
      BY <1>1, <1>5, <2>1
    <3>2. u[i] = s[i - 1] /\ u[j] = s[j - 1]
      BY <1>1, <1>2, <2>1
    <3> QED BY Zenon, <3>1, <3>2 DEF StackOk
  <2>2. CASE i = 1
    BY <1>1, <1>2, <1>3, <1>5, <2>2 DEF Apart
  <2>3. CASE j = 1
    BY <1>1, <1>2, <1>3, <1>5, <2>3 DEF Apart
  <2> QED BY Zenon, <2>1, <2>2, <2>3
<1>6. \A i \in DOMAIN u : u[i].op = "send" => u[i].job \notin Elems(L)
  BY <1>1, <1>2, <1>3 DEF StackOk
<1>7. ASSUME NEW i \in DOMAIN u, u[i].op \in Openings PROVE i = Len(u)
  <2>1. i \in 2 .. Len(s) + 1 /\ u[i] = s[i - 1] /\ i - 1 \in DOMAIN s
    BY <1>1, <1>2, <1>3, <1>7
  <2>2. i - 1 = Len(s)
    BY Zenon, <1>7, <2>1 DEF StackOk
  <2> QED BY <1>1, <2>1, <2>2
<1>8. ASSUME NEW i \in DOMAIN u, u[i].op \in Openings, u[i].job.id # 0
      PROVE  i # 1 /\ u[i - 1].op = "send" /\ u[i - 1].job = u[i].job
  <2>1. i \in 2 .. Len(s) + 1 /\ u[i] = s[i - 1] /\ i - 1 \in DOMAIN s
    BY <1>1, <1>2, <1>3, <1>8
  <2>2. s # <<>> /\ Head(s) = s[1]
    BY <2>1
  <2>3. i - 1 # 1
    BY Zenon, <1>8, <2>1, <2>2
  <2>4. s[i - 2].op = "send" /\ s[i - 2].job = s[i - 1].job
    BY <1>8, <2>1, <2>3 DEF StackOk
  <2>5. u[i - 1] = s[i - 2]
    BY <1>1, <1>2, <2>1, <2>3
  <2> QED BY <2>1, <2>4, <2>5
<1> QED BY <1>4, <1>5, <1>6, <1>7, <1>8, Zenon DEF StackOk, u

-----------------------------------------------------------------------------
(* The parked checkpoint.                                                  *)

\* A job that is no promote leaves the Line.
LEMMA GcPass ==
  ASSUME NEW g, NEW s, NEW L \in Seq(Jobs), L # <<>>, Once(L), GcOk(g, s, L), Head(L).kind # "promote"
  PROVE  GcOk(g, s, Tail(L))
<1> DEFINE M == Tail(L)
           n == Len(L) - 1
<1>1. /\ n \in Nat /\ DOMAIN L = 1 .. n + 1 /\ DOMAIN M = 1 .. n
      /\ \A i \in 1 .. n : M[i] = L[i + 1]
      /\ Elems(M) = Elems(L) \ {Head(L)} /\ Head(L) \in Jobs
  BY TailFacts
<1>2. Promotes(M) = Promotes(L)
  BY Zenon, <1>1, PromotesReceive
<1> HIDE DEF M, n
<1>3. \A i \in DOMAIN M : i + 1 \in DOMAIN L /\ M[i] = L[i + 1]
  BY <1>1
<1>4. ASSUME FlushOk(g, Unsent(s), L) PROVE FlushOk(g, Unsent(s), M)
  <2>1. ASSUME NEW i \in DOMAIN M, NEW k \in DOMAIN M, M[i] = Job("promote", g.epoch),
               M[k].kind = "promote", M[k].id \in g.due
        PROVE  k <= i
    <3>1. k + 1 <= i + 1
      BY Zenon, <1>3, <1>4, <2>1 DEF FlushOk
    <3> QED BY <1>1, <3>1
  <2> QED BY Zenon, <1>2, <1>4, <2>1 DEF FlushOk
<1>5. ASSUME BarrierOk(g, L) PROVE BarrierOk(g, M)
  <2>1. ASSUME NEW i \in DOMAIN M, NEW k \in DOMAIN M, M[i].kind = "promote", M[i].id \notin g.due,
               M[k].kind = "promote", M[k].id \in g.due
        PROVE  k < i
    <3>1. k + 1 < i + 1
      BY Zenon, <1>3, <1>5, <2>1 DEF BarrierOk
    <3> QED BY <1>1, <3>1
  <2> QED BY Zenon, <1>2, <1>5, <2>1 DEF BarrierOk
<1>6. GcOk(g, s, M)
  BY Zenon, <1>4, <1>5 DEF GcOk
<1> QED BY Zenon, <1>6 DEF M

\* A promote leaves the Line: a flush on another epoch waits on.
LEMMA FlushPromote ==
  ASSUME NEW g \in Parked, NEW S, NEW L \in Seq(Jobs), L # <<>>, Once(L), FlushOk(g, S, L),
         Head(L).kind = "promote", Head(L).id # g.epoch
  PROVE  FlushOk(Passed(g, Head(L).id), S, Tail(L))
<1> DEFINE M == Tail(L)
           n == Len(L) - 1
           e == Head(L).id
           h == Passed(g, e)
<1>1. /\ n \in Nat /\ DOMAIN L = 1 .. n + 1 /\ DOMAIN M = 1 .. n
      /\ \A i \in 1 .. n : M[i] = L[i + 1]
      /\ Elems(M) = Elems(L) \ {Head(L)} /\ Head(L) \in Jobs
  BY TailFacts
<1>2. Promotes(M) = Promotes(L) \ {e}
  BY <1>1, PromotesReceive
<1>3. h.who = g.who /\ h.left = 0 /\ h.epoch = g.epoch /\ h.due = g.due \ {e}
  BY Zenon DEF Passed, Parked, FlushOk
<1> HIDE DEF M, n, h
<1>4. \A i \in DOMAIN M : i + 1 \in DOMAIN L /\ M[i] = L[i + 1]
  BY <1>1
<1>5. ASSUME NEW i \in DOMAIN M, NEW k \in DOMAIN M, M[i] = Job("promote", g.epoch),
             M[k].kind = "promote", M[k].id \in h.due
      PROVE  k <= i
  <2>1. k + 1 <= i + 1
    BY <1>3, <1>4, <1>5 DEF FlushOk
  <2> QED BY <1>1, <2>1
<1>6. h.who \in Callers /\ h.epoch \in S \cup Promotes(M) /\ h.due \subseteq Promotes(M) \cup {h.epoch}
  BY Zenon, <1>2, <1>3 DEF FlushOk
<1>7. FlushOk(h, S, M)
  BY <1>3, <1>5, <1>6 DEF FlushOk
<1> QED BY Zenon, <1>7 DEF M, h

-----------------------------------------------------------------------------
(* The results.                                                            *)

\* The actor takes the head of the Line, between two handlers or in a dispatch.
LEMMA ReceiveFacts ==
  ASSUME IInv, Receives, results' = Tail(results), UNCHANGED <<jobs, running>>
  PROVE  /\ Line # <<>> /\ Line' = Tail(Line) /\ Head(Line) \in Jobs /\ Head(Line) \in Elems(Line)
         /\ Head(Line).kind = Head(results).kind /\ Head(Line).id = Head(results).id
         /\ Head(results).ok \in BOOLEAN
         /\ Line' \in Seq(Jobs) /\ Once(Line') /\ Elems(Line') = Elems(Line) \ {Head(Line)}
         /\ results' \in Seq(Results) /\ Len(results') <= Capacity
         /\ stack = <<>> \/ Head(stack).op \notin Openings
         /\ StackOk(stack, Line')
<1>1. /\ Types /\ Line \in Seq(Jobs) /\ Once(Line) /\ stack \in Seq(Tasks) /\ StackOk(stack, Line)
      /\ results # <<>> /\ results \in Seq(Results) /\ Len(results) <= Capacity
  BY Zenon, IInvFacts DEF IInv, Types, Receives
<1>2. Line # <<>> /\ Line' = Tail(Line) /\ Head(Line) = Job(Head(results).kind, Head(results).id)
  BY Zenon, <1>1, ReceiveLine
<1>3. Head(results) \in Results /\ Tail(results) \in Seq(Results) /\ Len(Tail(results)) <= Capacity
  <2>1. Len(results) \in Nat /\ Capacity \in Nat
    BY <1>1, PipelineAssumption
  <2> QED BY <1>1, <2>1, TailFacts
<1>4. Head(results).ok \in BOOLEAN
  BY Zenon, <1>3, ResultJobs
<1>5. /\ Tail(Line) \in Seq(Jobs) /\ Once(Tail(Line)) /\ Elems(Tail(Line)) = Elems(Line) \ {Head(Line)}
      /\ Head(Line) \in Jobs /\ Head(Line) \in Elems(Line)
  BY Zenon, <1>1, <1>2, TailFacts
<1>6. stack = <<>> \/ Head(stack).op \notin Openings
  BY Zenon DEF Receives, Idle, Sending, Openings
<1>7. StackOk(stack, Tail(Line))
  BY <1>1, <1>5, <1>6, StackReceive
<1>8. Head(Line).kind = Head(results).kind /\ Head(Line).id = Head(results).id
  BY <1>2, JobShape
<1> QED BY <1>2, <1>3, <1>4, <1>5, <1>6, <1>7, <1>8, Zenon

\* The answer to a call with a slot: what held it goes, and nothing else does.
LEMMA IInvSlotResult ==
  ASSUME IInv, SlotResult
  PROVE  IInv'
<1> DEFINE L == Line
           M == Tail(Line)
           h == Head(Line)
           s == stack
<1>1. /\ L # <<>> /\ Line' = M /\ h \in Jobs /\ h \in Elems(L) /\ M \in Seq(Jobs) /\ Once(M)
      /\ Elems(M) = Elems(L) \ {h} /\ results' \in Seq(Results) /\ Len(results') <= Capacity
      /\ StackOk(s, M) /\ h.kind = Head(results).kind /\ h.id = Head(results).id
  BY ReceiveFacts, Zenon DEF SlotResult
<1>2. /\ L \in Seq(Jobs) /\ Types /\ pipe \in Pipes /\ ops \in Operations /\ Elems(L) \subseteq Jobs /\ Nobody \notin Callers
      /\ PlanOk(ops, plans, s, L) /\ GcOk(pipe.gc, s, L) /\ ReplyOk(call, s, L, pipe, ops) /\ Elems(s) \subseteq Tasks
      /\ SlotOk(pipe, ops, s, L) /\ ParkedOk(call, s, L, pipe, ops) /\ CountOk(pipe, L) /\ Once(L)
      /\ WalOk(wal, wals, Unsent(s), Promotes(L), pipe.failed)
  BY IInvFacts, Zenon DEF IInv
<1>3. /\ h.kind \in SlotKinds /\ h.kind # "promote" /\ h.kind # "plan" /\ h.id \in Callers
      /\ h = Job(h.kind, h.id)
  <2>1. h.kind \in SlotKinds
    BY Zenon, <1>1 DEF SlotResult, SlotKinds
  <2> QED BY Zenon, <1>1, <2>1, JobShape
<1>4. /\ call' = Answered({h.id}) /\ stack' = s
      /\ IF h.kind = "segment" THEN pipe' = [pipe EXCEPT !.segments = @ \ {h.id}] /\ ops' = ops
         ELSE ops' = [ops EXCEPT !.slot[h.kind] = Nobody] /\ pipe' = pipe
      /\ UNCHANGED <<wal, wals, plans>> /\ UNCHANGED <<phase, jobs, running>>
  BY <1>1, Zenon DEF SlotResult, files
<1>5. call' = [c \in Callers |-> IF c \in {h.id} THEN "none" ELSE call[c]]
  BY <1>2, <1>4, AnswerTypes
<1>6. /\ pipe' \in Pipes /\ pipe'.gc = pipe.gc /\ pipe'.wal = pipe.wal /\ pipe'.failed = pipe.failed
      /\ pipe'.in_flight = pipe.in_flight /\ pipe'.lag = pipe.lag
      /\ pipe'.segments = IF h.kind = "segment" THEN pipe.segments \ {h.id} ELSE pipe.segments
  BY <1>2, <1>4, Zenon DEF Pipes
<1>7. /\ ops' \in Operations /\ ops'.batch = ops.batch /\ ops'.flying = ops.flying /\ ops'.deferred = ops.deferred
      /\ \A k \in Slots : ops'.slot[k] = IF h.kind = k THEN Nobody ELSE ops.slot[k]
  BY <1>2, <1>3, <1>4 DEF Operations, Whos, SlotKinds, Slots
<1>8. Types'
  BY <1>1, <1>2, <1>4, <1>6, <1>7, AnswerTypes, Zenon DEF Types
<1> HIDE DEF L, M, h, s
<1>9. Promotes(M) = Promotes(L)
  BY <1>1, <1>3, PromotesReceive, Zenon
<1>10. GcOk(pipe'.gc, s, M)
  BY <1>1, <1>2, <1>3, <1>6, GcPass, Zenon DEF L, M, h
<1>11. PlanOk(ops', plans, s, M) /\ CountOk(pipe', M)
  <2>1. Job("plan", 0) \in Elems(M) <=> Job("plan", 0) \in Elems(L)
    BY <1>1, <1>3, JobShape
  <2> QED BY <1>2, <1>6, <1>7, <1>9, <2>1, SMTT(30) DEF PlanOk, CountOk
<1>12. SlotOk(pipe', ops', s, M)
  <2>1. \A k \in Slots : ops'.slot[k] # Nobody => Job(k, ops'.slot[k]) \in Elems(M)
    BY <1>1, <1>2, <1>7, JobShape DEF SlotOk
  <2>2. \A j \in Elems(M) : j.kind \in Slots => ops'.slot[j.kind] = j.id
    <3> SUFFICES ASSUME NEW j \in Elems(M), j.kind \in Slots PROVE ops'.slot[j.kind] = j.id
      BY Zenon
    <3>1. j \in Elems(L) /\ j # h /\ j \in Jobs
      BY <1>1, <1>2
    <3>2. j.kind # h.kind
      <4> SUFFICES ASSUME j.kind = h.kind PROVE FALSE
        BY Zenon
      <4>1. ops.slot[j.kind] = j.id /\ ops.slot[h.kind] = h.id
        BY <1>1, <1>2, <3>1, Zenon DEF SlotOk
      <4> QED BY <1>3, <3>1, <4>1, JobShape
    <3> QED BY Zenon, <1>2, <1>7, <3>1, <3>2 DEF SlotOk
  <2>3. \A c \in Callers : c \in pipe'.segments <=> Job("segment", c) \in Elems(M)
    <3>1. \A c \in Callers : Job("segment", c) = h <=> (h.kind = "segment" /\ h.id = c)
      BY <1>3, JobShape
    <3> QED BY Zenon, <1>1, <1>2, <1>6, <3>1 DEF SlotOk
  <2>4. \A t \in Elems(s) : t.op = "send" /\ t.job.kind \in Slots => ops'.slot[t.job.kind] = Nobody
    BY <1>2, <1>7, Zenon DEF SlotOk
  <2> QED BY <2>1, <2>2, <2>3, <2>4, Zenon DEF SlotOk
<1>13. ReplyOk(call, s, M, pipe', ops')
  BY Zenon, <1>1, <1>2, <1>6, <1>7, <1>9 DEF ReplyOk
<1>14. ~Holds(h.id, s, M, pipe', ops')
  <2>1. call[h.id] = h.kind
    BY <1>1, <1>2, <1>3 DEF ReplyOk
  <2>2. h.kind \notin {"wal", "checkpoint", "handoffs", "none"}
    BY Zenon, <1>3 DEF SlotKinds, Slots
  <2>3. \A t \in Elems(s) : t.who # h.id
    <3> SUFFICES ASSUME NEW t \in Elems(s), t.who = h.id PROVE FALSE
      BY Zenon
    <3>1. t \in Tasks /\ AskOf(t) = h.kind
      BY <1>2, <1>3, <2>1, Zenon DEF ReplyOk
    <3>2. t.op = "send" /\ t.job.kind = h.kind /\ t.job \in Jobs /\ t.job.kind \in SlotKinds
      BY Zenon, <1>3, <2>2, <3>1 DEF AskOf, Tasks, Openings, SlotKinds, Slots
    <3>3. t.job.id = h.id /\ t.job \notin Elems(L)
      <4>1. GoodTask(t)
        BY <1>1 DEF StackOk, Elems
      <4>2. t.job \notin Elems(M)
        BY <1>1, <3>2 DEF StackOk, Elems
      <4>3. t.job.id = h.id
        BY <3>2, <4>1, Zenon DEF GoodTask
      <4>4. StackOk(s, L)
        BY Zenon DEF IInv, s, L
      <4>5. t.job \notin Elems(L)
        BY <3>2, <4>4 DEF StackOk, Elems
      <4> QED BY <4>3, <4>5, Zenon
    <3>4. t.job = h
      BY <1>3, <3>2, <3>3, JobShape, SMTT(30)
    <3> QED BY <1>1, <3>3, <3>4
  <2>4. \A w \in pipe'.wal : w.who # h.id
    BY <1>2, <1>6, <2>1, <2>2, SMTT(30) DEF ReplyOk
  <2>5. pipe'.gc.who # h.id /\ ops'.batch.who # h.id
    BY <1>2, <1>3, <1>6, <1>7, <2>1, <2>2 DEF ReplyOk
  <2>6. \A j \in Elems(M) : ~(j.kind \in SlotKinds /\ j.id = h.id)
    <3> SUFFICES ASSUME NEW j \in Elems(M), j.kind \in SlotKinds, j.id = h.id PROVE FALSE
      BY Zenon
    <3>1. call[j.id] = j.kind /\ j \in Jobs /\ j # h
      BY <1>1, <1>2, Zenon DEF ReplyOk
    <3> QED BY <1>3, <2>1, <3>1, JobShape
  <2> QED BY <2>3, <2>4, <2>5, <2>6, Zenon DEF Holds
<1>15. \A c \in Callers : c \notin {h.id} /\ call[c] # "none" => Holds(c, s, M, pipe', ops')
  BY <1>1, <1>2, <1>6, <1>7 DEF ParkedOk, Holds
<1>16. ReplyOk(call', s, M, pipe', ops') /\ ParkedOk(call', s, M, pipe', ops')
  <2>1. \A c \in Callers : \/ call'[c] = "none" /\ ~Holds(c, s, M, pipe', ops')
                           \/ call'[c] = call[c] /\ (call[c] # "none" => Holds(c, s, M, pipe', ops'))
    BY Zenon, <1>5, <1>14, <1>15
  <2>2. Elems(M) \subseteq Jobs /\ pipe' \in Pipes
    BY <1>1, <1>2, <1>6, Zenon
  <2> QED BY <1>13, <2>1, <2>2, Answer, Zenon
<1>17. WalOk(wal, wals, Unsent(s), Promotes(M), pipe'.failed)
  BY Zenon, <1>2, <1>6, <1>9
<1> QED BY Zenon, <1>1, <1>4, <1>8, <1>10, <1>11, <1>12, <1>16, <1>17 DEF IInv

-----------------------------------------------------------------------------
(* A plan result that arrives or was held back (apply_or_defer_gc_plan).   *)

(* PlanOk while a result is in the actor's hand: `here' is whether it is a *)
(* plan's, and one that was held back may have lost its last promote.      *)
PlanMid(o, n, s, L, here) ==
  /\ o.flying = o.batch.on
  /\ o.batch.on <=> (Job("plan", 0) \in Elems(L) \/ o.deferred \/ here)
  /\ ~(Job("plan", 0) \in Elems(L) /\ (o.deferred \/ here))
  /\ o.batch.on => o.batch.left < n
  /\ ~o.batch.on => o.batch = NoBatch
  /\ \A t \in Elems(s) : t.op = "plan" => ~o.batch.on /\ t.left <= n

(* The batch leaves its slot.                                              *)
Unbatched(o) == [o EXCEPT !.flying = FALSE, !.deferred = FALSE, !.batch = NoBatch]

\* The operations once their batch is over.
LEMMA UnbatchedIs ==
  ASSUME NEW o \in Operations
  PROVE  /\ Unbatched(o) \in Operations /\ Unbatched(o).slot = o.slot
         /\ Unbatched(o).batch = NoBatch /\ ~Unbatched(o).flying /\ ~Unbatched(o).deferred
  BY Zenon DEF Unbatched, Operations, Batches, NoBatch, Whos

\* While the batch is in its slot nothing on the stack works for its caller.
LEMMA BatchAlone ==
  ASSUME NEW k, NEW s \in Seq(Tasks), NEW L, NEW p, NEW o, NEW n, NEW here, ReplyOk(k, s, L, p, o),
         PlanMid(o, n, s, L, here), o.batch.on, Elems(s) \subseteq Tasks
  PROVE  \A t \in Elems(s) : t.op # "plan" /\ (o.batch.who \in Callers => t.who # o.batch.who)
<1> SUFFICES ASSUME NEW t \in Elems(s)
             PROVE  t.op # "plan" /\ (o.batch.who \in Callers => t.who # o.batch.who)
  BY Zenon
<1>1. t.op # "plan"
  BY Zenon DEF PlanMid
<1>2. ASSUME o.batch.who \in Callers, t.who = o.batch.who PROVE FALSE
  <2>1. AskOf(t) = "handoffs" /\ t \in Tasks
    BY <1>2, Zenon DEF ReplyOk
  <2>2. t.op = "send" => t.job.kind # "handoffs"
    BY <2>1, Zenon DEF Tasks, Jobs, SlotKinds, Slots, Openings
  <2>3. t.op # "send" => t.op \in Openings
    BY <1>1, <2>1, Zenon DEF Tasks
  <2> QED BY <1>1, <2>1, <2>2, <2>3 DEF AskOf, Openings
<1> QED BY <1>1, <1>2, Zenon

\* A batch that ends answers its caller, and only that one.
LEMMA BatchEnds ==
  ASSUME NEW k, NEW s \in Seq(Tasks), NEW L, NEW p \in Pipes, NEW o \in Operations, NEW n, NEW here,
         ReplyOk(k, s, L, p, o), ParkedOk(k, s, L, p, o), SlotOk(p, o, s, L),
         PlanMid(o, n, s, L, here), o.batch.on, Elems(s) \subseteq Tasks, Elems(L) \subseteq Jobs
  PROVE  LET u == Unbatched(o)
             K == [c \in Callers |-> IF c \in {o.batch.who} THEN "none" ELSE k[c]] IN
         ReplyOk(K, s, L, p, u) /\ ParkedOk(K, s, L, p, u) /\ SlotOk(p, u, s, L)
<1> DEFINE u == Unbatched(o)
           K == [c \in Callers |-> IF c \in {o.batch.who} THEN "none" ELSE k[c]]
<1>1. u \in Operations /\ u.slot = o.slot /\ u.batch = NoBatch /\ Nobody \notin Callers /\ NoBatch.who = Nobody
  BY UnbatchedIs, PipelineAssumption, Zenon DEF NoBatch
<1> HIDE DEF u
<1>2. SlotOk(p, u, s, L)
  BY <1>1, Zenon DEF SlotOk
<1>3. ReplyOk(k, s, L, p, u)
  BY Zenon, <1>1 DEF ReplyOk
<1>4. ASSUME o.batch.who \in Callers PROVE ~Holds(o.batch.who, s, L, p, u)
  <2>1. k[o.batch.who] = "handoffs"
    BY <1>4, Zenon DEF ReplyOk
  <2>2. \A t \in Elems(s) : t.who # o.batch.who
    BY <1>4, BatchAlone, Zenon
  <2>3. \A w \in p.wal : w.who # o.batch.who
    BY <2>1, Zenon DEF ReplyOk
  <2>4. p.gc.who # o.batch.who /\ u.batch.who # o.batch.who
    BY <1>1, <1>4, <2>1, Zenon DEF ReplyOk
  <2>5. \A j \in Elems(L) : ~(j.kind \in SlotKinds /\ j.id = o.batch.who)
    BY <2>1, Zenon DEF ReplyOk, SlotKinds, Slots
  <2> QED BY <2>2, <2>3, <2>4, <2>5, Zenon DEF Holds
<1>5. \A c \in Callers : c \notin {o.batch.who} /\ k[c] # "none" => Holds(c, s, L, p, u)
  BY Zenon DEF ParkedOk, Holds
<1>6. \A c \in Callers : \/ K[c] = "none" /\ ~Holds(c, s, L, p, u)
                         \/ K[c] = k[c] /\ (k[c] # "none" => Holds(c, s, L, p, u))
  BY Zenon, <1>4, <1>5
<1>7. ReplyOk(K, s, L, p, u) /\ ParkedOk(K, s, L, p, u)
  BY <1>3, <1>6, Answer, Zenon
<1> QED BY <1>2, <1>7, Zenon DEF u

\* A batch that goes on is a task on the stack again.
LEMMA BatchGoesOn ==
  ASSUME Types, NEW k, NEW p \in Pipes, NEW here,
         ReplyOk(k, stack, Line', p, ops), ParkedOk(k, stack, Line', p, ops), SlotOk(p, ops, stack, Line'),
         StackOk(stack, Line'), GcOk(p.gc, stack, Line'), stack = <<>> \/ Head(stack).op \notin Openings,
         PlanMid(ops, plans, stack, Line', here), ops.batch.on,
         NEW q \in Tasks, q.op = "plan", q.who = ops.batch.who,
         stack' = <<q>> \o stack, ops' = Unbatched(ops)
  PROVE  /\ ReplyOk(k, stack', Line', p, ops') /\ ParkedOk(k, stack', Line', p, ops')
         /\ SlotOk(p, ops', stack', Line') /\ StackOk(stack', Line') /\ GcOk(p.gc, stack', Line')
         /\ Unsent(stack') = Unsent(stack) /\ stack' \in Seq(Tasks)
         /\ Elems(stack') = {q} \cup Elems(stack)
<1> DEFINE L == Line'
           s == stack
           o == ops
           t == stack'
           u == ops'
<1>0. s \in Seq(Tasks) /\ o \in Operations /\ Elems(s) \subseteq Tasks
  BY DEF Types, Elems
<1>1. u \in Operations /\ u.slot = o.slot /\ u.batch = NoBatch /\ Nobody \notin Callers /\ NoBatch.who = Nobody
  BY <1>0, UnbatchedIs, PipelineAssumption, Zenon DEF NoBatch
<1>2. t \in Seq(Tasks) /\ Elems(t) = {q} \cup Elems(s)
  BY <1>0, ConsFacts
<1>3. \A v \in Elems(s) : v.op # "plan" /\ (q.who \in Callers => v.who # q.who)
  BY Zenon, <1>0, BatchAlone
<1>4. StackOk(t, L)
  BY <1>0, <1>3, StackPush, Zenon
<1>5. Unsent(t) = Unsent(s)
  BY <1>2, Zenon DEF Unsent
<1>6. GcOk(p.gc, t, L)
  BY <1>2, <1>5, Zenon DEF GcOk
<1>7. SlotOk(p, u, t, L)
  BY <1>1, <1>2, Zenon DEF SlotOk
<1>8. ReplyOk(k, t, L, p, u)
  <2>1. q.who \in Callers => k[q.who] = "handoffs" /\ AskOf(q) = "handoffs"
    BY Zenon DEF ReplyOk, AskOf
  <2>2. \A w \in p.wal : w.who # q.who
    <3> SUFFICES ASSUME NEW w \in p.wal, w.who = q.who PROVE FALSE
      BY Zenon
    <3>1. w.who \in Callers /\ k[w.who] = "wal"
      BY Zenon DEF ReplyOk, Pipes
    <3> QED BY <2>1, <3>1, Zenon
  <2>3. u.batch.who \notin Callers
    BY <1>1, Zenon
  <2> QED BY <1>2, <2>1, <2>2, <2>3, Zenon DEF ReplyOk
<1>9. ParkedOk(k, t, L, p, u)
  BY <1>2, Zenon DEF ParkedOk, Holds
<1> QED BY <1>2, <1>4, <1>5, <1>6, <1>7, <1>8, <1>9, Zenon

\* A plan fewer still leaves room for a batch that held one more.
LEMMA OneLess ==
  \A m, n, k \in Nat : n \in 0 .. m /\ k < n => n - 1 \in 0 .. m /\ k <= n - 1 /\ k <= n
  OBVIOUS

\* What is left of a result's handler once the result is in: nothing, or the
\* plan that is held back, applied, or ends its batch.
LEMMA IInvSettle ==
  ASSUME Counting, Types, NEW p \in Pipes, NEW called \in [Callers -> Calls], NEW here \in BOOLEAN, Settle(p, called, here),
         \A c \in Callers : called[c] \in Asks[c] \cup {"none"},
         UNCHANGED <<wal, phase, jobs, running>>, wals' \subseteq Epochs,
         results' \in Seq(Results), Len(results') <= Capacity,
         Line' \in Seq(Jobs), Once(Line'), StackOk(stack, Line'), stack = <<>> \/ Head(stack).op \notin Openings,
         WalOk(wal, wals', Unsent(stack), Promotes(Line'), p.failed), CountOk(p, Line'),
         PlanMid(ops, plans, stack, Line', here), GcOk(p.gc, stack, Line'),
         ReplyOk(called, stack, Line', p, ops), SlotOk(p, ops, stack, Line'),
         ParkedOk(called, stack, Line', p, ops)
  PROVE  IInv'
<1> DEFINE M == Line'
           s == stack
           b == ops.batch
           u == Unbatched(ops)
           q == [Task("plan", b.who, NoJob) EXCEPT !.left = b.left]
           K == [c \in Callers |-> IF c \in {b.who} THEN "none" ELSE called[c]]
<1>1. /\ s \in Seq(Tasks) /\ ops \in Operations /\ plans \in 0 .. MaxPlans /\ Elems(s) \subseteq Tasks
      /\ Elems(M) \subseteq Jobs /\ Promotes(M) \subseteq Epochs /\ MaxPlans \in Nat
  BY PipelineAssumption DEF Types, Elems, Promotes
<1>2. (ops.deferred \/ here) => ops.batch.on /\ Job("plan", 0) \notin Elems(M) /\ ops.batch.left < plans
  BY Zenon DEF PlanMid
<1>3. p.in_flight \in Nat /\ p.in_flight = Cardinality(Promotes(M)) /\ ops.batch.left \in Nat /\ ops.batch.who \in Whos
  BY Zenon, <1>1 DEF CountOk, Pipes, Operations, Batches
<1>4. p.in_flight > 0 => Promotes(M) # {}
  <2>1. Promotes(M) = {} => Cardinality(Promotes(M)) = 0
    BY Zenon, <1>1 DEF Counting
  <2>2. ~(0 > 0)
    OBVIOUS
  <2> HIDE DEF M
  <2> QED BY <1>3, <2>1, <2>2, Zenon
<1>5. CASE ~ops.deferred /\ ~here
  <2>1. pipe' = p /\ call' = called /\ UNCHANGED <<ops, stack, plans>>
    BY <1>5, Zenon DEF Settle
  <2>2. Types'
    BY Zenon, <2>1 DEF Types
  <2>3. PlanOk(ops, plans, s, M)
    BY <1>5, Zenon DEF PlanMid, PlanOk
  <2> QED BY <2>1, <2>2, <2>3, Zenon DEF IInv
<1>6. CASE (ops.deferred \/ here) /\ p.in_flight > 0
  <2> DEFINE o == [ops EXCEPT !.deferred = TRUE]
  <2>1. ops' = o /\ pipe' = p /\ call' = called /\ UNCHANGED <<stack, plans>>
    BY Zenon, <1>6 DEF Settle, Held
  <2>2. /\ o \in Operations /\ o.deferred /\ o.batch = ops.batch /\ o.flying = ops.flying /\ o.slot = ops.slot
    BY <1>1, Zenon DEF Operations
  <2> HIDE DEF o, M, s
  <2>3. Types'
    BY <2>1, <2>2, Zenon DEF Types
  <2>4. PlanOk(o, plans, s, M)
    BY <1>2, <1>4, <1>6, <2>2, Zenon DEF PlanMid, PlanOk, M, s
  <2>5. SlotOk(p, o, s, M)
    BY <2>2, Zenon DEF SlotOk, M, s
  <2>6. ReplyOk(called, s, M, p, o)
    BY <2>2, Zenon DEF ReplyOk, M, s
  <2>7. ParkedOk(called, s, M, p, o)
    BY <2>2, Zenon DEF ParkedOk, Holds, M, s
  <2> QED BY <2>1, <2>3, <2>4, <2>5, <2>6, <2>7, Zenon DEF IInv, M, s
<1>7. CASE (ops.deferred \/ here) /\ p.in_flight = 0
  <2>1. ApplyPlan(p, called)
    BY <1>7 DEF Settle, Held
  <2>2. PICK ok \in BOOLEAN :
          /\ pipe' = p /\ ops' = u
          /\ plans' = IF ok THEN plans - 1 ELSE plans
          /\ stack' = IF ok /\ b.left > 0 THEN <<q>> \o s ELSE s
          /\ call' = [c \in Callers |-> IF c = b.who /\ ~(ok /\ b.left > 0) THEN "none" ELSE called[c]]
    BY <2>1, Zenon DEF ApplyPlan, Unbatched
  <2>3. plans' \in 0 .. MaxPlans /\ b.left <= plans' /\ b.left < plans
    <3>1. b.left < plans /\ b.left \in Nat /\ plans \in Nat
      BY <1>1, <1>2, <1>3, <1>7
    <3>2. plans - 1 \in 0 .. MaxPlans /\ b.left <= plans - 1 /\ b.left <= plans
      BY <1>1, <3>1, OneLess, Zenon
    <3> QED BY <1>1, <2>2, <3>1, <3>2, Zenon
  <2>4. u \in Operations /\ u.batch = NoBatch /\ ~u.flying /\ ~u.deferred /\ ~NoBatch.on
    BY <1>1, UnbatchedIs, Zenon DEF NoBatch
  <2>5. Job("plan", 0) \notin Elems(M) /\ ops.batch.on /\ \A t \in Elems(s) : t.op # "plan"
    BY <1>2, <1>7, Zenon DEF PlanMid
  <2>6. u.flying = FALSE /\ NoBatch.on = FALSE
    BY Zenon, <1>1 DEF Unbatched, Operations, NoBatch
  <2> HIDE DEF M, s, u
  <2>7. CASE ok /\ b.left > 0
    <3>1. stack' = <<q>> \o s
      BY <2>2, <2>7, Zenon
    <3>2. q \in Tasks /\ q.op = "plan" /\ q.who = b.who /\ q.left = b.left
      BY Zenon, <1>3 DEF Task, Tasks
    <3> HIDE DEF q
    <3>3. /\ ReplyOk(called, stack', M, p, u) /\ ParkedOk(called, stack', M, p, u) /\ SlotOk(p, u, stack', M)
          /\ StackOk(stack', M) /\ GcOk(p.gc, stack', M) /\ Unsent(stack') = Unsent(s) /\ stack' \in Seq(Tasks)
          /\ Elems(stack') = {q} \cup Elems(s)
      <4>1. q.op = "plan" /\ q.who = ops.batch.who /\ stack' = <<q>> \o stack /\ ops' = Unbatched(ops)
        BY <2>2, <3>1, <3>2, Zenon DEF s, u
      <4>2. /\ ReplyOk(called, stack', Line', p, ops') /\ ParkedOk(called, stack', Line', p, ops')
            /\ SlotOk(p, ops', stack', Line') /\ StackOk(stack', Line') /\ GcOk(p.gc, stack', Line')
            /\ Unsent(stack') = Unsent(stack) /\ stack' \in Seq(Tasks)
            /\ Elems(stack') = {q} \cup Elems(stack)
        BY <2>5, <3>2, <4>1, BatchGoesOn, Zenon
      <4> QED BY <2>2, <4>2, Zenon DEF M, s
    <3>4. call' = called
      BY <2>2, <2>7, Zenon
    <3>5. PlanOk(u, plans', stack', M)
      BY <2>3, <2>4, <2>5, <2>6, <3>2, <3>3, Zenon DEF PlanOk
    <3>6. Types'
      BY <2>2, <2>3, <2>4, <3>3, <3>4, Zenon DEF Types
    <3>7. WalOk(wal', wals', Unsent(stack'), Promotes(M), p.failed) /\ CountOk(p, M) /\ Once(M)
      BY <3>3, Zenon DEF M, s
    <3> QED BY <2>2, <3>3, <3>4, <3>5, <3>6, <3>7, Zenon DEF IInv, M
  <2>8. CASE ~(ok /\ b.left > 0)
    <3>1. stack' = s /\ call' = K
      BY <2>2, <2>8, Zenon
    <3>2. ReplyOk(K, s, M, p, u) /\ ParkedOk(K, s, M, p, u) /\ SlotOk(p, u, s, M)
      BY <1>1, <2>5, BatchEnds, Zenon DEF M, s, u
    <3>3. /\ K \in [Callers -> Calls] /\ \A c \in Callers : K[c] \in Asks[c] \cup {"none"}
      <4>1. "none" \in Calls
        BY Zenon DEF Calls
      <4>2. \A c \in Callers : K[c] = "none" \/ K[c] = called[c]
        BY Zenon
      <4>3. K \in [Callers -> Calls]
        <5>1. \A c \in Callers : called[c] \in Calls
          BY Zenon
        <5> QED BY <4>1, <5>1, Zenon
      <4> QED BY <4>2, <4>3, Zenon
    <3>4. PlanOk(u, plans', s, M)
      BY <2>4, <2>5, <2>6, Zenon DEF PlanOk
    <3> HIDE DEF K
    <3>5. Types'
      BY <1>1, <2>2, <2>3, <2>4, <3>1, <3>3, Zenon DEF Types
    <3>6. /\ WalOk(wal', wals', Unsent(s), Promotes(M), p.failed) /\ CountOk(p, M) /\ Once(M)
          /\ StackOk(s, M) /\ GcOk(p.gc, s, M)
      BY Zenon DEF M, s
    <3> QED BY <2>2, <3>1, <3>2, <3>4, <3>5, <3>6, Zenon DEF IInv, M
  <2> QED BY <2>7, <2>8, Zenon
<1> QED BY <1>3, <1>5, <1>6, <1>7

\* The result of a plan: held behind promotes, applied, or the end of its batch.
LEMMA IInvPlanResult ==
  ASSUME Counting, IInv, PlanResult
  PROVE  IInv'
<1> DEFINE L == Line
           M == Tail(Line)
           h == Head(Line)
           s == stack
           u == Unbatched(ops)
<1>1. /\ L # <<>> /\ Line' = M /\ h \in Jobs /\ h \in Elems(L) /\ M \in Seq(Jobs) /\ Once(M)
      /\ Elems(M) = Elems(L) \ {h} /\ results' \in Seq(Results) /\ Len(results') <= Capacity
      /\ StackOk(s, M) /\ h.kind = Head(results).kind /\ h.id = Head(results).id
      /\ s = <<>> \/ Head(s).op \notin Openings
  BY ReceiveFacts, Zenon DEF PlanResult
<1>2. /\ L \in Seq(Jobs) /\ Types /\ pipe \in Pipes /\ ops \in Operations /\ Elems(L) \subseteq Jobs /\ Nobody \notin Callers
      /\ PlanOk(ops, plans, s, L) /\ GcOk(pipe.gc, s, L) /\ ReplyOk(call, s, L, pipe, ops) /\ Elems(s) \subseteq Tasks
      /\ SlotOk(pipe, ops, s, L) /\ ParkedOk(call, s, L, pipe, ops) /\ CountOk(pipe, L) /\ Once(L)
      /\ WalOk(wal, wals, Unsent(s), Promotes(L), pipe.failed) /\ s \in Seq(Tasks)
  BY IInvFacts, Zenon DEF IInv
<1>3. h.kind = "plan" /\ h = Job("plan", 0) /\ h.kind \notin SlotKinds /\ h.kind # "promote"
  <2>1. h.kind = "plan"
    BY Zenon, <1>1 DEF PlanResult
  <2> QED BY <1>1, <2>1, JobShape
<1>4. /\ UNCHANGED <<wal, phase, jobs, running>> /\ wals' = wals
      /\ \/ Settle(pipe, call, TRUE)
         \/ ops' = [ops EXCEPT !.flying = FALSE, !.batch = NoBatch] /\ call' = Answered({ops.batch.who})
            /\ UNCHANGED <<pipe, stack, plans>>
  BY Zenon DEF PlanResult
<1> HIDE DEF L, M, h, s
<1>5. Promotes(M) = Promotes(L)
  BY <1>1, <1>3, PromotesReceive, Zenon
<1>6. GcOk(pipe.gc, s, M)
  BY <1>1, <1>2, <1>3, GcPass, Zenon DEF L, M, h
<1>7. CountOk(pipe, M) /\ WalOk(wal, wals, Unsent(s), Promotes(M), pipe.failed)
  BY <1>2, <1>5, Zenon DEF CountOk
<1>8. \A k \in SlotKinds, c \in Callers : Job(k, c) \in Elems(M) <=> Job(k, c) \in Elems(L)
  BY <1>1, <1>3, JobShape
<1>9. \A j \in Elems(L) : j.kind \in SlotKinds => j \in Elems(M)
  BY Zenon, <1>1, <1>3
<1>10. SlotOk(pipe, ops, s, M)
  <2>1. \A k \in Slots : ops.slot[k] # Nobody => ops.slot[k] \in Callers
    BY Zenon, <1>2 DEF Operations, Whos
  <2>2. Slots \subseteq SlotKinds /\ "segment" \in SlotKinds
    BY Zenon DEF SlotKinds
  <2>3. \A k \in Slots : ops.slot[k] # Nobody => Job(k, ops.slot[k]) \in Elems(M)
    BY <1>2, <1>8, <2>1, <2>2, Zenon DEF SlotOk
  <2> QED BY <1>1, <1>2, <1>8, <2>2, <2>3, Zenon DEF SlotOk
<1>11. ReplyOk(call, s, M, pipe, ops) /\ ParkedOk(call, s, M, pipe, ops)
  BY <1>1, <1>2, <1>5, <1>9, Zenon DEF ReplyOk, ParkedOk, Holds
<1>12. PlanMid(ops, plans, s, M, TRUE) /\ ops.batch.on /\ ~ops.deferred
  BY <1>1, <1>2, <1>3, Zenon DEF PlanOk, PlanMid
<1>13. Elems(M) \subseteq Jobs /\ wals \subseteq Epochs
  BY <1>1, <1>2, Zenon DEF Types
<1>14. CASE Settle(pipe, call, TRUE)
  <2>1. call \in [Callers -> Calls] /\ \A c \in Callers : call[c] \in Asks[c] \cup {"none"}
    BY <1>2, Zenon DEF Types
  <2> QED BY <1>1, <1>2, <1>4, <1>6, <1>7, <1>10, <1>11, <1>12, <1>13, <1>14, <2>1, IInvSettle, Zenon DEF s
<1>15. CASE /\ ops' = [ops EXCEPT !.flying = FALSE, !.batch = NoBatch] /\ call' = Answered({ops.batch.who})
            /\ UNCHANGED <<pipe, stack, plans>>
  <2> DEFINE K == [c \in Callers |-> IF c \in {ops.batch.who} THEN "none" ELSE call[c]]
  <2>1. ops' = u
    BY <1>2, <1>12, <1>15, Zenon DEF Unbatched, Operations
  <2>2. call' = K
    BY <1>2, <1>15, AnswerTypes
  <2>3. u \in Operations /\ u.batch = NoBatch /\ ~u.deferred
    BY <1>2, UnbatchedIs
  <2>4. u.flying = FALSE /\ NoBatch.on = FALSE
    BY <1>2, Zenon DEF Unbatched, Operations, NoBatch
  <2>5. ReplyOk(K, s, M, pipe, u) /\ ParkedOk(K, s, M, pipe, u) /\ SlotOk(pipe, u, s, M)
    BY <1>2, <1>10, <1>11, <1>12, <1>13, BatchEnds, Zenon
  <2> HIDE DEF u
  <2>6. Types'
    BY <1>1, <1>2, <1>4, <1>15, <2>1, <2>3, AnswerTypes, Zenon DEF Types
  <2>7. PlanOk(u, plans, s, M)
    BY <1>12, <2>3, <2>4, Zenon DEF PlanOk, PlanMid
  <2> QED BY <1>1, <1>4, <1>6, <1>7, <1>15, <2>1, <2>2, <2>5, <2>6, <2>7, Zenon DEF IInv, s
<1> QED BY <1>4, <1>14, <1>15, Zenon

-----------------------------------------------------------------------------
(* The result of a promote.                                                *)

\* Passing a promote keeps a parked checkpoint in its type.
LEMMA PassedIs ==
  ASSUME NEW g \in Parked, NEW e
  PROVE  /\ Passed(g, e) \in Parked /\ Passed(g, e).who = g.who /\ Passed(g, e).kind = g.kind
         /\ Passed(NoGc, e) = NoGc /\ NoGc \in Parked /\ NoGc.kind = "none" /\ NoGc.who = Nobody
<1> DEFINE d == g.due \ {e}
           l == IF g.left = 0 THEN 0 ELSE g.left - 1
<1>1. /\ g.kind \in {"none", "flush", "barrier"} /\ g.epoch \in Epochs \cup {0} /\ g.left \in Nat
      /\ g.who \in Whos /\ g.due \subseteq Epochs
  BY Zenon DEF Parked
<1>2. d \subseteq Epochs /\ l \in Nat
  BY <1>1
<1>3. Passed(g, e) = [g EXCEPT !.due = d, !.left = l]
  BY Zenon DEF Passed
<1> HIDE DEF d, l
<1>4. Passed(g, e) = [kind |-> g.kind, epoch |-> g.epoch, left |-> l, who |-> g.who, due |-> d]
  BY <1>3, Zenon DEF Parked
<1>5. Passed(g, e) \in Parked /\ Passed(g, e).who = g.who /\ Passed(g, e).kind = g.kind
  BY <1>1, <1>2, <1>4 DEF Parked
<1>6. NoGc \in Parked /\ NoGc.kind = "none" /\ NoGc.who = Nobody
  BY Zenon DEF NoGc, Parked, Whos
<1>7. Passed(NoGc, e) = NoGc
  <2>1. {} \ {e} = {}
    BY Zenon
  <2>2. Passed(NoGc, e) = [NoGc EXCEPT !.due = {} \ {e}, !.left = 0]
    BY Zenon DEF Passed, NoGc
  <2> QED BY <2>1, <2>2, Zenon DEF NoGc
<1> QED BY <1>5, <1>6, <1>7

\* A checkpoint that a promote's result does not answer keeps waiting for the rest.
LEMMA GcPromote ==
  ASSUME Counting, NEW g \in Parked, NEW s, NEW L \in Seq(Jobs), L # <<>>, Once(L), GcOk(g, s, L),
         Head(L).kind = "promote",
         ~(g.kind = "flush" /\ g.epoch = Head(L).id), ~(g.kind = "barrier" /\ g.left = 1)
  PROVE  GcOk(Passed(g, Head(L).id), s, Tail(L))
<1> DEFINE h == Passed(g, Head(L).id)
<1>1. h.kind = g.kind /\ (g = NoGc => h = NoGc) /\ NoGc.kind = "none"
  BY Zenon, PassedIs
<1>2. g.kind = "flush" => FlushOk(h, Unsent(s), Tail(L))
  BY FlushPromote, Zenon DEF GcOk
<1>3. g.kind = "barrier" => BarrierOk(h, Tail(L))
  BY BarrierPromote, Zenon DEF GcOk
<1> HIDE DEF h
<1>4. GcOk(h, s, Tail(L))
  BY <1>1, <1>2, <1>3, Zenon DEF GcOk
<1> QED BY <1>4, Zenon DEF h

\* A WAL whose promote came back is gone, or stashed.
LEMMA WalResult ==
  ASSUME NEW w, NEW ws, NEW S, NEW D, NEW f \in Seq(Epochs), WalOk(w, ws, S, D, f),
         NEW e \in D \cap Epochs, NEW ok \in BOOLEAN
  PROVE  WalOk(w, IF ok THEN ws \ {e} ELSE ws, S, D \ {e}, IF ok THEN f ELSE Append(f, e))
<1>1. e # w /\ e \notin S /\ e \notin Elems(f) /\ Once(f) /\ e # 0
  BY PipelineAssumption DEF WalOk, Epochs
<1>2. Elems(Append(f, e)) = Elems(f) \cup {e} /\ Once(Append(f, e))
  BY <1>1, AppendFacts
<1> DEFINE a == Append(f, e)
<1> HIDE DEF a
<1>3. WalOk(w, ws \ {e}, S, D \ {e}, f)
  BY <1>1, Zenon DEF WalOk
<1>4. WalOk(w, ws, S, D \ {e}, a)
  BY <1>1, <1>2 DEF WalOk, a
<1> QED BY <1>3, <1>4, Zenon DEF a

\* Answer, for a result that leaves the stack and the slots alone.
LEMMA AnswerNow ==
  ASSUME Types, NEW q \in Pipes, NEW A, ReplyOk(call, stack, Line', q, ops), Elems(Line') \subseteq Jobs,
         \A c \in A : c \in Callers => ~Holds(c, stack, Line', q, ops),
         \A c \in Callers : c \notin A /\ call[c] # "none" => Holds(c, stack, Line', q, ops)
  PROVE  ReplyOk(Answered(A), stack, Line', q, ops) /\ ParkedOk(Answered(A), stack, Line', q, ops)
<1>1. \A c \in Callers : \/ Answered(A)[c] = "none" /\ ~Holds(c, stack, Line', q, ops)
                         \/ Answered(A)[c] = call[c] /\ (call[c] # "none" => Holds(c, stack, Line', q, ops))
  BY Zenon DEF Answered
<1> QED BY <1>1, Answer, Zenon

\* A Line without the promote of e.
LEMMA PromoteGone ==
  ASSUME NEW L, NEW M, NEW e \in Epochs, Elems(M) = Elems(L) \ {Job("promote", e)}
  PROVE  /\ Promotes(M) = Promotes(L) \ {e} /\ Elems(M) \subseteq Elems(L)
         /\ \A j \in Elems(L) : j.kind \in SlotKinds => j \in Elems(M)
<1>1. \A d \in Epochs : Job("promote", d) = Job("promote", e) => d = e
  BY Zenon DEF Job
<1>2. Job("promote", e).kind = "promote" /\ "promote" \notin SlotKinds
  BY Zenon DEF Job, SlotKinds, Slots
<1> QED BY <1>1, <1>2, Zenon DEF Promotes

\* Those a promote's result answers, A, are parked on it and nowhere else.
LEMMA PromoteAnswers ==
  ASSUME IInv, NEW e \in Epochs, Elems(Line') = Elems(Line) \ {Job("promote", e)},
         NEW q \in Pipes, q.wal = pipe.wal \ {w \in pipe.wal : w.epoch = e},
         NEW sat \in BOOLEAN, sat => pipe.gc.kind # "none" /\ q.gc = NoGc, ~sat => q.gc.who = pipe.gc.who,
         NEW A, \A c : c \in A <=> ((\E w \in pipe.wal : w.epoch = e /\ w.who = c) \/ (sat /\ c = pipe.gc.who))
  PROVE  ReplyOk(Answered(A), stack, Line', q, ops) /\ ParkedOk(Answered(A), stack, Line', q, ops)
<1> DEFINE k == call
           s == stack
           L == Line
           M == Line'
           p == pipe
           o == ops
<1>0. /\ ReplyOk(k, s, L, p, o) /\ ParkedOk(k, s, L, p, o) /\ GcOk(p.gc, s, L) /\ Elems(s) \subseteq Tasks
      /\ Elems(L) \subseteq Jobs /\ Elems(M) = Elems(L) \ {Job("promote", e)} /\ p \in Pipes /\ Types
      /\ q.wal = p.wal \ {w \in p.wal : w.epoch = e}
      /\ (sat => p.gc.kind # "none" /\ q.gc = NoGc) /\ (~sat => q.gc.who = p.gc.who)
      /\ \A c : c \in A <=> ((\E w \in p.wal : w.epoch = e /\ w.who = c) \/ (sat /\ c = p.gc.who))
  BY IInvFacts, Zenon DEF IInv
<1> HIDE DEF k, s, L, M, p, o
<1>1. NoGc.who = Nobody /\ NoGc.kind = "none" /\ Nobody \notin Callers
  BY PipelineAssumption, Zenon DEF NoGc
<1>2. /\ Promotes(M) = Promotes(L) \ {e} /\ Elems(M) \subseteq Elems(L)
      /\ \A j \in Elems(L) : j.kind \in SlotKinds => j \in Elems(M)
  BY <1>0, PromoteGone, Zenon
<1>3. q.gc.who \in Callers => q.gc.who = p.gc.who
  BY <1>0, <1>1
<1>4. ReplyOk(k, s, M, q, o)
  <2>1. \A w \in q.wal : w \in p.wal /\ w.epoch # e
    BY <1>0, Zenon
  <2> QED BY <1>0, <1>2, <1>3, <2>1, Zenon DEF ReplyOk
<1>5. ASSUME NEW c \in A, c \in Callers PROVE ~Holds(c, s, M, q, o)
  <2>1. CASE \E w \in p.wal : w.epoch = e /\ w.who = c
    <3>1. PICK w \in p.wal : w.epoch = e /\ w.who = c
      BY <2>1
    <3>2. k[c] = "wal" /\ \A t \in Elems(s) : t.who # c
      BY <1>0, <3>1 DEF ReplyOk
    <3>3. \A v \in q.wal : v.who # c
      BY <1>0, <3>1, Zenon DEF ReplyOk
    <3>4. /\ p.gc.who \in Callers => k[p.gc.who] = "checkpoint"
          /\ o.batch.who \in Callers => k[o.batch.who] = "handoffs"
      BY <1>0, Zenon DEF ReplyOk
    <3>5. q.gc.who # c /\ o.batch.who # c
      <4>1. k[c] # "checkpoint" /\ k[c] # "handoffs"
        BY Zenon, <3>2
      <4> QED BY <1>3, <1>5, <3>4, <4>1, Zenon
    <3>6. \A j \in Elems(M) : ~(j.kind \in SlotKinds /\ j.id = c)
      BY <1>4, <3>2, Zenon DEF ReplyOk, SlotKinds, Slots
    <3> QED BY <3>2, <3>3, <3>5, <3>6, Zenon DEF Holds
  <2>2. CASE sat /\ c = p.gc.who
    <3>1. k[c] = "checkpoint"
      BY <1>0, <1>5, <2>2, Zenon DEF ReplyOk
    <3>2. \A t \in Elems(s) : t.who # c
      <4> SUFFICES ASSUME NEW t \in Elems(s), t.who = c PROVE FALSE
        BY Zenon
      <4>1. t \in Tasks /\ AskOf(t) = "checkpoint"
        BY <1>0, <1>5, <3>1, Zenon DEF ReplyOk
      <4>2. t.op = "send" => t.job.kind # "checkpoint"
        BY <4>1, Zenon DEF Tasks, Jobs, SlotKinds, Slots, Openings
      <4>3. t.op = "checkpoint"
        BY <4>1, <4>2 DEF AskOf
      <4> QED BY <1>0, <1>1, <2>2, <4>3, Zenon DEF GcOk
    <3>3. \A v \in q.wal : v.who # c
      BY <1>0, <3>1, Zenon DEF ReplyOk
    <3>4. q.gc.who # c /\ o.batch.who # c
      BY <1>0, <1>1, <1>5, <2>2, <3>1, Zenon DEF ReplyOk
    <3>5. \A j \in Elems(M) : ~(j.kind \in SlotKinds /\ j.id = c)
      BY <1>4, <3>1, Zenon DEF ReplyOk, SlotKinds, Slots
    <3> QED BY <3>2, <3>3, <3>4, <3>5 DEF Holds
  <2> QED BY <1>0, <1>5, <2>1, <2>2, Zenon
<1>6. ASSUME NEW c \in Callers, c \notin A, k[c] # "none" PROVE Holds(c, s, M, q, o)
  <2>1. Holds(c, s, L, p, o)
    BY <1>0, <1>6, Zenon DEF ParkedOk
  <2>2. \A w \in p.wal : w.who = c => w \in q.wal
    BY <1>0, <1>6, Zenon
  <2>3. p.gc.who = c => q.gc.who = c
    BY <1>0, <1>6
  <2> QED BY <1>2, <2>1, <2>2, <2>3, Zenon DEF Holds
<1>7. \A c \in A : c \in Callers => ~Holds(c, s, M, q, o)
  BY <1>5, Zenon
<1>8. \A c \in Callers : c \notin A /\ k[c] # "none" => Holds(c, s, M, q, o)
  BY <1>6
<1>9. Elems(M) \subseteq Jobs
  BY <1>0, <1>2, Zenon
<1> QED BY <1>0, <1>4, <1>7, <1>8, <1>9, AnswerNow, Zenon DEF k, s, M, o

\* The result of a promote: it leaves the Line and the counters, its WAL goes or
\* is stashed, those it answers stop waiting, and a held plan may follow.
LEMMA IInvPromoteResult ==
  ASSUME Counting, IInv, PromoteResult
  PROVE  IInv'
<1> DEFINE L == Line
           M == Tail(Line)
           h == Head(Line)
           e == Head(Line).id
           s == stack
           r == Head(results)
           mine == {w \in pipe.wal : w.epoch = r.id}
           sat == Satisfies(r)
           f == Stashed(r)
           g == IF sat THEN NoGc ELSE Passed(pipe.gc, r.id)
           p == [pipe EXCEPT !.in_flight = @ - 1, !.lag = @ - 1, !.wal = @ \ mine, !.failed = f, !.gc = g]
           A == {w.who : w \in mine} \cup (IF sat THEN {pipe.gc.who} ELSE {})
           called == Answered(A)
<1>1. /\ L # <<>> /\ Line' = M /\ h \in Jobs /\ h \in Elems(L) /\ M \in Seq(Jobs) /\ Once(M)
      /\ Elems(M) = Elems(L) \ {h} /\ results' \in Seq(Results) /\ Len(results') <= Capacity
      /\ StackOk(s, M) /\ h.kind = r.kind /\ h.id = r.id /\ r.ok \in BOOLEAN
      /\ s = <<>> \/ Head(s).op \notin Openings
  BY ReceiveFacts, Zenon DEF PromoteResult
<1>2. /\ L \in Seq(Jobs) /\ Types /\ pipe \in Pipes /\ ops \in Operations /\ Elems(L) \subseteq Jobs /\ Nobody \notin Callers
      /\ PlanOk(ops, plans, s, L) /\ GcOk(pipe.gc, s, L) /\ ReplyOk(call, s, L, pipe, ops) /\ Elems(s) \subseteq Tasks
      /\ SlotOk(pipe, ops, s, L) /\ ParkedOk(call, s, L, pipe, ops) /\ CountOk(pipe, L) /\ Once(L)
      /\ WalOk(wal, wals, Unsent(s), Promotes(L), pipe.failed) /\ s \in Seq(Tasks) /\ Promotes(L) \subseteq Epochs
  BY IInvFacts, Zenon DEF IInv
<1>3. /\ UNCHANGED <<wal, phase, jobs, running>> /\ wals' = IF r.ok THEN wals \ {e} ELSE wals
      /\ Settle(p, called, FALSE) /\ r.kind = "promote"
  <2>1. Settle(p, called, FALSE)
    BY Zenon DEF PromoteResult
  <2>2. wals' = IF r.ok THEN wals \ {r.id} ELSE wals
    BY Zenon DEF PromoteResult
  <2>3. UNCHANGED <<wal, phase, jobs, running>> /\ r.kind = "promote"
    BY Zenon DEF PromoteResult
  <2> HIDE DEF p, called
  <2> QED BY <1>1, <2>1, <2>2, <2>3, Zenon
<1>4. h.kind = "promote" /\ h = Job("promote", e) /\ e \in Epochs /\ e \in Promotes(L) /\ r.id = e
  <2>1. h.kind = "promote"
    BY <1>1, <1>3, Zenon
  <2>2. h = Job("promote", e) /\ e \in Epochs
    BY <1>1, <2>1, JobShape, Zenon
  <2> QED BY <1>1, <2>1, <2>2 DEF Promotes
<1>5. sat \in BOOLEAN /\ (sat => pipe.gc.kind # "none")
      /\ (~sat => ~(pipe.gc.kind = "flush" /\ pipe.gc.epoch = e) /\ ~(pipe.gc.kind = "barrier" /\ pipe.gc.left = 1))
  BY <1>4, Zenon DEF Satisfies
<1>6. f = IF r.ok THEN pipe.failed ELSE Append(pipe.failed, e)
  BY <1>4, Zenon DEF Stashed
<1>7. /\ pipe.gc \in Parked /\ pipe.failed \in Seq(Epochs) /\ pipe.wal \subseteq [epoch : Epochs, who : Callers]
      /\ pipe.in_flight \in Nat /\ pipe.lag \in Nat /\ pipe.segments \subseteq Callers
  BY <1>2, Zenon DEF Pipes
<1>8. f \in Seq(Epochs) /\ g \in Parked
  <2>1. f \in Seq(Epochs)
    <3>1. Append(pipe.failed, e) \in Seq(Epochs)
      <4> HIDE DEF e
      <4> QED BY <1>4, <1>7
    <3> QED BY <1>6, <1>7, <3>1, Zenon
  <2> QED BY <1>7, <2>1, PassedIs, Zenon
<1>9. pipe.in_flight = Cardinality(Promotes(L)) /\ pipe.lag = pipe.in_flight /\ Cardinality(Promotes(L)) > 0
      /\ Cardinality(Promotes(L) \ {e}) = Cardinality(Promotes(L)) - 1
  <2> DEFINE D == Promotes(L)
  <2>1. D \subseteq Epochs /\ e \in D /\ e \in Epochs
    BY <1>2, <1>4, Zenon
  <2>2. pipe.in_flight = Cardinality(D) /\ pipe.lag = pipe.in_flight
    BY Zenon, <1>2 DEF CountOk
  <2> HIDE DEF D, e
  <2>3. Cardinality(D) > 0 /\ Cardinality(D \ {e}) = Cardinality(D) - 1
    BY <2>1, CountOne, Zenon
  <2> QED BY Zenon, <2>2, <2>3 DEF D, e
<1>10. (sat => g = NoGc) /\ (~sat => g.who = pipe.gc.who)
  BY <1>7, PassedIs, Zenon
<1> HIDE DEF f, g, L, M, h, e, s, r
<1>11. /\ p \in Pipes /\ p.in_flight = pipe.in_flight - 1 /\ p.lag = pipe.lag - 1 /\ p.failed = f /\ p.gc = g
       /\ p.wal = pipe.wal \ mine /\ p.segments = pipe.segments
  <2>1. pipe.in_flight - 1 \in Nat /\ pipe.lag - 1 \in Nat
    BY <1>7, <1>9
  <2>2. pipe.wal \ mine \subseteq [epoch : Epochs, who : Callers]
    BY Zenon, <1>7
  <2> DEFINE i == pipe.in_flight - 1
             l == pipe.lag - 1
             w == pipe.wal \ mine
  <2>3. p = [pipe EXCEPT !.in_flight = i, !.lag = l, !.wal = w, !.failed = f, !.gc = g]
    BY Zenon
  <2> HIDE DEF i, l, w
  <2> HIDE DEF p
  <2>4. i \in Nat /\ l \in Nat /\ w \subseteq [epoch : Epochs, who : Callers]
    BY Zenon, <2>1, <2>2 DEF i, l, w
  <2>5. p \in Pipes
    BY <1>2, <1>8, <2>3, <2>4, Zenon DEF Pipes
  <2>6. p.in_flight = i /\ p.lag = l /\ p.failed = f /\ p.gc = g /\ p.wal = w /\ p.segments = pipe.segments
    BY <1>2, <2>3 DEF Pipes
  <2> QED BY <2>5, <2>6, Zenon DEF i, l, w
<1>12. Promotes(M) = Promotes(L) \ {e}
  BY <1>1, <1>4, PromotesReceive DEF e, h
<1>13. CountOk(p, M)
  BY <1>9, <1>11, <1>12, Zenon DEF CountOk
<1>14. WalOk(wal, wals', Unsent(s), Promotes(M), p.failed)
  <2>1. e \in Promotes(L) \cap Epochs
    BY <1>2, <1>4
  <2>2. WalOk(wal, IF r.ok THEN wals \ {e} ELSE wals, Unsent(s), Promotes(L) \ {e},
              IF r.ok THEN pipe.failed ELSE Append(pipe.failed, e))
    BY <1>1, <1>2, <1>7, <2>1, WalResult, Zenon
  <2> HIDE DEF p
  <2> QED BY <1>3, <1>6, <1>11, <1>12, <2>2, Zenon
<1>15. wals' \subseteq Epochs
  BY <1>2, <1>3 DEF Types
<1>16. GcOk(p.gc, s, M)
  <2>1. CASE sat
    <3>1. p.gc = NoGc /\ NoGc.kind = "none"
      BY <1>7, <1>10, <1>11, <2>1, PassedIs
    <3> QED BY Zenon, <3>1 DEF GcOk
  <2>2. CASE ~sat
    <3>1. g = Passed(pipe.gc, e)
      BY Zenon, <1>4, <2>2 DEF g
    <3>2. GcOk(Passed(pipe.gc, e), s, M)
      BY <1>1, <1>2, <1>4, <1>5, <1>7, <2>2, GcPromote, Zenon DEF L, M, h, e
    <3> QED BY <1>11, <3>1, <3>2, Zenon
  <2> QED BY <2>1, <2>2
<1>17. PlanMid(ops, plans, s, M, FALSE)
  <2>1. Job("plan", 0) \in Elems(M) <=> Job("plan", 0) \in Elems(L)
    BY <1>1, <1>4, JobShape
  <2> QED BY <1>2, <2>1, Zenon DEF PlanOk, PlanMid
<1>18. SlotOk(p, ops, s, M)
  <2>1. \A k, c : k # "promote" => (Job(k, c) \in Elems(M) <=> Job(k, c) \in Elems(L))
    BY <1>1, <1>4, JobShape
  <2>2. "promote" \notin Slots
    BY Zenon DEF Slots
  <2> QED BY <1>1, <1>2, <1>11, <2>1, <2>2, Zenon DEF SlotOk
<1>19. /\ called \in [Callers -> Calls] /\ \A c \in Callers : called[c] \in Asks[c] \cup {"none"}
       /\ called = [c \in Callers |-> IF c \in A THEN "none" ELSE call[c]]
  <2>1. Types
    BY <1>2, Zenon
  <2> HIDE DEF A
  <2> QED BY <2>1, AnswerTypes, Zenon
<1>20. ReplyOk(called, s, M, p, ops) /\ ParkedOk(called, s, M, p, ops)
  <2>1. Elems(Line') = Elems(Line) \ {Job("promote", e)}
    BY Zenon, <1>1, <1>4 DEF L
  <2>2. p.wal = pipe.wal \ {w \in pipe.wal : w.epoch = e}
    <3> HIDE DEF p
    <3> QED BY <1>4, <1>11, Zenon
  <2>3. \A c : c \in A <=> ((\E w \in pipe.wal : w.epoch = e /\ w.who = c) \/ (sat /\ c = pipe.gc.who))
    <3> HIDE DEF sat
    <3> QED BY <1>4, <1>5, Zenon
  <2> HIDE DEF A, p, sat
  <2>4. (sat => pipe.gc.kind # "none" /\ p.gc = NoGc) /\ (~sat => p.gc.who = pipe.gc.who)
    BY <1>5, <1>10, <1>11, SMTT(30)
  <2>5. ReplyOk(Answered(A), stack, Line', p, ops) /\ ParkedOk(Answered(A), stack, Line', p, ops)
    BY <1>4, <1>5, <1>11, <2>1, <2>2, <2>3, <2>4, PromoteAnswers
  <2> QED BY <1>1, <2>5, Zenon DEF s
<1> HIDE DEF p, called
<1> QED BY <1>1, <1>2, <1>3, <1>11, <1>13, <1>14, <1>15, <1>16, <1>17, <1>18, <1>19, <1>20, IInvSettle, Zenon DEF s

-----------------------------------------------------------------------------
(* Counting.                                                              *)

\* Sets of epochs are finite.
LEMMA EpochsFinite ==
  /\ IsFiniteSet(Epochs) /\ Cardinality(Epochs) = MaxEpochs
  /\ \A D : D \subseteq Epochs => IsFiniteSet(D) /\ Cardinality(D) \in 0 .. MaxEpochs
<1>1. MaxEpochs \in Nat /\ MaxEpochs >= 1
  BY PipelineAssumption
<1>2. IsFiniteSet(1 .. MaxEpochs) /\ Cardinality(1 .. MaxEpochs) = MaxEpochs
  BY <1>1, FS_Interval
<1>3. ASSUME NEW D, D \subseteq Epochs PROVE IsFiniteSet(D) /\ Cardinality(D) \in 0 .. MaxEpochs
  <2>1. IsFiniteSet(D) /\ Cardinality(D) <= MaxEpochs
    BY ZenonT(30), <1>2, <1>3, FS_Subset DEF Epochs
  <2>2. Cardinality(D) \in Nat
    BY <2>1, FS_CardinalityType
  <2> QED BY <1>1, <2>1, <2>2
<1> QED BY <1>2, <1>3 DEF Epochs

\* Counting is true: it says of sets of epochs what holds of finite sets.
LEMMA EpochsCount == Counting
<1> SUFFICES ASSUME NEW D \in SUBSET Epochs
             PROVE  /\ Cardinality(D) \in Nat
                    /\ Cardinality(D) = 0 <=> D = {}
                    /\ \A C \in SUBSET D : Cardinality(C) <= Cardinality(D)
                    /\ \A e \in Epochs :
                         /\ e \notin D => Cardinality(D \cup {e}) = Cardinality(D) + 1
                         /\ e \in D => Cardinality(D) > 0 /\ Cardinality(D \ {e}) = Cardinality(D) - 1
                         /\ Cardinality(D) = 1 /\ e \in D => D = {e}
  BY Zenon DEF Counting
<1>1. IsFiniteSet(D) /\ Cardinality(D) \in Nat
  BY EpochsFinite
<1>2. \A C \in SUBSET D : Cardinality(C) <= Cardinality(D)
  BY Zenon, <1>1, FS_Subset
<1>3. Cardinality(D) = 0 <=> D = {}
  BY Zenon, <1>1, FS_EmptySet
<1>4. ASSUME NEW e \in Epochs
      PROVE  /\ e \notin D => Cardinality(D \cup {e}) = Cardinality(D) + 1
             /\ e \in D => Cardinality(D) > 0 /\ Cardinality(D \ {e}) = Cardinality(D) - 1
             /\ Cardinality(D) = 1 /\ e \in D => D = {e}
  <2>1. e \notin D => Cardinality(D \cup {e}) = Cardinality(D) + 1
    BY Zenon, <1>1, FS_AddElement
  <2>2. e \in D => IsFiniteSet(D \ {e}) /\ Cardinality(D \ {e}) = Cardinality(D) - 1
    BY Zenon, <1>1, FS_RemoveElement
  <2>3. e \in D => Cardinality(D) > 0
    BY <1>1, <1>3
  <2>4. ASSUME Cardinality(D) = 1, e \in D PROVE D = {e}
    <3>1. IsFiniteSet(D \ {e}) /\ Cardinality(D \ {e}) = 0
      BY <1>1, <2>2, <2>4
    <3>2. D \ {e} = {}
      BY Zenon, <3>1, FS_EmptySet
    <3> QED BY Zenon, <2>4, <3>2
  <2> QED BY <2>1, <2>2, <2>3, <2>4
<1> QED BY ZenonT(30), <1>1, <1>2, <1>3, <1>4

-----------------------------------------------------------------------------
(* The invariant.                                                          *)

\* A caller may be waiting for nothing.
LEMMA NoCall == "none" \in Calls
<1>1. \A X : "none" \in X \cup {"none"}
  BY Zenon
<1> QED BY <1>1, Zenon DEF Calls

\* The pipeline starts with nothing written, queued, parked or stashed.
LEMMA IInvInit == Init => IInv
<1> SUFFICES ASSUME Init PROVE IInv
  BY Zenon
<1> USE DEF Init
<1>1. Types
  <2>1. /\ wal \in Epochs \cup {0} /\ wals \subseteq Epochs /\ plans \in 0 .. MaxPlans
        /\ phase \in {"open", "closing", "exited"} /\ stack \in Seq(Tasks)
        /\ jobs \in Seq(Jobs) /\ running \in Jobs \cup {NoJob} /\ results \in Seq(Results)
    BY PipelineAssumption
  <2>2. Len(jobs) <= Capacity /\ Len(results) <= Capacity
    BY PipelineAssumption
  <2>3. NoGc \in Parked /\ NoBatch \in Batches
    BY Zenon DEF NoGc, Parked, NoBatch, Batches, Whos
  <2>4. pipe \in Pipes
    BY <2>3 DEF Pipes
  <2>5. ops \in Operations
    BY Zenon, <2>3 DEF Operations, Whos
  <2>6. call \in [Callers -> Calls] /\ \A c \in Callers : call[c] \in Asks[c] \cup {"none"}
    BY Zenon, NoCall
  <2> QED BY <2>1, <2>2, <2>4, <2>5, <2>6 DEF Types
<1>2. Line \in Seq(Jobs) /\ Len(Line) = 0
  <2>1. Line \in Seq(Jobs) /\ Len(Line) = Len(results) + Busy(running) + Len(jobs)
    BY Zenon, <1>1, LineType DEF Types, Line
  <2> QED BY <2>1 DEF Busy
<1>3. Line = <<>> /\ Elems(Line) = {} /\ Once(Line) /\ Promotes(Line) = {}
  <2>1. Line = <<>>
    BY <1>2
  <2>2. Elems(Line) = {}
    BY Zenon, <2>1, ShortElems
  <2>3. Once(Line)
    BY <1>2 DEF Once
  <2> QED BY <2>1, <2>2, <2>3 DEF Promotes
<1>4. Elems(stack) = {} /\ Unsent(stack) = {} /\ StackOk(stack, Line)
  BY Zenon, EmptyStack
<1>5. /\ pipe.in_flight = 0 /\ pipe.lag = 0 /\ pipe.gc = NoGc /\ pipe.wal = {} /\ pipe.segments = {}
      /\ pipe.failed = <<>> /\ Elems(pipe.failed) = {} /\ Once(pipe.failed)
  BY ShortElems DEF Once
<1>6. /\ ops.batch = NoBatch /\ ops.flying = FALSE /\ ops.deferred = FALSE /\ \A k \in Slots : ops.slot[k] = Nobody
      /\ NoBatch.on = FALSE /\ NoBatch.who = Nobody /\ NoGc.kind = "none" /\ NoGc.who = Nobody /\ Nobody \notin Callers
      /\ wal = 0 /\ wals = {} /\ \A c \in Callers : call[c] = "none"
  BY Zenon, PipelineAssumption DEF NoBatch, NoGc
<1>7. Cardinality(Promotes(Line)) = 0
  BY Zenon, <1>3, FS_EmptySet
<1> USE DEF Init
<1>8. WalOk(wal, wals, Unsent(stack), Promotes(Line), pipe.failed)
  BY Zenon, <1>3, <1>4, <1>5, <1>6 DEF WalOk
<1>9. CountOk(pipe, Line) /\ GcOk(pipe.gc, stack, Line)
  BY Zenon, <1>4, <1>5, <1>6, <1>7 DEF CountOk, GcOk
<1>10. PlanOk(ops, plans, stack, Line) /\ SlotOk(pipe, ops, stack, Line)
  BY ZenonT(30), <1>3, <1>4, <1>5, <1>6 DEF PlanOk, SlotOk
<1>11. ReplyOk(call, stack, Line, pipe, ops) /\ ParkedOk(call, stack, Line, pipe, ops)
  BY <1>3, <1>4, <1>5, <1>6 DEF ReplyOk, ParkedOk
<1> QED BY <1>1, <1>3, <1>4, <1>8, <1>9, <1>10, <1>11 DEF IInv

\* Every step of the actor, of its clients and of the worker preserves IInv.
LEMMA IInvNext == IInv /\ [Next]_vars => IInv'
<1> SUFFICES ASSUME IInv, [Next]_vars PROVE IInv'
  BY Zenon
<1>1. CASE GuestWrite \/ EmitPlan \/ WorkerTakes \/ WorkerAnswers
  BY <1>1, IInvGuestWrite, IInvEmitPlan, IInvWorkerTakes, IInvWorkerAnswers
<1>2. CASE Shutdown \/ Exit
  BY <1>2, IInvShutdown
<1>3. CASE CheckPromote \/ IdleTick \/ \E c \in Callers : CallPromoteWal(c) \/ CallCheckpoint(c)
  BY <1>3, IInvBegins
<1>4. CASE \E c \in Callers : CallHandoffs(c)
  BY Zenon, <1>4, IInvCallHandoffs
<1>5. CASE \E c \in Callers : \E k \in Asks[c] \cap (Slots \cup {"segment"}) : CallSlot(c, k)
  BY <1>5, IInvCallSlot DEF SlotKinds
<1>6. CASE Step
  BY <1>6, EpochsCount, IInvSendJob, IInvNextHandoff, IInvPromote, IInvPromoteWal, IInvStartCheckpoint DEF Step
<1>7. CASE Handle
  BY <1>7, EpochsCount, IInvPromoteResult, IInvPlanResult, IInvSlotResult DEF Handle
<1>8. CASE UNCHANGED vars
  <2>1. UNCHANGED <<files, stack, worker, pipe, ops, call>> /\ phase' \in {"open", "closing", "exited"}
    BY <1>8 DEF vars, IInv, Types
  <2> QED BY <2>1, IInvStutter, SMTT(30)
<1>9. Request => \/ CheckPromote \/ Shutdown
                 \/ \E c \in Callers : CallPromoteWal(c) \/ CallCheckpoint(c)
                 \/ \E c \in Callers : CallHandoffs(c)
                 \/ \E c \in Callers : \E k \in Asks[c] \cap (Slots \cup {"segment"}) : CallSlot(c, k)
  BY Zenon DEF Request
<1> QED BY <1>1, <1>2, <1>3, <1>4, <1>5, <1>6, <1>7, <1>8, <1>9 DEF Next

\* Every reachable state of the pipeline satisfies IInv.
LEMMA PipelineInvariant == Spec => []IInv
<1> QED BY IInvInit, IInvNext, PTL DEF Spec

\* A GC checkpoint answered with success has seen every promote that was in
\* flight when it came, for any number of promotes and any channel capacity
\* (start_gc_checkpoint, take_satisfied_gc_checkpoint): the Line keeps the order
\* of dispatch, so what is due comes first.
THEOREM CheckpointsCover == Spec => []CheckpointCovers
<1>1. IInv => CheckpointCovers
  BY Zenon, EpochsCount, InvCovers
<1> QED BY <1>1, PipelineInvariant, PTL

\* A caller that waits is parked on a job the worker has, on promotes in flight
\* or on a plan at the worker or behind one, whatever failed, was retried or was
\* handled under a nested dispatch: no reply of the actor is lost.
THEOREM NobodyIsForgotten == Spec => []NobodyForgotten
<1>1. IInv => NobodyForgotten
  BY EpochsCount, InvAwaits
<1> QED BY <1>1, PipelineInvariant, PTL

\* Never two plans are on the stack, at the worker or held back, so no scan of
\* gc/ deletes the scratch output of a plan that is out (scan_plan_handoffs).
THEOREM PlansAreSingle == Spec => []OnePlan
<1>1. IInv => OnePlan
  <2> SUFFICES ASSUME IInv PROVE OnePlan
    BY Zenon
  <2> DEFINE P == {t \in Elems(stack) : t.op = "plan"}
  <2>1. /\ Types /\ StackOk(stack, Line) /\ PlanOk(ops, plans, stack, Line)
        /\ (PlanAtWorker <=> Job("plan", 0) \in Elems(Line))
    BY ViewsAre, SMTT(30) DEF IInv
  <2>2. \A t, u \in P : t = u
    BY <2>1 DEF StackOk, Apart, Elems
  <2>3. P # {} => ~PlanAtWorker /\ ~ops.deferred
    BY Zenon, <2>1 DEF PlanOk
  <2>4. ~(PlanAtWorker /\ ops.deferred)
    BY Zenon, <2>1 DEF PlanOk
  <2>5. P = {} => Cardinality(P) = 0
    BY Zenon, FS_EmptySet
  <2>6. P # {} => Cardinality(P) = 1
    <3> SUFFICES ASSUME NEW t \in P PROVE Cardinality(P) = 1
      BY Zenon
    <3>1. P = {t}
      BY Zenon, <2>2
    <3> QED BY <3>1, FS_Singleton, Zenon
  <2> HIDE DEF P
  <2>7. Cardinality(P) + (IF PlanAtWorker THEN 1 ELSE 0) + (IF ops.deferred THEN 1 ELSE 0) <= 1
    BY <2>3, <2>4, <2>5, <2>6
  <2> QED BY Zenon, <2>7 DEF OnePlan, P
<1> QED BY <1>1, PipelineInvariant, PTL

\* When nothing is counted as in flight, the worker holds no job and no result,
\* no plan is held back and no caller waits: the shutdown may leave the loop
\* (work_in_flight, shutdown_worker).
THEOREM ExitIsDrained == Spec => []ExitDrained
<1>1. IInv => ExitDrained
  BY Zenon, EpochsCount, InvDrained
<1> QED BY <1>1, PipelineInvariant, PTL

\* A sequence that repeats nothing has as many elements as it is long.
LEMMA OnceLength ==
  ASSUME NEW S, NEW f \in Seq(S), Once(f)
  PROVE  Cardinality(Elems(f)) = Len(f)
<1>1. Len(f) \in Nat /\ DOMAIN f = 1 .. Len(f) /\ f \in [1 .. Len(f) -> Elems(f)]
  BY DEF Elems
<1>2. /\ \A a, b \in 1 .. Len(f) : f[a] = f[b] => a = b
      /\ \A t \in Elems(f) : \E i \in 1 .. Len(f) : f[i] = t
  BY Zenon, <1>1 DEF Once, Elems
<1>3. ExistsBijection(1 .. Len(f), Elems(f))
  BY <1>1, <1>2 DEF ExistsBijection, Bijection, Injection, Surjection, IsInjective
<1> QED BY <1>1, <1>3, FS_CountingElements

\* Disjoint sets are counted one by one.
LEMMA CountDisjoint ==
  ASSUME NEW S, NEW T, IsFiniteSet(S), IsFiniteSet(T), S \cap T = {}
  PROVE  IsFiniteSet(S \cup T) /\ Cardinality(S \cup T) = Cardinality(S) + Cardinality(T)
<1>1. /\ IsFiniteSet(S \cup T)
      /\ Cardinality(S \cup T) = Cardinality(S) + Cardinality(T) - Cardinality(S \cap T)
  BY Zenon, FS_Union
<1>2. Cardinality(S \cap T) = 0 /\ Cardinality(S) \in Nat /\ Cardinality(T) \in Nat
  BY FS_EmptySet, FS_CardinalityType
<1> QED BY <1>1, <1>2

\* Every WAL file is open, about to be dispatched, at the worker or stashed, and
\* in one of these only, for any number of WALs: none is forgotten until the next
\* open, and none is promoted twice under one ULID (PromotePipeline).
THEOREM WalsAreAccounted == Spec => []WalsAccounted
<1>1. IInv => WalsAccounted
  <2> SUFFICES ASSUME IInv PROVE WalsAccounted
    BY Zenon
  <2> DEFINE W == {wal} \ {0}
             S == Unsent(stack)
             D == Promotes(Line)
             F == Elems(pipe.failed)
  <2>1. /\ Types /\ WalOk(wal, wals, S, D, pipe.failed) /\ CountOk(pipe, Line) /\ pipe.failed \in Seq(Epochs)
        /\ D \subseteq Epochs /\ S \subseteq Epochs /\ 0 \notin Epochs
    BY Zenon, IInvFacts DEF IInv, Pipes
  <2>2. Dispatched = D /\ Sends = S
    BY <2>1, ViewsAre
  <2>3. W \subseteq Epochs /\ F \subseteq Epochs
    BY <2>1 DEF Types, Elems
  <2>4. TypeOK
    <3>1. Cardinality(D) \in 0 .. MaxEpochs
      BY Zenon, <2>1, EpochsFinite
    <3>2. pipe.in_flight = Cardinality(D) /\ pipe.lag = pipe.in_flight
      BY Zenon, <2>1 DEF CountOk
    <3> HIDE DEF D
    <3>3. pipe.in_flight \in 0 .. MaxEpochs /\ pipe.lag \in 0 .. MaxEpochs
      BY Zenon, <3>1, <3>2
    <3> QED BY Zenon, <2>1, <3>3 DEF TypeOK, Types
  <2>5. /\ wals = W \cup S \cup D \cup F
        /\ W \cap S = {} /\ (W \cup S) \cap D = {} /\ (W \cup S \cup D) \cap F = {} /\ Once(pipe.failed)
    BY Zenon, <2>1 DEF WalOk
  <2>6. Cardinality(F) = Len(pipe.failed)
    BY <2>1, <2>5, OnceLength, SMTT(30)
  <2> HIDE DEF W, S, D, F
  <2>7. /\ IsFiniteSet(W) /\ IsFiniteSet(S) /\ IsFiniteSet(D) /\ IsFiniteSet(F)
        /\ Cardinality(W) \in Nat /\ Cardinality(S) \in Nat /\ Cardinality(D) \in Nat /\ Cardinality(F) \in Nat
    BY <2>1, <2>3, EpochsFinite
  <2>9. IsFiniteSet(W \cup S) /\ Cardinality(W \cup S) = Cardinality(W) + Cardinality(S)
    BY ZenonT(30), <2>5, <2>7, CountDisjoint
  <2>10. IsFiniteSet(W \cup S \cup D) /\ Cardinality(W \cup S \cup D) = Cardinality(W) + Cardinality(S) + Cardinality(D)
    <3> DEFINE T == W \cup S
    <3>1. IsFiniteSet(T) /\ Cardinality(T) \in Nat /\ T \cap D = {}
      BY <2>5, <2>7, <2>9
    <3> HIDE DEF T
    <3>2. IsFiniteSet(T \cup D) /\ Cardinality(T \cup D) = Cardinality(T) + Cardinality(D)
      BY Zenon, <2>7, <3>1, CountDisjoint
    <3> QED BY Zenon, <2>9, <3>2 DEF T
  <2>11. Cardinality(wals) = Cardinality(W) + Cardinality(S) + Cardinality(D) + Cardinality(F)
    <3> DEFINE T == W \cup S \cup D
    <3>1. IsFiniteSet(T) /\ Cardinality(T) \in Nat /\ T \cap F = {}
      BY <2>5, <2>7, <2>10
    <3>2. wals = T \cup F
      BY Zenon, <2>5
    <3> HIDE DEF T
    <3>3. Cardinality(T \cup F) = Cardinality(T) + Cardinality(F)
      BY Zenon, <2>7, <3>1, CountDisjoint
    <3> QED BY Zenon, <2>10, <3>2, <3>3 DEF T
  <2>12. wals = ({wal} \ {0}) \cup Sends \cup Dispatched \cup Elems(pipe.failed)
    BY Zenon, <2>2, <2>5 DEF W, F
  <2>13. Cardinality(wals) = Cardinality({wal} \ {0}) + Cardinality(Sends) + Cardinality(Dispatched) + Len(pipe.failed)
    BY <2>2, <2>6, <2>11 DEF W
  <2> QED BY <2>4, <2>12, <2>13 DEF WalsAccounted
<1> QED BY <1>1, PipelineInvariant, PTL

\* A plan is applied only once every promote that was dispatched is resolved
\* (apply_or_defer_gc_plan), also when its result was taken in the middle of a
\* dispatch, for any number of promotes.  The promote of that unfinished
\* dispatch is not among them.
THEOREM PlansWait == Spec => PlanBehindPromotes
<1> DEFINE Counted == pipe.in_flight = 0 => Dispatched = {}
           Waits == PlanHere /\ ~PlanHere' => Dispatched' = {}
<1>1. IInv => Counted
  BY Zenon, EpochsCount, NoneInFlight
<1>2. IInv /\ IInv' /\ Counted' /\ [Next]_vars => [Waits]_vars
  BY Zenon, InvPlanWaits
<1> QED BY <1>1, <1>2, PipelineInvariant, PTL DEF Spec, PlanBehindPromotes

=============================================================================
