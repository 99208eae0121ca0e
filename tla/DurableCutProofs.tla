-------------------------- MODULE DurableCutProofs --------------------------
(***************************************************************************)
(* A reopen of the volume rebuilds the newest version of every block,      *)
(* whatever the drain, the GC handoffs, the close passes and the reaps of  *)
(* the open generation have done to its segments, for any blocks and any   *)
(* number of writes, failures and restarts.                                *)
(***************************************************************************)
EXTENDS DurableCut, WellFoundedInduction, TLAPS

-----------------------------------------------------------------------------
(* The disk.                                                               *)

(* Write n is the last one to its block.                                   *)
Live(n) == n \in DOMAIN log /\ \A m \in DOMAIN log : log[m] = log[n] => m <= n

(* The segments a rebuild sees, and the output it sees once a staged plan  *)
(* is applied.                                                             *)
Held == open \cup upload \cup index \cup (IF plan.stage = "none" THEN {} ELSE {plan.out})

DiskTypes ==
  /\ log \in Seq(Lbas) /\ wal \subseteq DOMAIN log
  /\ last \in 0..MaxUlid
  /\ DOMAIN segs \subseteq 1..last
  /\ \A u \in DOMAIN segs : segs[u].recs \subseteq DOMAIN log
  /\ open \cup upload \cup index \subseteq DOMAIN segs
  /\ plan = [stage |-> plan.stage, out |-> plan.out, inputs |-> plan.inputs]
  /\ plan.stage # "none" => plan.out \in DOMAIN segs /\ plan.inputs \subseteq DOMAIN segs

(* The WAL holds the newest writes.                                        *)
WalAbove == \A u \in DOMAIN segs : \A m \in segs[u].recs, n \in wal : m < n

(* Where two segments claim a block, the higher one has the newer version. *)
Ordered ==
  \A u, v \in Held : u < v => \A n \in segs[u].recs, m \in segs[v].recs :
    log[n] = log[m] => \E k \in segs[v].recs : log[k] = log[n] /\ n <= k

(* The last write to a block is on disk.                                   *)
Present == \A n \in DOMAIN log : Live(n) => n \in wal \/ \E u \in OnDisk : n \in segs[u].recs

(* A GC output holds what its inputs hold of last writes and nothing else, *)
(* and its inputs are in place until it is.                                *)
Settled == segs[plan.out].recs = {} \/ plan.out \in index

PlanCovers ==
  plan.stage # "none" =>
    /\ \A u \in plan.inputs : \A n \in segs[u].recs : Live(n) => n \in segs[plan.out].recs
    /\ \A n \in segs[plan.out].recs : \E u \in plan.inputs : n \in segs[u].recs
    /\ plan.inputs \subseteq index \/ Settled

(* The volume applies a staged plan; nothing else happens to one.          *)
PlanSteady ==
  \/ plan' = plan
  \/ plan.stage = "plan" /\ plan' = [plan EXCEPT !.stage = "bare"]

DiskInv == DiskTypes /\ WalAbove /\ Ordered /\ Present /\ PlanCovers

-----------------------------------------------------------------------------
(* The tick.                                                               *)

(* From the checkpoint to the pass.                                        *)
Passing == {"upload", "truncate", "drain", "pass"}

(* The output of a pass takes a ULID below the flush of its checkpoint and *)
(* above all that is or will be confirmed before the pass.                 *)
Fresh(b) == b \notin DOMAIN segs /\ \A u \in index \cup upload : u < b

TickInv ==
  /\ DOMAIN tick = {"pc", "job", "due", "bucket", "drain", "draft"}
  /\ tick.pc \in Pcs /\ tick.job \in Jobs /\ tick.bucket \in 0..last
  /\ tick.job # "tick" => tick.bucket = 0
  /\ tick.pc = "prepare" => tick.job = "tick"
  /\ tick.bucket # 0 => tick.pc \in Passing \cup {"publish", "put", "close", "idle"}
  /\ tick.bucket # 0 /\ tick.pc \in Passing => Fresh(tick.bucket)
  /\ tick.pc = "pass" => tick.bucket # 0
  /\ tick.pc \in {"put", "close"} => upload = {}

CutInv == DiskInv /\ TickInv

-----------------------------------------------------------------------------
(* Bounded sets of naturals have extremes.                                 *)

(* A nonempty set of naturals has a least element.                         *)
LEMMA LeastNat ==
  ASSUME NEW S, S \subseteq Nat, S # {}
  PROVE  \E m \in S : \A x \in S : m <= x
<1> DEFINE R == {ss \in Nat \X Nat : ss[1] < ss[2]}
<1>1. IsWellFoundedOn(R, Nat)
  BY Zenon, NatLessThanWellFounded DEF OpToRel
<1>2. \A x, y \in Nat : x < y => <<x, y>> \in R
  BY Zenon
<1> HIDE DEF R
<1>3. PICK m \in S : \A x \in S : ~ (<<x, m>> \in R)
  BY Zenon, <1>1, WFMin
<1>4. \A x \in S : ~(x < m)
  BY <1>2, <1>3, Zenon
<1>5. \A x \in S : m <= x
  BY <1>4, SMT
<1> QED BY Zenon, <1>5

(* A nonempty bounded set of naturals has a greatest element.              *)
LEMMA GreatestNat ==
  ASSUME NEW b \in Nat, NEW S, S \subseteq 0..b, S # {}
  PROVE  \E m \in S : \A x \in S : x <= m
<1> DEFINE T == {b - x : x \in S}
<1>1. T \subseteq Nat
  OBVIOUS
<1>2. T # {}
  <2> PICK x \in S : TRUE
    BY Zenon
  <2>1. b - x \in T
    BY Zenon
  <2> QED BY Zenon, <2>1
<1>3. PICK t \in T : \A y \in T : t <= y
  BY Zenon, <1>1, <1>2, LeastNat
<1>4. PICK m \in S : t = b - m
  BY Zenon, <1>3
<1>5. \A x \in S : x <= m
  <2> TAKE x \in S
  <2>1. b - x \in T
    BY Zenon
  <2> QED BY <2>1, <1>3, <1>4
<1> QED BY Zenon, <1>5

(* So Max and Min are what their names say.                                *)
LEMMA MaxIsGreatest ==
  ASSUME NEW b \in Nat, NEW S, S \subseteq 0..b, S # {}
  PROVE  Max(S) \in S /\ \A x \in S : x <= Max(S)
<1>1. \E m \in S : \A y \in S : m >= y
  BY Zenon, GreatestNat
<1>2. Max(S) \in S /\ \A y \in S : Max(S) >= y
  BY <1>1, Zenon DEF Max
<1> QED BY <1>2, SMT

\* Min of a non-empty set of naturals is its least element.
LEMMA MinIsLeast ==
  ASSUME NEW S, S \subseteq Nat, S # {}
  PROVE  Min(S) \in S /\ \A x \in S : Min(S) <= x
<1>1. \E m \in S : \A y \in S : m <= y
  BY Zenon, LeastNat
<1> QED BY <1>1, Zenon DEF Min

-----------------------------------------------------------------------------
(* Last writes.                                                            *)

(* A log is a function on 1 .. its length.                                 *)
LEMMA LogShape ==
  ASSUME NEW q \in Seq(Lbas)
  PROVE  Len(q) \in Nat /\ DOMAIN q = 1..Len(q) /\ \A n \in DOMAIN q : q[n] \in Lbas
  OBVIOUS

(* What one more guest write makes of the log.                             *)
LEMMA LogGrows ==
  ASSUME NEW q \in Seq(Lbas), NEW l \in Lbas
  PROVE  /\ Append(q, l) \in Seq(Lbas)
         /\ DOMAIN Append(q, l) = DOMAIN q \cup {Len(q) + 1}
         /\ \A n \in DOMAIN q : Append(q, l)[n] = q[n] /\ n < Len(q) + 1
         /\ Append(q, l)[Len(q) + 1] = l
  OBVIOUS

(* Newest is the last write to a block, 0 before the first.                *)
LEMMA NewestIs ==
  ASSUME log \in Seq(Lbas), NEW l
  PROVE  /\ Newest(l) \in {n \in DOMAIN log : log[n] = l} \cup {0}
         /\ \A n \in DOMAIN log : log[n] = l => n <= Newest(l)
<1> DEFINE S == {n \in DOMAIN log : log[n] = l} \cup {0}
<1>1. Len(log) \in Nat /\ DOMAIN log = 1..Len(log)
  BY LogShape, Zenon
<1>2. S \subseteq 0..Len(log) /\ S # {}
  BY <1>1
<1>3. Max(S) \in S /\ \A x \in S : x <= Max(S)
  <2> HIDE DEF S
  <2> QED BY <1>1, <1>2, MaxIsGreatest, Zenon
<1> QED BY <1>3, Zenon DEF Newest

(* The claim of the volume's map on a block is its last write.             *)
LEMMA NewestIsLive ==
  ASSUME log \in Seq(Lbas), NEW n \in DOMAIN log
  PROVE  n = Newest(log[n]) <=> Live(n)
<1>1. Len(log) \in Nat /\ DOMAIN log = 1..Len(log)
  BY LogShape, Zenon
<1>2. /\ Newest(log[n]) \in {k \in DOMAIN log : log[k] = log[n]} \cup {0}
      /\ \A k \in DOMAIN log : log[k] = log[n] => k <= Newest(log[n])
  BY NewestIs, Zenon
<1>3. ASSUME n = Newest(log[n]) PROVE Live(n)
  BY <1>2, <1>3, Zenon DEF Live
<1>4. ASSUME Live(n) PROVE n = Newest(log[n])
  <2>1. n <= Newest(log[n]) /\ Newest(log[n]) # 0
    BY <1>1, <1>2
  <2>2. Newest(log[n]) \in DOMAIN log /\ log[Newest(log[n])] = log[n]
    BY <1>2, <2>1, Zenon
  <2>3. Newest(log[n]) <= n
    BY <1>4, <2>2, Zenon DEF Live
  <2> QED BY <1>1, <2>1, <2>2, <2>3
<1> QED BY <1>3, <1>4, Zenon

(* What a pass carries: the last writes its inputs hold.                   *)
LEMMA LiveInIs ==
  ASSUME DiskTypes, NEW U, U \subseteq DOMAIN segs, NEW n
  PROVE  n \in LiveIn(U) <=> Live(n) /\ \E u \in U : n \in segs[u].recs
<1>1. log \in Seq(Lbas) /\ \A u \in DOMAIN segs : segs[u].recs \subseteq DOMAIN log
  BY Zenon DEF DiskTypes
<1>2. n \in LiveIn(U) <=> (\E u \in U : n \in segs[u].recs) /\ n = Newest(log[n])
  BY Zenon DEF LiveIn
<1>3. ASSUME \E u \in U : n \in segs[u].recs PROVE n \in DOMAIN log
  BY <1>1, <1>3, Zenon
<1> QED BY <1>1, <1>2, <1>3, NewestIsLive, Zenon

(* Two last writes of a block are one.                                     *)
LEMMA LiveIsGreatest ==
  ASSUME log \in Seq(Lbas), NEW n, Live(n), NEW m \in DOMAIN log, log[m] = log[n]
  PROVE  m <= n /\ (Live(m) => m = n)
<1>1. m <= n /\ (Live(m) => n <= m) /\ n \in DOMAIN log
  BY Zenon DEF Live
<1>2. m \in Nat /\ n \in Nat
  BY <1>1, LogShape
<1> QED BY <1>1, <1>2

(* A new segment joins the others, which stay as they are.                 *)
LEMMA SegmentAdded ==
  ASSUME NEW u, NEW R, NEW I, AddSegment(u, R, I)
  PROVE  /\ DOMAIN segs' = DOMAIN segs \cup {u}
         /\ segs'[u].recs = R
         /\ \A v \in DOMAIN segs : v # u => segs'[v] = segs[v]
  BY DEF AddSegment

(* Only written segments are held, and a rebuild sees held ones.           *)
LEMMA HeldIsWritten ==
  ASSUME DiskTypes
  PROVE  OnDisk \subseteq Held /\ Held \subseteq DOMAIN segs
<1>1. OnDisk \subseteq Held
  BY Zenon DEF OnDisk, Held
<1>2. Held \subseteq DOMAIN segs
  BY Zenon DEF DiskTypes, Held
<1> QED BY <1>1, <1>2, Zenon

-----------------------------------------------------------------------------
(* The disk invariant gives what a reopen needs.                           *)

(* The WAL decides the blocks it has, the highest claimant the others.     *)
LEMMA DiskIsExact == DiskInv => RebuildIsExact
<1> SUFFICES ASSUME DiskInv, NEW l \in Lbas
             PROVE  Newest(l) = IF \E n \in wal : log[n] = l
                                THEN Max({n \in wal : log[n] = l})
                                ELSE Resolve(OnDisk, l)
  BY Zenon DEF RebuildIsExact
<1> DEFINE N == Newest(l)
<1>1. DiskTypes /\ WalAbove /\ Ordered /\ Present
  BY Zenon DEF DiskInv
<1>2. /\ log \in Seq(Lbas) /\ wal \subseteq DOMAIN log
      /\ \A u \in DOMAIN segs : segs[u].recs \subseteq DOMAIN log
  BY <1>1, Zenon DEF DiskTypes
<1>3. Len(log) \in Nat /\ DOMAIN log = 1..Len(log)
  BY <1>2, LogShape, Zenon
<1>4. /\ N \in {n \in DOMAIN log : log[n] = l} \cup {0}
      /\ \A n \in DOMAIN log : log[n] = l => n <= N
  BY <1>2, NewestIs, Zenon
<1>5. OnDisk \subseteq Held /\ Held \subseteq DOMAIN segs
  BY <1>1, HeldIsWritten, Zenon
<1> HIDE DEF N
<1>6. ASSUME N # 0 PROVE N \in DOMAIN log /\ log[N] = l /\ Live(N)
  BY <1>4, <1>6, Zenon DEF Live
<1>7. ASSUME N # 0 PROVE N \in wal \/ \E u \in OnDisk : N \in segs[u].recs
  BY <1>1, <1>6, <1>7, Zenon DEF Present
<1>8. \A n \in DOMAIN log : n \in 1..Len(log) /\ n # 0
  BY <1>3
<1>9. CASE \E n \in wal : log[n] = l
  <2> DEFINE W == {n \in wal : log[n] = l}
  <2>1. PICK w \in wal : log[w] = l
    BY <1>9, Zenon
  <2>2. W \subseteq 0..Len(log) /\ W # {}
    BY <1>2, <1>3, <2>1
  <2>3. Max(W) \in W /\ \A x \in W : x <= Max(W)
    <3> HIDE DEF W
    <3> QED BY <1>3, <2>2, MaxIsGreatest, Zenon
  <2>4. w <= N /\ w \in DOMAIN log
    BY <1>2, <1>4, <2>1, Zenon
  <2>5. N # 0
    BY <1>3, <2>4
  <2>6. ASSUME NEW u \in OnDisk, N \in segs[u].recs PROVE FALSE
    <3>1. N < w
      BY <1>1, <1>5, <2>1, <2>6, Zenon DEF WalAbove
    <3> QED BY <1>3, <1>6, <2>4, <2>5, <3>1
  <2>7. N \in W
    BY <1>6, <1>7, <2>5, <2>6, Zenon
  <2>8. N <= Max(W) /\ Max(W) <= N /\ Max(W) \in DOMAIN log
    BY <1>2, <1>4, <2>3, <2>7, Zenon
  <2>9. N = Max(W)
    <3> HIDE DEF W
    <3> QED BY <1>3, <1>6, <2>5, <2>8
  <2> QED BY <1>9, <2>9, Zenon DEF N
<1>10. CASE ~ \E n \in wal : log[n] = l
  <2> DEFINE C == {u \in OnDisk : \E n \in segs[u].recs : log[n] = l}
             M == {n \in segs[Max(C)].recs : log[n] = l}
  <2>1. Resolve(OnDisk, l) = IF C = {} THEN 0 ELSE Max(M)
    BY Zenon DEF Resolve
  <2>2. CASE N = 0
    <3>1. ASSUME NEW n \in DOMAIN log, log[n] = l PROVE FALSE
      <4>1. n <= 0
        BY <1>4, <2>2, <3>1, Zenon
      <4> QED BY <1>3, <4>1
    <3>2. C = {}
      BY <1>2, <1>5, <3>1, Zenon
    <3> QED BY <1>10, <2>1, <2>2, <3>2, Zenon DEF N
  <2>3. CASE N # 0
    <3>1. PICK u \in OnDisk : N \in segs[u].recs
      BY <1>6, <1>7, <1>10, <2>3, Zenon
    <3>2. u \in C
      BY <1>6, <2>3, <3>1, Zenon
    <3>3. last \in Nat /\ C \subseteq 0..last
      <4>1. last \in 0..MaxUlid /\ DOMAIN segs \subseteq 1..last
        BY <1>1, Zenon DEF DiskTypes
      <4> QED BY <4>1, <1>5, BudgetsAreNaturals
    <3>4. Max(C) \in C /\ u <= Max(C)
      <4> HIDE DEF C
      <4> QED BY <3>2, <3>3, MaxIsGreatest, Zenon
    <3> DEFINE v == Max(C)
    <3>5. v \in OnDisk /\ \E n \in segs[v].recs : log[n] = l
      BY <3>4, Zenon
    <3>6. u \in Nat /\ v \in Nat /\ u <= v
      <4> HIDE DEF C, v
      <4>1. v \in C /\ u <= v
        BY <3>4, Zenon DEF v
      <4> QED BY <3>2, <3>3, <4>1
    <3> HIDE DEF C
    <3>7. N \in segs[v].recs
      <4>1. CASE u = v
        BY <3>1, <4>1, Zenon
      <4>2. CASE u # v
        <5>1. u < v
          BY <3>6, <4>2
        <5>2. PICK n \in segs[v].recs : log[n] = l
          BY <3>5, Zenon
        <5>3. PICK k \in segs[v].recs : log[k] = log[N] /\ N <= k
          BY <1>1, <1>5, <1>6, <2>3, <3>1, <3>5, <5>1, <5>2, Zenon DEF Ordered
        <5>4. k \in DOMAIN log /\ k <= N
          BY <1>2, <1>4, <1>5, <1>6, <2>3, <3>5, <5>3, Zenon
        <5>5. k = N
          BY <1>3, <1>6, <2>3, <5>3, <5>4
        <5> QED BY <5>3, <5>5, Zenon
      <4> QED BY <4>1, <4>2, Zenon
    <3>8. N \in M /\ M \subseteq DOMAIN log
      BY <1>2, <1>5, <1>6, <2>3, <3>5, <3>7, Zenon
    <3>9. M \subseteq 0..Len(log) /\ M # {}
      <4> HIDE DEF M
      <4> QED BY <1>3, <3>8
    <3>10. Max(M) \in M /\ N <= Max(M)
      <4> HIDE DEF M
      <4> QED BY <1>3, <3>8, <3>9, MaxIsGreatest, Zenon
    <3>11. Max(M) <= N /\ Max(M) \in DOMAIN log
      BY <1>4, <3>8, <3>10, Zenon
    <3>12. N = Max(M)
      <4> HIDE DEF M
      <4> QED BY <1>3, <1>6, <2>3, <3>10, <3>11
    <3> QED BY <1>10, <2>1, <3>2, <3>12, Zenon DEF N
  <2> QED BY <2>2, <2>3, Zenon
<1> QED BY <1>9, <1>10, Zenon

-----------------------------------------------------------------------------
(* Steps that move segments between directories.                           *)

(* Which writes are last depends on the log alone.                         *)
LEMMA LiveFrame == ASSUME log' = log PROVE \A n : Live(n)' <=> Live(n)
  BY Zenon DEF Live

(* What an applied plan keeps.                                             *)
LEMMA SteadyPlan ==
  ASSUME DiskTypes, PlanSteady
  PROVE  /\ plan'.out = plan.out /\ plan'.inputs = plan.inputs
         /\ plan'.stage = "none" <=> plan.stage = "none"
         /\ plan.stage = "bare" => plan'.stage = "bare"
         /\ plan' = [stage |-> plan'.stage, out |-> plan'.out, inputs |-> plan'.inputs]
  BY DEF DiskTypes, PlanSteady

(* A staged plan stays covered while its inputs or its output stay.        *)
LEMMA PlanKept ==
  ASSUME DiskInv, PlanSteady, log' = log,
         \A v \in DOMAIN segs : segs'[v] = segs[v],
         plan.stage # "none" => plan.inputs \subseteq index' \/ Settled'
  PROVE  PlanCovers'
<1>1. /\ plan'.out = plan.out /\ plan'.inputs = plan.inputs
      /\ plan'.stage = "none" <=> plan.stage = "none"
  BY SteadyPlan, Zenon DEF DiskInv
<1>2. \A n : Live(n)' <=> Live(n)
  BY LiveFrame, Zenon
<1> SUFFICES ASSUME plan'.stage # "none"
             PROVE  /\ \A u \in plan'.inputs : \A n \in segs'[u].recs :
                         Live(n)' => n \in segs'[plan'.out].recs
                    /\ \A n \in segs'[plan'.out].recs :
                         \E u \in plan'.inputs : n \in segs'[u].recs
                    /\ plan'.inputs \subseteq index' \/ Settled'
  BY Zenon DEF PlanCovers
<1>3. plan.out \in DOMAIN segs /\ plan.inputs \subseteq DOMAIN segs /\ PlanCovers
  BY <1>1, Zenon DEF DiskInv, DiskTypes
<1>4. segs'[plan'.out] = segs[plan.out] /\ \A u \in plan.inputs : segs'[u] = segs[u]
  BY <1>1, <1>3, Zenon
<1> QED BY <1>1, <1>2, <1>3, <1>4, Zenon DEF PlanCovers

(* A step that writes no segment keeps the invariant when it adds nothing  *)
(* to the disk, loses no last write and no input before its output is in.  *)
LEMMA DiskRearranged ==
  ASSUME DiskInv, log' = log, wal' = wal, segs' = segs, last' \in last..MaxUlid,
         open' \cup upload' \cup index' \subseteq Held,
         \/ PlanSteady /\ (plan.stage # "none" => plan.inputs \subseteq index' \/ Settled')
         \/ plan' = NoPlan,
         \A n : Live(n) => \A u \in OnDisk : n \in segs[u].recs =>
                             \E v \in OnDisk' : n \in segs[v].recs
  PROVE  DiskInv'
<1>1. DiskTypes /\ WalAbove /\ Ordered /\ Present /\ PlanCovers
  BY Zenon DEF DiskInv
<1>2. OnDisk \subseteq Held /\ Held \subseteq DOMAIN segs
  BY <1>1, HeldIsWritten, Zenon
<1>3. \A n : Live(n)' <=> Live(n)
  BY LiveFrame, Zenon
<1>6. /\ Held' \subseteq Held /\ PlanCovers'
      /\ plan' = [stage |-> plan'.stage, out |-> plan'.out, inputs |-> plan'.inputs]
      /\ plan'.stage # "none" => plan'.out \in DOMAIN segs' /\ plan'.inputs \subseteq DOMAIN segs'
  <2>1. CASE PlanSteady /\ (plan.stage # "none" => plan.inputs \subseteq index' \/ Settled')
    <3>1. /\ plan'.out = plan.out /\ plan'.inputs = plan.inputs
          /\ plan'.stage = "none" <=> plan.stage = "none"
          /\ plan' = [stage |-> plan'.stage, out |-> plan'.out, inputs |-> plan'.inputs]
      BY <1>1, <2>1, SteadyPlan, Zenon
    <3>2. PlanCovers'
      BY <2>1, PlanKept, Zenon
    <3>3. Held' \subseteq Held
      BY <3>1, Zenon DEF Held
    <3>4. plan'.stage # "none" => plan'.out \in DOMAIN segs' /\ plan'.inputs \subseteq DOMAIN segs'
      BY <1>1, <3>1, Zenon DEF DiskTypes
    <3> QED BY <3>1, <3>2, <3>3, <3>4, Zenon
  <2>2. CASE plan' = NoPlan
    <3>1. /\ plan'.stage = "none"
          /\ plan' = [stage |-> plan'.stage, out |-> plan'.out, inputs |-> plan'.inputs]
      BY <2>2 DEF NoPlan
    <3>2. Held' \subseteq Held /\ PlanCovers'
      BY <3>1, Zenon DEF Held, PlanCovers
    <3> QED BY <3>1, <3>2, Zenon
  <2> QED BY <2>1, <2>2, Zenon
<1>7. DiskTypes'
  <2>1. last' \in 0..MaxUlid /\ DOMAIN segs' \subseteq 1..last'
    <3>1. last \in 0..MaxUlid /\ DOMAIN segs \subseteq 1..last
      BY <1>1, Zenon DEF DiskTypes
    <3> QED BY <3>1, BudgetsAreNaturals
  <2>2. open' \cup upload' \cup index' \subseteq DOMAIN segs'
    BY <1>2, Zenon
  <2>3. /\ log' \in Seq(Lbas) /\ wal' \subseteq DOMAIN log'
        /\ \A u \in DOMAIN segs' : segs'[u].recs \subseteq DOMAIN log'
    BY <1>1, Zenon DEF DiskTypes
  <2> QED BY <1>6, <2>1, <2>2, <2>3, Zenon DEF DiskTypes
<1>8. WalAbove'
  BY <1>1, Zenon DEF WalAbove
<1>9. Ordered'
  BY <1>1, <1>6, Zenon DEF Ordered
<1>10. Present'
  <2> SUFFICES ASSUME NEW n \in DOMAIN log, Live(n)
               PROVE  n \in wal \/ \E v \in OnDisk' : n \in segs[v].recs
    BY <1>3, Zenon DEF Present
  <2>1. n \in wal \/ \E u \in OnDisk : n \in segs[u].recs
    BY <1>1, Zenon DEF Present
  <2> QED BY <2>1, Zenon
<1> QED BY <1>6, <1>7, <1>8, <1>9, <1>10, Zenon DEF DiskInv

-----------------------------------------------------------------------------
(* Steps that write a segment.                                             *)

(* A new segment w of the writes R keeps the invariant when it has its     *)
(* place in the order of claims, the WAL that is left is newer, and every  *)
(* last write that leaves a file is in R.                                  *)
LEMMA DiskGrows ==
  ASSUME DiskInv, log' = log, wal' \subseteq wal, last' \in last..MaxUlid,
         NEW w \in 1..last', w \notin DOMAIN segs,
         NEW R, R \subseteq DOMAIN log, NEW I, AddSegment(w, R, I),
         \A m \in R, n \in wal' : m < n,
         open' \cup upload' \cup index' \subseteq Held \cup {w},
         plan' = [stage |-> plan'.stage, out |-> plan'.out, inputs |-> plan'.inputs],
         plan'.stage # "none" => /\ plan'.out \in Held \cup {w}
                                 /\ plan'.inputs \subseteq DOMAIN segs,
         PlanCovers',
         \A u \in Held : u < w => \A n \in segs[u].recs, m \in R : log[n] = log[m] => n <= m,
         \A u \in Held : w < u => \A n \in R, m \in segs[u].recs :
             log[n] = log[m] => \E k \in segs[u].recs : log[k] = log[n] /\ n <= k,
         \A n \in DOMAIN log : Live(n) =>
             /\ n \in wal => n \in wal' \/ (n \in R /\ w \in OnDisk')
             /\ \A u \in OnDisk : n \in segs[u].recs =>
                  u \in OnDisk' \/ (n \in R /\ w \in OnDisk')
  PROVE  DiskInv'
<1>1. DiskTypes /\ WalAbove /\ Ordered /\ Present /\ PlanCovers
  BY Zenon DEF DiskInv
<1>2. OnDisk \subseteq Held /\ Held \subseteq DOMAIN segs
  BY <1>1, HeldIsWritten, Zenon
<1>3. \A n : Live(n)' <=> Live(n)
  BY LiveFrame, Zenon
<1>4. /\ DOMAIN segs' = DOMAIN segs \cup {w}
      /\ segs'[w].recs = R
      /\ \A v \in DOMAIN segs : v # w /\ segs'[v] = segs[v]
  BY SegmentAdded, Zenon
<1>5. /\ log \in Seq(Lbas) /\ wal \subseteq DOMAIN log
      /\ \A u \in DOMAIN segs : segs[u].recs \subseteq DOMAIN log
      /\ last \in 0..MaxUlid /\ DOMAIN segs \subseteq 1..last
  BY <1>1, Zenon DEF DiskTypes
<1>6. Held' \subseteq Held \cup {w}
  BY Zenon DEF Held
<1>7. DiskTypes'
  <2>1. last' \in 0..MaxUlid /\ DOMAIN segs' \subseteq 1..last'
    <3>1. last' \in 0..MaxUlid /\ DOMAIN segs \subseteq 1..last'
      BY <1>5, BudgetsAreNaturals
    <3> QED BY <1>4, <3>1, Zenon
  <2>2. open' \cup upload' \cup index' \subseteq DOMAIN segs'
    BY <1>2, <1>4, Zenon
  <2>3. /\ log' \in Seq(Lbas) /\ wal' \subseteq DOMAIN log'
        /\ \A u \in DOMAIN segs' : segs'[u].recs \subseteq DOMAIN log'
    BY <1>4, <1>5, Zenon
  <2>4. plan'.stage # "none" => plan'.out \in DOMAIN segs' /\ plan'.inputs \subseteq DOMAIN segs'
    BY <1>2, <1>4, Zenon
  <2> QED BY <2>1, <2>2, <2>3, <2>4, Zenon DEF DiskTypes
<1>8. WalAbove'
  <2> SUFFICES ASSUME NEW u \in DOMAIN segs', NEW m \in segs'[u].recs, NEW n \in wal'
               PROVE  m < n
    BY Zenon DEF WalAbove
  <2>1. CASE u = w
    BY <1>4, <2>1, Zenon
  <2>2. CASE u \in DOMAIN segs
    BY <1>1, <1>4, <2>2, Zenon DEF WalAbove
  <2> QED BY <1>4, <2>1, <2>2, Zenon
<1>9. Ordered'
  <2> SUFFICES ASSUME NEW u \in Held', NEW v \in Held', u < v,
                      NEW n \in segs'[u].recs, NEW m \in segs'[v].recs, log[n] = log[m]
               PROVE  \E k \in segs'[v].recs : log[k] = log[n] /\ n <= k
    BY SMT DEF Ordered
  <2>1. CASE u = w /\ v = w
    BY <1>5, <2>1
  <2>2. CASE u \in Held /\ v = w
    <3>1. n \in segs[u].recs /\ m \in R
      BY <1>2, <1>4, <2>2, Zenon
    <3>2. n <= m
      BY <2>2, <3>1, Zenon
    <3> QED BY <3>2, Zenon
  <2>3. CASE u = w /\ v \in Held
    <3>1. n \in R /\ m \in segs[v].recs /\ segs'[v] = segs[v]
      BY <1>2, <1>4, <2>3, Zenon
    <3> QED BY <2>3, <3>1, Zenon
  <2>4. CASE u \in Held /\ v \in Held
    <3>1. n \in segs[u].recs /\ m \in segs[v].recs /\ segs'[v] = segs[v]
      BY <1>2, <1>4, <2>4, Zenon
    <3>2. \E k \in segs[v].recs : log[k] = log[n] /\ n <= k
      BY <1>1, <2>4, <3>1, Zenon DEF Ordered
    <3> QED BY <3>1, <3>2, Zenon
  <2> QED BY <1>6, <2>1, <2>2, <2>3, <2>4, Zenon
<1>10. Present'
  <2> SUFFICES ASSUME NEW n \in DOMAIN log, Live(n)
               PROVE  n \in wal' \/ \E v \in OnDisk' : n \in segs'[v].recs
    BY <1>3, Zenon DEF Present
  <2>1. n \in wal \/ \E u \in OnDisk : n \in segs[u].recs
    BY <1>1, Zenon DEF Present
  <2>2. ASSUME n \in R, w \in OnDisk' PROVE \E v \in OnDisk' : n \in segs'[v].recs
    BY <1>4, <2>2, Zenon
  <2>3. CASE n \in wal
    BY <2>2, <2>3, Zenon
  <2>4. ASSUME NEW u \in OnDisk, n \in segs[u].recs
        PROVE  \E v \in OnDisk' : n \in segs'[v].recs
    <3>1. segs'[u] = segs[u]
      BY <1>2, <1>4, Zenon
    <3> QED BY <2>2, <2>4, <3>1, Zenon
  <2> QED BY <2>1, <2>3, <2>4, Zenon
<1> QED BY <1>7, <1>8, <1>9, <1>10, Zenon DEF DiskInv

(* Every WAL flush, as the segment w above all others.                     *)
LEMMA FlushKeeps ==
  ASSUME DiskInv, NEW w \in Nat, FlushAs(w), PlanSteady,
         log' = log, upload' = upload, index' = index, last' \in last..MaxUlid,
         wal # {} => last < w /\ w <= last'
  PROVE  DiskInv'
<1>1. DiskTypes /\ WalAbove /\ Present /\ PlanCovers
  BY Zenon DEF DiskInv
<1>2. OnDisk \subseteq Held /\ Held \subseteq DOMAIN segs
  BY <1>1, HeldIsWritten, Zenon
<1>3. /\ plan'.out = plan.out /\ plan'.inputs = plan.inputs
      /\ plan'.stage = "none" <=> plan.stage = "none"
      /\ plan.stage = "bare" => plan'.stage = "bare"
      /\ plan' = [stage |-> plan'.stage, out |-> plan'.out, inputs |-> plan'.inputs]
  BY <1>1, SteadyPlan, Zenon
<1>4. plan.stage # "none" => plan.out \in DOMAIN segs /\ plan.inputs \subseteq DOMAIN segs
  BY <1>1, Zenon DEF DiskTypes
<1>5. CASE wal = {}
  <2>1. wal' = wal /\ segs' = segs /\ open' = open
    BY <1>5, Zenon DEF FlushAs
  <2>2. open' \cup upload' \cup index' \subseteq Held
    BY <2>1, Zenon DEF Held
  <2>3. plan.stage # "none" => plan.inputs \subseteq index' \/ Settled'
    BY <1>1, <1>3, <2>1, Zenon DEF PlanCovers, Settled
  <2>4. OnDisk \subseteq OnDisk'
    BY <1>3, <2>1, Zenon DEF OnDisk
  <2>5. \A n : Live(n) => \A u \in OnDisk : n \in segs[u].recs =>
                            \E v \in OnDisk' : n \in segs[v].recs
    BY <2>4, Zenon
  <2> QED BY <2>1, <2>2, <2>3, <2>5, DiskRearranged, Zenon
<1>6. CASE wal # {}
  <2>1. AddSegment(w, wal, {}) /\ open' = open \cup {w} /\ wal' = {}
    BY <1>6, Zenon DEF FlushAs
  <2>2. /\ log \in Seq(Lbas) /\ wal \subseteq DOMAIN log
        /\ last \in 0..MaxUlid /\ DOMAIN segs \subseteq 1..last
    BY <1>1, Zenon DEF DiskTypes
  <2>3. w \in 1..last' /\ w \notin DOMAIN segs
    BY <1>6, <2>2, BudgetsAreNaturals
  <2>4. \A v \in DOMAIN segs : segs'[v] = segs[v]
    BY <2>1, <2>3, SegmentAdded, Zenon
  <2>5. plan.stage # "none" => plan.inputs \subseteq index' \/ Settled'
    BY <1>1, <1>3, <1>4, <2>4, Zenon DEF PlanCovers, Settled
  <2>6. PlanCovers'
    BY <2>4, <2>5, PlanKept, Zenon
  <2>7. open' \cup upload' \cup index' \subseteq Held \cup {w}
    BY <2>1, Zenon DEF Held
  <2>8. plan'.stage # "none" => /\ plan'.out \in Held \cup {w}
                                /\ plan'.inputs \subseteq DOMAIN segs
    BY <1>3, <1>4, Zenon DEF Held
  <2> DEFINE R == wal
  <2>9. \A u \in Held : u < w => \A n \in segs[u].recs, m \in R : log[n] = log[m] => n <= m
    <3> TAKE u \in Held
    <3> SUFFICES ASSUME NEW n \in segs[u].recs, NEW m \in wal PROVE n <= m
      BY Zenon
    <3>1. n < m
      BY <1>1, <1>2, Zenon DEF WalAbove
    <3>2. n \in DOMAIN log /\ m \in DOMAIN log
      BY <1>1, <1>2, Zenon DEF DiskTypes
    <3> QED BY <2>2, <3>1, <3>2, LogShape
  <2>10. \A u \in Held : w < u => \A n \in R, m \in segs[u].recs :
            log[n] = log[m] => \E k \in segs[u].recs : log[k] = log[n] /\ n <= k
    <3>1. \A u \in Held : ~ (w < u)
      BY <1>2, <1>6, <2>2, BudgetsAreNaturals
    <3> QED BY <3>1, Zenon
  <2>11. w \in OnDisk' /\ OnDisk \subseteq OnDisk'
    BY <1>3, <2>1, Zenon DEF OnDisk
  <2>12. \A n \in DOMAIN log : Live(n) =>
            /\ n \in wal => n \in wal' \/ (n \in R /\ w \in OnDisk')
            /\ \A u \in OnDisk : n \in segs[u].recs =>
                 u \in OnDisk' \/ (n \in R /\ w \in OnDisk')
    BY <2>11, Zenon
  <2>13. (\A m \in R, n \in wal' : m < n) /\ wal' \subseteq wal
    BY <2>1, Zenon
  <2>14. R \subseteq DOMAIN log /\ AddSegment(w, R, {})
    BY <2>1, <2>2, Zenon
  <2> HIDE DEF R
  <2> QED BY <1>3, <2>3, <2>6, <2>7, <2>8, <2>9, <2>10, <2>12, <2>13, <2>14,
             DiskGrows, SMT
<1> QED BY <1>5, <1>6, Zenon

(* A guest write: what was last stays on disk, and the WAL has the new one. *)
LEMMA WriteKeeps ==
  ASSUME DiskInv, NEW l \in Lbas, Write(l) PROVE DiskInv'
<1>1. DiskTypes /\ WalAbove /\ Ordered /\ Present /\ PlanCovers
  BY Zenon DEF DiskInv
<1>2. /\ log' = Append(log, l) /\ wal' = wal \cup {Len(log) + 1}
      /\ segs' = segs /\ open' = open /\ upload' = upload /\ index' = index
      /\ plan' = plan /\ last' = last
  BY Zenon DEF Write
<1>3. /\ log \in Seq(Lbas) /\ wal \subseteq DOMAIN log
      /\ \A u \in DOMAIN segs : segs[u].recs \subseteq DOMAIN log
      /\ plan.stage # "none" => plan.out \in DOMAIN segs /\ plan.inputs \subseteq DOMAIN segs
  BY <1>1, Zenon DEF DiskTypes
<1>4. /\ log' \in Seq(Lbas)
      /\ DOMAIN log' = DOMAIN log \cup {Len(log) + 1}
      /\ \A n \in DOMAIN log : log'[n] = log[n] /\ n < Len(log) + 1
  BY <1>2, <1>3, LogGrows, Zenon
<1>5. OnDisk \subseteq Held /\ Held \subseteq DOMAIN segs
  BY <1>1, HeldIsWritten, Zenon
<1>6. \A n \in DOMAIN log : Live(n)' => Live(n)
  BY <1>4, Zenon DEF Live
<1>7. DiskTypes'
  <2>1. wal' \subseteq DOMAIN log' /\ \A u \in DOMAIN segs' : segs'[u].recs \subseteq DOMAIN log'
    BY <1>2, <1>3, <1>4, Zenon
  <2>2. last' \in 0..MaxUlid /\ DOMAIN segs' \subseteq 1..last'
    BY <1>1, <1>2, Zenon DEF DiskTypes
  <2>3. /\ open' \cup upload' \cup index' \subseteq DOMAIN segs'
        /\ plan' = [stage |-> plan'.stage, out |-> plan'.out, inputs |-> plan'.inputs]
        /\ plan'.stage # "none" => plan'.out \in DOMAIN segs' /\ plan'.inputs \subseteq DOMAIN segs'
    BY <1>1, <1>2, Zenon DEF DiskTypes
  <2> QED BY <1>4, <2>1, <2>2, <2>3, Zenon DEF DiskTypes
<1>8. WalAbove'
  <2> SUFFICES ASSUME NEW u \in DOMAIN segs, NEW m \in segs[u].recs, NEW n \in wal'
               PROVE  m < n
    BY <1>2, Zenon DEF WalAbove
  <2>1. CASE n \in wal
    BY <1>1, <2>1, Zenon DEF WalAbove
  <2>2. CASE n = Len(log) + 1
    BY <1>3, <1>4, <2>2, Zenon
  <2> QED BY <1>2, <2>1, <2>2, Zenon
<1>9. Ordered'
  <2> SUFFICES ASSUME NEW u \in Held, NEW v \in Held, u < v,
                      NEW n \in segs[u].recs, NEW m \in segs[v].recs, log'[n] = log'[m]
               PROVE  \E k \in segs[v].recs : log'[k] = log'[n] /\ n <= k
    <3>1. Held' = Held
      BY <1>2, Zenon DEF Held
    <3>2. segs' = segs
      BY <1>2, Zenon
    <3> QED BY <3>1, <3>2, SMT DEF Ordered
  <2>1. n \in DOMAIN log /\ m \in DOMAIN log /\ segs[v].recs \subseteq DOMAIN log
    BY <1>3, <1>5, Zenon
  <2>2. log[n] = log[m]
    BY <1>4, <2>1, Zenon
  <2>3. PICK k \in segs[v].recs : log[k] = log[n] /\ n <= k
    BY <1>1, <2>2, Zenon DEF Ordered
  <2> QED BY <1>4, <2>1, <2>3, Zenon
<1>10. Present'
  <2> SUFFICES ASSUME NEW n \in DOMAIN log', Live(n)'
               PROVE  n \in wal' \/ \E u \in OnDisk : n \in segs[u].recs
    BY <1>2, Zenon DEF Present, OnDisk
  <2>1. CASE n \in DOMAIN log
    BY <1>1, <1>2, <1>6, <2>1, Zenon DEF Present
  <2>2. CASE n = Len(log) + 1
    BY <1>2, <2>2, Zenon
  <2> QED BY <1>4, <2>1, <2>2, Zenon
<1>11. PlanCovers'
  <2>1. Settled' <=> Settled
    BY <1>2, Zenon DEF Settled
  <2>2. plan.stage # "none" => \A u \in plan.inputs : \A n \in segs[u].recs : n \in DOMAIN log
    BY <1>3, Zenon
  <2> QED BY <1>1, <1>2, <1>6, <2>1, <2>2, Zenon DEF PlanCovers
<1> QED BY <1>7, <1>8, <1>9, <1>10, <1>11, Zenon DEF DiskInv

-----------------------------------------------------------------------------
(* The other steps that touch the disk.                                    *)

(* A drain, a rotate, an applied plan, a mint: the same segments, nothing  *)
(* leaves the index.                                                       *)
LEMMA DiskMoves ==
  ASSUME DiskInv, log' = log, wal' = wal, segs' = segs, last' \in last..MaxUlid,
         open' \cup upload' \cup index' = open \cup upload \cup index,
         index \subseteq index', PlanSteady
  PROVE  DiskInv'
<1>1. DiskTypes /\ PlanCovers
  BY Zenon DEF DiskInv
<1>2. /\ plan'.out = plan.out /\ plan'.inputs = plan.inputs
      /\ plan.stage = "bare" => plan'.stage = "bare"
  BY <1>1, SteadyPlan, Zenon
<1>3. open' \cup upload' \cup index' \subseteq Held
  BY Zenon DEF Held
<1>4. plan.stage # "none" => plan.inputs \subseteq index' \/ Settled'
  BY <1>1, <1>2, Zenon DEF PlanCovers, Settled
<1>5. OnDisk \subseteq OnDisk'
  BY <1>2, Zenon DEF OnDisk
<1>6. \A n : Live(n) => \A u \in OnDisk : n \in segs[u].recs =>
                          \E v \in OnDisk' : n \in segs[v].recs
  BY <1>5, Zenon
<1> QED BY <1>3, <1>4, <1>6, DiskRearranged, Zenon

(* The same disk but for the mint.                                         *)
LEMMA DiskSame ==
  ASSUME DiskInv, UNCHANGED <<log, wal, segs, open, upload, index, plan>>,
         last' \in last..MaxUlid
  PROVE  DiskInv'
  BY DiskMoves, Zenon DEF PlanSteady

(* The reap of the open generation takes segments without a last write.    *)
LEMMA SweepKeeps ==
  ASSUME DiskInv, Sweep PROVE DiskInv'
<1>1. DiskTypes /\ PlanCovers
  BY Zenon DEF DiskInv
<1>2. /\ UNCHANGED <<log, wal, segs, upload, index, plan, last>>
      /\ open' = open \/ open' = open \ Unreachable
  BY Zenon DEF Sweep
<1>3. last' \in last..MaxUlid /\ open \subseteq DOMAIN segs
  <2>1. last \in 0..MaxUlid /\ open \subseteq DOMAIN segs
    BY <1>1, Zenon DEF DiskTypes
  <2> QED BY <1>2, <2>1, BudgetsAreNaturals
<1>4. open' \cup upload' \cup index' \subseteq Held
  BY <1>2, Zenon DEF Held
<1>5. plan.stage # "none" => plan.inputs \subseteq index' \/ Settled'
  BY <1>1, <1>2, Zenon DEF PlanCovers, Settled
<1>6. ASSUME NEW n, Live(n), NEW u \in OnDisk, n \in segs[u].recs PROVE u \in OnDisk'
  <2>1. u \notin Unreachable
    <3>1. CASE u \in open
      <4>1. n \in LiveIn({u})
        BY <1>1, <1>3, <1>6, <3>1, LiveInIs, Zenon
      <4> QED BY <4>1, Zenon DEF Unreachable
    <3> QED BY <3>1, Zenon DEF Unreachable
  <2> QED BY <1>2, <1>6, <2>1, Zenon DEF OnDisk
<1>7. \A n : Live(n) => \A u \in OnDisk : n \in segs[u].recs =>
                          \E v \in OnDisk' : n \in segs[v].recs
  BY <1>6, Zenon
<1> QED BY <1>2, <1>3, <1>4, <1>5, <1>7, DiskRearranged, Zenon DEF PlanSteady

(* The promote of a GC output takes its inputs' last writes over.          *)
LEMMA HandoffKeeps ==
  ASSUME DiskInv, UNCHANGED <<log, wal, segs, open, upload, plan, last>>,
         index' = Promoted, plan.stage = "bare"
  PROVE  DiskInv'
<1>1. DiskTypes /\ PlanCovers
  BY Zenon DEF DiskInv
<1>2. /\ UNCHANGED <<log, wal, segs, open, upload, plan, last>>
      /\ index' = Promoted /\ plan.stage = "bare" /\ plan.stage # "none"
  OBVIOUS
<1>3. last' \in last..MaxUlid
  <2>1. last \in 0..MaxUlid
    BY <1>1, Zenon DEF DiskTypes
  <2> QED BY <1>2, <2>1, BudgetsAreNaturals
<1>4. open' \cup upload' \cup index' \subseteq Held
  BY <1>2, Zenon DEF Held, Promoted
<1>5. Settled'
  BY <1>2, Zenon DEF Settled, Promoted
<1>6. ASSUME NEW n, Live(n), NEW u \in OnDisk, n \in segs[u].recs
      PROVE  \E v \in OnDisk' : n \in segs[v].recs
  <2>1. plan.out \in OnDisk'
    BY <1>2, Zenon DEF OnDisk
  <2>2. CASE u \in plan.inputs
    <3>1. n \in segs[plan.out].recs
      BY <1>1, <1>2, <1>6, <2>2, Zenon DEF PlanCovers
    <3> QED BY <2>1, <3>1, Zenon
  <2>3. CASE u \notin plan.inputs
    <3>1. u \in OnDisk'
      BY <1>2, <2>3, Zenon DEF OnDisk, Promoted
    <3> QED BY <1>6, <3>1, Zenon
  <2> QED BY <2>2, <2>3, Zenon
<1>7. \A n : Live(n) => \A u \in OnDisk : n \in segs[u].recs =>
                          \E v \in OnDisk' : n \in segs[v].recs
  BY <1>6, Zenon
<1> QED BY <1>2, <1>3, <1>4, <1>5, <1>7, DiskRearranged, Zenon DEF PlanSteady

(* The finalize and the sweep of a stop delete gc/<out>: by then it is in  *)
(* the index, or its inputs still are.                                     *)
LEMMA DropPlanKeeps ==
  ASSUME DiskInv, UNCHANGED <<log, wal, segs, open, upload, index>>,
         last' \in last..MaxUlid, plan' = NoPlan
  PROVE  DiskInv'
<1>1. DiskTypes /\ PlanCovers
  BY Zenon DEF DiskInv
<1>2. open' \cup upload' \cup index' \subseteq Held
  BY Zenon DEF Held
<1>3. open \cup upload \cup index \subseteq OnDisk'
  BY Zenon DEF OnDisk
<1>4. ASSUME NEW n, Live(n), NEW u \in OnDisk, n \in segs[u].recs
      PROVE  \E v \in OnDisk' : n \in segs[v].recs
  <2>1. CASE u \in open \cup upload \cup index
    BY <1>3, <1>4, <2>1, Zenon
  <2>2. CASE plan.stage = "bare" /\ u = plan.out
    <3>1. plan.stage # "none"
      BY <2>2
    <3>2. CASE plan.inputs \subseteq index
      <4>1. PICK v \in plan.inputs : n \in segs[v].recs
        BY <1>1, <1>4, <2>2, <3>1, Zenon DEF PlanCovers
      <4> QED BY <1>3, <3>2, <4>1, Zenon
    <3>3. CASE Settled
      BY <1>3, <1>4, <2>2, <3>3, Zenon DEF Settled
    <3> QED BY <1>1, <3>1, <3>2, <3>3, Zenon DEF PlanCovers
  <2> QED BY <2>1, <2>2, Zenon DEF OnDisk
<1>5. \A n : Live(n) => \A u \in OnDisk : n \in segs[u].recs =>
                          \E v \in OnDisk' : n \in segs[v].recs
  BY <1>4, Zenon
<1> QED BY <1>2, <1>5, DiskRearranged, Zenon

(* A GC pass stages an output below what is newer and above its inputs.    *)
LEMMA PassKeeps ==
  ASSUME DiskInv, NEW b \in 1..last, Fresh(b), NEW U, U \subseteq index,
         plan.stage = "none", AddSegment(b, LiveIn(U), U),
         plan' = [stage |-> "plan", out |-> b, inputs |-> U],
         UNCHANGED <<log, wal, open, upload, index, last>>
  PROVE  DiskInv'
<1> DEFINE R == LiveIn(U)
<1>1. DiskTypes /\ WalAbove /\ Ordered
  BY Zenon DEF DiskInv
<1>2. Held \subseteq DOMAIN segs /\ U \subseteq DOMAIN segs /\ U \subseteq Held
  BY <1>1, HeldIsWritten, Zenon DEF Held
<1>3. /\ log \in Seq(Lbas) /\ last \in 0..MaxUlid /\ DOMAIN segs \subseteq 1..last
      /\ \A u \in DOMAIN segs : segs[u].recs \subseteq DOMAIN log
  BY <1>1, Zenon DEF DiskTypes
<1>4. \A n : n \in R <=> Live(n) /\ \E u \in U : n \in segs[u].recs
  BY <1>1, <1>2, LiveInIs, Zenon
<1> HIDE DEF R
<1>5. AddSegment(b, R, U)
  BY Zenon DEF R
<1>6. last' \in last..MaxUlid /\ b \in 1..last' /\ b \notin DOMAIN segs
  <2>1. b \notin DOMAIN segs
    BY Zenon DEF Fresh
  <2> QED BY <1>3, <2>1, BudgetsAreNaturals
<1>7. R \subseteq DOMAIN log /\ \A m \in R, n \in wal' : m < n
  BY <1>1, <1>2, <1>3, <1>4, Zenon DEF WalAbove
<1>8. /\ segs'[b].recs = R
      /\ \A v \in DOMAIN segs : segs'[v] = segs[v]
  BY <1>5, <1>6, SegmentAdded, Zenon
<1>9. plan'.stage = "plan" /\ plan'.out = b /\ plan'.inputs = U
  OBVIOUS
<1>10. plan' = [stage |-> plan'.stage, out |-> plan'.out, inputs |-> plan'.inputs]
  BY <1>9, Zenon
<1>11. PlanCovers'
  <2>1. \A n : Live(n)' <=> Live(n)
    BY LiveFrame, Zenon
  <2> QED BY <1>2, <1>4, <1>8, <1>9, <2>1, Zenon DEF PlanCovers
<1>12. open' \cup upload' \cup index' \subseteq Held \cup {b}
  BY Zenon DEF Held
<1>13. plan'.stage # "none" => plan'.out \in Held \cup {b} /\ plan'.inputs \subseteq DOMAIN segs
  BY <1>2, <1>9, Zenon
<1>14. \A u \in Held : u < b => \A n \in segs[u].recs, m \in R : log[n] = log[m] => n <= m
  BY <1>2, <1>3, <1>4, LiveIsGreatest, Zenon
<1>15. \A u \in Held : b < u => \A n \in R, m \in segs[u].recs :
           log[n] = log[m] => \E k \in segs[u].recs : log[k] = log[n] /\ n <= k
  <2> SUFFICES ASSUME NEW u \in Held, b < u, NEW n \in R, NEW m \in segs[u].recs,
                      log[n] = log[m]
               PROVE  \E k \in segs[u].recs : log[k] = log[n] /\ n <= k
    BY Zenon
  <2>1. PICK v \in U : n \in segs[v].recs
    BY <1>4, Zenon
  <2>2. v < b
    BY Zenon DEF Fresh
  <2>3. v < u
    BY <1>2, <1>3, <2>2
  <2> QED BY <1>1, <1>2, <2>1, <2>3, Zenon DEF Ordered
<1>16. OnDisk \subseteq OnDisk'
  <2>1. plan.stage # "bare"
    OBVIOUS
  <2> QED BY <2>1, Zenon DEF OnDisk
<1>17. \A n \in DOMAIN log : Live(n) =>
           /\ n \in wal => n \in wal' \/ (n \in R /\ b \in OnDisk')
           /\ \A u \in OnDisk : n \in segs[u].recs =>
                u \in OnDisk' \/ (n \in R /\ b \in OnDisk')
  BY <1>16, Zenon
<1>18. wal' \subseteq wal
  BY Zenon
<1> QED BY <1>5, <1>6, <1>7, <1>10, <1>11, <1>12, <1>13, <1>14, <1>15, <1>17, <1>18,
           DiskGrows, SMT

(* The close pass packs the last writes of the open generation.            *)
LEMMA FoldKeeps ==
  ASSUME DiskInv, upload = {}, CloseAndFold PROVE DiskInv'
<1> DEFINE R == LiveIn(open)
           w == last + 1
<1>1. DiskTypes /\ WalAbove /\ PlanCovers
  BY Zenon DEF DiskInv
<1>2. OnDisk \subseteq Held /\ Held \subseteq DOMAIN segs /\ open \subseteq DOMAIN segs
  BY <1>1, HeldIsWritten, Zenon DEF Held
<1>3. /\ log \in Seq(Lbas) /\ last \in 0..MaxUlid /\ DOMAIN segs \subseteq 1..last
      /\ \A u \in DOMAIN segs : segs[u].recs \subseteq DOMAIN log
      /\ plan = [stage |-> plan.stage, out |-> plan.out, inputs |-> plan.inputs]
      /\ plan.stage # "none" => plan.out \in DOMAIN segs /\ plan.inputs \subseteq DOMAIN segs
  BY <1>1, Zenon DEF DiskTypes
<1>4. \A n : n \in R <=> Live(n) /\ \E u \in open : n \in segs[u].recs
  BY <1>1, <1>2, LiveInIs, Zenon
<1>5. /\ AddSegment(w, R, open) /\ upload' = (IF R = {} THEN {} ELSE {w})
      /\ open' = {} /\ last' = w /\ last < MaxUlid
      /\ UNCHANGED <<log, wal, index, plan>>
  BY Zenon DEF CloseAndFold
<1> HIDE DEF R
<1>6. last' \in last..MaxUlid /\ w \in 1..last' /\ w \notin DOMAIN segs
  BY <1>3, <1>5, BudgetsAreNaturals
<1>7. \A u \in Held : ~ (w < u)
  BY <1>2, <1>3, BudgetsAreNaturals
<1> HIDE DEF w
<1>8. R \subseteq DOMAIN log /\ (\A m \in R, n \in wal' : m < n) /\ wal' \subseteq wal
  BY <1>1, <1>2, <1>3, <1>4, <1>5, Zenon DEF WalAbove
<1>9. \A v \in DOMAIN segs : segs'[v] = segs[v]
  BY <1>5, <1>6, SegmentAdded, Zenon
<1>10. plan' = [stage |-> plan'.stage, out |-> plan'.out, inputs |-> plan'.inputs]
  BY <1>3, <1>5, Zenon
<1>11. PlanCovers'
  <2>1. PlanSteady
    BY <1>5, Zenon DEF PlanSteady
  <2>2. plan.stage # "none" => plan.inputs \subseteq index' \/ Settled'
    BY <1>1, <1>3, <1>5, <1>9, Zenon DEF PlanCovers, Settled
  <2> QED BY <1>5, <1>9, <2>1, <2>2, PlanKept, Zenon
<1>12. open' \cup upload' \cup index' \subseteq Held \cup {w}
  BY <1>5, Zenon DEF Held
<1>13. plan'.stage # "none" => plan'.out \in Held \cup {w} /\ plan'.inputs \subseteq DOMAIN segs
  BY <1>3, <1>5, Zenon DEF Held
<1>14. \A u \in Held : u < w => \A n \in segs[u].recs, m \in R : log[n] = log[m] => n <= m
  BY <1>2, <1>3, <1>4, LiveIsGreatest, Zenon
<1>15. \A u \in Held : w < u => \A n \in R, m \in segs[u].recs :
           log[n] = log[m] => \E k \in segs[u].recs : log[k] = log[n] /\ n <= k
  BY <1>7, Zenon
<1>16. \A n \in DOMAIN log : Live(n) =>
           /\ n \in wal => n \in wal' \/ (n \in R /\ w \in OnDisk')
           /\ \A u \in OnDisk : n \in segs[u].recs =>
                u \in OnDisk' \/ (n \in R /\ w \in OnDisk')
  <2>1. ASSUME NEW n \in R PROVE w \in OnDisk'
    BY <1>5, <2>1, Zenon DEF OnDisk
  <2>2. \A u \in OnDisk : u \in open \/ u \in OnDisk'
    BY <1>5, Zenon DEF OnDisk
  <2> QED BY <1>4, <1>5, <2>1, <2>2, Zenon
<1> QED BY <1>5, <1>6, <1>8, <1>10, <1>11, <1>12, <1>13, <1>14, <1>15, <1>16,
           DiskGrows, SMT

-----------------------------------------------------------------------------
(* The tick.                                                               *)

Fields == {"pc", "job", "due", "bucket", "drain", "draft"}

(* A tick without a bucket holds nothing to keep.                          *)
LEMMA BareTick ==
  ASSUME last' \in Nat, DOMAIN tick' = Fields, tick'.job \in Jobs, tick'.bucket = 0,
         tick'.pc \in Pcs, tick'.pc \notin {"pass", "put", "close"},
         tick'.pc = "prepare" => tick'.job = "tick"
  PROVE  TickInv'
  BY DEF TickInv, Fields

(* A tick that moves on with its bucket: nothing at or above the bucket is *)
(* confirmed before its pass, and the mint is past it.                     *)
LEMMA TickMoves ==
  ASSUME TickInv, last \in Nat, last' \in Nat, last <= last',
         DOMAIN tick' = DOMAIN tick, tick'.job = tick.job, tick'.bucket = tick.bucket,
         tick'.pc \in Pcs,
         tick'.pc = "prepare" => tick.job = "tick",
         tick.bucket # 0 => tick'.pc \in Passing \cup {"publish", "put", "close", "idle"},
         tick'.pc = "pass" => tick.bucket # 0,
         tick'.pc \in {"put", "close"} => upload' = {},
         tick.bucket # 0 /\ tick'.pc \in Passing =>
            /\ tick.pc \in Passing
            /\ \A u \in DOMAIN segs' : u \in DOMAIN segs \/ u > last
            /\ index' \cup upload' \subseteq index \cup upload
  PROVE  TickInv'
<1>1. ASSUME tick'.bucket # 0, tick'.pc \in Passing PROVE Fresh(tick.bucket)'
  <2>1. Fresh(tick.bucket)
    BY <1>1, Zenon DEF TickInv
  <2>2. tick.bucket \in Nat /\ tick.bucket <= last
    BY DEF TickInv
  <2>3. tick.bucket \notin DOMAIN segs'
    BY <1>1, <2>1, <2>2 DEF Fresh
  <2>4. \A u \in index' \cup upload' : u < tick.bucket
    BY <1>1, <2>1, Zenon DEF Fresh
  <2> QED BY <2>3, <2>4, Zenon DEF Fresh
<1>2. tick'.bucket \in 0..last'
  BY DEF TickInv
<1>3. tick'.job # "tick" => tick'.bucket = 0
  BY Zenon DEF TickInv
<1>4. DOMAIN tick' = {"pc", "job", "due", "bucket", "drain", "draft"} /\ tick'.job \in Jobs
  BY Zenon DEF TickInv
<1> QED BY <1>1, <1>2, <1>3, <1>4, Zenon DEF TickInv

(* The fields a move of the tick leaves alone.                             *)
LEMMA GotoIs ==
  ASSUME TickInv, NEW pc, Goto(pc)
  PROVE  /\ DOMAIN tick' = Fields /\ DOMAIN tick' = DOMAIN tick
         /\ tick'.pc = pc /\ tick'.job = tick.job /\ tick'.bucket = tick.bucket
  BY DEF TickInv, Goto, Fields

(* The tick gives up, ends or is forgotten by a restart.                   *)
LEMMA IdleKeeps ==
  ASSUME last' \in Nat, tick' = Idle PROVE TickInv'
<1>1. /\ DOMAIN tick' = Fields /\ tick'.job \in Jobs /\ tick'.bucket = 0
      /\ tick'.pc \in Pcs /\ tick'.pc \notin {"pass", "put", "close"} /\ tick'.pc # "prepare"
  BY DEF Idle, Fields, Jobs, Pcs
<1> QED BY <1>1, BareTick, Zenon

(* The tick stays where it is while the volume works.                      *)
LEMMA TickStays ==
  ASSUME TickInv, last \in Nat, last' \in Nat, last <= last', tick' = tick,
         tick.pc \in {"put", "close"} => upload' = {},
         \A u \in DOMAIN segs' : u \in DOMAIN segs \/ u > last,
         index' \cup upload' \subseteq index \cup upload
  PROVE  TickInv'
<1>1. /\ tick'.pc \in Pcs
      /\ tick'.pc = "prepare" => tick.job = "tick"
      /\ tick.bucket # 0 => tick'.pc \in Passing \cup {"publish", "put", "close", "idle"}
      /\ tick'.pc = "pass" => tick.bucket # 0
      /\ tick'.pc \in {"put", "close"} => upload' = {}
      /\ tick'.pc \in Passing => tick.pc \in Passing
  BY Zenon DEF TickInv
<1> QED BY <1>1, TickMoves, Zenon

(* The places a handoff and a drain lead to.                               *)
LEMMA NextPlaces ==
  ASSUME TickInv
  PROVE  /\ DrainPc \in {"drain", "upload"}
         /\ AfterSweep \in {"handoff", "drain", "upload"}
         /\ AfterHandoff \in {"prepare", "sign", "halt"}
         /\ AfterHandoff = "prepare" => tick.job = "tick"
<1>1. DrainPc \in {"drain", "upload"}
  BY Zenon DEF DrainPc
<1>2. AfterSweep \in {"handoff", "drain", "upload"}
  BY <1>1, Zenon DEF AfterSweep
<1>3. tick.job \in {"tick", "snapshot", "stop"}
  BY Zenon DEF TickInv, Jobs
<1>4. /\ AfterHandoff \in {"prepare", "sign", "halt"}
      /\ AfterHandoff = "prepare" => tick.job = "tick"
  BY <1>3 DEF AfterHandoff
<1> QED BY <1>1, <1>2, <1>4, Zenon

(* Where a tick is before its checkpoint, or a seal is.                    *)
Unbucketed == {"volume", "sweep", "handoff", "finalize", "prepare", "sign", "halt", "seal"}

(* There is no bucket there.                                               *)
LEMMA NoBucket ==
  ASSUME TickInv, tick.pc \in Unbucketed PROVE tick.bucket = 0
  BY DEF TickInv, Unbucketed, Passing

(* A step from such a place to another one of the tick.                    *)
LEMMA BareMoves ==
  ASSUME TickInv, last' \in Nat, tick.pc \in Unbucketed, NEW pc, Goto(pc),
         pc \in {"sweep", "handoff", "finalize", "prepare", "sign", "halt", "seal",
                 "drain", "upload"},
         pc = "prepare" => tick.job = "tick"
  PROVE  TickInv'
<1>1. /\ DOMAIN tick' = Fields
      /\ tick'.pc = pc /\ tick'.job = tick.job /\ tick'.bucket = 0
  BY GotoIs, NoBucket, Zenon
<1>2. pc \in Pcs /\ pc \notin {"pass", "put", "close"}
  BY DEF Pcs
<1>3. tick.job \in Jobs
  BY Zenon DEF TickInv
<1> QED BY <1>1, <1>2, <1>3, BareTick, Zenon

-----------------------------------------------------------------------------
(* Steps, one by one.                                                      *)

(* The mint is a natural number.                                           *)
LEMMA MintIsNat ==
  ASSUME DiskTypes PROVE last \in Nat /\ last \in last..MaxUlid
<1>1. last \in 0..MaxUlid
  BY Zenon DEF DiskTypes
<1> QED BY <1>1, BudgetsAreNaturals

(* A step that leaves the disk as it is.                                   *)
LEMMA QuietDisk ==
  ASSUME CutInv, UNCHANGED <<log, wal, segs, open, upload, index, plan, last>>
  PROVE  DiskInv' /\ last \in Nat /\ last' \in Nat /\ last <= last'
<1>1. last \in Nat /\ last' \in last..MaxUlid
  BY MintIsNat, Zenon DEF CutInv, DiskInv
<1>2. DiskInv'
  BY <1>1, DiskSame, Zenon DEF CutInv
<1> QED BY <1>1, <1>2

(* ... while the tick moves on with its bucket.                            *)
LEMMA QuietMoves ==
  ASSUME CutInv, UNCHANGED <<log, wal, segs, open, upload, index, plan, last>>,
         DOMAIN tick' = DOMAIN tick, tick'.job = tick.job, tick'.bucket = tick.bucket,
         tick'.pc \in {"drain", "pass", "publish", "put", "close", "idle", "truncate"},
         tick'.pc \in {"drain", "pass", "truncate"} => tick.pc \in {"upload", "truncate", "drain"},
         tick'.pc = "pass" => tick.bucket # 0,
         tick'.pc \in {"put", "close"} => upload = {}
  PROVE  CutInv'
<1>1. DiskInv' /\ last \in Nat /\ last' \in Nat /\ last <= last'
  BY QuietDisk, Zenon
<1>2. /\ tick'.pc \in Pcs /\ tick'.pc # "prepare"
      /\ tick'.pc \in Passing \cup {"publish", "put", "close", "idle"}
      /\ tick'.pc \in Passing => tick.pc \in Passing
  BY DEF Pcs, Passing
<1>3. /\ tick'.pc \in {"put", "close"} => upload' = {}
      /\ \A u \in DOMAIN segs' : u \in DOMAIN segs
      /\ index' \cup upload' \subseteq index \cup upload
  BY Zenon
<1>4. TickInv'
  BY <1>1, <1>2, <1>3, TickMoves, Zenon DEF CutInv
<1> QED BY <1>1, <1>4, Zenon DEF CutInv

(* ... or ends.                                                            *)
LEMMA QuietEnds ==
  ASSUME CutInv, UNCHANGED <<log, wal, segs, open, upload, index, plan, last>>, tick' = Idle
  PROVE  CutInv'
  BY QuietDisk, IdleKeeps, Zenon DEF CutInv

(* ... or moves on before its checkpoint.                                  *)
LEMMA QuietBare ==
  ASSUME CutInv, UNCHANGED <<log, wal, segs, open, upload, index, plan, last>>,
         tick.pc \in Unbucketed, NEW pc, Goto(pc),
         pc \in {"sweep", "handoff", "finalize", "prepare", "sign", "halt", "seal",
                 "drain", "upload"},
         pc = "prepare" => tick.job = "tick"
  PROVE  CutInv'
  BY QuietDisk, BareMoves, Zenon DEF CutInv

(* Guest writes, flushes at the threshold, plans the volume applies by     *)
(* itself, and the daemon's start.                                         *)
LEMMA VolumeStep ==
  ASSUME CutInv,
         (\E l \in Lbas : Write(l)) \/ FlushThreshold \/ ApplyPlan \/ StartVolume \/ NotifyReady
  PROVE  CutInv'
<1>1. DiskInv /\ DiskTypes /\ TickInv
  BY Zenon DEF CutInv, DiskInv
<1>2. last \in Nat /\ last \in last..MaxUlid
  BY <1>1, MintIsNat, Zenon
<1>3. last <= last
  BY <1>2
<1>4. tick.pc \in {"put", "close"} => upload = {}
  BY <1>1, Zenon DEF TickInv
<1>5. CASE \E l \in Lbas : Write(l)
  <2>1. PICK l \in Lbas : Write(l)
    BY <1>5, Zenon
  <2>2. UNCHANGED <<segs, upload, index, last, tick>>
    BY <2>1, Zenon DEF Write
  <2>3. TickInv'
    BY <1>1, <1>2, <1>3, <1>4, <2>2, TickStays, Zenon
  <2>4. DiskInv'
    BY <1>1, <2>1, WriteKeeps, Zenon
  <2> QED BY <2>3, <2>4, Zenon DEF CutInv
<1>6. CASE FlushThreshold
  <2>1. /\ UNCHANGED <<log, upload, index, plan, tick>>
        /\ FlushAs(last + 1) /\ last' = last + 1 /\ last < MaxUlid /\ wal # {}
    BY <1>6, Zenon DEF FlushThreshold
  <2>2. last' \in Nat /\ last' \in last..MaxUlid /\ last <= last' /\ last < last + 1
        /\ last + 1 <= last' /\ last + 1 \in Nat
    BY <1>2, <2>1, BudgetsAreNaturals
  <2>3. DiskInv'
    BY <1>1, <2>1, <2>2, FlushKeeps, Zenon DEF PlanSteady
  <2>4. DOMAIN segs' = DOMAIN segs \cup {last + 1}
    BY <2>1, SegmentAdded, Zenon DEF FlushAs
  <2>5. \A u \in DOMAIN segs' : u \in DOMAIN segs \/ u > last
    <3>1. last + 1 > last
      BY <1>2
    <3> QED BY <2>4, <3>1, Zenon
  <2>6. TickInv'
    BY <1>1, <1>2, <1>4, <2>1, <2>2, <2>5, TickStays, Zenon
  <2> QED BY <2>3, <2>6, Zenon DEF CutInv
<1>7. CASE ApplyPlan
  <2>1. UNCHANGED <<log, wal, segs, open, upload, index, last, tick>> /\ PlanSteady
    BY <1>7, Zenon DEF ApplyPlan, PlanSteady
  <2>2. DiskInv'
    BY <1>1, <1>2, <2>1, DiskMoves, Zenon
  <2>3. TickInv'
    BY <1>1, <1>2, <1>3, <1>4, <2>1, TickStays, Zenon
  <2> QED BY <2>2, <2>3, Zenon DEF CutInv
<1>8. CASE StartVolume \/ NotifyReady
  <2>1. UNCHANGED <<log, wal, segs, open, upload, index, plan, last, tick>>
    BY <1>8, Zenon DEF StartVolume, NotifyReady
  <2>2. DiskInv'
    BY <2>1, QuietDisk, Zenon
  <2>3. TickInv'
    BY <1>1, <1>2, <1>3, <1>4, <2>1, TickStays, Zenon
  <2> QED BY <2>2, <2>3, Zenon DEF CutInv
<1> QED BY <1>5, <1>6, <1>7, <1>8, Zenon

(* The tick's flush, the reap of the open generation and the handoffs.     *)
LEMMA HandoffStep ==
  ASSUME CutInv,
         \/ PromoteWal \/ Sweep \/ HandoffPromote \/ HandoffFinalize \/ HandoffUnheard
         \/ PrepareFails
  PROVE  CutInv'
<1>1. DiskInv /\ DiskTypes /\ TickInv
  BY Zenon DEF CutInv, DiskInv
<1>2. last \in Nat /\ last \in last..MaxUlid
  BY <1>1, MintIsNat, Zenon
<1>3. /\ DrainPc \in {"drain", "upload"}
      /\ AfterSweep \in {"handoff", "drain", "upload"}
      /\ AfterHandoff \in {"prepare", "sign", "halt"}
      /\ AfterHandoff = "prepare" => tick.job = "tick"
  BY <1>1, NextPlaces, Zenon
<1>4. {"volume", "sweep", "handoff", "finalize", "prepare"} \subseteq Unbucketed
  BY DEF Unbucketed
<1>5. ASSUME NEW k \in {1, 2}, FlushAs(last + k), last + k <= MaxUlid \/ wal = {},
             last' = last + k \/ (wal = {} /\ last' = last), last' <= MaxUlid,
             log' = log, upload' = upload, index' = index, PlanSteady
      PROVE  DiskInv' /\ last' \in Nat
  <2>1. /\ last + k \in Nat /\ last' \in Nat /\ last' \in last..MaxUlid
        /\ wal # {} => last < last + k /\ last + k <= last'
    BY <1>2, <1>5, BudgetsAreNaturals
  <2>2. DiskInv'
    BY <1>1, <1>5, <2>1, FlushKeeps, Zenon
  <2> QED BY <2>1, <2>2, Zenon
<1>6. ASSUME last' = last PROVE last' \in Nat /\ last' \in last..MaxUlid
  BY <1>2, <1>6, Zenon
<1>7. CASE PromoteWal
  <2>1. /\ tick.pc = "volume" /\ UNCHANGED <<log, upload, index, plan>>
        /\ Goto(IF InTick THEN "sweep" ELSE DrainPc)
        /\ \/ /\ wal # {} => last < MaxUlid
              /\ FlushAs(last + 1) /\ last' = IF wal = {} THEN last ELSE last + 1
           \/ UNCHANGED <<wal, segs, open, last>>
    BY <1>7, Zenon DEF PromoteWal
  <2>2. DiskInv' /\ last' \in Nat
    <3>1. CASE UNCHANGED <<wal, segs, open, last>>
      BY <1>1, <1>6, <2>1, <3>1, DiskSame, Zenon
    <3>2. CASE /\ wal # {} => last < MaxUlid
               /\ FlushAs(last + 1) /\ last' = IF wal = {} THEN last ELSE last + 1
      <4>1. /\ last + 1 <= MaxUlid \/ wal = {}
            /\ last' = last + 1 \/ (wal = {} /\ last' = last)
            /\ last' <= MaxUlid
        BY <1>2, <3>2, BudgetsAreNaturals
      <4>2. PlanSteady
        BY <2>1, Zenon DEF PlanSteady
      <4> QED BY <1>5, <2>1, <3>2, <4>1, <4>2, Zenon
    <3> QED BY <2>1, <3>1, <3>2, Zenon
  <2>3. (IF InTick THEN "sweep" ELSE DrainPc) \in {"sweep", "drain", "upload"}
    BY <1>3, Zenon
  <2>4. TickInv'
    <3> DEFINE pc == IF InTick THEN "sweep" ELSE DrainPc
    <3>1. pc # "prepare"
      BY <2>3
    <3> HIDE DEF pc
    <3> QED BY <1>1, <1>4, <2>1, <2>2, <2>3, <3>1, BareMoves, Zenon DEF pc
  <2> QED BY <2>2, <2>4, Zenon DEF CutInv
<1>8. CASE Sweep
  <2>1. tick.pc = "sweep" /\ Goto(AfterSweep) /\ last' = last
    BY <1>8, Zenon DEF Sweep
  <2>2. AfterSweep # "prepare"
    BY <1>3
  <2>3. TickInv'
    BY <1>1, <1>3, <1>4, <1>6, <2>1, <2>2, BareMoves, Zenon
  <2>4. DiskInv'
    BY <1>1, <1>8, SweepKeeps, Zenon
  <2> QED BY <2>3, <2>4, Zenon DEF CutInv
<1>9. CASE HandoffPromote
  <2>1. tick.pc = "handoff" /\ Goto("finalize") /\ last' = last
    BY <1>9, Zenon DEF HandoffPromote
  <2>2. "finalize" # "prepare"
    OBVIOUS
  <2>3. TickInv'
    BY <1>1, <1>4, <1>6, <2>1, <2>2, BareMoves, Zenon
  <2>4. DiskInv'
    BY <1>1, <1>9, HandoffKeeps, Zenon DEF HandoffPromote
  <2> QED BY <2>3, <2>4, Zenon DEF CutInv
<1>10. CASE HandoffFinalize
  <2>1. /\ tick.pc = "finalize" /\ Goto(AfterHandoff) /\ plan' = NoPlan
        /\ UNCHANGED <<log, wal, segs, open, upload, index, last>>
    BY <1>10, Zenon DEF HandoffFinalize
  <2>2. TickInv'
    BY <1>1, <1>3, <1>4, <1>6, <2>1, BareMoves, Zenon
  <2>3. DiskInv'
    BY <1>1, <1>6, <2>1, DropPlanKeeps, Zenon
  <2> QED BY <2>2, <2>3, Zenon DEF CutInv
<1>11. CASE PrepareFails
  <2>1. /\ tick.pc = "prepare" /\ Goto(DrainPc) /\ UNCHANGED <<log, upload, index, plan>>
        /\ \/ UNCHANGED <<wal, segs, open, last>>
           \/ last + 2 <= MaxUlid /\ FlushAs(last + 2) /\ last' = last + 2
    BY <1>11, Zenon DEF PrepareFails
  <2>2. DiskInv' /\ last' \in Nat
    <3>1. CASE UNCHANGED <<wal, segs, open, last>>
      BY <1>1, <1>6, <2>1, <3>1, DiskSame, Zenon
    <3>2. CASE last + 2 <= MaxUlid /\ FlushAs(last + 2) /\ last' = last + 2
      <4>1. PlanSteady
        BY <2>1, Zenon DEF PlanSteady
      <4> QED BY <1>5, <2>1, <3>2, <4>1, Zenon
    <3> QED BY <2>1, <3>1, <3>2, Zenon
  <2>3. DrainPc # "prepare"
    BY <1>3
  <2>4. TickInv'
    BY <1>1, <1>3, <1>4, <2>1, <2>2, <2>3, BareMoves, Zenon
  <2> QED BY <2>2, <2>4, Zenon DEF CutInv
<1>12. CASE HandoffUnheard
  <2>1. /\ tick.pc \in {"handoff", "finalize"} /\ Goto(AfterHandoff) /\ plan.stage = "bare"
        /\ UNCHANGED <<log, wal, segs, open, upload, last>>
        /\ (index' = Promoted /\ plan' = plan) \/ (index' = index /\ plan' = NoPlan)
    BY <1>12, Zenon DEF HandoffUnheard
  <2>2. TickInv'
    BY <1>1, <1>3, <1>4, <1>6, <2>1, BareMoves, Zenon
  <2>3. DiskInv'
    BY <1>1, <1>6, <2>1, HandoffKeeps, DropPlanKeeps, Zenon
  <2> QED BY <2>2, <2>3, Zenon DEF CutInv
<1> QED BY <1>7, <1>8, <1>9, <1>10, <1>11, <1>12, Zenon

(* The checkpoint mints a ULID for the output above all that is confirmed, *)
(* and flushes above it.                                                   *)
LEMMA PrepareStep ==
  ASSUME CutInv, PrepareGcPass PROVE CutInv'
<1>1. DiskInv /\ DiskTypes /\ TickInv
  BY Zenon DEF CutInv, DiskInv
<1>2. last \in Nat /\ last \in last..MaxUlid
  BY <1>1, MintIsNat, Zenon
<1>3. /\ tick.pc = "prepare" /\ UNCHANGED <<log, upload, index>>
      /\ last + 2 <= MaxUlid /\ FlushAs(last + 2) /\ last' = last + 2
      /\ tick' = [tick EXCEPT !.pc = DrainPc, !.bucket = last + 1]
      /\ plan' = IF plan.stage = "plan" THEN [plan EXCEPT !.stage = "bare"] ELSE plan
  BY Zenon DEF PrepareGcPass
<1>4. PlanSteady
  BY <1>3, Zenon DEF PlanSteady
<1>5. /\ last + 2 \in Nat /\ last' \in Nat /\ last' \in last..MaxUlid
      /\ last < last + 2 /\ last + 2 <= last'
  BY <1>2, <1>3, BudgetsAreNaturals
<1>6. DiskInv'
  BY <1>1, <1>3, <1>4, <1>5, FlushKeeps, Zenon
<1>7. tick.job = "tick" /\ DOMAIN tick = Fields
  BY <1>1, <1>3, Zenon DEF TickInv, Fields
<1>8. /\ DOMAIN tick' = Fields /\ tick'.pc = DrainPc /\ tick'.job = "tick"
      /\ tick'.bucket = last + 1
  BY <1>3, <1>7 DEF Fields
<1>9. DOMAIN segs' \subseteq DOMAIN segs \cup {last + 2}
  <2>1. CASE wal = {}
    BY <1>3, <2>1, Zenon DEF FlushAs
  <2>2. CASE wal # {}
    <3>1. AddSegment(last + 2, wal, {})
      BY <1>3, <2>2, Zenon DEF FlushAs
    <3> QED BY <3>1, SegmentAdded, Zenon
  <2> QED BY <2>1, <2>2, Zenon
<1>10. DOMAIN segs \subseteq 1..last /\ index \cup upload \subseteq DOMAIN segs
  BY <1>1, Zenon DEF DiskTypes
<1>11. last + 1 \notin DOMAIN segs' /\ \A u \in index \cup upload : u < last + 1
  BY <1>2, <1>9, <1>10
<1>12. Fresh(tick.bucket)'
  BY <1>3, <1>8, <1>11, Zenon DEF Fresh
<1>13. /\ DrainPc \in Pcs /\ DrainPc \in Passing
       /\ DrainPc \notin {"put", "close"} /\ DrainPc # "pass"
  <2>1. DrainPc \in {"drain", "upload"}
    BY <1>1, NextPlaces, Zenon
  <2> QED BY <2>1 DEF Pcs, Passing
<1>14. tick'.bucket \in 0..last' /\ "tick" \in Jobs
  BY <1>2, <1>3, <1>8 DEF Jobs
<1>15. TickInv'
  BY <1>8, <1>12, <1>13, <1>14, Zenon DEF TickInv, Fields
<1> QED BY <1>6, <1>15, Zenon DEF CutInv

(* The drain, the pass and the close of the generation.                    *)
LEMMA DrainStep ==
  ASSUME CutInv,
         \/ DrainOne \/ DrainFails \/ (\E U \in SUBSET index : GcPass(U))
         \/ CloseGeneration \/ CloseAndFold
  PROVE  CutInv'
<1>1. DiskInv /\ DiskTypes /\ TickInv
  BY Zenon DEF CutInv, DiskInv
<1>2. last \in Nat /\ last \in last..MaxUlid
  BY <1>1, MintIsNat, Zenon
<1>3. ASSUME last' = last PROVE last' \in Nat /\ last' \in last..MaxUlid /\ last <= last'
  BY <1>2, <1>3
<1>4. CASE DrainOne
  <2>1. /\ tick.pc = "drain" /\ upload # {}
        /\ index' = index \cup {Min(upload)} /\ upload' = upload \ {Min(upload)}
        /\ UNCHANGED <<log, wal, segs, open, plan, last, tick>>
    BY <1>4, Zenon DEF DrainOne
  <2>2. upload \subseteq Nat
    <3>1. upload \subseteq DOMAIN segs /\ DOMAIN segs \subseteq 1..last
      BY <1>1, Zenon DEF DiskTypes
    <3> QED BY <3>1
  <2>3. Min(upload) \in upload
    BY <2>1, <2>2, MinIsLeast, Zenon
  <2>4. /\ open' \cup upload' \cup index' = open \cup upload \cup index
        /\ index \subseteq index' /\ index' \cup upload' \subseteq index \cup upload
    BY <2>1, <2>3, Zenon
  <2>5. DiskInv'
    BY <1>1, <1>3, <2>1, <2>4, DiskMoves, Zenon DEF PlanSteady
  <2>6. tick.pc \notin {"put", "close"}
    BY <2>1
  <2>7. TickInv'
    BY <1>1, <1>2, <1>3, <2>1, <2>4, <2>6, TickStays, Zenon
  <2> QED BY <2>5, <2>7, Zenon DEF CutInv
<1>5. CASE \E U \in SUBSET index : GcPass(U)
  <2>1. PICK U \in SUBSET index : GcPass(U)
    BY <1>5, Zenon
  <2>2. /\ tick.pc = "pass" /\ plan.stage = "none" /\ Goto("publish")
        /\ AddSegment(tick.bucket, LiveIn(U), U)
        /\ plan' = [stage |-> "plan", out |-> tick.bucket, inputs |-> U]
        /\ UNCHANGED <<log, wal, open, upload, index, last>>
    BY <2>1, Zenon DEF GcPass
  <2>3. tick.bucket \in 0..last /\ tick.bucket # 0 /\ Fresh(tick.bucket)
    BY <1>1, <2>2 DEF TickInv, Passing
  <2>4. tick.bucket \in 1..last
    BY <1>2, <2>3
  <2>5. DiskInv'
    BY <1>1, <2>1, <2>2, <2>3, <2>4, PassKeeps, Zenon
  <2>6. /\ DOMAIN tick' = DOMAIN tick
        /\ tick'.pc = "publish" /\ tick'.job = tick.job /\ tick'.bucket = tick.bucket
    BY <1>1, <2>2, GotoIs, Zenon
  <2>7. /\ tick'.pc \in Pcs /\ tick'.pc \notin {"prepare", "pass", "put", "close"}
        /\ tick'.pc \notin Passing
    BY <2>6 DEF Pcs, Passing
  <2>8. TickInv'
    BY <1>1, <1>2, <1>3, <2>2, <2>6, <2>7, TickMoves, Zenon
  <2> QED BY <2>5, <2>8, Zenon DEF CutInv
<1>6. ASSUME tick' = AfterClose, last' \in Nat PROVE TickInv'
  <2>1. CASE InTick
    BY <1>6, <2>1, IdleKeeps, Zenon DEF AfterClose
  <2>2. CASE ~ InTick
    <3>1. tick' = [tick EXCEPT !.pc = DrainPc, !.drain = "closed"]
      BY <1>6, <2>2, Zenon DEF AfterClose
    <3>2. DOMAIN tick = Fields /\ tick.job \in Jobs /\ tick.bucket = 0
      BY <1>1, <2>2, Zenon DEF TickInv, Fields, InTick
    <3>3. /\ DOMAIN tick' = Fields /\ tick'.pc = DrainPc /\ tick'.job = tick.job
          /\ tick'.bucket = 0
      BY <3>1, <3>2 DEF Fields
    <3>4. DrainPc \in Pcs /\ DrainPc \notin {"pass", "put", "close"} /\ DrainPc # "prepare"
      <4>1. DrainPc \in {"drain", "upload"}
        BY <1>1, NextPlaces, Zenon
      <4> QED BY <4>1 DEF Pcs
    <3> QED BY <1>6, <3>2, <3>3, <3>4, BareTick, Zenon
  <2> QED BY <2>1, <2>2, Zenon
<1>7. CASE CloseGeneration
  <2>1. /\ tick' = AfterClose /\ upload' = upload \cup open /\ open' = {}
        /\ UNCHANGED <<log, wal, segs, index, plan, last>>
    BY <1>7, Zenon DEF CloseGeneration
  <2>2. open' \cup upload' \cup index' = open \cup upload \cup index /\ index \subseteq index'
    BY <2>1, Zenon
  <2>3. DiskInv'
    BY <1>1, <1>3, <2>1, <2>2, DiskMoves, Zenon DEF PlanSteady
  <2> QED BY <1>3, <1>6, <2>1, <2>3, Zenon DEF CutInv
<1>8. CASE CloseAndFold
  <2>1. tick.pc = "close" /\ tick' = AfterClose /\ last' = last + 1
    BY <1>8, Zenon DEF CloseAndFold
  <2>2. upload = {}
    BY <1>1, <2>1, Zenon DEF TickInv
  <2>3. last' \in Nat
    BY <1>2, <2>1
  <2>4. DiskInv'
    BY <1>1, <1>8, <2>2, FoldKeeps, Zenon
  <2> QED BY <1>6, <2>1, <2>3, <2>4, Zenon DEF CutInv
<1>9. CASE DrainFails
  <2>1. /\ tick.pc = "drain" /\ upload # {}
        /\ IF InTick THEN tick' = [tick EXCEPT !.pc = AfterDrain("failed"), !.drain = "failed"]
           ELSE tick' = Idle
        /\ UNCHANGED <<log, wal, segs, open, plan, last>>
        /\ \/ UNCHANGED <<index, upload>>
           \/ index' = index \cup {Min(upload)} /\ upload' = upload \ {Min(upload)}
    BY <1>9, Zenon DEF DrainFails
  <2>2. Min(upload) \in upload
    <3>1. upload \subseteq DOMAIN segs /\ DOMAIN segs \subseteq 1..last
      BY <1>1, Zenon DEF DiskTypes
    <3>2. upload \subseteq Nat
      BY <3>1
    <3> QED BY <2>1, <3>2, MinIsLeast, Zenon
  <2>3. /\ open' \cup upload' \cup index' = open \cup upload \cup index
        /\ index \subseteq index'
    BY <2>1, <2>2, Zenon
  <2>4. DiskInv'
    BY <1>1, <1>3, <2>1, <2>3, DiskMoves, Zenon DEF PlanSteady
  <2>5. CASE ~ InTick
    BY <1>3, <2>1, <2>4, <2>5, IdleKeeps, Zenon DEF CutInv
  <2>6. CASE InTick
    <3>1. "failed" # "ok"
      OBVIOUS
    <3>2. tick' = [tick EXCEPT !.pc = "publish", !.drain = "failed"]
      BY <2>1, <2>6, <3>1, Zenon DEF AfterDrain
    <3>3. /\ DOMAIN tick' = DOMAIN tick
          /\ tick'.pc = "publish" /\ tick'.job = tick.job /\ tick'.bucket = tick.bucket
      BY <1>1, <3>2 DEF TickInv
    <3>4. /\ tick'.pc \in Pcs /\ tick'.pc \notin {"prepare", "pass", "put", "close"}
          /\ tick'.pc \notin Passing
      BY <3>3 DEF Pcs, Passing
    <3>5. TickInv'
      BY <1>1, <1>2, <1>3, <2>1, <3>3, <3>4, TickMoves, Zenon
    <3> QED BY <2>4, <3>5, Zenon DEF CutInv
  <2> QED BY <2>5, <2>6, Zenon
<1> QED BY <1>4, <1>5, <1>7, <1>8, <1>9, Zenon

(* A tick or a seal begins, or goes on without touching the disk.          *)
LEMMA QuietStep ==
  ASSUME CutInv,
         \/ \E due \in SUBSET {"cut", "gc"} : StartTick(due)
         \/ \E job \in {"snapshot", "stop"} : BeginSeal(job)
         \/ PromoteWalFails \/ HandoffDefers \/ NoHandoff \/ ApplyRefused
         \/ DrainDone \/ GcPassFails \/ GcPassIdle
         \/ CloseFails \/ SealRefused \/ Restart
  PROVE  CutInv'
<1>1. DiskInv /\ DiskTypes /\ TickInv
  BY Zenon DEF CutInv, DiskInv
<1>2. UNCHANGED <<log, wal, segs, open, upload, index, plan, last>>
  <2>1. UNCHANGED disk
    BY Zenon DEF StartTick, BeginSeal, PromoteWalFails, HandoffDefers, NoHandoff, ApplyRefused,
       DrainDone, GcPassFails, GcPassIdle, CloseFails, SealRefused, Restart
  <2> QED BY <2>1, Zenon DEF disk
<1>3. DiskInv' /\ last' \in Nat
  BY <1>2, QuietDisk, Zenon
<1>4. /\ AfterHandoff \in {"prepare", "sign", "halt"}
      /\ AfterHandoff = "prepare" => tick.job = "tick"
  BY <1>1, NextPlaces, Zenon
<1>5. {"volume", "sweep", "handoff", "finalize", "prepare"} \subseteq Unbucketed
  BY DEF Unbucketed
<1>6. CASE \E due \in SUBSET {"cut", "gc"} : StartTick(due)
  <2>1. PICK due : tick' = [Idle EXCEPT !.pc = "volume", !.due = due]
    BY <1>6, Zenon DEF StartTick
  <2>2. /\ DOMAIN tick' = Fields /\ tick'.job \in Jobs /\ tick'.bucket = 0
        /\ tick'.pc \in Pcs /\ tick'.pc \notin {"pass", "put", "close"} /\ tick'.pc # "prepare"
    BY <2>1 DEF Idle, Fields, Jobs, Pcs
  <2> QED BY <1>3, <2>2, BareTick, Zenon DEF CutInv
<1>7. CASE \E job \in {"snapshot", "stop"} : BeginSeal(job)
  <2>1. PICK job \in {"snapshot", "stop"} :
            tick' = [Idle EXCEPT !.job = job, !.pc = IF power = "up" THEN "volume" ELSE "seal"]
    BY <1>7, Zenon DEF BeginSeal
  <2>2. /\ DOMAIN tick' = Fields /\ tick'.job \in Jobs /\ tick'.bucket = 0
        /\ tick'.pc \in Pcs /\ tick'.pc \notin {"pass", "put", "close"} /\ tick'.pc # "prepare"
    BY <2>1 DEF Idle, Fields, Jobs, Pcs
  <2> QED BY <1>3, <2>2, BareTick, Zenon DEF CutInv
<1>8. CASE tick' = Idle
  BY <1>2, <1>8, QuietEnds, Zenon
<1>9. CASE tick.pc = "volume" /\ Goto("sweep")
  <2>1. "sweep" # "prepare"
    OBVIOUS
  <2> QED BY <1>2, <1>5, <1>9, <2>1, QuietBare, Zenon
<1>10. CASE tick.pc \in {"handoff", "finalize"} /\ Goto(AfterHandoff)
  BY <1>2, <1>4, <1>5, <1>10, QuietBare, Zenon
<1>11. CASE tick.pc = "pass" /\ Goto("publish")
  <2>1. /\ DOMAIN tick' = DOMAIN tick
        /\ tick'.pc = "publish" /\ tick'.job = tick.job /\ tick'.bucket = tick.bucket
    BY <1>1, <1>11, GotoIs, Zenon
  <2>2. tick'.pc \notin {"drain", "pass", "truncate"} /\ tick'.pc \notin {"put", "close"}
    BY <2>1
  <2> QED BY <1>2, <2>1, <2>2, QuietMoves, Zenon
<1>12. CASE DrainDone
  <2>1. tick.pc = "drain" /\ upload = {} /\ Goto(AfterDrain("ok"))
    BY <1>12, Zenon DEF DrainDone
  <2>2. /\ DOMAIN tick' = Fields /\ DOMAIN tick' = DOMAIN tick
        /\ tick'.pc = AfterDrain("ok") /\ tick'.job = tick.job /\ tick'.bucket = tick.bucket
    BY <1>1, <2>1, GotoIs, Zenon
  <2>3. CASE ~ InTick /\ tick.drain = "closed"
    <3>1. tick'.pc = "handoff" /\ tick.bucket = 0 /\ tick.job \in Jobs
      BY <1>1, <2>2, <2>3, Zenon DEF AfterDrain, TickInv, InTick
    <3>2. tick'.pc \in Pcs /\ tick'.pc \notin {"pass", "put", "close"} /\ tick'.pc # "prepare"
      BY <3>1 DEF Pcs
    <3> QED BY <1>3, <2>2, <3>1, <3>2, BareTick, Zenon DEF CutInv
  <2>4. CASE InTick \/ tick.drain # "closed"
    <3>1. /\ tick'.pc \in {"pass", "publish", "close"}
          /\ tick'.pc = "pass" => tick.bucket # 0
      BY <2>2, <2>4 DEF AfterDrain
    <3> QED BY <1>2, <2>1, <2>2, <3>1, QuietMoves, Zenon
  <2> QED BY <2>3, <2>4, Zenon
<1>13. CASE PromoteWalFails \/ HandoffDefers \/ NoHandoff \/ ApplyRefused
  BY <1>8, <1>9, <1>10, <1>13, Zenon
     DEF PromoteWalFails, HandoffDefers, NoHandoff, ApplyRefused
<1>14. CASE GcPassFails \/ GcPassIdle \/ CloseFails \/ SealRefused \/ Restart
  BY <1>8, <1>11, <1>14, Zenon
     DEF GcPassFails, GcPassIdle, CloseFails, SealRefused, Restart
<1> QED BY <1>6, <1>7, <1>12, <1>13, <1>14, Zenon

(* The publish of a cut, with the upload generation empty.                 *)
LEMMA PublishStep ==
  ASSUME CutInv,
         \/ PublishNothing \/ PublishHeld \/ Publish \/ PublishReaping
         \/ PublishReapMisses \/ PublishUnread \/ PutHead \/ PutHeadFails
  PROVE  CutInv'
<1>1. TickInv
  BY Zenon DEF CutInv
<1>2. UNCHANGED <<log, wal, segs, open, upload, index, plan, last>>
  <2>1. UNCHANGED disk
    BY Zenon DEF PublishNothing, PublishHeld, Publish, PublishReaping, PublishReapMisses,
       PublishUnread, PutHead, PutHeadFails
  <2> QED BY <2>1, Zenon DEF disk
<1>3. ASSUME Goto("idle") \/ (upload = {} /\ Goto("close")) PROVE CutInv'
  <2>1. PICK pc \in {"idle", "close"} : Goto(pc) /\ (pc = "close" => upload = {})
    <3>1. "idle" # "close"
      OBVIOUS
    <3> QED BY <1>3, <3>1, Zenon
  <2>2. /\ DOMAIN tick' = DOMAIN tick
        /\ tick'.pc = pc /\ tick'.job = tick.job /\ tick'.bucket = tick.bucket
    BY <1>1, <2>1, GotoIs, Zenon
  <2>3. /\ pc \notin {"drain", "pass", "truncate"}
        /\ pc \in {"put", "close"} => upload = {}
    BY <2>1
  <2> QED BY <1>2, <2>2, <2>3, QuietMoves, Zenon
<1>4. ASSUME NEW pc \in {"put", "close"}, NEW d, upload = {},
             tick' = [tick EXCEPT !.pc = pc, !.draft = d]
      PROVE  CutInv'
  <2>1. /\ DOMAIN tick' = DOMAIN tick
        /\ tick'.pc = pc /\ tick'.job = tick.job /\ tick'.bucket = tick.bucket
    BY <1>1, <1>4 DEF TickInv
  <2>2. pc \notin {"drain", "pass", "truncate"}
    BY <1>4
  <2> QED BY <1>2, <1>4, <2>1, <2>2, QuietMoves, Zenon
<1>5. ASSUME NEW b, NEW R, NEW D, PublishFrom(b, R, D), upload = {} PROVE CutInv'
  BY <1>3, <1>4, <1>5, Zenon DEF PublishFrom
<1>6. CASE PublishNothing \/ PublishHeld
  BY <1>3, <1>6, Zenon DEF PublishNothing, PublishHeld, CutHolds
<1>7. CASE Publish \/ PublishReaping \/ PublishReapMisses \/ PublishUnread
  BY <1>5, <1>7, Zenon
     DEF Publish, PublishReaping, PublishReapMisses, PublishUnread, CutHolds
<1>8. CASE PutHead
  <2>1. tick.pc = "put" /\ tick' = [tick EXCEPT !.pc = "close", !.draft = EmptyHead]
    BY <1>8, Zenon DEF PutHead
  <2>2. upload = {}
    BY <1>1, <2>1, Zenon DEF TickInv
  <2> QED BY <1>4, <2>1, <2>2, Zenon
<1>9. CASE PutHeadFails
  BY <1>2, <1>9, QuietEnds, Zenon DEF PutHeadFails
<1> QED BY <1>6, <1>7, <1>8, <1>9, Zenon

(* The seals: what they sign, flush and upload.                            *)
LEMMA SealStep ==
  ASSUME CutInv,
         \/ SignSnapshot \/ Halt \/ HaltUnflushed \/ SealStopped
         \/ \E F \in SUBSET Unsent : \E L \in SUBSET (Unsent \ F) : UploadManifests(F, L)
         \/ TruncateHead \/ TruncateHeadFails
  PROVE  CutInv'
<1>1. DiskInv /\ DiskTypes /\ TickInv
  BY Zenon DEF CutInv, DiskInv
<1>2. last \in Nat /\ last \in last..MaxUlid
  BY <1>1, MintIsNat, Zenon
<1>3. {"sign", "halt", "seal"} \subseteq Unbucketed
  BY DEF Unbucketed
<1>4. ASSUME SnapshotUlid <= MaxUlid, last' = Max({last, SnapshotUlid})
      PROVE  last' \in Nat /\ last' \in last..MaxUlid
  <2>1. index \subseteq 1..last
    BY <1>1, Zenon DEF DiskTypes
  <2>2. SnapshotUlid \in Nat
    <3>1. CASE index = {}
      BY <1>2, <3>1 DEF SnapshotUlid
    <3>2. CASE index # {}
      <4>1. index \subseteq 0..last
        BY <1>2, <2>1
      <4>2. Max(index) \in index
        BY <1>2, <3>2, <4>1, MaxIsGreatest, Zenon
      <4>3. SnapshotUlid \in 0..last
        BY <3>2, <4>1, <4>2, Zenon DEF SnapshotUlid
      <4> QED BY <4>3
    <3> QED BY <3>1, <3>2, Zenon
  <2> DEFINE S == {last, SnapshotUlid}
  <2>3. MaxUlid \in Nat /\ S \subseteq 0..MaxUlid /\ S # {}
    BY <1>2, <1>4, <2>2, BudgetsAreNaturals
  <2>4. Max(S) \in S /\ \A x \in S : x <= Max(S)
    <3> HIDE DEF S
    <3> QED BY <2>3, MaxIsGreatest, Zenon
  <2>5. last <= Max(S)
    BY <2>4, Zenon
  <2>6. last' = Max(S)
    BY <1>4, Zenon
  <2>7. Max(S) \in 0..MaxUlid
    BY <2>3, <2>4, Zenon
  <2> HIDE DEF S
  <2> QED BY <1>2, <2>3, <2>5, <2>6, <2>7
<1>5. ASSUME tick.pc \in Unbucketed, Uploading, last' \in Nat PROVE TickInv'
  <2>1. tick.bucket = 0 /\ DOMAIN tick = Fields /\ tick.job \in Jobs
    BY <1>1, <1>5, NoBucket, Zenon DEF TickInv, Fields
  <2>2. /\ DOMAIN tick' = Fields /\ tick'.pc = "upload" /\ tick'.job = tick.job
        /\ tick'.bucket = 0
    BY <1>5, <2>1 DEF Uploading, Fields
  <2>3. "upload" \in Pcs /\ "upload" \notin {"pass", "put", "close"} /\ "upload" # "prepare"
    BY DEF Pcs
  <2> QED BY <1>5, <2>1, <2>2, <2>3, BareTick, Zenon
<1>6. CASE SignSnapshot
  <2>1. /\ tick.pc = "sign" /\ SnapshotUlid <= MaxUlid /\ last' = Max({last, SnapshotUlid})
        /\ Uploading /\ UNCHANGED <<log, wal, segs, open, upload, index, plan>>
    BY <1>6, Zenon DEF SignSnapshot
  <2>2. last' \in Nat /\ last' \in last..MaxUlid
    BY <1>4, <2>1, Zenon
  <2>3. DiskInv'
    BY <1>1, <2>1, <2>2, DiskSame, Zenon
  <2> QED BY <1>3, <1>5, <2>1, <2>2, <2>3, Zenon DEF CutInv
<1>7. CASE SealStopped
  <2>1. /\ tick.pc = "seal" /\ SnapshotUlid <= MaxUlid /\ last' = Max({last, SnapshotUlid})
        /\ Uploading /\ plan' = NoPlan
        /\ UNCHANGED <<log, wal, segs, open, upload, index>>
    BY <1>7, Zenon DEF SealStopped, SealStop
  <2>2. last' \in Nat /\ last' \in last..MaxUlid
    BY <1>4, <2>1, Zenon
  <2>3. DiskInv'
    BY <1>1, <2>1, <2>2, DropPlanKeeps, Zenon
  <2> QED BY <1>3, <1>5, <2>1, <2>2, <2>3, Zenon DEF CutInv
<1>8. CASE Halt
  <2>1. /\ tick.pc = "halt" /\ Goto("seal") /\ UNCHANGED <<log, upload, index, plan>>
        /\ wal # {} => last < MaxUlid
        /\ FlushAs(last + 1) /\ last' = IF wal = {} THEN last ELSE last + 1
    BY <1>8, Zenon DEF Halt
  <2>2. /\ last + 1 \in Nat /\ last' \in Nat /\ last' \in last..MaxUlid
        /\ wal # {} => last < last + 1 /\ last + 1 <= last'
    BY <1>2, <2>1, BudgetsAreNaturals
  <2>3. DiskInv'
    BY <1>1, <2>1, <2>2, FlushKeeps, Zenon DEF PlanSteady
  <2>4. "seal" # "prepare"
    OBVIOUS
  <2>5. TickInv'
    BY <1>1, <1>3, <2>1, <2>2, <2>4, BareMoves, Zenon
  <2> QED BY <2>3, <2>5, Zenon DEF CutInv
<1>9. CASE HaltUnflushed
  BY <1>9, QuietEnds, Zenon DEF HaltUnflushed
<1>10. ASSUME UNCHANGED <<log, wal, segs, open, upload, index, plan, last>>,
              tick.pc \in {"upload", "truncate"}, NEW d,
              \/ tick' = AfterUpload
              \/ tick' = [AfterUpload EXCEPT !.draft = d]
              \/ tick' = [tick EXCEPT !.pc = "truncate", !.draft = d]
       PROVE  CutInv'
  <2>1. DiskInv' /\ last' \in Nat
    BY <1>10, QuietDisk, Zenon
  <2>2. CASE tick' = Idle \/ tick' = [Idle EXCEPT !.draft = d]
    <3>1. /\ DOMAIN tick' = Fields /\ tick'.job \in Jobs /\ tick'.bucket = 0
          /\ tick'.pc \in Pcs /\ tick'.pc \notin {"pass", "put", "close"} /\ tick'.pc # "prepare"
      BY <2>2 DEF Idle, Fields, Jobs, Pcs
    <3> QED BY <2>1, <3>1, BareTick, Zenon DEF CutInv
  <2>3. CASE \/ tick' = [tick EXCEPT !.pc = "drain"]
             \/ tick' = [[tick EXCEPT !.pc = "drain"] EXCEPT !.draft = d]
             \/ tick' = [tick EXCEPT !.pc = "truncate", !.draft = d]
    <3>1. /\ DOMAIN tick' = DOMAIN tick /\ tick'.pc \in {"drain", "truncate"}
          /\ tick'.job = tick.job /\ tick'.bucket = tick.bucket
      BY <1>1, <2>3, Zenon DEF TickInv
    <3>2. tick'.pc \notin {"put", "close"} /\ tick'.pc # "pass"
      BY <3>1
    <3> QED BY <1>10, <3>1, <3>2, QuietMoves, Zenon
  <2> QED BY <1>10, <2>2, <2>3, Zenon DEF AfterUpload
<1>11. CASE \E F \in SUBSET Unsent : \E L \in SUBSET (Unsent \ F) : UploadManifests(F, L)
  BY <1>10, <1>11, Zenon DEF UploadManifests
<1>12. CASE TruncateHead \/ TruncateHeadFails
  BY <1>10, <1>12, Zenon DEF TruncateHead, TruncateHeadFails, disk
<1> QED BY <1>6, <1>7, <1>8, <1>9, <1>11, <1>12, Zenon

-----------------------------------------------------------------------------
(* A fresh volume has nothing to rebuild.                                  *)
LEMMA CutInit == Init => CutInv
<1> SUFFICES ASSUME Init PROVE CutInv
  OBVIOUS
<1>1. /\ log = <<>> /\ wal = {} /\ DOMAIN segs = {} /\ open = {} /\ upload = {} /\ index = {}
      /\ plan = NoPlan /\ last = 0 /\ tick = Idle
  BY DEF Init
<1>2. /\ plan.stage = "none"
      /\ plan = [stage |-> plan.stage, out |-> plan.out, inputs |-> plan.inputs]
  BY <1>1 DEF NoPlan
<1>3. log \in Seq(Lbas) /\ DOMAIN log = {} /\ last \in 0..MaxUlid
  BY <1>1, BudgetsAreNaturals
<1>4. DiskTypes
  BY <1>1, <1>2, <1>3, Zenon DEF DiskTypes
<1>5. WalAbove /\ Ordered /\ Present /\ PlanCovers
  BY <1>1, <1>2, <1>3, Zenon DEF WalAbove, Ordered, Held, Present, PlanCovers
<1>6. TickInv
  BY <1>1 DEF TickInv, Idle, Pcs, Jobs
<1> QED BY <1>4, <1>5, <1>6, Zenon DEF CutInv, DiskInv

(* Every step keeps the invariant.                                         *)
LEMMA CutStep == CutInv /\ [Next]_vars => CutInv'
<1> SUFFICES ASSUME CutInv, [Next]_vars PROVE CutInv'
  OBVIOUS
<1>1. CASE UNCHANGED vars
  <2>1. UNCHANGED <<log, wal, segs, open, upload, index, plan, last>> /\ tick' = tick
    BY <1>1, Zenon DEF vars, disk
  <2>2. DiskInv' /\ last \in Nat /\ last' \in Nat /\ last <= last'
    BY <2>1, QuietDisk, Zenon
  <2>3. TickInv /\ (tick.pc \in {"put", "close"} => upload = {})
    BY Zenon DEF CutInv, TickInv
  <2>4. TickInv'
    BY <2>1, <2>2, <2>3, TickStays, Zenon
  <2> QED BY <2>2, <2>4, Zenon DEF CutInv
<1>2. CASE Tick
  BY <1>2, HandoffStep, PrepareStep, DrainStep, QuietStep, PublishStep, Zenon DEF Tick
<1>3. CASE Seal
  BY <1>3, SealStep, QuietStep, VolumeStep, Zenon DEF Seal
<1>4. CASE Next
  BY <1>2, <1>3, <1>4, VolumeStep, QuietStep, Zenon DEF Next
<1> QED BY <1>1, <1>4, Zenon

(* A reopen of the volume at any moment rebuilds the newest version of     *)
(* each block, whatever the tick, the seals, GC and restarts did.          *)
THEOREM RebuildsAreExact == Spec => []RebuildIsExact
<1>1. CutInv => RebuildIsExact
  BY DiskIsExact, Zenon DEF CutInv
<1> QED BY <1>1, CutInit, CutStep, PTL DEF Spec
=============================================================================
