--------------------------- MODULE SyncGateProofs ---------------------------
(***************************************************************************)
(* Proofs about the sync gate, for any number of threads and of writes.    *)
(***************************************************************************)
EXTENDS SyncGate, TLAPS

(* Generations only move forward, and the gate's view of them is ordered.  *)
Order ==
    /\ completed <= gen
    /\ synced <= gen
    /\ running # NoRound => completed <= running /\ running <= gen
    /\ failure = "none" => completed <= synced
    /\ failure = "err" => faulted

(* What each thread's place in sync_through says of its generation.        *)
Place(t) ==
    /\ want[t] <= gen
    /\ InRound(t) => running = start[t] /\ want[t] <= start[t]
    /\ pc[t] = "syncing" => start[t] <= cover[t] /\ cover[t] <= gen
    /\ pc[t] = "joined" => running # NoRound /\ want[t] <= running
    /\ pc[t] = "parked" => running # NoRound /\ running < want[t]
    /\ pc[t] = "wokenJoined" => want[t] <= completed
    /\ pc[t] = "wokenParked" /\ running # NoRound => want[t] <= running
    /\ answer[t] = "ok" => want[t] <= synced
    /\ pc[t] # "idle" => answer[t] = "none"

(* How often a thread has slept by the time it reaches each place.         *)
Slept(t) ==
    /\ waits[t] <= 2
    /\ pc[t] = "arrive" => waits[t] = 0
    /\ pc[t] \in {"parked", "wokenParked"} => waits[t] <= 1

IInv ==
    /\ TypeOK
    /\ Order
    /\ \A t \in Threads : Place(t) /\ Slept(t)
    /\ running # NoRound => \E t \in Threads : InRound(t)
    /\ \A t, u \in Threads : InRound(t) /\ InRound(u) => t = u

-----------------------------------------------------------------------------
(* The gate starts idle with nothing asked.                                *)
LEMMA InitIInv == Init => IInv
<1> SUFFICES ASSUME Init PROVE IInv
  BY Zenon
<1>1. TypeOK
  <2>1. gen \in 0 .. MaxGen /\ completed \in 0 .. MaxGen /\ synced \in 0 .. MaxGen
    BY GateAssumption DEF Init
  <2>2. running \in (0 .. MaxGen) \cup {NoRound} /\ joined \in Nat
    BY Zenon DEF Init
  <2>3. want \in [Threads -> 0 .. MaxGen] /\ start \in [Threads -> 0 .. MaxGen]
        /\ cover \in [Threads -> 0 .. MaxGen] /\ waits \in [Threads -> Nat]
    BY GateAssumption DEF Init
  <2>4. pc \in [Threads -> PCs] /\ answer \in [Threads -> {"none", "ok", "err"}]
    BY Zenon DEF Init, PCs
  <2>5. failure \in {"none", "err"} /\ faulted \in BOOLEAN
    BY Zenon DEF Init
  <2> QED BY Zenon, <2>1, <2>2, <2>3, <2>4, <2>5 DEF TypeOK
<1>2. Order
  BY DEF Init, Order, NoRound
<1>3. ASSUME NEW t \in Threads PROVE Place(t) /\ Slept(t) /\ ~InRound(t)
  BY DEF Init, Place, Slept, InRound
<1> QED
  BY Zenon, <1>1, <1>2, <1>3 DEF Init, IInv, NoRound

(* A write or a new request moves only the generation and the caller.      *)
LEMMA AppendIInv == IInv /\ Append => IInv'
BY GateAssumption
   DEF Append, IInv, TypeOK, Order, Place, Slept, InRound, NoRound, PCs,
       gateVars, callVars, history

\* A request registers its generation and disturbs no round.
LEMMA RequestIInv == ASSUME NEW t \in Threads, IInv, Request(t) PROVE IInv'
BY GateAssumption
   DEF Request, IInv, TypeOK, Order, Place, Slept, InRound, NoRound, PCs,
       gateVars, callVars, history

(* A call returns the gate's outcome only when `completed` has reached it. *)
LEMMA ReturnIInv ==
    ASSUME NEW t \in Threads, IInv, ReturnOutcome(t), want[t] <= completed,
           pc[t] \in {"arrive", "wokenJoined", "wokenParked"}
    PROVE  IInv'
BY GateAssumption
   DEF ReturnOutcome, Outcome, IInv, TypeOK, Order, Place, Slept, InRound,
       NoRound, PCs, gateVars, callVars, history

\* A joiner counts itself into the running round.
LEMMA JoinIInv ==
    ASSUME NEW t \in Threads, IInv, Join(t), pc[t] \in {"arrive", "wokenParked"}
    PROVE  IInv'
BY GateAssumption
   DEF Join, IInv, TypeOK, Order, Place, Slept, InRound, NoRound, PCs,
       gateVars, callVars, history

(* A woken request never parks again: any later round started late enough. *)
LEMMA ParkIInv ==
    ASSUME NEW t \in Threads, IInv, Park(t), pc[t] \in {"arrive", "wokenParked"}
    PROVE  IInv'
BY GateAssumption
   DEF Park, IInv, TypeOK, Order, Place, Slept, InRound, NoRound, PCs,
       gateVars, callVars, history

\* A leader starts a round when none runs.
LEMMA LeadIInv ==
    ASSUME NEW t \in Threads, IInv, Lead(t), pc[t] \in {"arrive", "wokenParked"}
    PROVE  IInv'
BY GateAssumption
   DEF Lead, LeadFrom, IInv, TypeOK, Order, Place, Slept, InRound, NoRound,
       PCs, gateVars, callVars, history

\* The leader takes the handles its round covers.
LEMMA TakeHandlesIInv ==
    ASSUME NEW t \in Threads, IInv, TakeHandles(t) PROVE IInv'
BY GateAssumption
   DEF TakeHandles, IInv, TypeOK, Order, Place, Slept, InRound, NoRound, PCs,
       gateVars, callVars, history

\* The end of a round reports its outcome and wakes the sleepers.
LEMMA EndRoundIInv ==
    ASSUME NEW t \in Threads, NEW r \in {"ok", "err"}, IInv, EndRound(t, r)
    PROVE  IInv'
<1> USE GateAssumption DEF EndRound
<1>1. TypeOK'
  <2>1. /\ gen' \in 0 .. MaxGen /\ completed' \in 0 .. MaxGen /\ joined' \in Nat
        /\ running' \in (0 .. MaxGen) \cup {NoRound} /\ synced' \in 0 .. MaxGen
    BY Zenon DEF IInv, TypeOK
  <2>2. /\ start' \in [Threads -> 0 .. MaxGen] /\ cover' \in [Threads -> 0 .. MaxGen]
        /\ want' \in [Threads -> 0 .. MaxGen] /\ waits' \in [Threads -> Nat]
    BY DEF IInv, TypeOK
  <2>3. pc' \in [Threads -> PCs]
    BY Zenon DEF Notified, IInv, TypeOK, PCs
  <2>4. /\ answer' \in [Threads -> {"none", "ok", "err"}]
        /\ failure' \in {"none", "err"} /\ faulted' \in BOOLEAN
    BY Zenon DEF IInv, TypeOK
  <2> QED BY Zenon, <2>1, <2>2, <2>3, <2>4 DEF TypeOK
<1>2. Order'
  BY DEF IInv, TypeOK, Order, Place, InRound, NoRound
<1>3. \A u \in Threads : ~InRound(u)'
  BY Zenon DEF Notified, IInv, TypeOK, InRound, PCs
<1>4. ASSUME NEW u \in Threads PROVE Place(u)'
  BY <1>3 DEF Notified, IInv, TypeOK, Order, Place, InRound, NoRound, PCs
<1>5. ASSUME NEW u \in Threads PROVE Slept(u)'
  BY Zenon DEF Notified, IInv, TypeOK, Slept, PCs
<1> QED
  BY Zenon, <1>1, <1>2, <1>3, <1>4, <1>5 DEF IInv, NoRound

\* Every step of the gate keeps the invariant.
LEMMA NextIInv == IInv /\ [Next]_vars => IInv'
<1> SUFFICES ASSUME IInv, [Next]_vars PROVE IInv'
  BY Zenon
<1>1. CASE Append
  BY Zenon, <1>1, AppendIInv
<1>2. ASSUME NEW t \in Threads, Request(t) PROVE IInv'
  BY Zenon, <1>2, RequestIInv
<1>3. ASSUME NEW t \in Threads, Arrive(t) PROVE IInv'
  <2>1. CASE completed >= want[t] /\ ReturnOutcome(t)
    BY Zenon, <1>3, <2>1, ReturnIInv DEF Arrive, IInv, TypeOK
  <2>2. CASE Loop(t)
    BY Zenon, <1>3, <2>2, JoinIInv, ParkIInv, LeadIInv DEF Arrive, Loop
  <2> QED BY Zenon, <1>3, <2>1, <2>2 DEF Arrive
<1>4. ASSUME NEW t \in Threads, WakeJoined(t) PROVE IInv'
  <2>1. want[t] <= completed
    BY Zenon, <1>4 DEF WakeJoined, IInv, Place
  <2> QED BY Zenon, <1>4, <2>1, ReturnIInv DEF WakeJoined
<1>5. ASSUME NEW t \in Threads, WakeParked(t) PROVE IInv'
  <2>1. CASE completed >= want[t] /\ ReturnOutcome(t)
    BY Zenon, <1>5, <2>1, ReturnIInv DEF WakeParked, IInv, TypeOK
  <2>2. CASE Loop(t)
    BY Zenon, <1>5, <2>2, JoinIInv, ParkIInv, LeadIInv DEF WakeParked, Loop
  <2> QED BY Zenon, <1>5, <2>1, <2>2 DEF WakeParked
<1>6. ASSUME NEW t \in Threads, TakeHandles(t) PROVE IInv'
  BY Zenon, <1>6, TakeHandlesIInv
<1>7. ASSUME NEW t \in Threads, NEW r \in {"ok", "err"}, EndRound(t, r) PROVE IInv'
  BY Zenon, <1>7, EndRoundIInv
<1>8. CASE UNCHANGED vars
  BY <1>8 DEF vars, gateVars, callVars, history, IInv, TypeOK, Order, Place,
              Slept, InRound
<1> QED
  BY Zenon, <1>1, <1>2, <1>3, <1>4, <1>5, <1>6, <1>7, <1>8 DEF Next, Step

(* The inductive invariant holds in every reachable state.                 *)
THEOREM GateInvariant == Spec => []IInv
BY InitIInv, NextIInv, PTL DEF Spec

(* Every variable of the gate keeps its type.                              *)
THEOREM GateTypeCorrect == Spec => []TypeOK
<1>1. IInv => TypeOK
  BY Zenon DEF IInv
<1> QED BY <1>1, GateInvariant, PTL

(* sync_through returns Ok only for writes that a successful fdatasync     *)
(* round covers.                                                           *)
THEOREM OkIsDurable == Spec => []OkMeansSynced
<1>1. IInv => OkMeansSynced
  BY Zenon DEF IInv, Place, OkMeansSynced
<1> QED BY <1>1, GateInvariant, PTL

(* At most one round of fdatasync is in flight, the one `running` records. *)
THEOREM RoundsAreExclusive == Spec => []OneRoundAtATime
<1>1. IInv => OneRoundAtATime
  BY Zenon DEF IInv, Place, OneRoundAtATime
<1> QED BY <1>1, GateInvariant, PTL

(* A sleeper in the condition variable always has a leader to wake it.     *)
THEOREM NoLostWakeup == Spec => []SleepersHaveALeader
<1>1. IInv => SleepersHaveALeader
  BY Zenon DEF IInv, Place, SleepersHaveALeader
<1> QED BY <1>1, GateInvariant, PTL

(* A call sleeps through at most two rounds.                               *)
THEOREM BoundedWaits == Spec => []AtMostTwoWaits
<1>1. IInv => AtMostTwoWaits
  BY Zenon DEF IInv, Slept, AtMostTwoWaits
<1> QED BY <1>1, GateInvariant, PTL

-----------------------------------------------------------------------------
(* Refinement: each step of the gate is a step of the service or a stutter.*)
LEMMA InitRefines == Init => Service!Init
<1> SUFFICES ASSUME Init PROVE Service!Init
  BY Zenon
<1>1. [t \in Threads |-> IF pc[t] = "idle" THEN answer[t] ELSE "wait"]
        = [t \in Threads |-> "none"]
  BY Zenon DEF Init
<1> QED BY Zenon, <1>1 DEF Init, Service!Init

\* A return with a sync behind it is a return of the service.
LEMMA ReturnRefines ==
    ASSUME NEW t \in Threads, IInv, ReturnOutcome(t), want[t] <= completed,
           pc[t] \in {"arrive", "wokenJoined", "wokenParked"}
    PROVE  Service!Answer(t)
<1> DEFINE Shown == [u \in Threads |-> IF pc[u] = "idle" THEN answer[u] ELSE "wait"]
<1>1. Shown[t] = "wait"
  BY Zenon
<1>2. Shown' = [Shown EXCEPT ![t] = Outcome]
  BY Zenon DEF ReturnOutcome, IInv, TypeOK
<1>3. \/ Outcome = "ok" /\ want[t] <= synced
      \/ Outcome = "err" /\ faulted
  BY DEF Outcome, IInv, TypeOK, Order
<1>4. UNCHANGED <<gen, synced, faulted, want>>
  BY Zenon DEF ReturnOutcome, history
<1> QED BY Zenon, <1>1, <1>2, <1>3, <1>4 DEF Service!Answer

\* Steps inside the gate's loop are invisible to the service.
LEMMA LoopRefines ==
    ASSUME NEW t \in Threads, IInv, Loop(t), pc[t] \in {"arrive", "wokenParked"}
    PROVE  UNCHANGED Service!vars
BY Zenon DEF Loop, Join, Park, Lead, LeadFrom, Service!vars, IInv, TypeOK, PCs,
       gateVars, history

\* Every step of the gate is a step or a stutter of the service.
LEMMA NextRefines == IInv /\ [Next]_vars => [Service!Next]_(Service!vars)
<1> SUFFICES ASSUME IInv, [Next]_vars PROVE [Service!Next]_(Service!vars)
  BY Zenon
<1>1. CASE Append
  BY Zenon, <1>1 DEF Append, Service!Next, Service!Append, callVars, gateVars, history
<1>2. ASSUME NEW t \in Threads, Request(t) PROVE Service!Next
  <2>1. Service!Ask(t)
    BY Zenon, <1>2 DEF Request, Service!Ask, IInv, TypeOK, gateVars
  <2> QED BY Zenon, <2>1 DEF Service!Next
<1>3. ASSUME NEW t \in Threads, Arrive(t) PROVE [Service!Next]_(Service!vars)
  <2>1. CASE completed >= want[t] /\ ReturnOutcome(t)
    BY Zenon, <1>3, <2>1, ReturnRefines DEF Arrive, IInv, TypeOK, Service!Next
  <2>2. CASE Loop(t)
    BY Zenon, <1>3, <2>2, LoopRefines DEF Arrive
  <2> QED BY Zenon, <1>3, <2>1, <2>2 DEF Arrive
<1>4. ASSUME NEW t \in Threads, WakeJoined(t) PROVE Service!Next
  <2>1. want[t] <= completed
    BY Zenon, <1>4 DEF WakeJoined, IInv, Place
  <2> QED BY Zenon, <1>4, <2>1, ReturnRefines DEF WakeJoined, Service!Next
<1>5. ASSUME NEW t \in Threads, WakeParked(t) PROVE [Service!Next]_(Service!vars)
  <2>1. CASE completed >= want[t] /\ ReturnOutcome(t)
    BY Zenon, <1>5, <2>1, ReturnRefines DEF WakeParked, IInv, TypeOK, Service!Next
  <2>2. CASE Loop(t)
    BY Zenon, <1>5, <2>2, LoopRefines DEF WakeParked
  <2> QED BY Zenon, <1>5, <2>1, <2>2 DEF WakeParked
<1>6. ASSUME NEW t \in Threads, TakeHandles(t) PROVE UNCHANGED Service!vars
  BY Zenon, <1>6 DEF TakeHandles, Service!vars, IInv, TypeOK, gateVars
<1>7. ASSUME NEW t \in Threads, NEW r \in {"ok", "err"}, EndRound(t, r)
      PROVE  Service!Next
  <2> DEFINE Shown == [u \in Threads |-> IF pc[u] = "idle" THEN answer[u] ELSE "wait"]
  <2>1. Shown[t] = "wait" /\ Shown' = [Shown EXCEPT ![t] = r]
    BY Zenon, <1>7 DEF EndRound, Notified, IInv, TypeOK, PCs
  <2>2. want[t] <= cover[t] /\ cover[t] <= gen
    BY <1>7 DEF EndRound, IInv, TypeOK, Place, InRound
  <2>3. CASE r = "ok"
    <3>1. synced' \in want[t] .. gen /\ synced' >= synced /\ UNCHANGED faulted
      BY <1>7, <2>2, <2>3 DEF EndRound, IInv, TypeOK, Order
    <3> QED BY Zenon, <1>7, <2>1, <2>3, <3>1 DEF EndRound, Service!Sync, Service!Next
  <2>4. CASE r = "err"
    <3>1. faulted' = TRUE /\ UNCHANGED synced
      BY Zenon, <1>7, <2>4 DEF EndRound
    <3> QED BY Zenon, <1>7, <2>1, <2>4, <3>1 DEF EndRound, Service!Sync, Service!Next
  <2> QED BY Zenon, <2>3, <2>4
<1>8. CASE UNCHANGED vars
  BY Zenon, <1>8 DEF vars, gateVars, callVars, history, Service!vars
<1> QED
  BY Zenon, <1>1, <1>2, <1>3, <1>4, <1>5, <1>6, <1>7, <1>8 DEF Next, Step

(* The gate implements the durability service it stands for.               *)
THEOREM GateImplementsService == Spec => ImplementsService
<1>1. Spec => []IInv
  BY Zenon, GateInvariant
<1> QED
  BY <1>1, InitRefines, NextRefines, PTL DEF Spec, ImplementsService, Service!Spec
=============================================================================
