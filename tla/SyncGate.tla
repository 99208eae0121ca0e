------------------------------ MODULE SyncGate ------------------------------
(***************************************************************************)
(* The WAL sync gate (elide-core/src/sync_gate.rs): group commit for the   *)
(* guest's FLUSH and FUA requests.                                         *)
(*                                                                         *)
(* A request carries the generation of the writes it must make durable.    *)
(* One round of fdatasync runs at a time, on the thread of the request     *)
(* that found the gate idle.  A request joins the running round if that    *)
(* round started at or after its generation, and otherwise waits for it to *)
(* end and looks again.                                                    *)
(*                                                                         *)
(* Every step between taking and releasing the gate's mutex is one action. *)
(* A thread woken from the condition variable must take the mutex again    *)
(* ("woken..."), and any other thread may get there first.                 *)
(***************************************************************************)
EXTENDS Integers, FiniteSets

CONSTANTS Threads,   \* the threads that call sync_through
          MaxGen     \* bound on the number of writes

ASSUME GateAssumption == MaxGen \in Nat

NoRound == -1         \* state.running = None

VARIABLES gen,         \* flush_gen, the generation of the last publication
          completed,   \* GateState.completed
          failure,     \* GateState.failure: "none", or "err" for Some
          running,     \* GateState.running
          joined,      \* GateState.joined
          pc,          \* where each thread is in sync_through
          want,        \* each thread's `generation` argument
          start,       \* the start generation of the round a leader runs
          answer,      \* what each thread's call returned
          cover,       \* history: generation when the round took its handles
          synced,      \* history: highest generation a successful round covers
          faulted,     \* history: has a round ever failed
          waits        \* history: condvar waits of each thread's call

gateVars == <<completed, failure, running, joined>>
callVars == <<pc, want, start, answer>>
history  == <<cover, synced, faulted, waits>>
vars     == <<gen, gateVars, callVars, history>>

PCs == {"idle", "arrive", "joined", "parked", "wokenJoined", "wokenParked",
        "leading", "syncing"}

(* The leader's round is in flight.                                        *)
InRound(t) == pc[t] \in {"leading", "syncing"}

Init ==
    /\ gen = 0
    /\ completed = 0 /\ failure = "none" /\ running = NoRound /\ joined = 0
    /\ pc = [t \in Threads |-> "idle"]
    /\ want = [t \in Threads |-> 0]
    /\ start = [t \in Threads |-> 0]
    /\ answer = [t \in Threads |-> "none"]
    /\ cover = [t \in Threads |-> 0]
    /\ synced = 0 /\ faulted = FALSE
    /\ waits = [t \in Threads |-> 0]

-----------------------------------------------------------------------------
(* GateState::outcome                                                      *)
Outcome == IF failure = "none" THEN "ok" ELSE "err"

(* A plain write publishes a new generation.                               *)
Append ==
    /\ gen < MaxGen
    /\ gen' = gen + 1
    /\ UNCHANGED <<gateVars, callVars, history>>

(* VolumeClient::flush reads the generation; a FUA write first publishes   *)
(* its own.  The gate is entered in a later step.                          *)
Request(t) ==
    /\ pc[t] = "idle"
    /\ gen' \in {gen, gen + 1} \cap 0 .. MaxGen
    /\ want' = [want EXCEPT ![t] = gen']
    /\ pc' = [pc EXCEPT ![t] = "arrive"]
    /\ answer' = [answer EXCEPT ![t] = "none"]
    /\ waits' = [waits EXCEPT ![t] = 0]
    /\ UNCHANGED <<gateVars, start, cover, synced, faulted>>

(* The call returns what the last completed round left in the gate.        *)
ReturnOutcome(t) ==
    /\ pc' = [pc EXCEPT ![t] = "idle"]
    /\ answer' = [answer EXCEPT ![t] = Outcome]
    /\ UNCHANGED <<gen, gateVars, want, start, history>>

(* Mutated Join: parks on any running round, whatever it started at.       *)
JoinAnyRound(t) ==
    /\ running # NoRound
    /\ joined' = joined + 1
    /\ pc' = [pc EXCEPT ![t] = "joined"]
    /\ waits' = [waits EXCEPT ![t] = @ + 1]
    /\ UNCHANGED <<gen, completed, failure, running, want, start, answer,
                   cover, synced, faulted>>

(* One pass of the loop's match, with the mutex held.                      *)
Join(t) ==
    /\ running # NoRound /\ running >= want[t]
    /\ joined' = joined + 1
    /\ pc' = [pc EXCEPT ![t] = "joined"]
    /\ waits' = [waits EXCEPT ![t] = @ + 1]
    /\ UNCHANGED <<gen, completed, failure, running, want, start, answer,
                   cover, synced, faulted>>

Park(t) ==
    /\ running # NoRound /\ running < want[t]
    /\ pc' = [pc EXCEPT ![t] = "parked"]
    /\ waits' = [waits EXCEPT ![t] = @ + 1]
    /\ UNCHANGED <<gen, gateVars, want, start, answer,
                   cover, synced, faulted>>

LeadFrom(t, g, joiners) ==
    /\ start' = [start EXCEPT ![t] = g]
    /\ running' = g
    /\ joined' = joiners
    /\ pc' = [pc EXCEPT ![t] = "leading"]
    /\ UNCHANGED <<gen, completed, failure, want, answer, history>>

(* Mutated Lead: the round starts from the request's generation.           *)
LeadFromWant(t) == running = NoRound /\ LeadFrom(t, want[t], 0)

Lead(t) ==
    /\ running = NoRound
    /\ LeadFrom(t, gen, 0)

Loop(t) == Join(t) \/ Park(t) \/ Lead(t)

(* The call takes the mutex for the first time.                            *)
Arrive(t) ==
    /\ pc[t] = "arrive"
    /\ \/ completed >= want[t] /\ ReturnOutcome(t)
       \/ completed < want[t] /\ Loop(t)

(* Mutated WakeJoined: a joiner takes its wakeup for a failed round.       *)
WakeJoinedErr(t) ==
    /\ pc[t] = "wokenJoined"
    /\ pc' = [pc EXCEPT ![t] = "idle"]
    /\ answer' = [answer EXCEPT ![t] = "err"]
    /\ UNCHANGED <<gen, gateVars, want, start, history>>

(* A joiner wakes: it returns without looking at the generation again.     *)
WakeJoined(t) ==
    /\ pc[t] = "wokenJoined"
    /\ ReturnOutcome(t)

(* Mutated WakeParked: a request that has waited never leads.              *)
WakeParkedNeverLeads(t) ==
    /\ pc[t] = "wokenParked"
    /\ \/ completed >= want[t] /\ ReturnOutcome(t)
       \/ completed < want[t] /\ (Join(t) \/ Park(t))

(* A request that waited out an older round wakes and looks again.         *)
WakeParked(t) ==
    /\ pc[t] = "wokenParked"
    /\ \/ completed >= want[t] /\ ReturnOutcome(t)
       \/ completed < want[t] /\ Loop(t)

(* notify_all: everyone in the condition variable contends for the mutex.  *)
Notified(t) ==
    IF pc[t] = "joined" THEN "wokenJoined"
    ELSE IF pc[t] = "parked" THEN "wokenParked"
    ELSE pc[t]

(* The round takes the WAL handles under the volume mutex: its fdatasyncs   *)
(* cover every write published by now.                                     *)
TakeHandles(t) ==
    /\ pc[t] = "leading"
    /\ pc' = [pc EXCEPT ![t] = "syncing"]
    /\ cover' = [cover EXCEPT ![t] = gen]
    /\ UNCHANGED <<gen, gateVars, want, start, answer, synced, faulted, waits>>

(* The leader's round ends, well or badly, and it publishes the result;    *)
(* its own start and cover are over.                                       *)
EndRound(t, outcome) ==
    /\ pc[t] = "syncing"
    /\ completed' = start[t]
    /\ failure' = IF outcome = "ok" THEN "none" ELSE "err"
    /\ running' = NoRound
    /\ pc' = [u \in Threads |-> IF u = t THEN "idle" ELSE Notified(u)]
    /\ answer' = [answer EXCEPT ![t] = outcome]
    /\ synced' = IF outcome = "ok" /\ cover[t] > synced THEN cover[t] ELSE synced
    /\ faulted' = IF outcome = "err" THEN TRUE ELSE faulted
    /\ start' = [start EXCEPT ![t] = 0] /\ cover' = [cover EXCEPT ![t] = 0]
    /\ UNCHANGED <<gen, joined, want, waits>>

Step(t) ==
    \/ Arrive(t)
    \/ WakeJoined(t)
    \/ WakeParked(t)
    \/ TakeHandles(t)
    \/ \E outcome \in {"ok", "err"} : EndRound(t, outcome)

Next == Append \/ \E t \in Threads : Request(t) \/ Step(t)

Spec == Init /\ [][Next]_vars

(* A thread inside sync_through keeps running, and an fdatasync returns.   *)
Fairness == \A t \in Threads : WF_vars(Step(t))

FairSpec == Spec /\ Fairness

-----------------------------------------------------------------------------
(* Every field of the gate and every call keeps its type; in particular no *)
(* round is recorded as starting after the last published generation bound. *)
TypeOK ==
    /\ gen \in 0 .. MaxGen
    /\ completed \in 0 .. MaxGen
    /\ failure \in {"none", "err"}
    /\ running \in (0 .. MaxGen) \cup {NoRound}
    /\ joined \in Nat
    /\ pc \in [Threads -> PCs]
    /\ want \in [Threads -> 0 .. MaxGen]
    /\ start \in [Threads -> 0 .. MaxGen]
    /\ answer \in [Threads -> {"none", "ok", "err"}]
    /\ cover \in [Threads -> 0 .. MaxGen]
    /\ synced \in 0 .. MaxGen
    /\ faulted \in BOOLEAN
    /\ waits \in [Threads -> Nat]

(* A FLUSH or FUA answered ok is durable: a round whose handles were taken  *)
(* at or after its generation has succeeded, whoever led it and whatever   *)
(* rounds failed or overtook it before the answer was read.                *)
OkMeansSynced ==
    \A t \in Threads : answer[t] = "ok" => want[t] <= synced

(* One round at a time: a leader runs exactly when `running` says so, and  *)
(* with the start generation it recorded.                                  *)
OneRoundAtATime ==
    \A t, u \in Threads :
        /\ InRound(t) => running = start[t]
        /\ InRound(t) /\ InRound(u) => t = u

(* No lost wakeup: a thread sleeps in the condition variable only while a  *)
(* round is in flight whose end will notify it.                            *)
SleepersHaveALeader ==
    (\E t \in Threads : pc[t] \in {"joined", "parked"})
        => \E u \in Threads : InRound(u)

(* A call sleeps at most twice: once behind a round that started too early *)
(* and once in the next, which starts late enough.                         *)
AtMostTwoWaits == \A t \in Threads : waits[t] <= 2

(* Every call returns.                                                     *)
EveryCallReturns ==
    \A t \in Threads : pc[t] = "arrive" ~> pc[t] = "idle"

-----------------------------------------------------------------------------
(* The gate implements the service: a call is a question until it returns. *)
Service ==
    INSTANCE SyncService
    WITH answer <- [t \in Threads |->
                      IF pc[t] = "idle" THEN answer[t] ELSE "wait"]

ImplementsService == Service!Spec

=============================================================================
