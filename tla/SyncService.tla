----------------------------- MODULE SyncService -----------------------------
(***************************************************************************)
(* What the WAL sync gate promises the guest, without the gate.            *)
(*                                                                         *)
(* Writes are numbered by a generation.  A request asks that everything up *)
(* to a generation be durable.  It is answered "ok" only once a horizon of *)
(* durable generations has reached it, and "err" only if a sync has failed *)
(* at some time.  How many syncs run, who runs them and how requests share *)
(* them is the gate's business (module SyncGate implements this one).      *)
(***************************************************************************)
EXTENDS Naturals

CONSTANTS Threads,   \* the threads that issue FLUSH and FUA requests
          MaxGen     \* bound on the number of writes

VARIABLES gen,       \* generation of the last published write
          synced,    \* highest generation a successful sync covers
          faulted,   \* has a sync ever failed
          want,      \* the generation each thread asked for
          answer     \* what each thread's request is answered

vars == <<gen, synced, faulted, want, answer>>

Answers == {"none", "wait", "ok", "err"}

Init ==
    /\ gen = 0
    /\ synced = 0
    /\ faulted = FALSE
    /\ want = [t \in Threads |-> 0]
    /\ answer = [t \in Threads |-> "none"]

(* A write is published.                                                   *)
Append ==
    /\ gen < MaxGen
    /\ gen' = gen + 1
    /\ UNCHANGED <<synced, faulted, want, answer>>

(* A thread asks for everything up to g, perhaps its own new write.        *)
Ask(t) ==
    /\ answer[t] # "wait"
    /\ gen' \in {gen, gen + 1} \cap 0 .. MaxGen
    /\ want' = [want EXCEPT ![t] = gen']
    /\ answer' = [answer EXCEPT ![t] = "wait"]
    /\ UNCHANGED <<synced, faulted>>

(* A sync ends: it extends the horizon or it fails.  The thread that ran   *)
(* it takes its own answer from it.                                        *)
Sync(t) ==
    /\ answer[t] = "wait"
    /\ \/ /\ synced' \in want[t] .. gen
          /\ synced' >= synced
          /\ answer' = [answer EXCEPT ![t] = "ok"]
          /\ UNCHANGED faulted
       \/ /\ faulted' = TRUE
          /\ answer' = [answer EXCEPT ![t] = "err"]
          /\ UNCHANGED synced
    /\ UNCHANGED <<gen, want>>

(* A request that some sync already covers is answered.                    *)
Answer(t) ==
    /\ answer[t] = "wait"
    /\ \/ /\ want[t] <= synced
          /\ answer' = [answer EXCEPT ![t] = "ok"]
       \/ /\ faulted
          /\ answer' = [answer EXCEPT ![t] = "err"]
    /\ UNCHANGED <<gen, synced, faulted, want>>

Next == Append \/ \E t \in Threads : Ask(t) \/ Sync(t) \/ Answer(t)

Spec == Init /\ [][Next]_vars

==============================================================================
