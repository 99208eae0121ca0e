----------------------------- MODULE NameRecord -----------------------------
(***************************************************************************)
(* The record at names/<name> in the bucket and the `mark_*` operations    *)
(* of elide-coordinator/src/lifecycle.rs that rewrite it.                  *)
(*                                                                         *)
(* Every operation reads the record, checks it, and writes it back with a  *)
(* PUT conditioned on the version it read.  A lost race changes nothing    *)
(* and returns an error, so an operation is its guard (when it writes) and *)
(* a function from the record it read to the record it writes.  `size`,    *)
(* `parent`, `hostname`, `claimed_at` and `version` are left out: no       *)
(* decision of the coordinator reads them.                                 *)
(***************************************************************************)
EXTENDS Integers

CONSTANTS Coords,      \* coordinator ids
          Nobody       \* coordinator_id: None

ASSUME NobodyIsNotACoord == Nobody \notin Coords

-----------------------------------------------------------------------------
(***************************************************************************)
(* States and the transition table.  Vol and snapshot ULIDs are positive   *)
(* numbers; None is the absent option.                                     *)
(***************************************************************************)

None == 0

\* `Live` and `Stopped` records name their holder.
HeldStates == {"live", "stopped"}

NameStates == HeldStates \cup {"released", "readonly", "importing"}

\* Mutant: an import can be taken over like any held name.
ProceedsForceImport(verb) ==
    CASE verb = "stop"    -> {"live"}
      [] verb = "release" -> HeldStates
      [] verb = "start"   -> {"stopped"}
      [] verb = "claim"   -> {"released"}
      [] verb = "force"   -> HeldStates \cup {"importing"}

\* NameState::check_transition: the states each verb proceeds from.
Proceeds(verb) ==
    CASE verb = "stop"    -> {"live"}
      [] verb = "release" -> HeldStates
      [] verb = "start"   -> {"stopped"}
      [] verb = "claim"   -> {"released"}
      [] verb = "force"   -> HeldStates

\* No object at names/<name>.
NoRecord == [state |-> "absent", vol |-> None, owner |-> Nobody,
             handoff |-> None, latest |-> None]

Exists(r) == r.state # "absent"

Larger(a, b) == IF a >= b THEN a ELSE b

\* check_owner: a record without a coordinator_id is anybody's.
CheckOwner(r, c) == r.owner \in {Nobody, c}

\* ensure_owner_fields
EnsureOwner(r, c) == IF r.owner = Nobody THEN c ELSE r.owner

-----------------------------------------------------------------------------
(***************************************************************************)
(* The operations: Can<Op> is the guard under which the operation writes,  *)
(* <Op> the record it writes.                                              *)
(***************************************************************************)

CanStop(r, c) == r.state \in Proceeds("stop") /\ CheckOwner(r, c)
MarkStopped(r, c) == [r EXCEPT !.state = "stopped", !.owner = EnsureOwner(r, c)]

CanLive(r, c) == r.state \in Proceeds("start") /\ CheckOwner(r, c)
MarkLive(r, c) == [r EXCEPT !.state = "live", !.owner = EnsureOwner(r, c)]

CanRelease(r, c) == r.state \in Proceeds("release") /\ CheckOwner(r, c)

MarkReleased(r, snap) ==
    [r EXCEPT !.state = "released", !.owner = Nobody, !.handoff = snap,
              !.latest = Larger(r.latest, snap)]

\* In-place reclaim: no owner check, the vol must be the local fork, and the
\* handoff stays.
CanReclaimLocal(r, v) == r.state \in Proceeds("claim") /\ r.vol = v
MarkReclaimedLocal(r, c, target) == [r EXCEPT !.state = target, !.owner = c]

\* create_initial_record and its three callers.
CanCreate(r) == ~Exists(r)
MarkInitial(c, v) == [NoRecord EXCEPT !.state = "live", !.vol = v, !.owner = c]
MarkImporting(c, v) == [NoRecord EXCEPT !.state = "importing", !.vol = v, !.owner = c]

MarkRehomed(v, snap) ==
    [NoRecord EXCEPT !.state = "released", !.vol = v, !.handoff = snap, !.latest = snap]

CanFinishImport(r, c, v) == r.state = "importing" /\ r.vol = v /\ r.owner = c
MarkImportComplete(v, snap) ==
    [NoRecord EXCEPT !.state = "readonly", !.vol = v, !.latest = snap]

CanRecordLatest(r, v, snap) == Exists(r) /\ r.vol = v /\ r.latest < snap
RecordLatestSnapshot(r, snap) == [r EXCEPT !.latest = snap]

\* A claim rebinds whatever Released record it finds.
CanClaim(r) == r.state \in Proceeds("claim")
MarkClaimed(c, v, target) == [NoRecord EXCEPT !.state = target, !.vol = v, !.owner = c]

\* Force skips the owner check but not the precondition: the record must
\* still be the one the caller observed.
CanClaimForce(r, observed) == r = observed
MarkClaimedForce(c, v) == [NoRecord EXCEPT !.state = "stopped", !.vol = v, !.owner = c]

=============================================================================
