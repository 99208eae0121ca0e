-------------------------------- MODULE Names --------------------------------
(***************************************************************************)
(* Several coordinators working on the records at names/<name>, one object *)
(* store request at a time.                                                *)
(*                                                                         *)
(* An operation is begun by a read that passes its checks; what it will    *)
(* write waits in `flight` until its conditional PUT reaches the bucket.   *)
(* Any number of requests of any number of coordinators are under way at   *)
(* once.  The PUT compares the object with the one that was read           *)
(* (`If-Match`, or `If-None-Match: *` when there was none); a DELETE       *)
(* compares nothing.  A request that is never written stands for a lost    *)
(* race, an unreachable store and a coordinator that died.                 *)
(***************************************************************************)
EXTENDS NameRecord, FiniteSets

CONSTANTS VolNames,    \* volume names
          Snaps,       \* snapshot ULIDs
          MaxVol,      \* bound on the fork ULIDs minted
          MaxFlight    \* bound on the handlers under way at once

ASSUME SnapsAreUlids == Snaps \subseteq Nat \ {0}
ASSUME BoundsAreNaturals == MaxVol \in Nat /\ MaxFlight \in Nat

VARIABLES rec,         \* the record of each name, NoRecord when there is none
          flight,      \* requests read and checked, not yet written
          creating,    \* creates between `mark_initial` and their last phase
          minted,      \* the last fork ULID minted
          past         \* history: the forks each name was bound to before

vars == <<rec, flight, creating, minted, past>>

Vols == 1 .. MaxVol

Requests == {"live", "stopped", "released", "reclaim", "claim", "force", "initial",
             "importing", "imported", "clear", "rehome", "latest"}

Init == /\ rec      = [n \in VolNames |-> NoRecord]
        /\ flight   = {}
        /\ creating = {}
        /\ minted   = 0
        /\ past     = [n \in VolNames |-> {}]

-----------------------------------------------------------------------------
(***************************************************************************)
(* Reading.  Begin records what was read and what will be written; a fresh *)
(* fork ULID is one nobody has seen.                                       *)
(***************************************************************************)

Request(verb, n, c, new) ==
    [verb |-> verb, name |-> n, coord |-> c, seen |-> rec[n], new |-> new]

Begin(q) == /\ Cardinality(flight) + Cardinality(creating) < MaxFlight
            /\ flight' = flight \cup {q}
            /\ UNCHANGED <<rec, creating, past>>

Keep == UNCHANGED minted

Fresh == minted + 1

Mint == /\ minted < MaxVol
        /\ minted' = Fresh

BeginStop(n, c) == /\ CanStop(rec[n], c) /\ Keep
                   /\ Begin(Request("stopped", n, c, MarkStopped(rec[n], c)))

BeginLive(n, c) == /\ CanLive(rec[n], c) /\ Keep
                   /\ Begin(Request("live", n, c, MarkLive(rec[n], c)))

BeginRelease(n, c, s) == /\ CanRelease(rec[n], c) /\ Keep
                         /\ Begin(Request("released", n, c, MarkReleased(rec[n], s)))

\* `claim` of the fork this coordinator has on disk.
BeginReclaim(n, c) ==
    /\ CanReclaimLocal(rec[n], rec[n].vol) /\ Keep
    /\ Begin(Request("reclaim", n, c, MarkReclaimedLocal(rec[n], c, "stopped")))

BeginClaim(n, c) == /\ CanClaim(rec[n]) /\ Mint
                    /\ Begin(Request("claim", n, c, MarkClaimed(c, Fresh, "stopped")))

\* `claim --force`: read when the job starts, written after the ancestry was
\* pulled.
BeginForce(n, c) == /\ rec[n].state \in Proceeds("force") /\ Mint
                    /\ Begin(Request("force", n, c, MarkClaimedForce(c, Fresh)))

BeginCreate(n, c) == /\ CanCreate(rec[n]) /\ Mint
                     /\ Begin(Request("initial", n, c, MarkInitial(c, Fresh)))

BeginImport(n, c) == /\ CanCreate(rec[n]) /\ Mint
                     /\ Begin(Request("importing", n, c, MarkImporting(c, Fresh)))

\* An import job writes its completion once and then clears at most once: when
\* the import failed, or when the completion came back with an error.  That
\* completion may still be on its way.
Ending(n, c, v, verbs) == \E q \in flight : /\ q.verb \in verbs /\ q.name = n
                                            /\ q.coord = c /\ q.seen.vol = v

BeginImported(n, c, s) ==
    /\ CanFinishImport(rec[n], c, rec[n].vol)
    /\ ~Ending(n, c, rec[n].vol, {"imported", "clear"}) /\ Keep
    /\ Begin(Request("imported", n, c, MarkImportComplete(rec[n].vol, s)))

BeginClear(n, c) ==
    /\ CanFinishImport(rec[n], c, rec[n].vol)
    /\ ~Ending(n, c, rec[n].vol, {"clear"}) /\ Keep
    /\ Begin(Request("clear", n, c, NoRecord))

\* An assumption on who calls rehome_displaced_fork: the rehomes of one fork
\* start from one lost name, so that a retry walks the candidates of the
\* attempt before it.  It then stops at the record that already binds the fork,
\* at the name in volume.toml or at a candidate, and writes no other.  A
\* candidate is the lost name with a suffix, so it is never a name that was
\* lost and deleted.
OneEpisode(n, v) ==
    /\ \A m \in VolNames : rec[m].vol # v
    /\ v \notin past[n]
    /\ \A q \in flight : q.verb = "rehome" /\ q.new.vol = v => q.name = n

\* A fork that lost its name to another is given a free one.
BeginRehome(n, c, v, s) ==
    /\ \E m \in VolNames : v \in past[m]
    /\ OneEpisode(n, v)
    /\ CanCreate(rec[n]) /\ Keep
    /\ Begin(Request("rehome", n, c, MarkRehomed(v, s)))

\* A publish of fork v bumps the record that is bound to it.
BeginLatest(n, c, s) ==
    /\ CanRecordLatest(rec[n], rec[n].vol, s) /\ Keep
    /\ Begin(Request("latest", n, c, RecordLatestSnapshot(rec[n], s)))

Read(n, c) ==
    \/ BeginStop(n, c)
    \/ BeginLive(n, c)
    \/ BeginReclaim(n, c)
    \/ BeginClaim(n, c)
    \/ BeginForce(n, c)
    \/ BeginCreate(n, c)
    \/ BeginImport(n, c)
    \/ BeginClear(n, c)
    \/ \E s \in Snaps : \/ BeginRelease(n, c, s)
                        \/ BeginImported(n, c, s)
                        \/ BeginLatest(n, c, s)
    \/ \E s \in Snaps \cup {None}, v \in Vols : BeginRehome(n, c, v, s)

-----------------------------------------------------------------------------
(***************************************************************************)
(* Writing.                                                                *)
(***************************************************************************)

\* Mutant: the in-place reclaim is a plain PUT.
MatchesOrReclaims(q) == q.verb \in {"clear", "reclaim"} \/ rec[q.name] = q.seen

\* update_name_record / create_name_record write over what was read only;
\* delete_name_record writes over anything.
Matches(q) == q.verb = "clear" \/ rec[q.name] = q.seen

Rebind(n, r) ==
    /\ rec'  = [rec EXCEPT ![n] = r]
    /\ past' = [past EXCEPT ![n] = IF rec[n].vol \in {None, r.vol} THEN @
                                   ELSE @ \cup {rec[n].vol}]

Put(q) ==
    /\ q \in flight
    /\ Matches(q)
    /\ Rebind(q.name, q.new)
    /\ flight' = flight \ {q}
    /\ creating' = IF q.verb = "initial"
                   THEN creating \cup {[name |-> q.name, coord |-> q.coord, vol |-> q.new.vol]}
                   ELSE creating
    /\ UNCHANGED minted

\* PreconditionFailed, an unreachable store, or a crash before the PUT.
PutFails(q) == /\ q \in flight
               /\ flight' = flight \ {q}
               /\ UNCHANGED <<rec, creating, minted, past>>

\* Phase 4 of create: the config and the link are written (or the coordinator
\* dies), or they fail and the record is deleted again, whatever it holds now.
CreateDone(k) == /\ k \in creating
                 /\ creating' = creating \ {k}
                 /\ UNCHANGED <<rec, flight, minted, past>>

CreateFails(k) == /\ k \in creating
                  /\ creating' = creating \ {k}
                  /\ Rebind(k.name, NoRecord)
                  /\ UNCHANGED <<flight, minted>>

Next ==
    \/ \E n \in VolNames, c \in Coords : Read(n, c)
    \/ \E q \in flight : Put(q) \/ PutFails(q)
    \/ \E k \in creating : CreateDone(k) \/ CreateFails(k)

Spec == Init /\ [][Next]_vars

-----------------------------------------------------------------------------
(***************************************************************************)
(* Properties.                                                             *)
(***************************************************************************)

Records == [state : NameStates \cup {"absent"}, vol : Vols \cup {None},
            owner : Coords \cup {Nobody}, handoff : Snaps \cup {None},
            latest : Snaps \cup {None}]

RequestSet == [verb : Requests, name : VolNames, coord : Coords, seen : Records, new : Records]

TypeOK ==
    /\ rec \in [VolNames -> Records]
    /\ flight \subseteq RequestSet
    /\ creating \subseteq [name : VolNames, coord : Coords, vol : Vols]
    /\ minted \in 0 .. MaxVol
    /\ past \in [VolNames -> SUBSET Vols]

\* Two names are never bound to one fork, and no name is ever bound again to a
\* fork it has left: whoever wrote under an old binding is never mistaken for
\* the holder of the new one.  Rests on every rebind minting its fork and on
\* the conditional PUT of every `mark_*`.
NeverRebound ==
    /\ \A n \in VolNames : rec[n].vol \notin past[n]
    /\ \A n, m \in VolNames : n # m /\ rec[n].vol = rec[m].vol => rec[n].vol = None

\* A record names a coordinator exactly when somebody holds the name: a
\* released or read-only record is ownerless, so that check_owner, which lets
\* anybody pass on an ownerless record, never lets a stranger pass on a held one.
OwnedIffHeld ==
    \A n \in VolNames : rec[n].owner # Nobody <=> rec[n].state \in HeldStates \cup {"importing"}

\* clear_importing deletes without a precondition.  The record it deletes is
\* always of the import it read: still that import, or its own completion that
\* arrived after it was given up.  While the request is under way nobody else
\* can have bound the name.
ClearsItsOwn ==
    \A q \in flight : q.verb = "clear" =>
        /\ rec[q.name].state \in {"importing", "readonly"}
        /\ rec[q.name].vol = q.seen.vol

\* The records keep the promise of Ownership.
Owner == INSTANCE Ownership WITH bound  <- [n \in VolNames |-> rec[n].vol],
                                 holder <- [n \in VolNames |-> rec[n].owner],
                                 left   <- past

ImplementsOwnership == Owner!Spec

=============================================================================
