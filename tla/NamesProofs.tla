---------------------------- MODULE NamesProofs -----------------------------
(***************************************************************************)
(* Names keeps its invariants and implements Ownership, for any sets of    *)
(* coordinators, names and snapshots and any bounds.                       *)
(*                                                                         *)
(* The invariants are about records; what makes them inductive is what     *)
(* they say of the requests under way.  A request was right for the record *)
(* it read (GoodRequest), and the conditional PUT lets it write over       *)
(* nothing else.  The fork it will bind is bound nowhere and has been left *)
(* by nobody (MintedApart, RehomedApart).  And the two writes that compare *)
(* nothing, clear_importing and the rollback of create, only ever meet a   *)
(* name whose record they are entitled to delete (ClearsApart, Rollbacks). *)
(***************************************************************************)
EXTENDS Names, TLAPS

Claimable == HeldStates \cup {"released"}

\* Requests by what they do to the binding.
Keeping  == {"live", "stopped", "released", "reclaim", "latest", "imported"}
Rebinds  == {"claim", "force"}
Minting  == {"claim", "force", "initial", "importing"}
Making   == {"initial", "importing", "rehome"}
Endings  == {"imported", "clear"}

GoodRecord(r) == /\ r.owner # Nobody <=> r.state \in HeldStates \cup {"importing"}
                 /\ r.state = "absent" <=> r.vol = None

KeepsState(q) == \/ q.seen.state \in Claimable /\ q.new.state \in Claimable
                 \/ q.new.state = q.seen.state
                 \/ q.verb = "imported" /\ q.seen.state = "importing"

GoodRequest(q) ==
    /\ GoodRecord(q.seen)
    /\ GoodRecord(q.new)
    /\ q.verb \in Keeping =>
         /\ q.new.vol = q.seen.vol /\ q.seen.vol # None
         /\ q.new.owner \in {q.seen.owner, Nobody} \/ q.seen.owner = Nobody
         /\ KeepsState(q)
    /\ q.verb \in Making => q.seen.state = "absent"
    /\ q.verb \in Rebinds => q.seen.state \in Claimable
    /\ q.verb \in Rebinds \cup {"initial"} => q.new.state \in HeldStates
    /\ q.verb = "importing" => q.new.state = "importing"
    /\ q.verb = "rehome" => q.new.state = "released"
    /\ q.verb \in Endings => q.seen.state = "importing"
    /\ q.verb = "imported" => q.new.state = "readonly"
    /\ q.verb = "clear" => q.new = NoRecord

Bindings == \A n \in VolNames : /\ GoodRecord(rec[n])
                                /\ rec[n].vol <= minted
                                /\ \A v \in past[n] : v <= minted

MintedApart ==
    \A q \in flight : q.verb \in Minting =>
        /\ q.new.vol <= minted
        /\ \A n \in VolNames : rec[n].vol # q.new.vol /\ q.new.vol \notin past[n]
        /\ \A p \in flight : p.verb \in Minting /\ p.new.vol = q.new.vol => p = q

\* A name whose record may still be deleted.
Deletable(n) == \/ rec[n].state \in {"absent", "importing", "readonly"}
                \/ \E k \in creating : k.name = n

RehomedApart ==
    \A q \in flight : q.verb = "rehome" =>
        /\ \E m \in VolNames : q.new.vol \in past[m]
        /\ \A m \in VolNames \ {q.name} : rec[m].vol # q.new.vol
        /\ Deletable(q.name) => q.new.vol \notin past[q.name] /\ rec[q.name].vol # q.new.vol
        /\ \A p \in flight : p.verb = "rehome" /\ p.new.vol = q.new.vol => p.name = q.name

Rollbacks ==
    \A k \in creating : /\ rec[k.name].state \in Claimable
                        /\ \A j \in creating : j.name = k.name => j = k

ClearsApart ==
    \A q \in flight : q.verb = "clear" =>
        /\ rec[q.name].state = "importing" => rec[q.name].owner = q.coord
        /\ \A p \in flight : p.verb = "clear" /\ p.name = q.name => p = q

IInv == /\ TypeOK
        /\ NeverRebound
        /\ Bindings
        /\ \A q \in flight : GoodRequest(q)
        /\ MintedApart
        /\ RehomedApart
        /\ Rollbacks
        /\ ClearsApart
        /\ ClearsItsOwn

-----------------------------------------------------------------------------
(***************************************************************************)
(* Beginning a request.                                                    *)
(***************************************************************************)

\* A request that is right for the record it read, and whose fork is apart
\* from all others, leaves the invariant standing when it joins the flight.
LEMMA BeginKeeps ==
    ASSUME IInv,
           NEW q \in RequestSet, GoodRequest(q),
           q.seen = rec[q.name],
           flight' = flight \cup {q},
           UNCHANGED <<rec, creating, past>>,
           IF q.verb \in Minting THEN /\ q.new.vol = minted + 1
                                      /\ minted' = minted + 1
                                      /\ minted < MaxVol
                                 ELSE minted' = minted,
           q.verb = "rehome" =>
             /\ \E m \in VolNames : q.new.vol \in past[m]
             /\ \A m \in VolNames : rec[m].vol # q.new.vol
             /\ q.new.vol \notin past[q.name]
             /\ \A p \in flight : p.verb = "rehome" /\ p.new.vol = q.new.vol => p.name = q.name,
           q.verb = "clear" =>
             /\ rec[q.name].owner = q.coord
             /\ ~Ending(q.name, q.coord, rec[q.name].vol, {"clear"})
    PROVE  IInv'
PROOF
  <1>1. /\ TypeOK /\ NeverRebound /\ Bindings /\ MintedApart /\ RehomedApart
        /\ Rollbacks /\ ClearsApart /\ ClearsItsOwn
        /\ \A p \in flight : GoodRequest(p)
    BY Zenon DEF IInv
  <1>2. minted \in Nat /\ minted' \in 0 .. MaxVol /\ minted <= minted' /\ MaxVol \in Nat
    BY <1>1, BoundsAreNaturals DEF TypeOK
  <1>3. TypeOK'
    BY Zenon, <1>1, <1>2 DEF TypeOK
  <1>4. NeverRebound' /\ Rollbacks'
    BY Zenon, <1>1 DEF NeverRebound, Rollbacks
  <1>5. Bindings'
    <2>1. \A n \in VolNames : rec[n].vol \in Nat /\ \A v \in past[n] : v \in Nat
      BY <1>1 DEF TypeOK, Records, Vols, None
    <2>2. QED  BY <1>1, <1>2, <2>1 DEF Bindings, GoodRecord
  <1>6. \A p \in flight' : GoodRequest(p)'
    BY <1>1 DEF GoodRequest, GoodRecord, KeepsState
  <1>7. MintedApart'
    <2>1. \A p \in flight : p.verb \in Minting => p.new.vol \in Nat /\ p.new.vol <= minted
      BY <1>1 DEF TypeOK, RequestSet, Records, Vols, None, MintedApart
    <2>2. CASE q.verb \in Minting
      <3>1. q.new.vol = minted + 1 /\ minted' = minted + 1  BY Zenon, <2>2
      <3>2. \A n \in VolNames : rec[n].vol # q.new.vol /\ q.new.vol \notin past[n]
        BY <1>1, <1>2, <3>1 DEF Bindings, TypeOK, Records, Vols, None
      <3>3. \A p \in flight : p.verb \in Minting => p.new.vol # q.new.vol
        BY <1>2, <2>1, <3>1
      <3>4. \A p \in flight : p.verb \in Minting => p.new.vol <= minted'
        BY <1>2, <2>1, <3>1
      <3>5. q.new.vol <= minted'  BY <1>2, <3>1
      <3>6. QED  BY <1>1, <3>2, <3>3, <3>4, <3>5, ZenonT(30) DEF MintedApart
    <2>3. CASE q.verb \notin Minting
      BY <1>1, <2>3, Zenon DEF MintedApart
    <2>4. QED  BY Zenon, <2>2, <2>3
  <1>8. RehomedApart'
    <2>1. \A m \in VolNames : Deletable(m)' <=> Deletable(m)
      BY Zenon DEF Deletable
    <2>2. \A p \in flight \cup {q} : p.name \in VolNames
      BY Zenon, <1>1 DEF TypeOK, RequestSet
    <2>3. rec' = rec /\ past' = past  BY Zenon
    <2>4. SUFFICES ASSUME NEW p \in flight \cup {q}, p.verb = "rehome"
                   PROVE  /\ \E m \in VolNames : p.new.vol \in past[m]
                          /\ \A m \in VolNames \ {p.name} : rec[m].vol # p.new.vol
                          /\ Deletable(p.name) => /\ p.new.vol \notin past[p.name]
                                                 /\ rec[p.name].vol # p.new.vol
                          /\ \A o \in flight \cup {q} : o.verb = "rehome" /\ o.new.vol = p.new.vol
                                                     => o.name = p.name
      BY <2>1, <2>2, <2>3 DEF RehomedApart
    <2>5. CASE p \in flight
      BY <1>1, <2>2, <2>4, <2>5, Zenon DEF RehomedApart
    <2>6. CASE p = q
      BY <1>1, <2>2, <2>4, <2>6, Zenon DEF RehomedApart
    <2>7. QED  BY Zenon, <2>4, <2>5, <2>6
  <1>9. ClearsApart'
    <2>1. CASE q.verb = "clear"
      <3>1. rec[q.name].state = "importing"  BY Zenon, <2>1 DEF GoodRequest, Endings
      <3>2. \A p \in flight : ~(p.verb = "clear" /\ p.name = q.name)
        <4>1. SUFFICES ASSUME NEW p \in flight, p.verb = "clear", p.name = q.name  PROVE FALSE
          BY Zenon
        <4>2. p.coord = q.coord /\ p.seen.vol = rec[q.name].vol
          BY Zenon, <1>1, <2>1, <3>1, <4>1 DEF ClearsApart, ClearsItsOwn
        <4>3. Ending(q.name, q.coord, rec[q.name].vol, {"clear"})
          BY Zenon, <4>1, <4>2 DEF Ending
        <4>4. QED  BY Zenon, <2>1, <4>3
      <3>3. QED  BY Zenon, <1>1, <2>1, <3>2 DEF ClearsApart
    <2>2. CASE q.verb # "clear"
      BY Zenon, <1>1, <2>2 DEF ClearsApart
    <2>3. QED  BY Zenon, <2>1, <2>2
  <1>10. ClearsItsOwn'
    <2>1. q.verb = "clear" => rec[q.name].state = "importing"  BY Zenon DEF GoodRequest, Endings
    <2>2. QED  BY <1>1, <2>1, Zenon DEF ClearsItsOwn
  <1>11. QED  BY Zenon, <1>3, <1>4, <1>5, <1>6, <1>7, <1>8, <1>9, <1>10 DEF IInv

\* What was read is a well-formed record.
LEMMA ReadIsGood ==
    ASSUME IInv, NEW n \in VolNames
    PROVE  rec[n] \in Records /\ GoodRecord(rec[n])
BY Zenon DEF IInv, TypeOK, Bindings

\* Every handler begins with a request that BeginKeeps accepts.
LEMMA BeginStep ==
    ASSUME IInv, NEW n \in VolNames, NEW c \in Coords, Read(n, c)
    PROVE  IInv'
PROOF
  <1> DEFINE r == rec[n]
  <1>1. r \in Records /\ GoodRecord(r)  BY Zenon, ReadIsGood
  <1>2. Nobody \notin Coords /\ None = 0 /\ 0 \notin Vols
    BY NobodyIsNotACoord DEF None, Vols
  <1>3. minted \in Nat /\ MaxVol \in Nat  BY BoundsAreNaturals DEF IInv, TypeOK
  <1>4. minted < MaxVol => minted + 1 \in Vols  BY <1>3 DEF Vols
  <1>5. Snaps \subseteq Nat \ {0}  BY Zenon, SnapsAreUlids
  <1> HIDE DEF r
  <1>6. CASE BeginStop(n, c)
    <2> DEFINE q == Request("stopped", n, c, MarkStopped(rec[n], c))
    <2>1. q \in RequestSet /\ GoodRequest(q)
      BY ZenonT(40), <1>1, <1>2, <1>6 DEF r, BeginStop, CanStop, CheckOwner, EnsureOwner, MarkStopped, Request,
         RequestSet, Requests, Records, NameStates, HeldStates, Proceeds, GoodRequest, GoodRecord,
         KeepsState, Claimable, Keeping, Making, Rebinds, Endings
    <2>2. QED
      BY Zenon, <1>6, <2>1, BeginKeeps DEF BeginStop, Begin, Keep, Request, Minting, Endings
  <1>7. CASE BeginLive(n, c)
    <2> DEFINE q == Request("live", n, c, MarkLive(rec[n], c))
    <2>1. q \in RequestSet /\ GoodRequest(q)
      BY ZenonT(40), <1>1, <1>2, <1>7 DEF r, BeginLive, CanLive, CheckOwner, EnsureOwner, MarkLive, Request,
         RequestSet, Requests, Records, NameStates, HeldStates, Proceeds, GoodRequest, GoodRecord,
         KeepsState, Claimable, Keeping, Making, Rebinds, Endings
    <2>2. QED
      BY Zenon, <1>7, <2>1, BeginKeeps DEF BeginLive, Begin, Keep, Request, Minting, Endings
  <1>8. CASE BeginReclaim(n, c)
    <2> DEFINE q == Request("reclaim", n, c, MarkReclaimedLocal(rec[n], c, "stopped"))
    <2>1. q \in RequestSet /\ GoodRequest(q)
      BY ZenonT(40), <1>1, <1>2, <1>8 DEF r, BeginReclaim, CanReclaimLocal, MarkReclaimedLocal, Request,
         RequestSet, Requests, Records, NameStates, HeldStates, Proceeds, GoodRequest, GoodRecord,
         KeepsState, Claimable, Keeping, Making, Rebinds, Endings
    <2>2. QED
      BY Zenon, <1>8, <2>1, BeginKeeps DEF BeginReclaim, Begin, Keep, Request, Minting, Endings
  <1>9. CASE BeginClaim(n, c)
    <2> DEFINE q == Request("claim", n, c, MarkClaimed(c, Fresh, "stopped"))
    <2>1. /\ q.verb = "claim" /\ q.name = n /\ q.coord = c /\ q.seen = rec[n]
          /\ q = [verb |-> "claim", name |-> n, coord |-> c, seen |-> rec[n], new |-> q.new]
          /\ q.new = [state |-> "stopped", vol |-> minted + 1, owner |-> c, handoff |-> None, latest |-> None]
      BY Zenon DEF Request, MarkClaimed, NoRecord, Fresh
    <2>2. /\ flight' = flight \cup {q} /\ UNCHANGED <<rec, creating, past>>
          /\ minted < MaxVol /\ minted' = minted + 1
          /\ rec[n].state \in Claimable
      BY Zenon, <1>9 DEF BeginClaim, Begin, Mint, Fresh, CanClaim, Proceeds, HeldStates, Claimable
    <2> HIDE DEF q
    <2>3. q.new \in Records
      BY <1>2, <1>4, <2>1, <2>2 DEF Records, NameStates, HeldStates
    <2>4. q \in RequestSet
      BY Zenon, <1>1, <2>1, <2>3 DEF r, RequestSet, Requests
    <2>5. GoodRequest(q)
      BY <1>1, <1>2, <1>4, <2>1, <2>2 DEF r, GoodRequest, GoodRecord, HeldStates, Claimable, Keeping,
         Making, Rebinds, Endings
    <2>6. QED  BY <2>1, <2>2, <2>4, <2>5, BeginKeeps DEF Minting, Endings
  <1>10. CASE BeginForce(n, c)
    <2> DEFINE q == Request("force", n, c, MarkClaimedForce(c, Fresh))
    <2>1. /\ q.verb = "force" /\ q.name = n /\ q.coord = c /\ q.seen = rec[n]
          /\ q = [verb |-> "force", name |-> n, coord |-> c, seen |-> rec[n], new |-> q.new]
          /\ q.new = [state |-> "stopped", vol |-> minted + 1, owner |-> c, handoff |-> None, latest |-> None]
      BY Zenon DEF Request, MarkClaimedForce, NoRecord, Fresh
    <2>2. /\ flight' = flight \cup {q} /\ UNCHANGED <<rec, creating, past>>
          /\ minted < MaxVol /\ minted' = minted + 1
          /\ rec[n].state \in Claimable
      BY Zenon, <1>10 DEF BeginForce, Begin, Mint, Fresh, Proceeds, HeldStates, Claimable
    <2> HIDE DEF q
    <2>3. q.new \in Records
      BY <1>2, <1>4, <2>1, <2>2 DEF Records, NameStates, HeldStates
    <2>4. q \in RequestSet
      BY Zenon, <1>1, <2>1, <2>3 DEF r, RequestSet, Requests
    <2>5. GoodRequest(q)
      BY <1>1, <1>2, <1>4, <2>1, <2>2 DEF r, GoodRequest, GoodRecord, HeldStates, Claimable, Keeping,
         Making, Rebinds, Endings
    <2>6. QED  BY <2>1, <2>2, <2>4, <2>5, BeginKeeps DEF Minting, Endings
  <1>11. CASE BeginCreate(n, c)
    <2> DEFINE q == Request("initial", n, c, MarkInitial(c, Fresh))
    <2>1. /\ q.verb = "initial" /\ q.name = n /\ q.coord = c /\ q.seen = rec[n]
          /\ q = [verb |-> "initial", name |-> n, coord |-> c, seen |-> rec[n], new |-> q.new]
          /\ q.new = [state |-> "live", vol |-> minted + 1, owner |-> c, handoff |-> None, latest |-> None]
      BY Zenon DEF Request, MarkInitial, NoRecord, Fresh
    <2>2. /\ flight' = flight \cup {q} /\ UNCHANGED <<rec, creating, past>>
          /\ minted < MaxVol /\ minted' = minted + 1
          /\ rec[n].state \in {"absent"}
      BY Zenon, <1>11 DEF BeginCreate, Begin, Mint, Fresh, CanCreate, Exists, HeldStates, Claimable
    <2> HIDE DEF q
    <2>3. q.new \in Records
      BY <1>2, <1>4, <2>1, <2>2 DEF Records, NameStates, HeldStates
    <2>4. q \in RequestSet
      BY Zenon, <1>1, <2>1, <2>3 DEF r, RequestSet, Requests
    <2>5. GoodRequest(q)
      BY <1>1, <1>2, <1>4, <2>1, <2>2 DEF r, GoodRequest, GoodRecord, HeldStates, Claimable, Keeping,
         Making, Rebinds, Endings
    <2>6. QED  BY <2>1, <2>2, <2>4, <2>5, BeginKeeps DEF Minting, Endings
  <1>12. CASE BeginImport(n, c)
    <2> DEFINE q == Request("importing", n, c, MarkImporting(c, Fresh))
    <2>1. /\ q.verb = "importing" /\ q.name = n /\ q.coord = c /\ q.seen = rec[n]
          /\ q = [verb |-> "importing", name |-> n, coord |-> c, seen |-> rec[n], new |-> q.new]
          /\ q.new = [state |-> "importing", vol |-> minted + 1, owner |-> c, handoff |-> None, latest |-> None]
      BY Zenon DEF Request, MarkImporting, NoRecord, Fresh
    <2>2. /\ flight' = flight \cup {q} /\ UNCHANGED <<rec, creating, past>>
          /\ minted < MaxVol /\ minted' = minted + 1
          /\ rec[n].state \in {"absent"}
      BY Zenon, <1>12 DEF BeginImport, Begin, Mint, Fresh, CanCreate, Exists, HeldStates, Claimable
    <2> HIDE DEF q
    <2>3. q.new \in Records
      BY <1>2, <1>4, <2>1, <2>2 DEF Records, NameStates, HeldStates
    <2>4. q \in RequestSet
      BY Zenon, <1>1, <2>1, <2>3 DEF r, RequestSet, Requests
    <2>5. GoodRequest(q)
      BY <1>1, <1>2, <1>4, <2>1, <2>2 DEF r, GoodRequest, GoodRecord, HeldStates, Claimable, Keeping,
         Making, Rebinds, Endings
    <2>6. QED  BY <2>1, <2>2, <2>4, <2>5, BeginKeeps DEF Minting, Endings
  <1>13. CASE BeginClear(n, c)
    <2> DEFINE q == Request("clear", n, c, NoRecord)
    <2>1. q \in RequestSet /\ GoodRequest(q)
      BY Zenon, <1>1, <1>2, <1>13 DEF r, BeginClear, CanFinishImport, NoRecord, Request, RequestSet,
         Requests, Records, NameStates, HeldStates, GoodRequest, GoodRecord, Keeping, Making,
         Rebinds, Endings
    <2>2. QED
      BY Zenon, <1>13, <2>1, BeginKeeps
         DEF BeginClear, CanFinishImport, Begin, Keep, Request, Minting
  <1>14. ASSUME NEW s \in Snaps, BeginRelease(n, c, s)  PROVE IInv'
    <2> DEFINE q == Request("released", n, c, MarkReleased(rec[n], s))
    <2>1. q \in RequestSet /\ GoodRequest(q)
      BY ZenonT(40), <1>1, <1>2, <1>14 DEF r, BeginRelease, CanRelease, CheckOwner, MarkReleased, Larger,
         Request, RequestSet, Requests, Records, NameStates, HeldStates, Proceeds, GoodRequest,
         GoodRecord, KeepsState, Claimable, Keeping, Making, Rebinds, Endings
    <2>2. QED
      BY Zenon, <1>14, <2>1, BeginKeeps DEF BeginRelease, Begin, Keep, Request, Minting, Endings
  <1>15. ASSUME NEW s \in Snaps, BeginImported(n, c, s)  PROVE IInv'
    <2> DEFINE q == Request("imported", n, c, MarkImportComplete(rec[n].vol, s))
    <2>1. q \in RequestSet /\ GoodRequest(q)
      BY ZenonT(40), <1>1, <1>2, <1>15 DEF r, BeginImported, CanFinishImport, MarkImportComplete, NoRecord,
         Request, RequestSet, Requests, Records, NameStates, HeldStates, GoodRequest, GoodRecord,
         KeepsState, Claimable, Keeping, Making, Rebinds, Endings
    <2>2. QED
      BY Zenon, <1>15, <2>1, BeginKeeps
         DEF BeginImported, CanFinishImport, Begin, Keep, Request, Minting
  <1>16. ASSUME NEW s \in Snaps, BeginLatest(n, c, s)  PROVE IInv'
    <2> DEFINE q == Request("latest", n, c, RecordLatestSnapshot(rec[n], s))
    <2>1. q \in RequestSet /\ GoodRequest(q)
      BY <1>1, <1>2, <1>16 DEF r, BeginLatest, CanRecordLatest, Exists, RecordLatestSnapshot,
         Request, RequestSet, Requests, Records, GoodRequest, GoodRecord, KeepsState, Keeping,
         Making, Rebinds, Endings
    <2>2. QED
      BY Zenon, <1>16, <2>1, BeginKeeps DEF BeginLatest, Begin, Keep, Request, Minting, Endings
  <1>17. ASSUME NEW s \in Snaps \cup {None}, NEW v \in Vols, BeginRehome(n, c, v, s)
         PROVE  IInv'
    <2> DEFINE q == Request("rehome", n, c, MarkRehomed(v, s))
    <2>1. /\ q.verb = "rehome" /\ q.name = n /\ q.coord = c /\ q.seen = rec[n]
          /\ q = [verb |-> "rehome", name |-> n, coord |-> c, seen |-> rec[n], new |-> q.new]
          /\ q.new = [state |-> "released", vol |-> v, owner |-> Nobody, handoff |-> s, latest |-> s]
      BY Zenon DEF Request, MarkRehomed, NoRecord
    <2>2. /\ flight' = flight \cup {q} /\ UNCHANGED <<rec, creating, past>>
          /\ minted' = minted
          /\ rec[n].state = "absent"
      BY Zenon, <1>17 DEF BeginRehome, Begin, Keep, CanCreate, Exists
    <2>3. /\ \E m \in VolNames : v \in past[m]
          /\ \A m \in VolNames : rec[m].vol # v
          /\ v \notin past[n]
          /\ \A o \in flight : o.verb = "rehome" /\ o.new.vol = v => o.name = n
      BY <1>17, Zenon DEF BeginRehome, OneEpisode
    <2> HIDE DEF q
    <2>4. q.new \in Records
      BY <1>17, <2>1 DEF Records, NameStates, HeldStates
    <2>5. q \in RequestSet
      BY Zenon, <1>1, <2>1, <2>4 DEF r, RequestSet, Requests
    <2>6. GoodRequest(q)
      BY <1>1, <1>2, <1>17, <2>1, <2>2 DEF r, GoodRequest, GoodRecord, HeldStates, Claimable, Keeping,
         Making, Rebinds, Endings
    <2>7. QED  BY <2>1, <2>2, <2>3, <2>5, <2>6, BeginKeeps DEF Minting, Endings
  <1>18. QED
    BY Zenon, <1>6, <1>7, <1>8, <1>9, <1>10, <1>11, <1>12, <1>13, <1>14, <1>15, <1>16, <1>17
       DEF Read

-----------------------------------------------------------------------------
(***************************************************************************)
(* Writing a record.                                                       *)
(***************************************************************************)

\* What Rebind does, and that binding a fork nobody is bound to, or none, or
\* the same one, leaves the bindings as they should be.
LEMMA RebindKeeps ==
    ASSUME IInv, NEW n \in VolNames, NEW r \in Records, GoodRecord(r),
           Rebind(n, r), minted' = minted, r.vol <= minted,
           \/ r.vol \in {rec[n].vol, None}
           \/ r.vol \notin past[n] /\ \A m \in VolNames : rec[m].vol # r.vol
    PROVE  /\ rec' \in [VolNames -> Records] /\ past' \in [VolNames -> SUBSET Vols]
           /\ rec'[n] = r
           /\ \A m \in VolNames \ {n} : rec'[m] = rec[m] /\ past'[m] = past[m]
           /\ past'[n] = IF rec[n].vol \in {None, r.vol} THEN past[n]
                         ELSE past[n] \cup {rec[n].vol}
           /\ NeverRebound'
           /\ Bindings'
PROOF
  <1>1. /\ rec \in [VolNames -> Records] /\ past \in [VolNames -> SUBSET Vols]
        /\ NeverRebound /\ Bindings
    BY Zenon DEF IInv, TypeOK
  <1>2. /\ rec' = [rec EXCEPT ![n] = r]
        /\ past' = [past EXCEPT ![n] = IF rec[n].vol \in {None, r.vol} THEN past[n]
                                       ELSE past[n] \cup {rec[n].vol}]
    BY Zenon, <1>1 DEF Rebind
  <1>3. rec[n].vol \in Vols \cup {None} /\ None \notin Vols
    BY <1>1 DEF Records, None, Vols
  <1>4. rec' \in [VolNames -> Records] /\ past' \in [VolNames -> SUBSET Vols]
    <2>1. rec[n].vol \notin {None, r.vol} => rec[n].vol \in Vols  BY Zenon, <1>3
    <2>2. rec' \in [VolNames -> Records]  BY Zenon, <1>1, <1>2
    <2>3. past' \in [VolNames -> SUBSET Vols]  BY Zenon, <1>1, <1>2, <2>1
    <2>4. QED  BY Zenon, <2>2, <2>3
  <1>5. /\ rec'[n] = r
        /\ \A m \in VolNames \ {n} : rec'[m] = rec[m] /\ past'[m] = past[m]
        /\ past'[n] = IF rec[n].vol \in {None, r.vol} THEN past[n]
                      ELSE past[n] \cup {rec[n].vol}
    BY Zenon, <1>1, <1>2
  <1>6. NeverRebound'
    <2>1. \A m \in VolNames : rec'[m].vol \notin past'[m]
      <3>1. None \notin past[n]  BY Zenon, <1>1, <1>3
      <3>2. QED  BY <1>1, <1>5, <3>1 DEF NeverRebound
    <2>2. \A m, o \in VolNames : m # o /\ rec'[m].vol = rec'[o].vol => rec'[m].vol = None
      <3>1. \A o \in VolNames \ {n} : r.vol = rec[o].vol => r.vol = None
        BY Zenon, <1>1 DEF NeverRebound
      <3>2. \A m, o \in VolNames \ {n} : m # o /\ rec[m].vol = rec[o].vol => rec[m].vol = None
        BY Zenon, <1>1 DEF NeverRebound
      <3>3. QED  BY <1>5, <3>1, <3>2
    <2>3. QED  BY Zenon, <2>1, <2>2 DEF NeverRebound
  <1>7. Bindings'
    <2>1. \A m \in VolNames : GoodRecord(rec'[m])  BY Zenon, <1>1, <1>5 DEF Bindings
    <2>2. \A m \in VolNames : rec'[m].vol <= minted'  BY Zenon, <1>1, <1>5 DEF Bindings
    <2>3. \A m \in VolNames : \A v \in past'[m] : v <= minted'  BY Zenon, <1>1, <1>5 DEF Bindings
    <2>4. QED  BY Zenon, <2>1, <2>2, <2>3 DEF Bindings, GoodRecord
  <1>8. QED  BY Zenon, <1>4, <1>5, <1>6, <1>7

\* The fork a request binds, once it may be written.
LEMMA PutBinds ==
    ASSUME IInv, NEW q \in flight, Matches(q)
    PROVE  /\ q \in RequestSet /\ GoodRequest(q) /\ q.new.vol <= minted
           /\ rec[q.name].vol = q.seen.vol
           /\ q.verb # "clear" => rec[q.name] = q.seen
           /\ q.verb = "clear" => rec[q.name].state \in {"importing", "readonly"}
           /\ \/ q.new.vol \in {rec[q.name].vol, None}
              \/ q.new.vol \notin past[q.name] /\ \A m \in VolNames : rec[m].vol # q.new.vol
PROOF
  <1>1. q \in RequestSet /\ GoodRequest(q)  BY Zenon DEF IInv, TypeOK
  <1>2. q.name \in VolNames /\ q.verb \in Requests  BY Zenon, <1>1 DEF RequestSet
  <1>3. /\ rec[q.name].vol = q.seen.vol
        /\ q.verb # "clear" => rec[q.name] = q.seen
        /\ q.verb = "clear" => rec[q.name].state \in {"importing", "readonly"}
    BY Zenon DEF Matches, IInv, ClearsItsOwn
  <1>4. minted \in Nat /\ rec[q.name].vol <= minted  BY <1>2 DEF IInv, TypeOK, Bindings
  <1>5. CASE q.verb \in Keeping  BY Zenon, <1>1, <1>3, <1>4, <1>5 DEF GoodRequest
  <1>6. CASE q.verb \in Minting
    BY Zenon, <1>1, <1>2, <1>3, <1>6 DEF IInv, MintedApart
  <1>7. CASE q.verb = "clear"
    BY <1>1, <1>3, <1>4, <1>7 DEF GoodRequest, NoRecord, None
  <1>8. CASE q.verb = "rehome"
    <2>1. Deletable(q.name)  BY Zenon, <1>1, <1>3, <1>8 DEF GoodRequest, Making, Deletable
    <2>2. q.new.vol \notin past[q.name] /\ \A m \in VolNames : rec[m].vol # q.new.vol
      BY <1>2, <1>8, <2>1, Zenon DEF IInv, RehomedApart
    <2>3. PICK m \in VolNames : q.new.vol \in past[m]  BY Zenon, <1>8 DEF IInv, RehomedApart
    <2>4. q.new.vol <= minted  BY Zenon, <2>3 DEF IInv, Bindings
    <2>5. QED  BY Zenon, <1>1, <1>3, <2>2, <2>4
  <1>9. QED  BY Zenon, <1>2, <1>5, <1>6, <1>7, <1>8 DEF Requests, Keeping, Minting


-----------------------------------------------------------------------------
\* A request under way, seen from a name whose record is being replaced.
LEMMA PutStep ==
    ASSUME IInv, NEW q \in flight, Put(q)
    PROVE  IInv'
PROOF
  <1> DEFINE n == q.name
             r == q.new
  <1>1. /\ TypeOK /\ Bindings /\ MintedApart /\ RehomedApart /\ Rollbacks /\ ClearsApart
        /\ ClearsItsOwn /\ \A p \in flight : p \in RequestSet /\ GoodRequest(p)
    BY Zenon DEF IInv, TypeOK
  <1>2. /\ Matches(q) /\ Rebind(n, r) /\ flight' = flight \ {q} /\ minted' = minted
        /\ creating' = IF q.verb = "initial"
                       THEN creating \cup {[name |-> n, coord |-> q.coord, vol |-> r.vol]}
                       ELSE creating
    BY Zenon DEF Put
  <1>3. /\ q \in RequestSet /\ GoodRequest(q) /\ r.vol <= minted
        /\ rec[n].vol = q.seen.vol
        /\ q.verb # "clear" => rec[n] = q.seen
        /\ q.verb = "clear" => rec[n].state \in {"importing", "readonly"}
        /\ \/ r.vol \in {rec[n].vol, None}
           \/ r.vol \notin past[n] /\ \A m \in VolNames : rec[m].vol # r.vol
    BY Zenon, <1>2, PutBinds
  <1>4. /\ n \in VolNames /\ r \in Records /\ GoodRecord(r) /\ q.verb \in Requests
        /\ q.coord \in Coords
    BY Zenon, <1>3 DEF RequestSet, GoodRequest
  <1>5. /\ rec' \in [VolNames -> Records] /\ past' \in [VolNames -> SUBSET Vols]
        /\ rec'[n] = r
        /\ \A m \in VolNames \ {n} : rec'[m] = rec[m] /\ past'[m] = past[m]
        /\ past'[n] = IF rec[n].vol \in {None, r.vol} THEN past[n] ELSE past[n] \cup {rec[n].vol}
        /\ NeverRebound'
        /\ Bindings'
    BY Zenon, <1>2, <1>3, <1>4, RebindKeeps
  <1>6. q.verb \in Keeping \cup Rebinds \cup Making \cup {"clear"}
    BY Zenon, <1>4 DEF Requests, Keeping, Rebinds, Making
  <1>7. /\ \A p \in flight : p.name \in VolNames
        /\ None = 0 /\ None \notin Vols /\ \A m \in VolNames : None \notin past[m]
    BY <1>1 DEF TypeOK, RequestSet, None, Vols
  <1>8. /\ q.verb \in Keeping => rec[n].vol # None /\ r.vol = rec[n].vol
        /\ q.verb \in Making => rec[n].state = "absent" /\ rec[n].vol = None
        /\ q.verb = "clear" => r.vol = None /\ rec[n].state \in {"importing", "readonly"}
        /\ q.verb \in Rebinds => rec[n].state \in Claimable
        /\ q.verb \in Rebinds \cup {"initial"} => r.state \in HeldStates
    BY <1>3, <1>4 DEF GoodRequest, GoodRecord, NoRecord, Keeping, Making, Rebinds
  <1> HIDE DEF n, r
  <1>9. TypeOK'
    <2>1. flight' \subseteq RequestSet  BY Zenon, <1>1, <1>2
    <2>2. q.verb = "initial" => r.vol \in Vols
      BY Zenon, <1>4, <1>8 DEF Records, GoodRecord, HeldStates
    <2>3. creating' \subseteq [name : VolNames, coord : Coords, vol : Vols]
      BY <1>1, <1>2, <1>4, <2>2 DEF TypeOK
    <2>4. QED  BY Zenon, <1>1, <1>2, <1>5, <2>1, <2>3 DEF TypeOK
  <1>10. \A p \in flight' : GoodRequest(p)'
    BY Zenon, <1>1, <1>2 DEF GoodRequest, GoodRecord, KeepsState
  \* a fork that was bound or left is no minted one
  <1>11. MintedApart'
    <2>1. SUFFICES ASSUME NEW p \in flight, p # q, p.verb \in Minting
                   PROVE  r.vol # p.new.vol
      BY <1>1, <1>2, <1>4, <1>5, <1>7 DEF MintedApart
    <2>2. /\ \A m \in VolNames : rec[m].vol # p.new.vol /\ p.new.vol \notin past[m]
          /\ q.verb \in Minting => r.vol # p.new.vol
      BY <1>1, <2>1, Zenon DEF MintedApart, r
    <2>3. p.new.vol # None
      BY Zenon, <1>1, <2>1 DEF GoodRequest, GoodRecord, Minting, Rebinds, HeldStates
    <2>4. q.verb = "rehome" => \E m \in VolNames : r.vol \in past[m]
      BY <1>1, Zenon DEF RehomedApart, r
    <2>5. QED
      BY Zenon, <1>4, <1>6, <1>8, <2>2, <2>3, <2>4 DEF Making, Rebinds, Minting
  <1>12. \A p \in flight : p.verb = "rehome" =>
           /\ p.new.vol # None
           /\ q.verb \in Minting => r.vol # p.new.vol
    BY <1>1, <1>7, Zenon DEF MintedApart, RehomedApart, r
  <1>13. Deletable(n)' => Deletable(n) /\ (q.verb = "rehome" => FALSE)
    <2>1. q.verb = "rehome" => r.state = "released" /\ q.verb # "initial"
      BY Zenon, <1>3 DEF GoodRequest, r
    <2>2. rec[n].state \in {"absent", "importing", "readonly"} => Deletable(n) /\ \A k \in creating : k.name # n
      BY Zenon, <1>1 DEF Deletable, Rollbacks, Claimable, HeldStates
    <2>3. CASE q.verb \in Making
      BY Zenon, <1>2, <1>5, <1>8, <2>1, <2>2, <2>3 DEF Deletable
    <2>4. CASE q.verb \in Rebinds
      BY Zenon, <1>2, <1>5, <1>8, <2>4 DEF Deletable, Rebinds, HeldStates
    <2>5. CASE q.verb = "clear"
      BY Zenon, <1>8, <2>2, <2>5
    <2>6. CASE q.verb \in Keeping
      <3>1. r.state \in {"absent", "importing", "readonly"}
              => rec[n].state \in {"absent", "importing", "readonly"}
        BY Zenon, <1>3, <2>6 DEF r, Keeping, GoodRequest, KeepsState, Claimable, HeldStates
      <3>2. creating' = creating /\ q.verb # "rehome"  BY Zenon, <1>2, <2>6 DEF Keeping
      <3>3. QED  BY Zenon, <1>5, <2>2, <3>1, <3>2 DEF Deletable
    <2>7. QED  BY Zenon, <1>6, <2>3, <2>4, <2>5, <2>6
  <1>14. RehomedApart'
    <2>1. \A m \in VolNames \ {n} : Deletable(m)' => Deletable(m)
      BY <1>2, <1>5 DEF Deletable
    <2>2. SUFFICES ASSUME NEW p \in flight, p # q, p.verb = "rehome"
                   PROVE  /\ \E m \in VolNames : p.new.vol \in past'[m]
                          /\ \A m \in VolNames \ {p.name} : rec'[m].vol # p.new.vol
                          /\ Deletable(p.name)' => /\ p.new.vol \notin past'[p.name]
                                                  /\ rec'[p.name].vol # p.new.vol
      BY <1>1, <1>2, Zenon DEF RehomedApart
    <2>3. /\ \E m \in VolNames : p.new.vol \in past[m]
          /\ \A m \in VolNames \ {p.name} : rec[m].vol # p.new.vol
          /\ Deletable(p.name) => /\ p.new.vol \notin past[p.name]
                                  /\ rec[p.name].vol # p.new.vol
          /\ q.verb = "rehome" /\ p.new.vol = r.vol => p.name = n
      BY <1>1, <2>2, Zenon DEF RehomedApart, r, n
    <2>4. \E m \in VolNames : p.new.vol \in past'[m]
      BY Zenon, <1>4, <1>5, <2>3
    <2>5. p.name # n => r.vol # p.new.vol
      BY Zenon, <1>4, <1>6, <1>8, <1>12, <2>2, <2>3 DEF Minting, Making, Rebinds
    <2>6. Deletable(n)' /\ p.name = n => r.vol # p.new.vol /\ p.new.vol \notin past'[n]
      BY <1>5, <1>6, <1>8, <1>12, <1>13, <2>2, <2>3 DEF Minting, Making, Rebinds
    <2>7. QED  BY <1>5, <1>7, <2>1, <2>2, <2>3, <2>4, <2>5, <2>6
  <1>15. Rollbacks'
    <2>1. \A k \in creating : k.name = n => r.state \in Claimable /\ q.verb # "initial"
      <3>1. ASSUME NEW k \in creating, k.name = n  PROVE rec[n].state \in Claimable
        BY Zenon, <1>1, <3>1 DEF Rollbacks
      <3>2. rec[n].state \in Claimable => r.state \in Claimable /\ q.verb # "initial"
        BY Zenon, <1>3, <1>6, <1>8 DEF r, Making, GoodRequest, KeepsState, Claimable, HeldStates
      <3>3. QED  BY Zenon, <3>1, <3>2
    <2>2. \A k \in creating : k.name \in VolNames  BY Zenon, <1>1 DEF TypeOK
    <2>3. CASE q.verb = "initial"
      <3> DEFINE j == [name |-> n, coord |-> q.coord, vol |-> r.vol]
      <3>1. j.name = n  BY Zenon
      <3> HIDE DEF j
      <3>2. creating' = creating \cup {j}  BY Zenon, <1>2, <2>3 DEF j
      <3>3. r.state \in Claimable  BY Zenon, <1>8, <2>3 DEF Claimable
      <3>4. QED  BY Zenon, <1>1, <1>5, <2>1, <2>2, <2>3, <3>1, <3>2, <3>3 DEF Rollbacks
    <2>4. CASE q.verb # "initial"
      <3>1. creating' = creating  BY Zenon, <1>2, <2>4
      <3>2. QED  BY Zenon, <1>1, <1>5, <2>1, <2>2, <3>1 DEF Rollbacks
    <2>5. QED  BY Zenon, <2>3, <2>4
  \* the record a clear will meet is replaced by its own completion at most
  <1>16. ASSUME NEW p \in flight, p # q, p.verb = "clear", p.name = n
         PROVE  /\ r.state \in {"importing", "readonly"} /\ r.vol = p.seen.vol
                /\ r.state = "importing" => r.owner = p.coord
    <2>1. /\ rec[n].state \in {"importing", "readonly"} /\ rec[n].vol = p.seen.vol
          /\ rec[n].state = "importing" => rec[n].owner = p.coord
          /\ q.verb # "clear"
      BY Zenon, <1>1, <1>16 DEF ClearsItsOwn, ClearsApart, n
    <2>2. q.verb \in Keeping
      BY Zenon, <1>6, <1>8, <2>1 DEF Claimable, HeldStates
    <2>3. q.seen = rec[n] /\ r.vol = rec[n].vol  BY Zenon, <1>3, <1>8, <2>1, <2>2
    <2>4. \/ r.state = rec[n].state
          \/ r.state = "readonly"
      BY Zenon, <1>3, <2>1, <2>2, <2>3 DEF r, GoodRequest, KeepsState, Claimable, HeldStates
    <2>5. r.state = "importing" => r.owner = rec[n].owner
      <3>1. SUFFICES ASSUME r.state = "importing"  PROVE r.owner = rec[n].owner  BY Zenon
      <3>2. r.owner # Nobody /\ rec[n].owner # Nobody
        BY Zenon, <1>1, <1>4, <2>4, <3>1 DEF GoodRecord, Bindings
      <3>3. QED  BY Zenon, <1>3, <2>2, <2>3, <3>2 DEF r, GoodRequest
    <2>6. QED  BY Zenon, <2>1, <2>3, <2>4, <2>5
  <1>17. ClearsApart' /\ ClearsItsOwn'
    <2>1. \A p \in flight' : p \in flight /\ p # q /\ p.name \in VolNames
      BY Zenon, <1>2, <1>7
    <2>2. \A p \in flight' : p.verb = "clear" =>
            /\ rec'[p.name].state \in {"importing", "readonly"} /\ rec'[p.name].vol = p.seen.vol
            /\ rec'[p.name].state = "importing" => rec'[p.name].owner = p.coord
      <3>1. SUFFICES ASSUME NEW p \in flight', p.verb = "clear"
                     PROVE  /\ rec'[p.name].state \in {"importing", "readonly"}
                            /\ rec'[p.name].vol = p.seen.vol
                            /\ rec'[p.name].state = "importing" => rec'[p.name].owner = p.coord
        BY Zenon
      <3>2. p \in flight /\ p # q /\ p.name \in VolNames  BY Zenon, <2>1
      <3>3. CASE p.name = n  BY Zenon, <1>5, <1>16, <3>1, <3>2, <3>3
      <3>4. CASE p.name # n
        BY Zenon, <1>1, <1>5, <3>1, <3>2, <3>4 DEF ClearsItsOwn, ClearsApart
      <3>5. QED  BY Zenon, <3>3, <3>4
    <2>3. QED  BY Zenon, <1>1, <2>1, <2>2 DEF ClearsItsOwn, ClearsApart
  <1>18. QED
    BY Zenon, <1>5, <1>9, <1>10, <1>11, <1>14, <1>15, <1>17 DEF IInv

\* A request that is dropped, and a create that is over, take nothing along.
LEMMA DropStep ==
    ASSUME IInv, flight' \subseteq flight, creating' \subseteq creating,
           UNCHANGED <<rec, minted, past>>
    PROVE  IInv'
PROOF
  <1>1. TypeOK'  BY Zenon DEF IInv, TypeOK
  <1>2. NeverRebound' /\ Bindings'  BY Zenon DEF IInv, NeverRebound, Bindings, GoodRecord
  <1>3. \A q \in flight' : GoodRequest(q)'  BY Zenon DEF IInv, GoodRequest, GoodRecord, KeepsState
  <1>4. MintedApart'  BY Zenon DEF IInv, MintedApart
  <1>5. \A m \in VolNames : Deletable(m)' => Deletable(m)  BY Zenon DEF Deletable
  <1>6. \A q \in flight : q.name \in VolNames  BY Zenon DEF IInv, TypeOK, RequestSet
  <1>7. RehomedApart'  BY Zenon, <1>5, <1>6 DEF IInv, RehomedApart
  <1>8. Rollbacks' /\ ClearsApart' /\ ClearsItsOwn'
    BY Zenon DEF IInv, Rollbacks, ClearsApart, ClearsItsOwn
  <1>9. QED  BY Zenon, <1>1, <1>2, <1>3, <1>4, <1>7, <1>8 DEF IInv

\* The rollback of a create deletes a record somebody holds or has released:
\* never an import, and never the record of another create.
LEMMA CreateFailsStep ==
    ASSUME IInv, NEW k \in creating, CreateFails(k)
    PROVE  IInv'
PROOF
  <1> DEFINE n == k.name
  <1>1. /\ TypeOK /\ Bindings /\ MintedApart /\ RehomedApart /\ Rollbacks /\ ClearsApart
        /\ ClearsItsOwn /\ \A p \in flight : p \in RequestSet /\ GoodRequest(p)
    BY Zenon DEF IInv, TypeOK
  <1>2. /\ Rebind(n, NoRecord) /\ flight' = flight /\ minted' = minted
        /\ creating' = creating \ {k}
    BY Zenon DEF CreateFails
  <1>3. n \in VolNames /\ rec[n].state \in Claimable  BY Zenon, <1>1 DEF TypeOK, Rollbacks
  <1>4. /\ NoRecord \in Records /\ GoodRecord(NoRecord)
        /\ NoRecord.vol = None /\ NoRecord.state = "absent"
    BY Zenon, NobodyIsNotACoord DEF NoRecord, Records, GoodRecord, HeldStates
  <1>5. NoRecord.vol <= minted  BY <1>1, <1>4 DEF TypeOK, None
  <1>6. /\ rec' \in [VolNames -> Records] /\ past' \in [VolNames -> SUBSET Vols]
        /\ rec'[n] = NoRecord
        /\ \A m \in VolNames \ {n} : rec'[m] = rec[m] /\ past'[m] = past[m]
        /\ past'[n] = IF rec[n].vol \in {None, NoRecord.vol} THEN past[n]
                      ELSE past[n] \cup {rec[n].vol}
        /\ NeverRebound'
        /\ Bindings'
    BY Zenon, <1>2, <1>3, <1>4, <1>5, RebindKeeps
  <1>7. /\ \A p \in flight : p.name \in VolNames
        /\ None \notin Vols /\ \A m \in VolNames : None \notin past[m]
    BY <1>1 DEF TypeOK, RequestSet, None, Vols
  <1> HIDE DEF n
  <1>8. TypeOK'  BY Zenon, <1>1, <1>2, <1>6 DEF TypeOK
  <1>9. \A p \in flight' : GoodRequest(p)'
    BY <1>1, <1>2 DEF GoodRequest, GoodRecord, KeepsState
  <1>10. MintedApart'
    <2>1. \A p \in flight : p.verb \in Minting => p.new.vol # None
      BY Zenon, <1>1 DEF GoodRequest, GoodRecord, Minting, Rebinds, HeldStates
    <2>2. \A q \in flight : q.verb \in Minting =>
            \A m \in VolNames : rec[m].vol # q.new.vol /\ q.new.vol \notin past[m]
      BY Zenon, <1>1 DEF MintedApart
    <2>3. ASSUME NEW q \in flight, q.verb \in Minting, NEW m \in VolNames
          PROVE  rec'[m].vol # q.new.vol /\ q.new.vol \notin past'[m]
      <3>1. CASE m = n
        <4>1. rec'[n].vol # q.new.vol
          BY Zenon, <1>4, <1>6, <2>1, <2>3
        <4>2. q.new.vol \notin past'[n]
          BY Zenon, <1>3, <1>6, <2>2, <2>3
        <4>3. QED  BY Zenon, <3>1, <4>1, <4>2
      <3>2. CASE m # n  BY ZenonT(30), <1>6, <2>2, <2>3, <3>2
      <3>3. QED  BY Zenon, <3>1, <3>2
    <2>4. QED  BY Zenon, <1>1, <1>2, <2>3 DEF MintedApart
  <1>11. RehomedApart'
    <2>1. \A m \in VolNames : Deletable(m)' => Deletable(m)
      BY Zenon, <1>2, <1>6 DEF Deletable, n
    <2>2. SUFFICES ASSUME NEW p \in flight, p.verb = "rehome"
                   PROVE  /\ \E m \in VolNames : p.new.vol \in past'[m]
                          /\ \A m \in VolNames \ {p.name} : rec'[m].vol # p.new.vol
                          /\ Deletable(p.name)' => /\ p.new.vol \notin past'[p.name]
                                                  /\ rec'[p.name].vol # p.new.vol
      BY <1>1, <1>2, Zenon DEF RehomedApart
    <2>3. /\ \E m \in VolNames : p.new.vol \in past[m]
          /\ \A m \in VolNames \ {p.name} : rec[m].vol # p.new.vol
          /\ Deletable(p.name) => /\ p.new.vol \notin past[p.name]
                                  /\ rec[p.name].vol # p.new.vol
      BY <1>1, <2>2, Zenon DEF RehomedApart
    <2>4. p.new.vol # None  BY Zenon, <1>7, <2>3
    <2>5. \E m \in VolNames : p.new.vol \in past'[m]  BY Zenon, <1>3, <1>6, <2>3
    <2>6. QED  BY <1>3, <1>4, <1>6, <1>7, <2>1, <2>3, <2>4, <2>5
  <1>12. Rollbacks'
    <2>1. \A j \in creating \ {k} : j.name \in VolNames \ {n}
      BY Zenon, <1>1 DEF TypeOK, Rollbacks, n
    <2>2. QED  BY Zenon, <1>1, <1>2, <1>6, <2>1 DEF Rollbacks
  <1>13. ClearsApart' /\ ClearsItsOwn'
    <2>1. \A p \in flight : p.verb = "clear" => p.name # n
      BY Zenon, <1>1, <1>3 DEF ClearsItsOwn, Claimable, HeldStates
    <2>2. QED  BY Zenon, <1>1, <1>2, <1>6, <1>7, <2>1 DEF ClearsApart, ClearsItsOwn
  <1>14. QED
    BY Zenon, <1>6, <1>8, <1>9, <1>10, <1>11, <1>12, <1>13 DEF IInv

-----------------------------------------------------------------------------
(***************************************************************************)
(* The invariant, and what follows from it.                                *)
(***************************************************************************)

\* The invariant holds of an empty name registry.
LEMMA IInvInit == Init => IInv
PROOF
  <1> SUFFICES ASSUME Init PROVE IInv  BY Zenon
  <1>1. NoRecord \in Records /\ GoodRecord(NoRecord) /\ NoRecord.vol = 0
    BY Zenon, NobodyIsNotACoord DEF NoRecord, Records, GoodRecord, HeldStates, None
  <1>2. /\ rec = [n \in VolNames |-> NoRecord] /\ flight = {} /\ creating = {}
        /\ minted = 0 /\ past = [n \in VolNames |-> {}]
    BY Zenon DEF Init
  <1>3. TypeOK  BY <1>1, <1>2, BoundsAreNaturals DEF TypeOK
  <1>4. NeverRebound /\ Bindings  BY <1>1, <1>2 DEF NeverRebound, Bindings, None
  <1>5. QED
    BY Zenon, <1>2, <1>3, <1>4 DEF IInv, MintedApart, RehomedApart, Rollbacks, ClearsApart, ClearsItsOwn

\* Every step of the coordinators and of the store keeps the invariant.
LEMMA IInvNext == IInv /\ [Next]_vars => IInv'
PROOF
  <1> SUFFICES ASSUME IInv, [Next]_vars PROVE IInv'  BY Zenon
  <1>1. CASE UNCHANGED vars  BY Zenon, <1>1, DropStep DEF vars
  <1>2. ASSUME NEW q \in flight, Put(q)  PROVE IInv'  BY Zenon, <1>2, PutStep
  <1>3. ASSUME NEW q \in flight, PutFails(q)  PROVE IInv'
    BY Zenon, <1>3, DropStep DEF PutFails
  <1>4. ASSUME NEW k \in creating, CreateDone(k)  PROVE IInv'
    BY Zenon, <1>4, DropStep DEF CreateDone
  <1>5. ASSUME NEW k \in creating, CreateFails(k)  PROVE IInv'
    BY Zenon, <1>5, CreateFailsStep
  <1>6. QED
    BY Zenon, <1>1, <1>2, <1>3, <1>4, <1>5, BeginStep DEF Next

\* The inductive invariant: what the records, the requests under way and the
\* pending rollbacks of a create say of one another.
THEOREM NamesInvariant == Spec => []IInv
BY IInvInit, IInvNext, PTL DEF Spec

\* No two names are bound to one fork and no name returns to a fork it has
\* left, however the conditional writes of the coordinators interleave.
THEOREM NeverReboundHolds == Spec => []NeverRebound
PROOF
  <1>1. IInv => NeverRebound  BY Zenon DEF IInv
  <1>2. QED  BY <1>1, NamesInvariant, PTL

\* A record names its holder exactly while somebody holds it.
THEOREM OwnedIffHeldHolds == Spec => []OwnedIffHeld
PROOF
  <1>1. IInv => OwnedIffHeld  BY Zenon DEF IInv, Bindings, GoodRecord, OwnedIffHeld
  <1>2. QED  BY <1>1, NamesInvariant, PTL

\* The unconditional DELETE of clear_importing meets its own import only, or
\* the completion of it that arrived late.
THEOREM ClearsItsOwnHolds == Spec => []ClearsItsOwn
PROOF
  <1>1. IInv => ClearsItsOwn  BY Zenon DEF IInv
  <1>2. QED  BY <1>1, NamesInvariant, PTL

-----------------------------------------------------------------------------
(***************************************************************************)
(* Names implements Ownership.                                             *)
(***************************************************************************)

\* Replacing one record replaces one fork and one holder.
LEMMA RebindMaps ==
    ASSUME IInv, NEW n \in VolNames, NEW r \in Records, Rebind(n, r)
    PROVE  /\ [m \in VolNames |-> rec'[m].vol]
                = [[m \in VolNames |-> rec[m].vol] EXCEPT ![n] = r.vol]
           /\ [m \in VolNames |-> rec'[m].owner]
                = [[m \in VolNames |-> rec[m].owner] EXCEPT ![n] = r.owner]
           /\ past' = [past EXCEPT ![n] = IF rec[n].vol \in {None, r.vol} THEN past[n]
                                          ELSE past[n] \cup {rec[n].vol}]
PROOF
  <1>1. rec \in [VolNames -> Records] /\ past \in [VolNames -> SUBSET Vols]
    BY Zenon DEF IInv, TypeOK
  <1>2. /\ rec' = [rec EXCEPT ![n] = r]
        /\ past' = [past EXCEPT ![n] = IF rec[n].vol \in {None, r.vol} THEN past[n]
                                       ELSE past[n] \cup {rec[n].vol}]
    BY Zenon, <1>1 DEF Rebind
  <1>3. rec'[n] = r /\ \A m \in VolNames \ {n} : rec'[m] = rec[m]
    BY Zenon, <1>1, <1>2
  <1>4. [m \in VolNames |-> rec'[m].vol] = [[m \in VolNames |-> rec[m].vol] EXCEPT ![n] = r.vol]
    BY Zenon, <1>3
  <1>5. [m \in VolNames |-> rec'[m].owner]
          = [[m \in VolNames |-> rec[m].owner] EXCEPT ![n] = r.owner]
    BY Zenon, <1>3
  <1>6. QED  BY Zenon, <1>2, <1>4, <1>5

\* A PUT is a step of Ownership.
LEMMA PutIsOwnership ==
    ASSUME IInv, NEW q \in flight, Put(q)
    PROVE  [Owner!Next]_(Owner!vars)
PROOF
  <1> DEFINE n == q.name
             r == q.new
             b == [m \in VolNames |-> rec[m].vol]
             h == [m \in VolNames |-> rec[m].owner]
  <1>1. Matches(q) /\ Rebind(n, r)  BY Zenon DEF Put
  <1>2. /\ q \in RequestSet /\ GoodRequest(q)
        /\ rec[n].vol = q.seen.vol
        /\ q.verb # "clear" => rec[n] = q.seen
        /\ \/ r.vol \in {rec[n].vol, None}
           \/ r.vol \notin past[n] /\ \A m \in VolNames : rec[m].vol # r.vol
    BY Zenon, <1>1, PutBinds
  <1>3. /\ n \in VolNames /\ r \in Records /\ GoodRecord(r) /\ GoodRecord(rec[n])
        /\ rec[n] \in Records /\ q.verb \in Requests
    BY Zenon, <1>2 DEF RequestSet, GoodRequest, IInv, Bindings, TypeOK
  <1>4. /\ r.vol \in Vols \cup {None} /\ r.owner \in Coords \cup {Nobody}
        /\ rec[n].vol \in Vols \cup {None} /\ rec[n].owner \in Coords \cup {Nobody}
        /\ None = 0 /\ 0 \notin Vols
    BY <1>3 DEF Records, None, Vols
  <1>5. /\ b' = [b EXCEPT ![n] = r.vol] /\ h' = [h EXCEPT ![n] = r.owner]
        /\ past' = [past EXCEPT ![n] = IF rec[n].vol \in {None, r.vol} THEN past[n]
                                       ELSE past[n] \cup {rec[n].vol}]
    BY Zenon, <1>1, <1>3, RebindMaps
  <1>6. b[n] = rec[n].vol /\ h[n] = rec[n].owner /\ \A m \in VolNames : b[m] = rec[m].vol
    BY Zenon, <1>3
  <1>7. /\ b \in [VolNames -> Vols \cup {None}] /\ h \in [VolNames -> Coords \cup {Nobody}]
        /\ past \in [VolNames -> SUBSET Vols]
    <2>1. rec \in [VolNames -> Records] /\ past \in [VolNames -> SUBSET Vols]
      BY Zenon DEF IInv, TypeOK
    <2>2. QED  BY Zenon, <2>1 DEF Records
  <1>8. q.verb \in Keeping \cup Rebinds \cup Making \cup {"clear"}
    BY Zenon, <1>3 DEF Requests, Keeping, Rebinds, Making
  <1>9. /\ q.verb \in Keeping => /\ r.vol = rec[n].vol /\ rec[n].vol # None
                                 /\ r.owner \in {rec[n].owner, Nobody} \/ rec[n].owner = Nobody
        /\ q.verb \in Rebinds => r.owner # Nobody
        /\ q.verb \in Making => rec[n].vol = None
        /\ q.verb = "clear" => r.vol = None /\ r.owner = Nobody
    BY <1>2, <1>3 DEF GoodRequest, GoodRecord, NoRecord, Endings, Keeping, Making, Rebinds, HeldStates
  <1>10. q.verb \in Minting \cup {"rehome"} =>
           r.vol # None /\ r.vol # rec[n].vol
    <2>1. q.verb \in Minting \cup {"rehome"} => r.vol # None
      BY Zenon, <1>2, <1>3 DEF GoodRequest, GoodRecord, Minting, Rebinds, HeldStates
    <2>2. q.verb \in Minting => r.vol # rec[n].vol
      BY <1>3, Zenon DEF IInv, MintedApart
    <2>3. q.verb = "rehome" => rec[n].vol = None  BY Zenon, <1>9 DEF Making
    <2>4. QED  BY Zenon, <2>1, <2>2, <2>3
  <1> HIDE DEF n, r, b, h
  <1>11. CASE q.verb \in Keeping
    <2>1. b' = b /\ past' = past
      BY Zenon, <1>3, <1>5, <1>6, <1>7, <1>9, <1>11
    <2>2. CASE r.owner = rec[n].owner
      <3>1. h' = h  BY Zenon, <1>5, <1>6, <1>7, <2>2
      <3>2. QED  BY Zenon, <2>1, <3>1 DEF Owner!vars, b, h
    <2>3. CASE r.owner = Nobody
      <3>1. Owner!Yield(n)
        BY Zenon, <1>4, <1>5, <1>6, <1>9, <1>11, <2>1, <2>3 DEF Owner!Yield, b, h
      <3>2. QED  BY Zenon, <1>3, <3>1 DEF Owner!Next
    <2>4. CASE rec[n].owner = Nobody /\ r.owner \in Coords
      <3>1. Owner!Take(n, r.owner)
        BY Zenon, <1>4, <1>5, <1>6, <1>9, <1>11, <2>1, <2>4 DEF Owner!Take, b, h
      <3>2. QED  BY Zenon, <1>3, <2>4, <3>1 DEF Owner!Next
    <2>5. QED  BY Zenon, <1>4, <1>9, <1>11, <2>2, <2>3, <2>4
  <1>12. CASE q.verb \in Rebinds \cup Making
    <2>1. q.verb \in Minting \cup {"rehome"}  BY Zenon, <1>12 DEF Rebinds, Making, Minting
    <2>2. r.vol # None /\ r.vol # rec[n].vol /\ r.vol \in Vols  BY Zenon, <1>4, <1>10, <2>1
    <2>3. r.vol \notin past[n] /\ \A m \in VolNames : b[m] # r.vol
      BY Zenon, <1>2, <1>6, <2>2
    <2>4. past' = [past EXCEPT ![n] = IF b[n] = 0 THEN past[n] ELSE past[n] \cup {b[n]}]
      BY Zenon, <1>4, <1>5, <1>6, <2>2
    <2>5. b[n] # 0 => r.owner # Nobody
      BY Zenon, <1>4, <1>6, <1>9, <1>12
    <2>6. Owner!Bind(n, r.owner, r.vol)
      BY Zenon, <1>5, <1>7, <2>3, <2>4, <2>5 DEF Owner!Bind, Owner!Unbound, Owner!Leave, b, h
    <2>7. QED  BY Zenon, <1>3, <1>4, <2>2, <2>6 DEF Owner!Next
  <1>13. CASE q.verb = "clear"
    <2>1. past' = [past EXCEPT ![n] = IF b[n] = 0 THEN past[n] ELSE past[n] \cup {b[n]}]
      BY Zenon, <1>4, <1>5, <1>6, <1>9, <1>13
    <2>2. Owner!Forget(n)
      BY Zenon, <1>4, <1>5, <1>7, <1>9, <1>13, <2>1 DEF Owner!Forget, Owner!Leave, b, h
    <2>3. QED  BY Zenon, <1>3, <2>2 DEF Owner!Next
  <1>14. QED  BY Zenon, <1>8, <1>11, <1>12, <1>13

\* So is the rollback of a create.
LEMMA CreateFailsIsOwnership ==
    ASSUME IInv, NEW k \in creating, CreateFails(k)
    PROVE  [Owner!Next]_(Owner!vars)
PROOF
  <1> DEFINE n == k.name
             b == [m \in VolNames |-> rec[m].vol]
             h == [m \in VolNames |-> rec[m].owner]
  <1>1. Rebind(n, NoRecord)  BY Zenon DEF CreateFails
  <1>2. n \in VolNames /\ past \in [VolNames -> SUBSET Vols]  BY Zenon DEF IInv, TypeOK
  <1>3. NoRecord \in Records /\ NoRecord.vol = 0 /\ NoRecord.owner = Nobody /\ None = 0
    BY Zenon DEF NoRecord, Records, None
  <1>4. /\ b' = [b EXCEPT ![n] = 0] /\ h' = [h EXCEPT ![n] = Nobody]
        /\ past' = [past EXCEPT ![n] = IF rec[n].vol = 0 THEN past[n]
                                       ELSE past[n] \cup {rec[n].vol}]
    BY Zenon, <1>1, <1>2, <1>3, RebindMaps
  <1>5. b[n] = rec[n].vol  BY Zenon, <1>2
  <1> HIDE DEF n, b, h
  <1>6. Owner!Forget(n)
    BY Zenon, <1>2, <1>4, <1>5 DEF Owner!Forget, Owner!Leave, b, h
  <1>7. QED  BY Zenon, <1>2, <1>6 DEF Owner!Next

\* Every step of Names is a step of Ownership or leaves it alone.
LEMMA OwnershipNext == IInv /\ [Next]_vars => [Owner!Next]_(Owner!vars)
PROOF
  <1> SUFFICES ASSUME IInv, [Next]_vars PROVE [Owner!Next]_(Owner!vars)  BY Zenon
  <1>1. ASSUME rec' = rec, past' = past  PROVE [Owner!Next]_(Owner!vars)
    BY Zenon, <1>1 DEF Owner!vars
  <1>2. ASSUME NEW q \in flight, Put(q)  PROVE [Owner!Next]_(Owner!vars)
    BY Zenon, <1>2, PutIsOwnership
  <1>3. ASSUME NEW k \in creating, CreateFails(k)  PROVE [Owner!Next]_(Owner!vars)
    BY Zenon, <1>3, CreateFailsIsOwnership
  <1>4. CASE UNCHANGED vars  BY Zenon, <1>1, <1>4 DEF vars
  <1>5. CASE Next
    <2>1. ASSUME NEW n \in VolNames, NEW c \in Coords, Read(n, c)
          PROVE  rec' = rec /\ past' = past
      <3>1. \A q : Begin(q) => rec' = rec /\ past' = past  BY Zenon DEF Begin
      <3>2. QED
        BY <2>1, <3>1, Zenon DEF Read, BeginStop, BeginLive, BeginReclaim, BeginClaim, BeginForce,
           BeginCreate, BeginImport, BeginClear, BeginRelease, BeginImported, BeginLatest, BeginRehome
    <2>2. ASSUME NEW q \in flight, PutFails(q)  PROVE rec' = rec /\ past' = past
      BY Zenon, <2>2 DEF PutFails
    <2>3. ASSUME NEW k \in creating, CreateDone(k)  PROVE rec' = rec /\ past' = past
      BY Zenon, <2>3 DEF CreateDone
    <2>4. QED  BY Zenon, <1>1, <1>2, <1>3, <1>5, <2>1, <2>2, <2>3 DEF Next
  <1>6. QED  BY Zenon, <1>4, <1>5

\* Names implements Ownership: the conditional writes of any number of
\* coordinators add up to one binding and at most one holder per name, and a
\* name taken from a holder is bound to a fork it was never bound to before.
THEOREM NamesImplementsOwnership == Spec => ImplementsOwnership
PROOF
  <1>1. Init => Owner!Init
    <2> SUFFICES ASSUME Init PROVE Owner!Init  BY Zenon
    <2>1. rec = [n \in VolNames |-> NoRecord] /\ past = [n \in VolNames |-> {}]  BY Zenon DEF Init
    <2>2. NoRecord.vol = 0 /\ NoRecord.owner = Nobody  BY Zenon DEF NoRecord, None
    <2>3. QED  BY Zenon, <2>1, <2>2 DEF Owner!Init
  <1>2. QED
    BY <1>1, OwnershipNext, NamesInvariant, PTL DEF Spec, ImplementsOwnership, Owner!Spec

=============================================================================
