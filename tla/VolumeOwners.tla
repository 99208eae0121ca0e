---------------------------- MODULE VolumeOwners ----------------------------
(***************************************************************************)
(* Every content a read resolves to has a body, for any blocks, contents,  *)
(* writes, crashes and power losses and under the assumptions of           *)
(* VolumeMaps: who owns a content, and what a promote may leave out.       *)
(***************************************************************************)
EXTENDS VolumeMaps

-----------------------------------------------------------------------------
(* The owners of contents: staging a record as a DedupRef never drops    *)
(* the last body, an apply never leaves the extent index on a WAL that is  *)
(* unlinked.                                                               *)

Body(s, h) == s \in segFiles /\ \E b \in bodies[s] : HashOf(b) = h
Stored(h) == \E s \in segFiles : Body(s, h)
Carries(j, h) == \E b \in j.bodies : HashOf(b) = h
InWal(w, h) == \E n \in recs[w] : HashOf(n) = h

(* At most one of base and the layers names an owner.                      *)
OwnersApart ==
  /\ \A f, g \in Upper : \A h \in f.own \cap g.own : f = g
  /\ \A h \in Hashes, f \in Upper : h \in f.own => index[h] = 0

(* Bodies are of records in the log.                                       *)
BodyRecords ==
  /\ \A s \in segFiles : bodies[s] \subseteq Records
  /\ \A j \in AllJobs : j.bodies \subseteq Records

(* What a segment refers to is stored in a segment.                        *)
SegsStored ==
  \A s \in segFiles : \A n \in recs[s] : HashOf(n) # ZERO_HASH => Stored(HashOf(n))

(* The rebuilt index names all that is stored and nothing else.            *)
IndexStored ==
  \A h \in Hashes : (index[h] # 0 => Body(index[h], h)) /\ (Stored(h) => index[h] # 0)

(* The owner of a content is a segment that stores it or a WAL that holds  *)
(* it.                                                                     *)
OwnerHolds ==
  \A h \in Hashes : lookup_extent(h) # 0 =>
    \/ Body(lookup_extent(h), h)
    \/ lookup_extent(h) \in OpenWals /\ InWal(lookup_extent(h), h)

(* The promote of the owning WAL carries the content.                      *)
JobCarries == \A j \in AllJobs, h \in Hashes : lookup_extent(h) = j.wal => Carries(j, h)

(* Every content that was not lost has an owner.                           *)
LiveOwned == \A n \in Live : HashOf(n) # ZERO_HASH => lookup_extent(HashOf(n)) # 0

(* A promote leaves out only what is stored or is carried by one that is   *)
(* written before it.                                                      *)
QueueStores ==
  \A i \in DOMAIN jobs : \A n \in recs[jobs[i].wal] : HashOf(n) # ZERO_HASH =>
    Stored(HashOf(n)) \/ \E k \in 1..i : Carries(jobs[k], HashOf(n))

(* The inductive strengthening of Resolvable, with MapsInv.                *)
OwnInv ==
  /\ OwnersApart /\ BodyRecords /\ SegsStored
  /\ phase = "opening" => IndexStored
  /\ phase = "up" => OwnerHolds /\ JobCarries /\ LiveOwned /\ QueueStores

-----------------------------------------------------------------------------
(* Who owns a content.                                                     *)

Named(h, u) ==
  \/ \E f \in Upper : h \in f.own /\ u = f.wal
  \/ (\A f \in Upper : h \notin f.own) /\ u = index[h]

NamedOne ==
  \A h \in Hashes : /\ Named(h, lookup_extent(h)) /\ materialised[h] = lookup_extent(h)
                    /\ \A u : Named(h, u) => u = lookup_extent(h)

(* The lookup and the materialised index name the one owner.               *)
LEMMA OwnerNamed == TypeInv /\ OwnersApart => NamedOne
<1> SUFFICES ASSUME TypeInv, OwnersApart, NEW h \in Hashes
             PROVE  /\ Named(h, lookup_extent(h)) /\ materialised[h] = lookup_extent(h)
                    /\ \A u : Named(h, u) => u = lookup_extent(h)
  BY Zenon DEF NamedOne
<1>1. \A f \in Upper : f.wal \in 0..MaxUlid /\ MaxUlid \in Nat
  <2>1. Upper \subseteq Layer
    BY Zenon DEF TypeInv, TypeOK, Upper
  <2>2. \A f \in Upper : f.wal \in Ulids \cup {0}
    BY Zenon, <2>1 DEF Layer
  <2>3. Ulids \cup {0} \subseteq 0..MaxUlid /\ MaxUlid \in Nat
    BY FileTypes DEF Ulids
  <2> QED BY Zenon, <2>2, <2>3
<1>2. ASSUME NEW f \in Upper, h \in f.own PROVE lookup_extent(h) = f.wal /\ materialised[h] = f.wal
  <2>1. Owning(h) = {f.wal}
    BY Zenon, <1>2 DEF Owning, OwnersApart
  <2>2. Max({f.wal}) = f.wal /\ Min({f.wal}) = f.wal
    BY Zenon, <1>1, <1>2, MaxOne
  <2>3. index[h] = 0 /\ Owning(h) # {}
    BY Zenon, <1>2, <2>1 DEF OwnersApart
  <2>4. lookup_extent(h) = f.wal
    BY Zenon, <2>1, <2>2, <2>3 DEF lookup_extent
  <2>5. materialised[h] = f.wal
    BY Zenon, <2>1, <2>2, <2>3 DEF materialised
  <2> QED BY Zenon, <2>4, <2>5
<1>3. ASSUME \A f \in Upper : h \notin f.own PROVE lookup_extent(h) = index[h] /\ materialised[h] = index[h]
  <2>1. Owning(h) = {}
    BY Zenon, <1>3 DEF Owning
  <2> QED BY Zenon, <2>1 DEF lookup_extent, materialised
<1>4. \A f \in Upper : h \in f.own => lookup_extent(h) = f.wal /\ materialised[h] = f.wal
  BY Zenon, <1>2
<1>5. (\A f \in Upper : h \notin f.own) => lookup_extent(h) = index[h] /\ materialised[h] = index[h]
  BY Zenon, <1>3
<1>8. materialised[h] = lookup_extent(h)
  <2>1. CASE \E f \in Upper : h \in f.own
    <3>1. PICK f \in Upper : h \in f.own
      BY Zenon, <2>1
    <3>2. lookup_extent(h) = f.wal /\ materialised[h] = f.wal
      BY Zenon, <1>4, <3>1
    <3> QED BY Zenon, <3>2
  <2>2. CASE \A f \in Upper : h \notin f.own
    <3>1. lookup_extent(h) = index[h] /\ materialised[h] = index[h]
      BY Zenon, <1>5, <2>2
    <3> QED BY Zenon, <3>1
  <2> QED BY Zenon, <2>1, <2>2
<1>6. Named(h, lookup_extent(h))
  <2>1. CASE \E f \in Upper : h \in f.own
    <3>1. PICK f \in Upper : h \in f.own
      BY Zenon, <2>1
    <3>2. lookup_extent(h) = f.wal
      BY Zenon, <1>4, <3>1
    <3> QED BY Zenon, <3>1, <3>2 DEF Named
  <2>2. CASE \A f \in Upper : h \notin f.own
    <3>1. lookup_extent(h) = index[h]
      BY Zenon, <1>5, <2>2
    <3> QED BY Zenon, <2>2, <3>1 DEF Named
  <2> QED BY Zenon, <2>1, <2>2
<1>7. \A u : Named(h, u) => u = lookup_extent(h)
  <2> TAKE u
  <2> HAVE Named(h, u)
  <2>1. CASE \E f \in Upper : h \in f.own /\ u = f.wal
    <3>1. PICK f \in Upper : h \in f.own /\ u = f.wal
      BY Zenon, <2>1
    <3>2. lookup_extent(h) = f.wal
      BY Zenon, <1>4, <3>1
    <3> QED BY Zenon, <3>1, <3>2
  <2>2. CASE (\A f \in Upper : h \notin f.own) /\ u = index[h]
    <3>1. lookup_extent(h) = index[h]
      BY Zenon, <1>5, <2>2
    <3> QED BY Zenon, <2>2, <3>1
  <2> QED BY Zenon, <2>1, <2>2 DEF Named
<1> QED BY Zenon, <1>8, <1>6, <1>7

(* The same of the next state.                                             *)
LEMMA NamedNext ==
  ASSUME TypeInv', OwnersApart'
  PROVE  \A h \in Hashes : \A u : Named(h, u)' => u = lookup_extent(h)'
<1>1. NamedOne'
  BY OwnerNamed, PTL
<1> QED BY Zenon, <1>1 DEF NamedOne

(* The content of a record is a content.                                   *)
LEMMA HashTypes ==
  ASSUME TypeInv
  PROVE  \A n \in Records : HashOf(n) # ZERO_HASH => HashOf(n) \in Hashes
<1>1. \A n \in Records : log[n] \in [lba: Lbas, hash: Contents] /\ n # 0
  <2>1. log \in Seq([lba: Lbas, hash: Contents])
    BY Zenon DEF TypeInv, TypeOK
  <2>2. log \in [1..Len(log) -> [lba: Lbas, hash: Contents]] /\ Len(log) \in Nat
    BY Zenon, <2>1, SeqShape
  <2> QED BY <2>2 DEF Records
<1>2. \A n \in Records : log[n].hash \in Contents
  BY Zenon, <1>1
<1> QED BY Zenon, <1>1, <1>2 DEF HashOf, Contents

(* Of the records with a content, the staging keeps the first.             *)
LEMMA StagedCarries ==
  ASSUME TypeInv, NEW R, R \subseteq Records, NEW w, NEW owner, NEW h \in Hashes, owner[h] = w,
         NEW n \in R, HashOf(n) = h
  PROVE  \E b \in Staged(R, w, owner) : HashOf(b) = h
<1>1. PICK S : S = {m \in R : HashOf(m) = h}
  BY Zenon
<1>2. S \subseteq Nat /\ S # {}
  BY Zenon, <1>1, FileTypes
<1>3. PICK b \in S : \A x \in S : b <= x
  BY Zenon, <1>2, LeastNat
<1>4. b \in R /\ HashOf(b) = h /\ b \in Nat /\ R \subseteq Nat
  BY Zenon, <1>1, <1>2, <1>3, FileTypes
<1>5. \A m \in R : m < b => HashOf(m) # h
  <2>1. \A m \in R : b <= m => ~(m < b)
    BY <1>4
  <2> QED BY Zenon, <1>1, <1>3, <2>1
<1>6. h # ZERO_HASH
  BY Zenon, VolumeAssumption
<1>7. b \in Staged(R, w, owner)
  BY Zenon, <1>4, <1>5, <1>6 DEF Staged
<1> QED BY Zenon, <1>4, <1>7

-----------------------------------------------------------------------------
(* The owners under each step.                                             *)

(* What the owners are said of.                                            *)
LEMMA SameOwners ==
  ASSUME index' = index, frozen' = frozen, delta' = delta
  PROVE  (\A h : lookup_extent(h)' = lookup_extent(h)) /\ (OwnersApart => OwnersApart')
<1>1. Upper' = Upper
  BY Zenon DEF Upper
<1>2. \A h : Owning(h)' = Owning(h)
  BY Zenon, <1>1 DEF Owning
<1> QED BY Zenon, <1>1, <1>2 DEF lookup_extent, OwnersApart

(* The bodies are the same while the log and the segments are.             *)
LEMMA SameBodies ==
  ASSUME log' = log, segFiles' = segFiles, bodies' = bodies
  PROVE  \A s, h : (Body(s, h)' <=> Body(s, h)) /\ (Stored(h)' <=> Stored(h)) /\ (Carries(s, h)' <=> Carries(s, h))
<1>1. \A n : HashOf(n)' = HashOf(n)
  BY Zenon, SameLog
<1>2. \A s, h : Body(s, h)' <=> Body(s, h)
  BY Zenon, <1>1 DEF Body
<1> QED BY Zenon, <1>1, <1>2 DEF Stored, Carries

(* Nothing of the maps, the jobs and the disk changes.                     *)
LEMMA QuietOwn ==
  ASSUME OwnInv, AllJobs' = AllJobs, OpenWals' = OpenWals,
         UNCHANGED <<log, lost, recs, bodies, segFiles, phase, jobs, index, frozen, delta>>
  PROVE  OwnInv'
<1>1. (\A h : lookup_extent(h)' = lookup_extent(h)) /\ (OwnersApart => OwnersApart')
  BY Zenon, SameOwners
<1>2. \A s, h : (Body(s, h)' <=> Body(s, h)) /\ (Stored(h)' <=> Stored(h)) /\ (Carries(s, h)' <=> Carries(s, h))
  BY Zenon, SameBodies
<1>3. (\A n : HashOf(n)' = HashOf(n)) /\ Records' = Records /\ Live' = Live
  BY Zenon, SameLog DEF Live
<1>4. \A w, h : InWal(w, h)' <=> InWal(w, h)
  BY Zenon, <1>3 DEF InWal
<1>5. BodyRecords => BodyRecords'
  BY Zenon, <1>3 DEF BodyRecords
<1>6. SegsStored => SegsStored'
  BY Zenon, <1>2, <1>3 DEF SegsStored
<1>7. IndexStored => IndexStored'
  BY Zenon, <1>2 DEF IndexStored
<1>8. OwnerHolds => OwnerHolds'
  BY Zenon, <1>1, <1>2, <1>4 DEF OwnerHolds
<1>9. JobCarries => JobCarries'
  BY Zenon, <1>1, <1>2 DEF JobCarries
<1>10. LiveOwned => LiveOwned'
  BY Zenon, <1>1, <1>3 DEF LiveOwned
<1>11. QueueStores => QueueStores'
  BY Zenon, <1>2, <1>3 DEF QueueStores
<1> QED BY Zenon, <1>1, <1>5, <1>6, <1>7, <1>8, <1>9, <1>10, <1>11 DEF OwnInv

(* A crash leaves the segments and their bodies, and so does a power loss. *)
LEMMA LoseOwn ==
  ASSUME TypeInv, DiskInv, OwnInv, Crash \/ PowerLoss
  PROVE  OwnInv'
<1>1. LoseMemory
  BY Zenon DEF Crash, PowerLoss
<1>2. /\ log' = log /\ phase' = "down" /\ frozen' = {} /\ delta' = EmptyLayer
      /\ jobs' = <<>> /\ results' = <<>> /\ stash' = <<>>
  BY Zenon, <1>1 DEF LoseMemory
<1>3. segFiles' = segFiles /\ \A s \in segFiles : recs'[s] = recs[s] /\ bodies'[s] = bodies[s]
  <2>1. CASE Crash
    BY Zenon, <2>1 DEF Crash, disk
  <2>2. CASE PowerLoss
    <3>1. PICK W, cut : Keep(W, segFiles, cut)
      BY Zenon, <2>2, PowerLossWals
    <3>2. segFiles \subseteq Ulids
      BY Zenon, FileTypes
    <3> QED BY Zenon, <3>1, <3>2 DEF Keep
  <2> QED BY Zenon, <2>1, <2>2
<1>4. (\A n : HashOf(n)' = HashOf(n)) /\ Records' = Records
  BY Zenon, <1>2, SameLog
<1>5. \A h : Stored(h) => Stored(h)'
  BY Zenon, <1>3, <1>4 DEF Stored, Body
<1>6. SegsStored'
  BY Zenon, <1>3, <1>4, <1>5 DEF OwnInv, SegsStored
<1>7. AllJobs' = {}
  <2>1. Range(jobs') = {} /\ Range(results') = {} /\ Range(stash') = {}
    BY Zenon, <1>2, RangeEmpty
  <2> QED BY Zenon, <2>1 DEF AllJobs
<1>8. BodyRecords'
  BY Zenon, <1>3, <1>4, <1>7 DEF OwnInv, BodyRecords
<1>9. OwnersApart'
  <2>1. Upper' = {EmptyLayer} /\ EmptyLayer.own = {}
    BY Zenon, <1>2 DEF Upper, EmptyLayer
  <2> QED BY Zenon, <2>1 DEF OwnersApart
<1>10. phase' # "opening" /\ phase' # "up"
  BY Zenon, <1>2
<1> QED BY Zenon, <1>6, <1>8, <1>9, <1>10 DEF OwnInv

(* The layers of a volume that is not up name no owner.                    *)
LEMMA NoOwners ==
  ASSUME frozen' = {}, delta' = EmptyLayer
  PROVE  OwnersApart' /\ \A h, u : u = index'[h] => Named(h, u)'
<1>1. Upper' = {EmptyLayer} /\ EmptyLayer.own = {}
  BY Zenon DEF Upper, EmptyLayer
<1> QED BY Zenon, <1>1 DEF OwnersApart, Named

(* The rebuild finds every body.                                           *)
LEMMA RebuildOwn ==
  ASSUME TypeInv, Durable, LayerInv, OwnInv, OpenRebuild
  PROVE  OwnInv'
<1>1. /\ UNCHANGED <<log, lost, recs, bodies, segFiles, frozen, delta, jobs, results, stash>>
      /\ phase = "down" /\ phase' = "opening" /\ index' = RebuiltOwners(segFiles)
  BY Zenon DEF OpenRebuild, history, pipeline
<1>2. (phase = "up") = FALSE /\ (phase' = "up") = FALSE
  BY Zenon, <1>1
<1>3. OwnersApart'
  <2>1. frozen' = {} /\ delta' = EmptyLayer
    BY Zenon, <1>1, <1>2 DEF LayerInv
  <2> QED BY Zenon, <2>1, NoOwners
<1>4. \A s, h : (Body(s, h)' <=> Body(s, h)) /\ (Stored(h)' <=> Stored(h)) /\ (Carries(s, h)' <=> Carries(s, h))
  BY Zenon, <1>1, SameBodies
<1>5. (\A n : HashOf(n)' = HashOf(n)) /\ Records' = Records
  BY Zenon, <1>1, SameLog
<1>6. AllJobs' = AllJobs
  BY Zenon, <1>1 DEF AllJobs
<1>7. BodyRecords'
  BY Zenon, <1>1, <1>5, <1>6 DEF OwnInv, BodyRecords
<1>8. SegsStored'
  BY Zenon, <1>1, <1>4, <1>5 DEF OwnInv, SegsStored
<1>9. IndexStored'
  <2>1. ASSUME NEW h \in Hashes
        PROVE  (index'[h] # 0 => Body(index'[h], h)) /\ (Stored(h) => index'[h] # 0)
    <3>1. PICK H : H = {s \in segFiles : \E n \in bodies[s] : HashOf(n) = h}
      BY Zenon
    <3>2. index'[h] = IF H = {} THEN 0 ELSE Min(H)
      BY Zenon, <1>1, <3>1 DEF RebuiltOwners
    <3>3. \A s : s \in H <=> Body(s, h)
      BY Zenon, <3>1 DEF Body
    <3>4. CASE H = {}
      BY Zenon, <3>2, <3>3, <3>4 DEF Stored
    <3>5. CASE H # {}
      <4>1. H \subseteq Ulids /\ H \subseteq Nat
        BY Zenon, <3>1, FileTypes
      <4>2. Min(H) \in H
        BY Zenon, <3>5, <4>1, MinIsLeast
      <4>3. Min(H) # 0
        BY Zenon, <4>1, <4>2, FileTypes
      <4> QED BY Zenon, <3>2, <3>3, <3>5, <4>2, <4>3
    <3> QED BY Zenon, <3>4, <3>5
  <2> QED BY Zenon, <1>4, <2>1 DEF IndexStored
<1> QED BY Zenon, <1>2, <1>3, <1>7, <1>8, <1>9 DEF OwnInv

(* Recovery keeps a body for what only the WAL holds.                      *)
LEMMA RecoverPromoteOwn ==
  ASSUME TypeInv, Durable, DiskInv, LayerInv, OwnInv, FileSyncLinks, RecoverPromote
  PROVE  OwnInv'
<1>0. PICK w : w = NextToPromote
  BY Zenon
<1>1. PICK x : x = FoldOwners(index, WalHashes(w), w)
  BY Zenon
<1>2. PICK B : B = Staged(recs[w], w, x)
  BY Zenon
<1>3. PICK s : s = mint + 1
  BY Zenon
<1>4. /\ w \in walFiles /\ w \in Ulids
      /\ recs[w] = {} => UNCHANGED <<recs, bodies, segFiles, base, index>>
      /\ recs[w] # {} => /\ s \in Ulids /\ s \notin segFiles
                         /\ segFiles' = segFiles \cup {s} /\ recs' = [recs EXCEPT ![s] = recs[w]]
                         /\ bodies' = [bodies EXCEPT ![s] = B] /\ index' = ApplyOwners(x, B, w, s)
  BY Zenon, <1>0, <1>1, <1>2, <1>3, RecoverFacts
<1>5. /\ UNCHANGED <<log, lost, walFiles, phase, wal, rotated, jobs, results, stash, frozen, delta>>
      /\ phase = "opening"
  BY Zenon DEF RecoverPromote, Recovering, history
<1>6. AllJobs' = AllJobs /\ OpenWals' = OpenWals
  BY Zenon, <1>5 DEF AllJobs, OpenWals
<1>7. CASE recs[w] = {}
  BY Zenon, <1>4, <1>5, <1>6, <1>7, QuietOwn
<1>8. CASE recs[w] # {}
  <2>1. (phase = "up") = FALSE /\ (phase' = "up") = FALSE
    BY Zenon, <1>5
  <2>2. OwnersApart'
    <3>1. frozen' = {} /\ delta' = EmptyLayer
      BY Zenon, <1>5, <2>1 DEF LayerInv
    <3> QED BY Zenon, <3>1, NoOwners
  <2>3. (\A n : HashOf(n)' = HashOf(n)) /\ Records' = Records
    BY Zenon, <1>5, SameLog
  <2>4. /\ bodies'[s] = B /\ recs'[s] = recs[w]
        /\ \A t \in segFiles : bodies'[t] = bodies[t] /\ recs'[t] = recs[t]
    <3>1. bodies \in [Ulids -> SUBSET Nat]
      BY Zenon DEF TypeInv, TypeOK
    <3> QED BY <1>4, <1>8, <3>1, FileTypes
  <2>5. \A t, h : Body(t, h) => Body(t, h)'
    BY Zenon, <1>4, <1>8, <2>3, <2>4 DEF Body
  <2>6. \A h : Stored(h) => Stored(h)'
    BY Zenon, <1>4, <1>8, <2>5 DEF Stored
  <2>7. \A h : Body(s, h)' <=> \E b \in B : HashOf(b) = h
    BY Zenon, <1>4, <1>8, <2>3, <2>4 DEF Body
  <2>8. IndexStored /\ 0 \notin Ulids
    BY Zenon, <1>5, FileTypes DEF OwnInv
  <2>9. B \subseteq recs[w] /\ recs[w] \subseteq Records
    BY Zenon, <1>2, <1>4, FileTypes DEF Staged
  <2>10. \A h \in Hashes : h \in WalHashes(w) <=> \E n \in recs[w] : HashOf(n) = h
    BY Zenon DEF WalHashes
  <2>11. ASSUME NEW h \in Hashes, index[h] = 0, h \in WalHashes(w) PROVE index'[h] = s /\ Body(s, h)'
    <3>1. x[h] = w
      BY Zenon, <1>1, <2>11 DEF FoldOwners
    <3>2. PICK n \in recs[w] : HashOf(n) = h
      BY Zenon, <2>10, <2>11
    <3>3. \E b \in B : HashOf(b) = h
      <4>1. \E b \in Staged(recs[w], w, x) : HashOf(b) = h
        BY <2>9, <3>1, <3>2, StagedCarries
      <4> QED BY Zenon, <1>2, <4>1
    <3>4. index'[h] = s
      BY Zenon, <1>4, <1>8, <3>1, <3>3 DEF ApplyOwners
    <3> QED BY Zenon, <2>7, <3>3, <3>4
  <2>12. ASSUME NEW h \in Hashes, ~(index[h] = 0 /\ h \in WalHashes(w)) PROVE index'[h] = index[h]
    <3>1. x[h] = index[h]
      BY Zenon, <1>1, <2>12 DEF FoldOwners
    <3>2. index[h] # w
      BY Zenon, <1>4, <2>8 DEF IndexStored, Body, Durable, FilesInv
    <3> QED BY Zenon, <1>4, <1>8, <3>1, <3>2 DEF ApplyOwners
  <2>13. \A h \in Hashes : \/ index[h] = 0 /\ h \in WalHashes(w) /\ index'[h] = s /\ Body(s, h)'
                           \/ ~(index[h] = 0 /\ h \in WalHashes(w)) /\ index'[h] = index[h]
    BY Zenon, <2>11, <2>12
  <2>14. SegsStored'
    <3>1. ASSUME NEW n \in recs[w], HashOf(n) # ZERO_HASH PROVE Stored(HashOf(n))'
      <4>1. PICK h \in Hashes : h = HashOf(n)
        BY Zenon, <2>9, <3>1, HashTypes
      <4>2. h \in WalHashes(w)
        BY Zenon, <2>10, <4>1
      <4>3. Stored(h)'
        BY Zenon, <1>4, <1>8, <2>6, <2>8, <2>13, <4>2 DEF Stored, IndexStored, Body
      <4> QED BY Zenon, <2>3, <4>1, <4>3
    <3> QED BY Zenon, <1>4, <1>8, <2>3, <2>4, <2>6, <3>1 DEF OwnInv, SegsStored
  <2>15. BodyRecords'
    <3>1. \A t \in segFiles' : bodies'[t] \subseteq Records
      BY Zenon, <1>4, <1>8, <2>4, <2>9 DEF OwnInv, BodyRecords
    <3> QED BY Zenon, <1>6, <2>3, <3>1 DEF OwnInv, BodyRecords
  <2>16. IndexStored'
    <3>1. ASSUME NEW h \in Hashes, NEW u, u = index'[h], u # 0 PROVE Body(u, h)'
      <4>1. CASE index[h] = 0 /\ h \in WalHashes(w)
        BY Zenon, <2>11, <3>1, <4>1
      <4>2. CASE ~(index[h] = 0 /\ h \in WalHashes(w))
        <5>1. u = index[h]
          BY Zenon, <2>12, <3>1, <4>2
        <5>2. Body(u, h)
          BY Zenon, <2>8, <3>1, <5>1 DEF IndexStored
        <5> QED BY Zenon, <2>5, <5>2
      <4> QED BY Zenon, <4>1, <4>2
    <3>2. ASSUME NEW h \in Hashes, Stored(h)' PROVE index'[h] # 0
      <4>1. PICK t \in segFiles' : Body(t, h)'
        BY Zenon, <3>2 DEF Stored
      <4>2. CASE t = s
        <5>1. h \in WalHashes(w)
          BY Zenon, <2>7, <2>9, <2>10, <4>1, <4>2
        <5> QED BY Zenon, <1>4, <1>8, <2>8, <2>13, <5>1
      <4>3. CASE t \in segFiles
        <5>1. Body(t, h)
          BY Zenon, <2>3, <2>4, <4>1, <4>3 DEF Body
        <5>2. index[h] # 0
          BY Zenon, <2>8, <4>3, <5>1 DEF IndexStored, Stored
        <5> QED BY Zenon, <2>13, <5>2
      <4> QED BY Zenon, <1>4, <1>8, <4>1, <4>2, <4>3
    <3> QED BY Zenon, <3>1, <3>2 DEF IndexStored
  <2> QED BY Zenon, <2>1, <2>2, <2>14, <2>15, <2>16 DEF OwnInv
<1> QED BY Zenon, <1>7, <1>8

(* The last WAL owns what no segment stores.                               *)
LEMMA RecoverLatestOwn ==
  ASSUME TypeInv, TypeInv', Durable, LayerInv, OwnInv, RecoverLatest
  PROVE  OwnInv'
<1>1. /\ UNCHANGED <<log, lost, recs, bodies, segFiles, frozen, delta, jobs, walFiles>>
      /\ phase = "opening" /\ phase' = "up" /\ ~ManyWals
  BY Zenon DEF RecoverLatest, Recovering, history, pipeline, disk
<1>2. (phase = "up") = FALSE /\ (phase' = "opening") = FALSE
  BY Zenon, <1>1
<1>3. OpenWals' = walFiles /\ AllJobs' = {}
  BY Zenon, RecoverLatestFacts
<1>4. OwnersApart' /\ \A h \in Hashes : lookup_extent(h)' = index'[h]
  <2>1. frozen' = {} /\ delta' = EmptyLayer
    BY Zenon, <1>1, <1>2 DEF LayerInv
  <2>2. OwnersApart' /\ \A h, u : u = index'[h] => Named(h, u)'
    BY Zenon, <2>1, NoOwners
  <2>3. \A h \in Hashes : \A u : Named(h, u)' => u = lookup_extent(h)'
    BY Zenon, <2>2, NamedNext
  <2> QED BY Zenon, <2>2, <2>3
<1>5. \A s, h : (Body(s, h)' <=> Body(s, h)) /\ (Stored(h)' <=> Stored(h)) /\ (Carries(s, h)' <=> Carries(s, h))
  BY Zenon, <1>1, SameBodies
<1>6. (\A n : HashOf(n)' = HashOf(n)) /\ Records' = Records
  BY Zenon, <1>1, SameLog
<1>7. \A v, h : InWal(v, h)' <=> InWal(v, h)
  BY Zenon, <1>1, <1>6 DEF InWal
<1>8. IndexStored /\ SegsStored /\ 0 \notin Ulids
  BY Zenon, <1>1, FileTypes DEF OwnInv
<1>9. \A h \in Hashes : \/ index'[h] = index[h] /\ (index[h] # 0 \/ \A v \in walFiles : ~InWal(v, h))
                        \/ index'[h] \in walFiles /\ InWal(index'[h], h)
  <2>1. CASE walFiles = {}
    BY Zenon, <2>1 DEF RecoverLatest
  <2>2. CASE walFiles # {}
    <3>1. PICK w : w = Max(walFiles)
      BY Zenon
    <3>2. walFiles \subseteq 0..MaxUlid /\ MaxUlid \in Nat
      BY FileTypes DEF Ulids
    <3>3. w \in walFiles
      BY Zenon, <2>2, <3>1, <3>2, MaxIsGreatest
    <3>4. \A v \in walFiles : v = w
      BY Zenon, <1>1, <3>3 DEF ManyWals
    <3>5. wal' = w /\ index' = FoldOwners(index, WalHashes(wal'), wal')
      BY Zenon, <2>2, <3>1 DEF RecoverLatest
    <3>6. \A h \in Hashes : h \in WalHashes(w) <=> InWal(w, h)
      BY Zenon DEF WalHashes, InWal
    <3>7. \A h \in Hashes : index'[h] = IF index[h] = 0 /\ h \in WalHashes(w) THEN w ELSE index[h]
      BY Zenon, <3>5 DEF FoldOwners
    <3> QED BY Zenon, <3>3, <3>4, <3>6, <3>7
  <2> QED BY Zenon, <2>1, <2>2
<1>10. BodyRecords'
  BY Zenon, <1>1, <1>3, <1>6 DEF OwnInv, BodyRecords
<1>11. SegsStored'
  BY Zenon, <1>1, <1>5, <1>6, <1>8 DEF SegsStored
<1>12. OwnerHolds'
  BY Zenon, <1>3, <1>4, <1>5, <1>7, <1>8, <1>9 DEF OwnerHolds, IndexStored
<1>13. JobCarries'
  BY Zenon, <1>3 DEF JobCarries
<1>14. LiveOwned'
  <2>1. ASSUME NEW n \in Live, HashOf(n) # ZERO_HASH PROVE lookup_extent(HashOf(n))' # 0
    <3>1. n \in Records
      BY Zenon DEF Live
    <3>2. PICK h \in Hashes : h = HashOf(n)
      BY Zenon, <2>1, <3>1, HashTypes
    <3>3. InSegment(n) \/ \E w \in walFiles : n \in recs[w]
      BY Zenon DEF Durable, HeldInv
    <3>4. index[h] # 0 \/ \E w \in walFiles : InWal(w, h)
      BY Zenon, <1>8, <2>1, <3>2, <3>3 DEF InSegment, InWal, SegsStored, IndexStored
    <3>5. index'[h] # 0
      BY Zenon, <1>8, <1>9, <3>4, FileTypes
    <3>6. HashOf(n)' = h /\ lookup_extent(h)' # 0
      BY Zenon, <1>4, <1>6, <3>2, <3>5
    <3> QED BY Zenon, <3>6
  <2>2. Live' = Live
    BY Zenon, <1>1, <1>6 DEF Live
  <2> QED BY Zenon, <1>6, <2>1, <2>2 DEF LiveOwned
<1>15. QueueStores'
  <2>1. jobs' = <<>>
    BY Zenon, <1>1, <1>2 DEF Durable, MemoryInv
  <2>2. DOMAIN jobs' = {}
    BY <2>1
  <2> QED BY Zenon, <2>2 DEF QueueStores
<1> QED BY Zenon, <1>2, <1>4, <1>10, <1>11, <1>12, <1>13, <1>14, <1>15 DEF OwnInv

(* A commit names a new owner only where there is none, and takes no body  *)
(* away.                                                                   *)
LEMMA CommitOwn ==
  ASSUME TypeInv, TypeInv', Durable, DiskInv, QueueInv, LayerInv, OwnInv, phase = "up",
         NEW l \in Lbas, NEW h \in Contents, Commit(l, h)
  PROVE  OwnInv'
<1>0. PICK w, n, new : /\ w = IF wal = 0 THEN mint + 1 ELSE wal
                       /\ n = Len(log) + 1
                       /\ new = IF h # ZERO_HASH /\ lookup_extent(h) = 0 THEN {h} ELSE {}
  BY Zenon
<1>1. /\ w \in Ulids /\ w # 0 /\ n # 0 /\ n \notin Records
      /\ Records' = Records \cup {n}
      /\ \A m \in Records : log'[m] = log[m]
      /\ log'[n].hash = h
      /\ recs'[w] = recs[w] \cup {n} /\ \A u \in Ulids : u # w => recs'[u] = recs[u]
      /\ w \notin segFiles
      /\ OpenWals' = OpenWals \cup {w} /\ wal' = w
      /\ \A k \in AllJobs : k.wal # w
      /\ AllJobs' = AllJobs
      /\ wal # 0 => wal = w
      /\ delta'.wal = w
      /\ delta'.own = delta.own \cup new
      /\ UNCHANGED <<bodies, segFiles, phase, index, frozen, rotated, jobs, lost>>
  BY Zenon, <1>0, CommitFacts
<1>2. /\ \A m \in Records : HashOf(m)' = HashOf(m)
      /\ HashOf(n)' = h
  BY Zenon, <1>1, FileTypes DEF HashOf
<1>3. OwnersApart /\ BodyRecords /\ SegsStored /\ OwnerHolds /\ JobCarries /\ LiveOwned /\ QueueStores
  BY Zenon DEF OwnInv
<1>4. NamedOne
  BY Zenon, <1>3, OwnerNamed
<1>5. \A f \in frozen : f.wal # 0 /\ f.wal # w
  <2>1. \A f \in frozen : f.wal \in rotated
    BY Zenon DEF LayerInv
  <2>2. \A v \in rotated : v # 0 /\ \E j \in AllJobs : v = j.wal
    BY Zenon, FileTypes, QueueTypes
  <2> QED BY Zenon, <1>1, <2>1, <2>2
<1>6. delta.own = {} \/ delta.wal = w
  <2>1. EmptyLayer.own = {}
    BY Zenon DEF EmptyLayer
  <2> QED BY Zenon, <1>1, <2>1 DEF LayerInv
<1>7. \A k \in new : k = h /\ k \in Hashes /\ lookup_extent(k) = 0
  BY Zenon, <1>0 DEF Contents
<1>8. \A k \in new : index[k] = 0 /\ \A f \in Upper : k \notin f.own
  <2> SUFFICES ASSUME NEW k \in new PROVE index[k] = 0 /\ \A f \in Upper : k \notin f.own
    BY Zenon
  <2>1. ASSUME NEW f \in Upper, k \in f.own PROVE FALSE
    <3>1. f.wal = 0
      BY Zenon, <1>4, <1>7, <2>1 DEF NamedOne, Named
    <3>2. f \in frozen \/ f = delta
      BY Zenon DEF Upper
    <3> QED BY Zenon, <1>1, <1>5, <1>6, <2>1, <3>1, <3>2
  <2>2. Named(k, index[k])
    BY Zenon, <2>1 DEF Named
  <2>3. index[k] = 0
    BY Zenon, <1>4, <1>7, <2>2 DEF NamedOne
  <2> QED BY Zenon, <2>1, <2>3
<1>9. \A f : f \in Upper <=> f \in frozen \/ f = delta
  BY Zenon DEF Upper
<1>10. \A f : f \in Upper' <=> f \in frozen \/ f = delta'
  BY Zenon, <1>1 DEF Upper
<1>11. OwnersApart'
  <2>1. ASSUME NEW f \in frozen, NEW k \in f.own, k \in delta'.own PROVE FALSE
    <3>1. f \in Upper /\ delta \in Upper
      BY Zenon, <1>9
    <3>2. k \notin new
      BY Zenon, <1>8, <2>1, <3>1
    <3>3. k \in delta.own
      BY Zenon, <1>1, <2>1, <3>2
    <3>4. f = delta
      BY Zenon, <1>3, <2>1, <3>1, <3>3 DEF OwnersApart
    <3> QED BY Zenon, <1>5, <1>6, <3>3, <3>4
  <2>2. \A f, g \in Upper' : \A k \in f.own \cap g.own : f = g
    BY Zenon, <1>3, <1>9, <1>10, <2>1 DEF OwnersApart
  <2>3. \A k \in Hashes, f \in Upper' : k \in f.own => index'[k] = 0
    BY Zenon, <1>1, <1>3, <1>8, <1>9, <1>10 DEF OwnersApart
  <2> QED BY Zenon, <2>2, <2>3 DEF OwnersApart
<1>12. \A k \in Hashes : \A u : Named(k, u)' => u = lookup_extent(k)'
  BY Zenon, <1>11, NamedNext
<1>13. ASSUME NEW k \in Hashes, k \notin new PROVE lookup_extent(k)' = lookup_extent(k)
  <2>1. PICK u : u = lookup_extent(k)
    BY Zenon
  <2>2. Named(k, u)
    BY Zenon, <1>4, <2>1 DEF NamedOne
  <2>3. CASE \E f \in Upper : k \in f.own /\ u = f.wal
    <3>1. PICK f \in Upper : k \in f.own /\ u = f.wal
      BY Zenon, <2>3
    <3>2. \E g \in Upper' : k \in g.own /\ u = g.wal
      <4>1. CASE f \in frozen
        BY Zenon, <1>10, <3>1, <4>1
      <4>2. CASE f = delta
        <5>1. k \in delta'.own /\ u = delta'.wal /\ delta' \in Upper'
          BY Zenon, <1>1, <1>6, <1>10, <3>1, <4>2
        <5> QED BY Zenon, <5>1
      <4> QED BY Zenon, <1>9, <4>1, <4>2
    <3>3. Named(k, u)'
      BY Zenon, <3>2 DEF Named
    <3> QED BY Zenon, <1>12, <2>1, <3>3
  <2>4. CASE (\A f \in Upper : k \notin f.own) /\ u = index[k]
    <3>1. \A g \in Upper' : k \notin g.own
      BY Zenon, <1>1, <1>9, <1>10, <1>13, <2>4
    <3>2. Named(k, u)'
      BY Zenon, <1>1, <2>4, <3>1 DEF Named
    <3> QED BY Zenon, <1>12, <2>1, <3>2
  <2> QED BY Zenon, <2>2, <2>3, <2>4 DEF Named
<1>14. \A k \in new : lookup_extent(k)' = w
  <2>1. \A k \in new : Named(k, w)'
    BY Zenon, <1>1, <1>10 DEF Named
  <2> QED BY Zenon, <1>7, <1>12, <2>1
<1>15. \A k \in Hashes : lookup_extent(k)' = IF k \in new THEN w ELSE lookup_extent(k)
  BY Zenon, <1>13, <1>14
<1>16. /\ \A s, k : Body(s, k)' <=> Body(s, k)
       /\ \A j \in AllJobs, k \in Hashes : Carries(j, k)' <=> Carries(j, k)
  BY Zenon, <1>1, <1>2, <1>3 DEF Body, Carries, BodyRecords
<1>17. \A k : Stored(k)' <=> Stored(k)
  BY Zenon, <1>1, <1>16 DEF Stored
<1>18. \A u \in Ulids : recs[u] \subseteq Records
  BY Zenon, FileTypes
<1>19. \A u \in Ulids : \A k : InWal(u, k) => InWal(u, k)'
  BY Zenon, <1>1, <1>2, <1>18 DEF InWal
<1>20. BodyRecords'
  BY Zenon, <1>1, <1>3 DEF BodyRecords
<1>21. SegsStored'
  <2>1. \A s \in segFiles : recs'[s] = recs[s] /\ recs[s] \subseteq Records
    BY Zenon, <1>1, <1>18, FileTypes
  <2>2. ASSUME NEW s \in segFiles, NEW m \in recs[s], HashOf(m)' # ZERO_HASH PROVE Stored(HashOf(m))'
    <3>1. HashOf(m)' = HashOf(m)
      BY Zenon, <1>2, <2>1
    <3>2. PICK k : k = HashOf(m)
      BY Zenon
    <3>3. Stored(k)'
      BY Zenon, <1>3, <1>17, <2>2, <3>1, <3>2 DEF SegsStored
    <3> QED BY Zenon, <3>1, <3>2, <3>3
  <2> QED BY Zenon, <1>1, <2>1, <2>2 DEF SegsStored
<1>22. OwnerHolds'
  <2>1. ASSUME NEW k \in Hashes, NEW u, u = lookup_extent(k)', u # 0
        PROVE  Body(u, k)' \/ (u \in OpenWals' /\ InWal(u, k)')
    <3>1. CASE k \in new
      <4>1. u = w /\ k = h
        BY Zenon, <1>7, <1>15, <2>1, <3>1
      <4>2. InWal(w, h)'
        BY Zenon, <1>1, <1>2 DEF InWal
      <4> QED BY Zenon, <1>1, <4>1, <4>2
    <3>2. CASE k \notin new
      <4>1. u = lookup_extent(k)
        BY Zenon, <1>15, <2>1, <3>2
      <4>2. Body(u, k) \/ (u \in OpenWals /\ InWal(u, k))
        BY Zenon, <1>3, <2>1, <4>1 DEF OwnerHolds
      <4> QED BY Zenon, <1>1, <1>16, <1>19, <4>2, FileTypes
    <3> QED BY Zenon, <3>1, <3>2
  <2> QED BY Zenon, <2>1 DEF OwnerHolds
<1>23. JobCarries'
  <2>1. ASSUME NEW j \in AllJobs, NEW k \in Hashes, lookup_extent(k)' = j.wal PROVE Carries(j, k)'
    <3>1. lookup_extent(k) = j.wal
      BY Zenon, <1>1, <1>15, <2>1
    <3> QED BY Zenon, <1>3, <1>16, <3>1 DEF JobCarries
  <2> QED BY Zenon, <1>1, <2>1 DEF JobCarries
<1>24. LiveOwned'
  <2>1. ASSUME NEW m \in Live', NEW k, k = HashOf(m)', k # ZERO_HASH PROVE lookup_extent(k)' # 0
    <3>1. m \in Records' /\ m \notin lost
      BY Zenon, <1>1 DEF Live
    <3>2. CASE m = n
      <4>1. k = h /\ k \in Hashes
        BY Zenon, <1>2, <2>1, <3>2 DEF Contents
      <4>2. k \in new \/ lookup_extent(k) # 0
        BY Zenon, <1>0, <2>1, <4>1
      <4> QED BY Zenon, <1>1, <1>15, <4>1, <4>2
    <3>3. CASE m \in Records
      <4>1. m \in Live /\ k = HashOf(m)
        BY Zenon, <1>2, <2>1, <3>1, <3>3 DEF Live
      <4>2. k \in Hashes /\ lookup_extent(k) # 0
        BY Zenon, <1>3, <2>1, <3>3, <4>1, HashTypes DEF LiveOwned
      <4> QED BY Zenon, <1>1, <1>15, <4>2
    <3> QED BY Zenon, <1>1, <3>1, <3>2, <3>3
  <2> QED BY Zenon, <2>1 DEF LiveOwned
<1>25. QueueStores'
  <2>1. ASSUME NEW i \in DOMAIN jobs PROVE jobs[i] \in AllJobs /\ \A k \in 1..i : jobs[k] \in AllJobs
    <3>1. jobs \in Seq(Job)
      BY Zenon, QueueTypes
    <3>2. \A k \in 1..i : k \in DOMAIN jobs
      BY <2>1, <3>1, SeqShape
    <3> QED BY Zenon, <3>2 DEF AllJobs, Range
  <2>2. ASSUME NEW i \in DOMAIN jobs, NEW m \in recs'[jobs[i].wal], NEW k, k = HashOf(m)', k # ZERO_HASH
        PROVE  Stored(k)' \/ \E e \in 1..i : Carries(jobs[e], k)'
    <3>1. jobs[i] \in AllJobs /\ jobs[i].wal \in Ulids
      BY Zenon, <2>1, QueueTypes
    <3>2. m \in recs[jobs[i].wal] /\ m \in Records
      BY Zenon, <1>1, <1>18, <2>2, <3>1
    <3>3. k = HashOf(m) /\ k \in Hashes
      BY Zenon, <1>2, <2>2, <3>2, HashTypes
    <3>4. Stored(k) \/ \E e \in 1..i : Carries(jobs[e], k)
      BY Zenon, <1>3, <2>2, <3>2, <3>3 DEF QueueStores
    <3>5. ASSUME NEW e \in 1..i, Carries(jobs[e], k) PROVE Carries(jobs[e], k)'
      <4>1. PICK j \in AllJobs : j = jobs[e] /\ Carries(j, k)
        BY Zenon, <2>1, <3>5
      <4>2. Carries(j, k)' /\ j = jobs'[e]
        BY Zenon, <1>1, <1>16, <3>3, <4>1
      <4> QED BY Zenon, <4>2
    <3> QED BY Zenon, <1>17, <3>4, <3>5
  <2> QED BY Zenon, <1>1, <2>2 DEF QueueStores
<1>26. (phase' = "opening") = FALSE
  BY Zenon, <1>1
<1> QED BY Zenon, <1>11, <1>20, <1>21, <1>22, <1>23, <1>24, <1>25, <1>26 DEF OwnInv

(* What a promote leaves out is stored, or carried by an earlier one.      *)
LEMMA DispatchOwn ==
  ASSUME TypeInv, TypeInv', Durable, DiskInv, QueueInv, LayerInv, Match, OwnInv, DispatchPromote
  PROVE  OwnInv'
<1>0. PICK j : j = PromoteJob(mint + 1)
  BY Zenon
<1>1. /\ wal # 0 /\ jobs' = Append(jobs, j) /\ j \in Job
      /\ AllJobs' = AllJobs \cup {j} /\ OpenWals' = OpenWals
  BY Zenon, <1>0, DispatchQueue
<1>2. /\ UNCHANGED <<log, lost, recs, bodies, segFiles, index, phase>> /\ phase = "up"
  BY Zenon DEF DispatchPromote, ActorIdle, history, disk
<1>3. \A f : f \in Upper' <=> (f \in Upper \/ f = EmptyLayer)
  BY Zenon, DispatchClaims
<1>4. OwnersApart /\ BodyRecords /\ SegsStored /\ OwnerHolds /\ JobCarries /\ LiveOwned /\ QueueStores
  BY Zenon, <1>2 DEF OwnInv
<1>5. NamedOne
  BY Zenon, <1>4, OwnerNamed
<1>6. EmptyLayer.own = {}
  BY Zenon DEF EmptyLayer
<1>7. OwnersApart'
  BY Zenon, <1>2, <1>3, <1>4, <1>6 DEF OwnersApart
<1>8. \A h \in Hashes : lookup_extent(h)' = lookup_extent(h)
  <2>1. \A h \in Hashes : \A u : Named(h, u)' => u = lookup_extent(h)'
    BY Zenon, <1>7, NamedNext
  <2>2. \A h, u : Named(h, u) => Named(h, u)'
    BY Zenon, <1>2, <1>3, <1>6 DEF Named
  <2> QED BY Zenon, <1>5, <2>1, <2>2 DEF NamedOne
<1>9. \A s, h : (Body(s, h)' <=> Body(s, h)) /\ (Stored(h)' <=> Stored(h)) /\ (Carries(s, h)' <=> Carries(s, h))
  BY Zenon, <1>2, SameBodies
<1>10. (\A n : HashOf(n)' = HashOf(n)) /\ Records' = Records /\ Live' = Live
  BY Zenon, <1>2, SameLog DEF Live
<1>11. \A v, h : InWal(v, h)' <=> InWal(v, h)
  BY Zenon, <1>2, <1>10 DEF InWal
<1>12. j.wal = wal /\ j.bodies = Staged(recs[wal], wal, materialised)
  <2>1. pending = recs[wal]
    BY Zenon, <1>1 DEF pending
  <2> QED BY Zenon, <1>0, <2>1 DEF PromoteJob
<1>13. wal \in Ulids /\ recs[wal] \subseteq Records /\ j.bodies \subseteq Records /\ wal \notin segFiles
  <2>1. wal \in Ulids /\ recs[wal] \subseteq Records
    BY Zenon, <1>1, FileTypes
  <2>2. j.bodies \subseteq recs[wal]
    BY Zenon, <1>12 DEF Staged
  <2>3. wal \in walFiles
    BY Zenon, <1>1 DEF Durable, MemoryInv, OpenWals
  <2> QED BY Zenon, <2>1, <2>2, <2>3 DEF Durable, FilesInv
<1>14. \A h \in Hashes : lookup_extent(h) = wal => Carries(j, h)
  <2> SUFFICES ASSUME NEW h \in Hashes, lookup_extent(h) = wal PROVE Carries(j, h)
    BY Zenon
  <2>1. InWal(wal, h)
    BY Zenon, <1>1, <1>4, <1>13 DEF OwnerHolds, Body
  <2>2. PICK n \in recs[wal] : HashOf(n) = h
    BY Zenon, <2>1 DEF InWal
  <2>3. materialised[h] = wal
    BY Zenon, <1>5 DEF NamedOne
  <2>4. \E b \in Staged(recs[wal], wal, materialised) : HashOf(b) = h
    BY <1>13, <2>2, <2>3, StagedCarries
  <2> QED BY Zenon, <1>12, <2>4 DEF Carries
<1>15. BodyRecords'
  BY Zenon, <1>1, <1>2, <1>4, <1>10, <1>13 DEF BodyRecords
<1>16. SegsStored'
  BY Zenon, <1>2, <1>4, <1>9, <1>10 DEF SegsStored
<1>17. OwnerHolds'
  BY Zenon, <1>1, <1>4, <1>8, <1>9, <1>11 DEF OwnerHolds
<1>18. JobCarries'
  BY Zenon, <1>1, <1>4, <1>8, <1>9, <1>12, <1>14 DEF JobCarries
<1>19. LiveOwned'
  <2>1. ASSUME NEW n \in Live, NEW h, h = HashOf(n), h # ZERO_HASH PROVE lookup_extent(h)' # 0
    <3>1. h \in Hashes
      BY Zenon, <2>1, HashTypes DEF Live
    <3> QED BY Zenon, <1>4, <1>8, <2>1, <3>1 DEF LiveOwned
  <2> QED BY Zenon, <1>10, <2>1 DEF LiveOwned
<1>20. QueueStores'
  <2>1. /\ jobs \in Seq(Job) /\ Len(jobs) \in Nat /\ DOMAIN jobs = 1..Len(jobs)
        /\ DOMAIN jobs' = 1..(Len(jobs) + 1) /\ jobs'[Len(jobs) + 1] = j
        /\ \A i \in 1..Len(jobs) : jobs'[i] = jobs[i]
    <3>1. jobs \in Seq(Job)
      BY Zenon, QueueTypes
    <3> QED BY <1>1, <3>1, SeqShape, AppendShape
  <2>2. PICK N : N = Len(jobs) + 1
    BY Zenon
  <2>3. /\ \A i \in DOMAIN jobs' : i \in DOMAIN jobs \/ i = N
        /\ N \in 1..N /\ DOMAIN jobs \subseteq 1..N
        /\ \A i \in DOMAIN jobs : \A e \in 1..i : e \in DOMAIN jobs
    BY <2>1, <2>2
  <2>4. \A i \in DOMAIN jobs : jobs'[i] = jobs[i]
    BY Zenon, <2>1
  <2>5. ASSUME NEW h \in Hashes, NEW n \in recs[wal], HashOf(n) = h
        PROVE  Stored(h) \/ Carries(j, h) \/ \E i \in DOMAIN jobs : Carries(jobs[i], h)
    <3>1. PICK u : u = lookup_extent(h)
      BY Zenon
    <3>2. n \in Live
      BY Zenon, <1>13, <2>5 DEF Live, DiskInv, InFiles
    <3>3. h # ZERO_HASH
      BY Zenon, VolumeAssumption
    <3>4. u # 0
      BY Zenon, <1>4, <2>5, <3>1, <3>2, <3>3 DEF LiveOwned
    <3>5. CASE Body(u, h)
      BY Zenon, <3>5 DEF Stored, Body
    <3>6. CASE u = wal
      BY Zenon, <1>14, <3>1, <3>6
    <3>7. CASE u \in rotated
      <4>1. PICK e \in AllJobs : e.wal = u
        BY Zenon, <3>7, QueueTypes
      <4>2. Carries(e, h)
        BY Zenon, <1>4, <3>1, <4>1 DEF JobCarries
      <4>3. CASE e \in Range(jobs)
        BY Zenon, <4>2, <4>3 DEF Range
      <4>4. CASE \E r \in Range(results) : e = r.job
        <5>1. PICK r \in Range(results) : e = r.job
          BY Zenon, <4>4
        <5>2. e.seg \in segFiles /\ bodies[e.seg] = e.bodies
          BY Zenon, <5>1 DEF QueueInv, Promoted, Sealed
        <5> QED BY Zenon, <4>2, <5>2 DEF Stored, Body, Carries
      <4>5. AllJobs = Range(jobs) \cup {r.job : r \in Range(results)}
        BY Zenon, QueueTypes
      <4>6. e \in Range(jobs) \/ \E r \in Range(results) : e = r.job
        BY Zenon, <4>1, <4>5
      <4> QED BY Zenon, <4>3, <4>4, <4>6
    <3>8. Body(u, h) \/ u \in OpenWals
      BY Zenon, <1>4, <3>1, <3>4 DEF OwnerHolds
    <3> QED BY Zenon, <3>5, <3>6, <3>7, <3>8 DEF OpenWals
  <2>6. ASSUME NEW i \in DOMAIN jobs', NEW v, v = jobs'[i].wal, NEW n \in recs[v], NEW h, h = HashOf(n), h # ZERO_HASH
        PROVE  Stored(h) \/ \E e \in 1..i : \E k : k = jobs'[e] /\ Carries(k, h)
    <3>1. CASE i = N
      <4>1. n \in recs[wal] /\ n \in Records
        BY Zenon, <1>12, <1>13, <2>1, <2>2, <2>6, <3>1
      <4>2. h \in Hashes
        BY Zenon, <2>6, <4>1, HashTypes
      <4>3. Stored(h) \/ Carries(j, h) \/ \E e \in DOMAIN jobs : Carries(jobs[e], h)
        BY Zenon, <2>5, <2>6, <4>1, <4>2
      <4> QED BY Zenon, <2>1, <2>2, <2>3, <2>4, <3>1, <4>3
    <3>2. CASE i \in DOMAIN jobs
      <4>1. n \in recs[jobs[i].wal]
        BY Zenon, <2>4, <2>6, <3>2
      <4>2. Stored(h) \/ \E e \in 1..i : Carries(jobs[e], h)
        BY Zenon, <1>4, <2>6, <3>2, <4>1 DEF QueueStores
      <4> QED BY Zenon, <2>3, <2>4, <3>2, <4>2
    <3> QED BY Zenon, <2>3, <3>1, <3>2
  <2>7. ASSUME NEW i \in DOMAIN jobs', NEW n \in recs'[jobs'[i].wal], HashOf(n)' # ZERO_HASH
        PROVE  Stored(HashOf(n))' \/ \E e \in 1..i : Carries(jobs[e], HashOf(n))'
    <3>1. PICK h : h = HashOf(n)
      BY Zenon
    <3>2. h # ZERO_HASH /\ h = HashOf(n)' /\ n \in recs[jobs'[i].wal]
      BY Zenon, <1>2, <1>10, <2>7, <3>1
    <3>3. Stored(h) \/ \E e \in 1..i : \E k : k = jobs'[e] /\ Carries(k, h)
      BY Zenon, <2>6, <3>1, <3>2
    <3>4. Stored(h)' \/ \E e \in 1..i : \E k : k = jobs'[e] /\ Carries(k, h)'
      BY Zenon, <1>9, <3>3
    <3> QED BY Zenon, <3>2, <3>4
  <2> QED BY Zenon, <2>7 DEF QueueStores
<1>21. (phase' = "opening") = FALSE
  BY Zenon, <1>2
<1> QED BY Zenon, <1>7, <1>15, <1>16, <1>17, <1>18, <1>19, <1>20, <1>21 DEF OwnInv

(* The segment stores what the promote carries, and the rest is stored.    *)
LEMMA ExecuteOwn ==
  ASSUME TypeInv, Durable, DiskInv, QueueInv, OwnInv, FileSyncLinks, ExecutePromote
  PROVE  OwnInv'
<1>0. PICK j, s : j = Head(jobs) /\ s = j.seg
  BY Zenon
<1>1. /\ j \in Range(jobs) /\ j \in AllJobs /\ j.wal \in Ulids
      /\ s \in Ulids /\ s \notin segFiles /\ s \notin OpenWals
      /\ segFiles' = segFiles \cup {s} /\ bodies' = [bodies EXCEPT ![s] = j.bodies]
      /\ \A u \in Ulids : u # s => recs'[u] = recs[u]
      /\ recs'[s] = recs[j.wal]
      /\ AllJobs' = AllJobs /\ OpenWals' = OpenWals
  BY Zenon, <1>0, ExecuteFacts
<1>2. /\ UNCHANGED <<log, lost, phase, index, frozen, delta>> /\ phase = "up"
      /\ jobs # <<>> /\ jobs' = Tail(jobs)
  BY Zenon DEF ExecutePromote, history, maps
<1>3. OwnersApart /\ BodyRecords /\ SegsStored /\ OwnerHolds /\ JobCarries /\ LiveOwned /\ QueueStores
  BY Zenon, <1>2 DEF OwnInv
<1>4. (\A h : lookup_extent(h)' = lookup_extent(h)) /\ OwnersApart'
  BY Zenon, <1>2, <1>3, SameOwners
<1>5. (\A n : HashOf(n)' = HashOf(n)) /\ Records' = Records /\ Live' = Live
  BY Zenon, <1>2, SameLog DEF Live
<1>6. bodies'[s] = j.bodies /\ \A t \in segFiles : bodies'[t] = bodies[t] /\ recs'[t] = recs[t]
  <2>1. bodies \in [Ulids -> SUBSET Nat] /\ segFiles \subseteq Ulids
    BY Zenon DEF TypeInv, TypeOK
  <2> QED BY <1>1, <2>1
<1>7. \A t, h : Body(t, h) => Body(t, h)'
  BY Zenon, <1>1, <1>5, <1>6 DEF Body
<1>8. \A h : Stored(h) => Stored(h)'
  BY Zenon, <1>1, <1>7 DEF Stored
<1>9. \A h : Carries(j, h) => Stored(h)'
  BY Zenon, <1>1, <1>5, <1>6 DEF Carries, Stored, Body
<1>10. \A k, h : Carries(k, h)' <=> Carries(k, h)
  BY Zenon, <1>5 DEF Carries
<1>11. \A u \in OpenWals : recs'[u] = recs[u]
  BY Zenon, <1>1, FileTypes
<1>12. \A u \in OpenWals : \A h : InWal(u, h) => InWal(u, h)'
  BY Zenon, <1>5, <1>11 DEF InWal
<1>13. /\ Head(jobs) = jobs[1] /\ 1 \in DOMAIN jobs
       /\ \A i \in DOMAIN jobs' : i + 1 \in DOMAIN jobs /\ jobs'[i] = jobs[i + 1]
       /\ DOMAIN jobs' \subseteq Nat /\ DOMAIN jobs \subseteq Nat
  <2>1. jobs \in Seq(Job)
    BY Zenon, QueueTypes
  <2> QED BY <1>2, <2>1, HeadAndTail
<1>14. BodyRecords'
  BY Zenon, <1>1, <1>3, <1>5, <1>6 DEF BodyRecords
<1>15. SegsStored'
  <2>1. ASSUME NEW n \in recs[j.wal], NEW h, h = HashOf(n), h # ZERO_HASH PROVE Stored(h)'
    <3>1. Stored(h) \/ \E e \in 1..1 : Carries(jobs[e], h)
      BY Zenon, <1>0, <1>3, <1>13, <2>1 DEF QueueStores
    <3>2. \A e \in 1..1 : e = 1
      OBVIOUS
    <3> QED BY Zenon, <1>0, <1>8, <1>9, <1>13, <3>1, <3>2
  <2>2. ASSUME NEW t \in segFiles', NEW n \in recs'[t], NEW h, h = HashOf(n), h # ZERO_HASH PROVE Stored(h)'
    BY Zenon, <1>1, <1>3, <1>6, <1>8, <2>1, <2>2 DEF SegsStored
  <2> QED BY Zenon, <1>5, <2>2 DEF SegsStored
<1>16. OwnerHolds'
  BY Zenon, <1>1, <1>3, <1>4, <1>7, <1>12 DEF OwnerHolds
<1>17. JobCarries'
  BY Zenon, <1>1, <1>3, <1>4, <1>10 DEF JobCarries
<1>18. LiveOwned'
  BY Zenon, <1>3, <1>4, <1>5 DEF LiveOwned
<1>19. QueueStores'
  <2>1. ASSUME NEW i \in DOMAIN jobs', NEW v, v = jobs'[i].wal, NEW n \in recs'[v], NEW h, h = HashOf(n), h # ZERO_HASH
        PROVE  Stored(h)' \/ \E e \in 1..i : \E k : k = jobs'[e] /\ Carries(k, h)
    <3>1. PICK p : p = i + 1
      BY Zenon
    <3>2. p \in DOMAIN jobs /\ jobs'[i] = jobs[p]
      BY Zenon, <1>13, <3>1
    <3>3. v \in OpenWals
      <4>1. jobs[p] \in AllJobs
        BY Zenon, <3>2 DEF AllJobs, Range
      <4> QED BY Zenon, <2>1, <3>2, <4>1, QueueTypes DEF OpenWals
    <3>4. n \in recs[jobs[p].wal]
      BY Zenon, <1>11, <2>1, <3>2, <3>3
    <3>5. Stored(h) \/ \E e \in 1..p : Carries(jobs[e], h)
      BY Zenon, <1>3, <2>1, <3>2, <3>4 DEF QueueStores
    <3>6. ASSUME NEW e \in 1..p, Carries(jobs[e], h), e # 1
          PROVE  \E d \in 1..i : \E k : k = jobs'[d] /\ Carries(k, h)
      <4>1. PICK d : d = e - 1
        BY Zenon
      <4>2. d \in 1..i /\ d + 1 = e
        BY <1>13, <3>1, <3>6, <4>1
      <4>3. d \in DOMAIN jobs'
        <5>1. jobs \in Seq(Job)
          BY Zenon, QueueTypes
        <5>2. Len(jobs) \in Nat /\ DOMAIN jobs' = 1..(Len(jobs) - 1)
          BY Zenon, <1>2, <5>1, SeqShape, HeadTailShape
        <5> QED BY <2>1, <4>2, <5>2
      <4>4. jobs'[d] = jobs[e]
        BY Zenon, <1>13, <4>2, <4>3
      <4> QED BY Zenon, <3>6, <4>2, <4>4
    <3> QED BY Zenon, <1>0, <1>8, <1>9, <1>13, <3>5, <3>6
  <2>2. ASSUME NEW i \in DOMAIN jobs', NEW n \in recs'[jobs'[i].wal], HashOf(n)' # ZERO_HASH
        PROVE  Stored(HashOf(n))' \/ \E e \in 1..i : Carries(jobs[e], HashOf(n))'
    <3>1. PICK h : h = HashOf(n)
      BY Zenon
    <3>2. h # ZERO_HASH /\ h = HashOf(n)'
      BY Zenon, <1>5, <2>2, <3>1
    <3>3. Stored(h)' \/ \E e \in 1..i : \E k : k = jobs'[e] /\ Carries(k, h)
      BY Zenon, <2>1, <2>2, <3>1, <3>2
    <3>4. Stored(h)' \/ \E e \in 1..i : \E k : k = jobs'[e] /\ Carries(k, h)'
      BY Zenon, <1>10, <3>3
    <3> QED BY Zenon, <3>2, <3>4
  <2> QED BY Zenon, <2>2 DEF QueueStores
<1>20. (phase' = "opening") = FALSE
  BY <1>2
<1> QED BY Zenon, <1>4, <1>14, <1>15, <1>16, <1>17, <1>18, <1>19, <1>20 DEF OwnInv

(* What the WAL owned is owned by its segment, and nothing else moves.     *)
LEMMA ApplyOwn ==
  ASSUME TypeInv, TypeInv', Durable, DiskInv, QueueInv, LayerInv, OwnInv, ApplyPromote
  PROVE  OwnInv'
<1>0. PICK j, w, s, layer, own, x :
        /\ j = Head(results).job /\ w = j.wal /\ s = j.seg
        /\ layer = {f \in frozen : f.wal = w}
        /\ own = UNION {f.own : f \in layer}
        /\ x = FoldOwners(index, own, w)
  BY Zenon
<1>1. /\ j \in AllJobs /\ w \in Ulids /\ s \in Ulids
      /\ OpenWals = OpenWals' \cup {w} /\ w # wal
      /\ s \in segFiles /\ bodies[s] = j.bodies
      /\ AllJobs = AllJobs' \cup {j} /\ \A k \in AllJobs' : s < k.wal
  BY Zenon, <1>0, ApplyFacts DEF Sealed
<1>2. /\ UNCHANGED <<log, lost, phase, recs, bodies, segFiles, jobs, delta>> /\ phase = "up"
      /\ frozen' = frozen \ layer /\ index' = ApplyOwners(x, j.bodies, w, s)
  BY Zenon, <1>0 DEF ApplyPromote, ActorIdle, history, disk
<1>3. OwnersApart /\ BodyRecords /\ SegsStored /\ OwnerHolds /\ JobCarries /\ LiveOwned /\ QueueStores
  BY Zenon, <1>2 DEF OwnInv
<1>4. NamedOne /\ 0 \notin Ulids
  BY Zenon, <1>3, OwnerNamed, FileTypes
<1>5. delta.wal # w
  <2>1. EmptyLayer.wal = 0
    BY Zenon DEF EmptyLayer
  <2> QED BY Zenon, <1>1, <1>4, <2>1 DEF LayerInv
<1>6. /\ \A f : f \in layer <=> f \in Upper /\ f.wal = w
      /\ \A f : f \in Upper' <=> f \in Upper /\ f.wal # w
  <2>1. \A f : f \in Upper <=> f \in frozen \/ f = delta
    BY Zenon DEF Upper
  <2>2. \A f : f \in Upper' <=> f \in frozen' \/ f = delta
    BY Zenon, <1>2 DEF Upper
  <2>3. \A f : f \in layer <=> f \in frozen /\ f.wal = w
    BY Zenon, <1>0
  <2>4. \A f : f \in layer <=> f \in Upper /\ f.wal = w
    BY Zenon, <1>5, <2>1, <2>3
  <2> QED BY Zenon, <1>2, <1>5, <2>1, <2>2, <2>3, <2>4
<1>7. \A h : h \in own <=> \E f \in Upper : f.wal = w /\ h \in f.own
  BY Zenon, <1>0, <1>6
<1>8. \A h \in Hashes : x[h] = IF index[h] = 0 /\ h \in own THEN w ELSE index[h]
  BY Zenon, <1>0 DEF FoldOwners
<1>9. \A h \in Hashes : index'[h] = IF x[h] = w /\ Carries(j, h) THEN s ELSE x[h]
  BY Zenon, <1>2 DEF ApplyOwners, Carries
<1>10. OwnersApart'
  <2>1. \A f, g \in Upper' : \A h \in f.own \cap g.own : f = g
    BY Zenon, <1>3, <1>6 DEF OwnersApart
  <2>2. ASSUME NEW h \in Hashes, NEW f \in Upper', h \in f.own PROVE index'[h] = 0
    <3>1. f \in Upper /\ f.wal # w
      BY Zenon, <1>6
    <3>2. index[h] = 0
      BY Zenon, <1>3, <2>2, <3>1 DEF OwnersApart
    <3>3. h \notin own
      BY Zenon, <1>3, <1>7, <2>2, <3>1 DEF OwnersApart
    <3>4. x[h] = 0
      BY Zenon, <1>8, <3>2, <3>3
    <3> QED BY Zenon, <1>1, <1>4, <1>9, <3>4
  <2> QED BY Zenon, <2>1, <2>2 DEF OwnersApart
<1>11. \A h \in Hashes : \A u : Named(h, u)' => u = lookup_extent(h)'
  BY Zenon, <1>10, NamedNext
<1>12. ASSUME NEW h \in Hashes, lookup_extent(h) = w PROVE lookup_extent(h)' = s /\ Body(s, h)
  <2>1. Carries(j, h)
    BY Zenon, <1>0, <1>1, <1>3, <1>12 DEF JobCarries
  <2>2. Named(h, w)
    BY Zenon, <1>4, <1>12 DEF NamedOne
  <2>3. x[h] = w /\ \A f \in Upper' : h \notin f.own
    <3>1. CASE \E f \in Upper : h \in f.own /\ w = f.wal
      <4>1. PICK f \in Upper : h \in f.own /\ w = f.wal
        BY Zenon, <3>1
      <4>2. index[h] = 0 /\ h \in own
        BY Zenon, <1>3, <1>7, <4>1 DEF OwnersApart
      <4>3. \A g \in Upper : h \in g.own => g = f
        BY Zenon, <1>3, <4>1 DEF OwnersApart
      <4> QED BY Zenon, <1>6, <1>8, <4>1, <4>2, <4>3
    <3>2. CASE (\A f \in Upper : h \notin f.own) /\ w = index[h]
      BY Zenon, <1>1, <1>4, <1>6, <1>8, <3>2
    <3> QED BY Zenon, <2>2, <3>1, <3>2 DEF Named
  <2>4. index'[h] = s
    BY Zenon, <1>9, <2>1, <2>3
  <2>5. Named(h, s)'
    BY Zenon, <2>3, <2>4 DEF Named
  <2>6. Body(s, h)
    BY Zenon, <1>1, <2>1 DEF Body, Carries
  <2> QED BY Zenon, <1>11, <2>5, <2>6
<1>13. ASSUME NEW h \in Hashes, NEW u, u = lookup_extent(h), u # w PROVE lookup_extent(h)' = u
  <2>1. Named(h, u)
    BY Zenon, <1>4, <1>13 DEF NamedOne
  <2>2. CASE \E f \in Upper : h \in f.own /\ u = f.wal
    <3>1. Named(h, u)'
      BY Zenon, <1>6, <1>13, <2>2 DEF Named
    <3> QED BY Zenon, <1>11, <3>1
  <2>3. CASE (\A f \in Upper : h \notin f.own) /\ u = index[h]
    <3>1. x[h] = u
      BY Zenon, <1>7, <1>8, <2>3
    <3>2. index'[h] = u
      BY Zenon, <1>9, <1>13, <3>1
    <3>3. Named(h, u)'
      BY Zenon, <1>6, <2>3, <3>2 DEF Named
    <3> QED BY Zenon, <1>11, <3>3
  <2> QED BY Zenon, <2>1, <2>2, <2>3 DEF Named
<1>14. \A h \in Hashes : \/ lookup_extent(h) = w /\ lookup_extent(h)' = s /\ Body(s, h)
                         \/ lookup_extent(h) # w /\ lookup_extent(h)' = lookup_extent(h)
  BY Zenon, <1>12, <1>13
<1>15. \A t, h : (Body(t, h)' <=> Body(t, h)) /\ (Stored(h)' <=> Stored(h)) /\ (Carries(t, h)' <=> Carries(t, h))
  BY Zenon, <1>2, SameBodies
<1>16. (\A n : HashOf(n)' = HashOf(n)) /\ Records' = Records /\ Live' = Live
  BY Zenon, <1>2, SameLog DEF Live
<1>17. \A v, h : InWal(v, h)' <=> InWal(v, h)
  BY Zenon, <1>2, <1>16 DEF InWal
<1>18. BodyRecords'
  BY Zenon, <1>1, <1>2, <1>3, <1>16 DEF BodyRecords
<1>19. SegsStored'
  BY Zenon, <1>2, <1>3, <1>15, <1>16 DEF SegsStored
<1>20. OwnerHolds'
  <2>1. ASSUME NEW h \in Hashes, NEW u, u = lookup_extent(h)', u # 0
        PROVE  Body(u, h)' \/ (u \in OpenWals' /\ InWal(u, h)')
    <3>1. CASE lookup_extent(h) = w
      <4>1. u = s /\ Body(s, h)
        BY Zenon, <1>12, <2>1, <3>1
      <4> QED BY Zenon, <1>15, <4>1
    <3>2. CASE lookup_extent(h) # w
      <4>1. u = lookup_extent(h)
        BY Zenon, <1>14, <2>1, <3>2
      <4>2. Body(u, h) \/ (u \in OpenWals /\ InWal(u, h))
        BY Zenon, <1>3, <2>1, <4>1 DEF OwnerHolds
      <4> QED BY Zenon, <1>1, <1>15, <1>17, <3>2, <4>1, <4>2
    <3> QED BY Zenon, <3>1, <3>2
  <2> QED BY Zenon, <2>1 DEF OwnerHolds
<1>21. JobCarries'
  <2>1. ASSUME NEW k \in AllJobs', NEW h \in Hashes, lookup_extent(h)' = k.wal PROVE Carries(k, h)'
    <3>1. k \in AllJobs /\ s < k.wal
      BY Zenon, <1>1
    <3>2. k.wal # s
      BY <1>1, <3>1, FileTypes
    <3>3. lookup_extent(h) = k.wal
      BY Zenon, <1>14, <2>1, <3>2
    <3> QED BY Zenon, <1>3, <1>15, <3>1, <3>3 DEF JobCarries
  <2> QED BY Zenon, <2>1 DEF JobCarries
<1>22. LiveOwned'
  <2>1. ASSUME NEW n \in Live, NEW h, h = HashOf(n), h # ZERO_HASH PROVE lookup_extent(h)' # 0
    <3>1. h \in Hashes
      BY Zenon, <2>1, HashTypes DEF Live
    <3>2. lookup_extent(h) # 0
      BY Zenon, <1>3, <2>1 DEF LiveOwned
    <3> QED BY Zenon, <1>1, <1>4, <1>14, <3>1, <3>2
  <2> QED BY Zenon, <1>16, <2>1 DEF LiveOwned
<1>23. QueueStores'
  BY Zenon, <1>2, <1>3, <1>15, <1>16 DEF QueueStores
<1>24. (phase' = "opening") = FALSE
  BY Zenon, <1>2
<1> QED BY Zenon, <1>10, <1>18, <1>19, <1>20, <1>21, <1>22, <1>23, <1>24 DEF OwnInv

-----------------------------------------------------------------------------
(* A new volume has no content.                                            *)
LEMMA InitOwn == ASSUME Init PROVE OwnInv
<1>1. /\ log = <<>> /\ segFiles = {} /\ phase = "up" /\ index = [h \in Hashes |-> 0]
      /\ frozen = {} /\ delta = EmptyLayer /\ jobs = <<>> /\ results = <<>> /\ stash = <<>>
  BY Zenon DEF Init
<1>2. Range(jobs) = {} /\ Range(results) = {} /\ Range(stash) = {} /\ DOMAIN jobs = {} /\ Len(log) = 0
  BY <1>1, RangeEmpty
<1>3. Records = {}
  BY <1>2 DEF Records
<1>4. AllJobs = {} /\ Live = {} /\ Upper = {EmptyLayer}
  BY Zenon, <1>1, <1>2, <1>3 DEF AllJobs, Live, Upper
<1>5. EmptyLayer.own = {} /\ \A h \in Hashes : index[h] = 0
  BY Zenon, <1>1 DEF EmptyLayer
<1>6. \A h \in Hashes : lookup_extent(h) = 0
  <2>1. \A h : Owning(h) = {}
    BY Zenon, <1>4, <1>5 DEF Owning
  <2> QED BY Zenon, <1>5, <2>1 DEF lookup_extent
<1>7. OwnersApart /\ BodyRecords /\ SegsStored
  BY Zenon, <1>1, <1>4, <1>5 DEF OwnersApart, BodyRecords, SegsStored
<1>8. OwnerHolds /\ JobCarries /\ LiveOwned /\ QueueStores
  BY Zenon, <1>2, <1>4, <1>6 DEF OwnerHolds, JobCarries, LiveOwned, QueueStores
<1>9. (phase = "opening") = FALSE
  BY Zenon, <1>1
<1> QED BY Zenon, <1>7, <1>8, <1>9 DEF OwnInv

(* Every step keeps the owners.                                            *)
LEMMA NextOwn ==
  ASSUME FileSyncLinks, MaxFailures = 0, MaxUnlinkFailures = 0,
         TypeInv, TypeInv', Durable, MapsInv, OwnInv, [Next]_vars
  PROVE  OwnInv'
<1>1. DiskInv /\ QueueInv /\ LayerInv /\ Match
  BY Zenon DEF MapsInv
<1>2. \A l \in Lbas, h \in Hashes : Write(l, h) => OwnInv'
  <2> SUFFICES ASSUME NEW l \in Lbas, NEW h \in Hashes, Write(l, h) PROVE OwnInv'
    BY Zenon
  <2>1. phase = "up" /\ Commit(l, h) /\ h \in Contents
    BY Zenon DEF Write, Contents
  <2> QED BY Zenon, <1>1, <2>1, CommitOwn
<1>3. \A l \in Lbas : WriteZeroes(l) => OwnInv'
  <2> SUFFICES ASSUME NEW l \in Lbas, WriteZeroes(l) PROVE OwnInv'
    BY Zenon
  <2>1. phase = "up" /\ Commit(l, ZERO_HASH) /\ ZERO_HASH \in Contents
    BY Zenon DEF WriteZeroes, Contents
  <2> QED BY Zenon, <1>1, <2>1, CommitOwn
<1>4. ASSUME TakeHandles \/ SyncFiles \/ RemoveWal \/ UNCHANGED vars PROVE OwnInv'
  <2>1. UNCHANGED <<log, lost, recs, bodies, segFiles, phase, wal, rotated, jobs, results, stash,
                    index, frozen, delta>>
    BY Zenon, <1>4 DEF TakeHandles, SyncFiles, RemoveWal, vars, history, disk, maps, pipeline
  <2>2. AllJobs' = AllJobs /\ OpenWals' = OpenWals
    BY Zenon, <2>1 DEF AllJobs, OpenWals
  <2> QED BY Zenon, <2>1, <2>2, QuietOwn
<1>5. ASSUME DispatchPromote PROVE OwnInv'
  BY Zenon, <1>1, <1>5, DispatchOwn
<1>6. ASSUME ApplyPromote PROVE OwnInv'
  BY Zenon, <1>1, <1>6, ApplyOwn
<1>7. ASSUME ExecutePromote PROVE OwnInv'
  BY Zenon, <1>1, <1>7, ExecuteOwn
<1>8. ASSUME Crash \/ PowerLoss PROVE OwnInv'
  BY Zenon, <1>1, <1>8, LoseOwn
<1>9. ASSUME OpenRebuild PROVE OwnInv'
  BY Zenon, <1>1, <1>9, RebuildOwn
<1>10. ASSUME RecoverPromote PROVE OwnInv'
  BY Zenon, <1>1, <1>10, RecoverPromoteOwn
<1>11. ASSUME RecoverLatest PROVE OwnInv'
  BY Zenon, <1>1, <1>11, RecoverLatestOwn
<1>12. ~ExecutePromoteFails /\ ~RemoveWalFails /\ ~StashPromote
  BY Zenon, <1>1, NoFault
<1> QED BY Zenon, <1>2, <1>3, <1>4, <1>5, <1>6, <1>7, <1>8, <1>9, <1>10, <1>11, <1>12 DEF Next

(* A read resolves to a record that was not lost, so its content has an    *)
(* owner, and the owner holds it.                                          *)
LEMMA OwnersResolve == TypeInv /\ Durable /\ MapsInv /\ OwnInv => Resolvable
<1> SUFFICES ASSUME TypeInv, Durable, MapsInv, OwnInv, phase = "up", NEW l \in Lbas,
                    HashOf(Claim(l).n) # ZERO_HASH
             PROVE  HasBody(lookup_extent(HashOf(Claim(l).n)), HashOf(Claim(l).n))
  BY Zenon DEF Resolvable
<1>0. PICK h : h = HashOf(Claim(l).n) /\ h # ZERO_HASH
  BY Zenon
<1>1. DiskInv /\ QueueInv /\ Yields(OpenWals, l, Claim(l)) /\ OwnerHolds /\ LiveOwned
  BY Zenon DEF MapsInv, Match, OwnInv
<1>2. Claim(l).n = Net(Surviving(l), l)
  BY Zenon, <1>1, YieldsLatest
<1>3. Surviving(l) = {n \in Live : log[n].lba = l} /\ Surviving(l) \subseteq Records
  BY Zenon DEF Surviving, Live, Records
<1>4. At(Surviving(l), l) # {}
  BY Zenon, <1>0, <1>2 DEF Net, HashOf
<1>5. PICK n : n = Net(Surviving(l), l)
  BY Zenon
<1>6. n \in Surviving(l) /\ n \in Records
  BY Zenon, <1>3, <1>4, <1>5, NetIsLatest
<1>7. n \in Live /\ HashOf(n) = h
  BY Zenon, <1>0, <1>2, <1>3, <1>5, <1>6
<1>8. h \in Hashes
  BY Zenon, <1>0, <1>6, <1>7, HashTypes
<1>9. PICK u : u = lookup_extent(h)
  BY Zenon
<1>10. u # 0
  BY Zenon, <1>0, <1>1, <1>7, <1>9 DEF LiveOwned
<1>11. Body(u, h) \/ (u \in OpenWals /\ InWal(u, h))
  BY Zenon, <1>1, <1>8, <1>9, <1>10 DEF OwnerHolds
<1>12. OpenWals \subseteq walFiles
  BY Zenon DEF Durable, MemoryInv
<1>13. HasBody(u, h)
  BY Zenon, <1>11, <1>12 DEF HasBody, Body, InWal
<1> QED BY Zenon, <1>0, <1>9, <1>13

(* Every content a read resolves to has a body in a file that is there,    *)
(* for any blocks, contents and bounds, when no promote and no unlink      *)
(* fails (classify_pending_dedup_entries, apply_promoted_partition).       *)
THEOREM ReadsResolve ==
  ASSUME FileSyncLinks, MaxFailures = 0, MaxUnlinkFailures = 0
  PROVE  Spec => []Resolvable
<1>0. MaxUlid \in Nat
  BY Zenon, VolumeAssumption
<1>1. Init => OwnInv
  BY Zenon, InitOwn
<1>2. TypeInv /\ TypeInv' /\ Durable /\ MapsInv /\ OwnInv /\ [Next]_vars => OwnInv'
  BY Zenon, NextOwn
<1>3. Spec => [](TypeInv /\ Durable /\ MapsInv)
  BY Zenon, MapsAlways
<1> QED BY <1>1, <1>2, <1>3, OwnersResolve, PTL DEF Spec
=============================================================================
