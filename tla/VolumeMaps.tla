----------------------------- MODULE VolumeMaps -----------------------------
(***************************************************************************)
(* What the volume's maps promise, for any blocks, contents, writes,       *)
(* crashes and power losses: a read returns the last write that was not    *)
(* lost, and the maps in memory are what a rebuild from disk yields.       *)
(*                                                                         *)
(* The assumptions are those of the code's own argument: syncing a WAL     *)
(* makes its directory entry durable, and no promote and no unlink fails.  *)
(* With a failed promote or unlink the maps are not right (ReadLatest).    *)
(***************************************************************************)
EXTENDS VolumeProofs

-----------------------------------------------------------------------------
(* The claims.                                                             *)

(* Of the files F, the highest that holds block l gives claim c.           *)
Top(F, l, c) ==
  \E f \in F : /\ At(recs[f], l) # {} /\ \A g \in F : At(recs[g], l) # {} => g <= f
               /\ c = [n |-> Net(recs[f], l), by |-> f]

Bare(F, l) == \A f \in F : At(recs[f], l) = {}

(* Replaying the WALs V over the segments gives claim c for block l.       *)
Yields(V, l, c) ==
  \/ Top(V, l, c)
  \/ Bare(V, l) /\ (Top(segFiles, l, c) \/ (Bare(segFiles, l) /\ c = NoClaim))

TopLayer(f, l) == At(f.recs, l) # {} /\ \A g \in Upper : At(g.recs, l) # {} => g.wal <= f.wal

LayersApart == \A f, g \in Upper : f.wal = g.wal => f = g

(* A layer holds records of its WAL.  Only the oldest WAL, which recovery  *)
(* replayed into base, may have records outside its layer.                 *)
LayerInv ==
  /\ phase # "up" => frozen = {} /\ delta = EmptyLayer
  /\ delta = EmptyLayer \/ (wal # 0 /\ delta.wal = wal /\ delta.recs \subseteq recs[wal])
  /\ \A f \in frozen : f.wal \in rotated /\ f.recs \subseteq recs[f.wal]
  /\ LayersApart
  /\ \A w \in OpenWals : \A n \in recs[w] :
       \/ \E f \in Upper : f.wal = w /\ n \in f.recs
       \/ \A v \in OpenWals : w <= v

(* The maps give what a replay of the WALs that are not promoted gives.    *)
Match ==
  /\ phase = "opening" => \A l \in Lbas : Yields({}, l, base[l])
  /\ phase = "up" => \A l \in Lbas : Yields(OpenWals, l, Claim(l))

(* The inductive strengthening of ReadLatest and MapsMatchDisk.            *)
MapsInv == DiskInv /\ QueueInv /\ LayerInv /\ Match

-----------------------------------------------------------------------------
(* What the operators give.                                                *)

(* Two claims that a replay yields are the same.                           *)
LEMMA YieldsOne ==
  ASSUME TypeInv, NEW V, V \subseteq Ulids, NEW l, NEW c, NEW d, Yields(V, l, c), Yields(V, l, d)
  PROVE  c = d
<1>1. ASSUME NEW F, F \subseteq Ulids, Top(F, l, c), Top(F, l, d) PROVE c = d
  <2>1. PICK f \in F : /\ At(recs[f], l) # {} /\ \A g \in F : At(recs[g], l) # {} => g <= f
                       /\ c = [n |-> Net(recs[f], l), by |-> f]
    BY Zenon, <1>1 DEF Top
  <2>2. PICK e \in F : /\ At(recs[e], l) # {} /\ \A g \in F : At(recs[g], l) # {} => g <= e
                       /\ d = [n |-> Net(recs[e], l), by |-> e]
    BY Zenon, <1>1 DEF Top
  <2>3. f <= e /\ e <= f /\ e \in Nat /\ f \in Nat
    BY <1>1, <2>1, <2>2 DEF Ulids
  <2>4. e = f
    BY <2>3
  <2> QED BY Zenon, <2>1, <2>2, <2>4
<1>2. ASSUME NEW F, NEW x, Top(F, l, x) PROVE ~Bare(F, l)
  BY Zenon, <1>2 DEF Top, Bare
<1>3. segFiles \subseteq Ulids
  BY Zenon DEF TypeInv, TypeOK
<1> QED BY Zenon, <1>1, <1>2, <1>3 DEF Yields

(* The files that hold a block have a highest one.                         *)
LEMMA TopExists ==
  ASSUME TypeInv, NEW F, F \subseteq Ulids, NEW l, ~Bare(F, l)
  PROVE  LET H == {f \in F : At(recs[f], l) # {}}
         IN  H # {} /\ Max(H) \in H /\ Top(F, l, [n |-> Net(recs[Max(H)], l), by |-> Max(H)])
<1> DEFINE H == {f \in F : At(recs[f], l) # {}}
<1>1. H # {}
  BY Zenon DEF Bare
<1>2. MaxUlid \in Nat
  BY Zenon, VolumeAssumption
<1>3. H \subseteq 0..MaxUlid
  <2>1. Ulids \subseteq 0..MaxUlid
    BY <1>2 DEF Ulids
  <2> QED BY Zenon, <2>1
<1>4. Max(H) \in H /\ \A x \in H : x <= Max(H)
  BY Zenon, <1>1, <1>2, <1>3, MaxIsGreatest
<1>5. Top(F, l, [n |-> Net(recs[Max(H)], l), by |-> Max(H)])
  BY Zenon, <1>4 DEF Top
<1> QED BY Zenon, <1>1, <1>4, <1>5

(* Replaying nothing over the segments is a rebuild, replaying the WALs on *)
(* disk the projection that the code's assertion compares with.            *)
LEMMA RebuildYields ==
  ASSUME TypeInv, NEW l \in Lbas
  PROVE  Yields({}, l, RebuiltClaims(segFiles)[l]) /\ Yields(walFiles, l, DiskClaim(l))
<1> DEFINE H == {s \in segFiles : At(recs[s], l) # {}}
           W == {w \in walFiles : At(recs[w], l) # {}}
<1>0. segFiles \subseteq Ulids /\ walFiles \subseteq Ulids
  BY Zenon DEF TypeInv, TypeOK
<1>1. RebuiltClaims(segFiles)[l] = IF H = {} THEN NoClaim ELSE [n |-> Net(recs[Max(H)], l), by |-> Max(H)]
  BY Zenon DEF RebuiltClaims
<1>2. \/ Top(segFiles, l, RebuiltClaims(segFiles)[l])
      \/ Bare(segFiles, l) /\ RebuiltClaims(segFiles)[l] = NoClaim
  <2>1. CASE Bare(segFiles, l)
    <3>1. H = {}
      BY Zenon, <2>1 DEF Bare
    <3> QED BY Zenon, <1>1, <2>1, <3>1
  <2>2. CASE ~Bare(segFiles, l)
    <3>1. H # {} /\ Top(segFiles, l, [n |-> Net(recs[Max(H)], l), by |-> Max(H)])
      BY Zenon, <1>0, <2>2, TopExists
    <3> QED BY Zenon, <1>1, <3>1
  <2> QED BY Zenon, <2>1, <2>2
<1>3. Bare({}, l)
  BY Zenon DEF Bare
<1>4. DiskClaim(l) = IF W = {} THEN RebuiltClaims(segFiles)[l] ELSE [n |-> Net(recs[Max(W)], l), by |-> Max(W)]
  BY Zenon DEF DiskClaim
<1>5. Yields(walFiles, l, DiskClaim(l))
  <2>1. CASE Bare(walFiles, l)
    <3>1. W = {}
      BY Zenon, <2>1 DEF Bare
    <3> QED BY Zenon, <1>2, <1>4, <2>1, <3>1 DEF Yields
  <2>2. CASE ~Bare(walFiles, l)
    <3>1. W # {} /\ Top(walFiles, l, [n |-> Net(recs[Max(W)], l), by |-> Max(W)])
      BY Zenon, <1>0, <2>2, TopExists
    <3> QED BY Zenon, <1>4, <3>1 DEF Yields
  <2> QED BY Zenon, <2>1, <2>2
<1> QED BY Zenon, <1>2, <1>3, <1>5 DEF Yields

-----------------------------------------------------------------------------
(* The claims under each step.                                             *)

(* The layers, newest first, over base give claim c for block l.           *)
Shows(l, c) ==
  \/ \E f \in Upper : TopLayer(f, l) /\ c = [n |-> Net(f.recs, l), by |-> f.wal]
  \/ (\A f \in Upper : At(f.recs, l) = {}) /\ c = base[l]

(* A read resolves to what the layers show, and to nothing else.           *)
ShowsOne == \A l \in Lbas : Shows(l, Claim(l)) /\ \A c : Shows(l, c) => c = Claim(l)

(* The claim a read resolves to is the one the layers show.                *)
LEMMA ClaimShows == TypeInv /\ LayersApart => ShowsOne
<1> SUFFICES ASSUME TypeInv, LayersApart, NEW l \in Lbas
             PROVE  Shows(l, Claim(l)) /\ \A c : Shows(l, c) => c = Claim(l)
  BY Zenon DEF ShowsOne
<1>1. \A f \in Upper : f.wal \in Ulids \cup {0}
  <2>1. Upper \subseteq Layer
    BY Zenon DEF TypeInv, TypeOK, Upper
  <2> QED BY Zenon, <2>1 DEF Layer
<1>2. Covering(l) \subseteq 0..MaxUlid /\ MaxUlid \in Nat
  <2>1. Ulids \cup {0} \subseteq 0..MaxUlid /\ MaxUlid \in Nat
    BY FileTypes DEF Ulids
  <2> QED BY Zenon, <1>1, <2>1 DEF Covering
<1>3. ASSUME NEW f \in Upper, TopLayer(f, l) PROVE Claim(l) = [n |-> Net(f.recs, l), by |-> f.wal]
  <2>1. f.wal \in Covering(l)
    BY Zenon, <1>3 DEF Covering, TopLayer
  <2>2. \A x \in Covering(l) : x <= f.wal
    BY Zenon, <1>3 DEF Covering, TopLayer
  <2>3. Max(Covering(l)) = f.wal
    BY Zenon, <1>2, <2>1, <2>2, MaxIs
  <2>4. LayerOf(f.wal) = f
    BY Zenon, <1>3 DEF LayerOf, LayersApart
  <2> QED BY Zenon, <2>1, <2>3, <2>4 DEF Claim
<1>4. ASSUME \A f \in Upper : At(f.recs, l) = {} PROVE Claim(l) = base[l]
  <2>1. Covering(l) = {}
    BY Zenon, <1>4 DEF Covering
  <2> QED BY Zenon, <2>1 DEF Claim
<1>5. Shows(l, Claim(l))
  <2>1. CASE \A f \in Upper : At(f.recs, l) = {}
    BY Zenon, <1>4, <2>1 DEF Shows
  <2>2. CASE ~\A f \in Upper : At(f.recs, l) = {}
    <3>1. Covering(l) # {}
      BY Zenon, <2>2 DEF Covering
    <3>2. Max(Covering(l)) \in Covering(l) /\ \A x \in Covering(l) : x <= Max(Covering(l))
      BY Zenon, <1>2, <3>1, MaxIsGreatest
    <3>3. PICK f \in Upper : At(f.recs, l) # {} /\ f.wal = Max(Covering(l))
      BY Zenon, <3>2 DEF Covering
    <3>4. \A g \in Upper : At(g.recs, l) # {} => g.wal \in Covering(l)
      BY Zenon DEF Covering
    <3>5. TopLayer(f, l)
      BY Zenon, <3>2, <3>3, <3>4 DEF TopLayer
    <3> QED BY Zenon, <1>3, <3>5 DEF Shows
  <2> QED BY Zenon, <2>1, <2>2
<1>6. ASSUME NEW c, Shows(l, c) PROVE c = Claim(l)
  BY Zenon, <1>3, <1>4, <1>6 DEF Shows
<1> QED BY Zenon, <1>5, <1>6

(* So the claims of the next state may be given by what its layers show.   *)
LEMMA ShowsClaim ==
  ASSUME TypeInv', LayersApart'
  PROVE  \A l \in Lbas : \A c : Shows(l, c)' => c = Claim(l)'
<1>1. ShowsOne'
  BY ClaimShows, PTL
<1> QED BY Zenon, <1>1 DEF ShowsOne

(* A record keeps its block and content.                                   *)
LEMMA SameLog ==
  ASSUME log' = log
  PROVE  /\ \A R, l : At(R, l)' = At(R, l) /\ Net(R, l)' = Net(R, l)
         /\ \A n : HashOf(n)' = HashOf(n)
         /\ Records' = Records
<1>1. \A R, l : At(R, l)' = At(R, l)
  BY Zenon DEF At
<1> QED BY Zenon, <1>1 DEF Net, HashOf, Records

(* What the claims are said of.                                            *)
LEMMA SameClaims ==
  ASSUME log' = log, frozen' = frozen, delta' = delta, base' = base
  PROVE  \A l : Claim(l)' = Claim(l)
<1>1. Upper' = Upper
  BY Zenon DEF Upper
<1>2. \A l : Covering(l)' = Covering(l)
  BY Zenon, <1>1, SameLog DEF Covering
<1>3. \A w : LayerOf(w)' = LayerOf(w)
  BY Zenon, <1>1 DEF LayerOf
<1> QED BY Zenon, <1>2, <1>3, SameLog DEF Claim

(* A replay yields the same while the files are the same.                  *)
LEMMA SameYields ==
  ASSUME log' = log, recs' = recs, segFiles' = segFiles
  PROVE  \A V, l, c : Yields(V, l, c)' <=> Yields(V, l, c)
<1>1. \A R, l : At(R, l)' = At(R, l) /\ Net(R, l)' = Net(R, l)
  BY Zenon, SameLog
<1>2. \A F, l, c : Top(F, l, c)' <=> Top(F, l, c)
  BY Zenon, <1>1 DEF Top
<1>3. \A F, l : Bare(F, l)' <=> Bare(F, l)
  BY Zenon, <1>1 DEF Bare
<1>4. \A l, c : (Top(segFiles, l, c)' <=> Top(segFiles, l, c)) /\ (Bare(segFiles, l)' <=> Bare(segFiles, l))
  BY Zenon, <1>2, <1>3
<1> QED BY Zenon, <1>2, <1>3, <1>4 DEF Yields

(* Nothing of the maps and the disk changes.                               *)
LEMMA QuietClaims ==
  ASSUME LayerInv, Match, OpenWals' = OpenWals,
         UNCHANGED <<log, recs, segFiles, phase, wal, rotated, base, frozen, delta>>
  PROVE  LayerInv' /\ Match'
<1>1. Upper' = Upper
  BY Zenon DEF Upper
<1>2. LayerInv'
  BY Zenon, <1>1 DEF LayerInv, LayersApart
<1>3. \A V, l, c : Yields(V, l, c)' <=> Yields(V, l, c)
  BY Zenon, SameYields
<1>4. Match'
  BY Zenon, <1>3, SameClaims DEF Match
<1> QED BY Zenon, <1>2, <1>4

(* The maps of a volume that is down are empty.                            *)
LEMMA LoseClaims == ASSUME LoseMemory PROVE LayerInv' /\ Match'
<1>1. /\ phase' = "down" /\ wal' = 0 /\ frozen' = {} /\ delta' = EmptyLayer /\ rotated' = {}
  BY Zenon DEF LoseMemory
<1>2. OpenWals' = {} /\ Upper' = {EmptyLayer}
  BY Zenon, <1>1 DEF OpenWals, Upper
<1>3. LayerInv'
  BY Zenon, <1>1, <1>2 DEF LayerInv, LayersApart
<1>4. Match'
  BY Zenon, <1>1 DEF Match
<1> QED BY Zenon, <1>3, <1>4

(* What a rebuild yields.                                                  *)
LEMMA RebuildClaims ==
  ASSUME TypeInv, Durable, LayerInv, OpenRebuild
  PROVE  LayerInv' /\ Match'
<1>1. /\ phase = "down" /\ phase' = "opening" /\ base' = RebuiltClaims(segFiles)
      /\ UNCHANGED <<log, recs, segFiles, wal, frozen, delta, rotated>>
  BY Zenon DEF OpenRebuild, history, pipeline
<1>2. wal = 0 /\ rotated = {} /\ frozen = {} /\ delta = EmptyLayer
  BY Zenon, <1>1 DEF Durable, MemoryInv, LayerInv
<1>3. OpenWals' = {} /\ Upper' = {EmptyLayer}
  BY Zenon, <1>1, <1>2 DEF OpenWals, Upper
<1>4. LayerInv'
  BY Zenon, <1>1, <1>2, <1>3 DEF LayerInv, LayersApart
<1>5. \A V, l, c : Yields(V, l, c)' <=> Yields(V, l, c)
  BY Zenon, <1>1, SameYields
<1>6. \A l \in Lbas : Yields({}, l, RebuiltClaims(segFiles)[l])
  BY Zenon, RebuildYields
<1>7. Match'
  <2>1. (phase' = "up") = FALSE
    BY Zenon, <1>1
  <2> QED BY Zenon, <1>1, <1>5, <1>6, <2>1 DEF Match
<1> QED BY Zenon, <1>4, <1>7

(* A rotation moves the layer of the open WAL under an empty one.          *)
LEMMA DispatchClaims ==
  ASSUME TypeInv, TypeInv', Durable, DiskInv, QueueInv, LayerInv, Match, DispatchPromote
  PROVE  LayerInv' /\ Match' /\ \A f : f \in Upper' <=> (f \in Upper \/ f = EmptyLayer)
<1>1. wal # 0 /\ wal' = 0 /\ OpenWals' = OpenWals /\ stash = <<>>
  BY Zenon, DispatchQueue DEF QueueInv, Faultless
<1>2. /\ frozen' = (IF delta = EmptyLayer THEN frozen ELSE frozen \cup {delta})
      /\ delta' = EmptyLayer /\ rotated' = rotated \cup {wal}
      /\ phase = "up" /\ UNCHANGED <<log, recs, segFiles, phase, base>>
  <2>1. pending # {}
    BY Zenon, <1>1 DEF DispatchPromote
  <2> QED BY Zenon, <2>1 DEF DispatchPromote, ActorIdle, history, disk
<1>3. \A f : f \in Upper' <=> (f \in Upper \/ f = EmptyLayer)
  BY Zenon, <1>2 DEF Upper
<1>4. EmptyLayer.wal = 0 /\ EmptyLayer.recs = {}
  BY Zenon DEF EmptyLayer
<1>5. \A f \in Upper : f # EmptyLayer => f.wal # 0
  <2>1. \A f \in frozen : f.wal # 0
    BY Zenon, FileTypes DEF LayerInv
  <2> QED BY Zenon, <2>1 DEF LayerInv, Upper
<1>6. LayersApart'
  BY Zenon, <1>3, <1>4, <1>5 DEF LayerInv, LayersApart
<1>7. LayerInv'
  <2>1. \A f \in frozen' : f.wal \in rotated' /\ f.recs \subseteq recs'[f.wal]
    BY Zenon, <1>2 DEF LayerInv
  <2>2. \A w \in OpenWals' : \A n \in recs'[w] :
          \/ \E f \in Upper' : f.wal = w /\ n \in f.recs
          \/ \A v \in OpenWals' : w <= v
    BY Zenon, <1>1, <1>2, <1>3 DEF LayerInv
  <2> QED BY Zenon, <1>2, <1>6, <2>1, <2>2 DEF LayerInv
<1>8. \A l : At({}, l) = {}
  BY Zenon DEF At
<1>9. ASSUME NEW l \in Lbas, NEW c, Shows(l, c) PROVE Shows(l, c)'
  <2>1. \A R : At(R, l)' = At(R, l) /\ Net(R, l)' = Net(R, l)
    BY Zenon, <1>2, SameLog
  <2>2. \A f \in Upper : TopLayer(f, l) => TopLayer(f, l)'
    BY Zenon, <1>3, <1>4, <1>8, <2>1 DEF TopLayer
  <2>3. CASE \E f \in Upper : TopLayer(f, l) /\ c = [n |-> Net(f.recs, l), by |-> f.wal]
    BY Zenon, <1>3, <2>1, <2>2, <2>3 DEF Shows
  <2>4. CASE (\A f \in Upper : At(f.recs, l) = {}) /\ c = base[l]
    BY Zenon, <1>2, <1>3, <1>4, <1>8, <2>1, <2>4 DEF Shows
  <2> QED BY Zenon, <1>9, <2>3, <2>4 DEF Shows
<1>10. ASSUME NEW l \in Lbas PROVE Yields(OpenWals, l, Claim(l))'
  <2>1. PICK c : c = Claim(l)
    BY Zenon
  <2>2. Shows(l, c)
    BY Zenon, <2>1, ClaimShows DEF LayerInv, ShowsOne
  <2>3. Claim(l)' = c
    BY Zenon, <1>6, <1>9, <2>2, ShowsClaim
  <2>4. Yields(OpenWals, l, c)
    BY Zenon, <1>2, <2>1 DEF Match
  <2>5. \A V : Yields(V, l, c) => Yields(V, l, c)'
    BY Zenon, <1>2, SameYields
  <2> QED BY Zenon, <1>1, <2>3, <2>4, <2>5
<1>11. Match'
  <2>1. (phase' = "opening") = FALSE
    BY Zenon, <1>2
  <2> QED BY Zenon, <1>10, <2>1 DEF Match
<1> QED BY Zenon, <1>3, <1>7, <1>11

(* A segment of a WAL that is still replayed changes no claim.             *)
LEMMA ExecuteClaims ==
  ASSUME TypeInv, Durable, DiskInv, QueueInv, LayerInv, Match, FileSyncLinks, ExecutePromote
  PROVE  LayerInv' /\ Match'
<1>0. PICK w, s : w = Head(jobs).wal /\ s = Head(jobs).seg
  BY Zenon
<1>1. /\ w \in OpenWals /\ s \in Ulids /\ s \notin segFiles /\ s \notin OpenWals
      /\ segFiles' = segFiles \cup {s} /\ recs'[s] = recs[w]
      /\ \A u \in Ulids : u # s => recs'[u] = recs[u]
      /\ OpenWals' = OpenWals
  BY Zenon, <1>0, ExecuteFacts
<1>2. phase = "up" /\ UNCHANGED <<log, phase, wal, rotated, base, frozen, delta>>
  BY Zenon DEF ExecutePromote, history, maps
<1>3. OpenWals \subseteq Ulids /\ segFiles \subseteq Ulids
  BY Zenon, FileTypes
<1>4. (\A u \in OpenWals : recs'[u] = recs[u]) /\ \A u \in segFiles : recs'[u] = recs[u]
  BY Zenon, <1>1, <1>3
<1>5. Upper' = Upper
  BY Zenon, <1>2 DEF Upper
<1>6. LayerInv'
  <2>1. delta' = EmptyLayer \/ (wal' # 0 /\ delta'.wal = wal' /\ delta'.recs \subseteq recs'[wal'])
    BY Zenon, <1>2, <1>4 DEF LayerInv, OpenWals
  <2>2. \A f \in frozen' : f.wal \in rotated' /\ f.recs \subseteq recs'[f.wal]
    BY Zenon, <1>2, <1>4 DEF LayerInv, OpenWals
  <2>3. \A v \in OpenWals' : \A n \in recs'[v] :
          \/ \E f \in Upper' : f.wal = v /\ n \in f.recs
          \/ \A x \in OpenWals' : v <= x
    BY Zenon, <1>1, <1>4, <1>5 DEF LayerInv
  <2> QED BY Zenon, <1>2, <1>5, <2>1, <2>2, <2>3 DEF LayerInv, LayersApart
<1>7. ASSUME NEW l \in Lbas, NEW c, Yields(OpenWals, l, c) PROVE Yields(OpenWals, l, c)'
  <2>1. \A R : At(R, l)' = At(R, l) /\ Net(R, l)' = Net(R, l)
    BY Zenon, <1>2, SameLog
  <2>2. CASE Top(OpenWals, l, c)
    <3>1. Top(OpenWals, l, c)'
      BY Zenon, <1>1, <1>4, <2>1, <2>2 DEF Top
    <3> QED BY Zenon, <3>1 DEF Yields
  <2>3. CASE Bare(OpenWals, l) /\ (Top(segFiles, l, c) \/ (Bare(segFiles, l) /\ c = NoClaim))
    <3>1. Bare(OpenWals, l)'
      BY Zenon, <1>1, <1>4, <2>1, <2>3 DEF Bare
    <3>2. At(recs'[s], l) = {}
      BY Zenon, <1>1, <2>3 DEF Bare
    <3>3. Top(segFiles, l, c) => Top(segFiles, l, c)'
      BY Zenon, <1>1, <1>4, <2>1, <3>2 DEF Top
    <3>4. Bare(segFiles, l) => Bare(segFiles, l)'
      BY Zenon, <1>1, <1>4, <2>1, <3>2 DEF Bare
    <3> QED BY Zenon, <2>3, <3>1, <3>3, <3>4 DEF Yields
  <2> QED BY Zenon, <1>7, <2>2, <2>3 DEF Yields
<1>8. Match'
  <2>1. (phase' = "opening") = FALSE
    BY Zenon, <1>2
  <2>2. \A l \in Lbas : \A c : c = Claim(l) => Yields(OpenWals, l, c)'
    BY Zenon, <1>2, <1>7 DEF Match
  <2> QED BY Zenon, <1>2, <2>1, <2>2, SameClaims DEF Match
<1> QED BY Zenon, <1>6, <1>8

(* What an append writes.                                                  *)
LEMMA CommitFacts ==
  ASSUME TypeInv, Durable, DiskInv, QueueInv, phase = "up",
         NEW l \in Lbas, NEW h \in Contents, Commit(l, h)
  PROVE  LET w == IF wal = 0 THEN mint + 1 ELSE wal
             n == Len(log) + 1
         IN  /\ w \in Ulids /\ w # 0 /\ n \in Nat /\ n # 0 /\ n \notin Records /\ \A m \in Records : m < n
             /\ Records' = Records \cup {n}
             /\ \A m \in Records : log'[m] = log[m]
             /\ log'[n].lba = l /\ log'[n].hash = h
             /\ recs'[w] = recs[w] \cup {n} /\ \A u \in Ulids : u # w => recs'[u] = recs[u]
             /\ w \notin segFiles /\ (w \notin OpenWals => recs[w] = {})
             /\ OpenWals' = OpenWals \cup {w} /\ wal' = w /\ walFiles' = walFiles \cup {w}
             /\ \A u \in OpenWals : u # w => u < w
             /\ \A k \in AllJobs : k.wal # w
             /\ AllJobs' = AllJobs
             /\ wal # 0 => wal = w
             /\ delta'.wal = w /\ delta'.recs = delta.recs \cup {n}
             /\ delta'.own = delta.own \cup (IF h # ZERO_HASH /\ lookup_extent(h) = 0 THEN {h} ELSE {})
             /\ UNCHANGED <<bodies, segFiles, phase, base, index, frozen, rotated, jobs, results, stash, lost>>
<1> DEFINE w == IF wal = 0 THEN mint + 1 ELSE wal
           n == Len(log) + 1
<1>1. /\ recs' = [recs EXCEPT ![w] = @ \cup {n}] /\ log' = Append(log, [lba |-> l, hash |-> h])
      /\ wal' = w /\ walFiles' = walFiles \cup {w}
      /\ delta' = [wal |-> w, recs |-> delta.recs \cup {n},
                   own |-> delta.own \cup (IF h # ZERO_HASH /\ lookup_extent(h) = 0 THEN {h} ELSE {})]
      /\ UNCHANGED <<bodies, segFiles, phase, base, index, frozen, rotated, jobs, results, stash, lost>>
  BY Zenon DEF Commit, pipeline
<1>2. /\ delta'.wal = w /\ delta'.recs = delta.recs \cup {n}
      /\ delta'.own = delta.own \cup (IF h # ZERO_HASH /\ lookup_extent(h) = 0 THEN {h} ELSE {})
  BY Zenon, <1>1
<1>4. w \in Ulids /\ w # 0 /\ n \in Nat /\ n # 0
  <2>1. w \in Ulids
    BY DEF Commit, TypeInv, TypeOK, Ulids
  <2> QED BY <2>1, FileTypes
<1>5. n \notin Records /\ \A m \in Records : m < n
  BY FileTypes DEF Records
<1>6. Len(log') = n /\ (\A m \in Records : log'[m] = log[m]) /\ log'[n] = [lba |-> l, hash |-> h]
  <2>1. log \in Seq([lba: Lbas, hash: Contents]) /\ [lba |-> l, hash |-> h] \in [lba: Lbas, hash: Contents]
    BY Zenon DEF TypeInv, TypeOK
  <2>2. /\ Len(log') = Len(log) + 1 /\ log'[Len(log) + 1] = [lba |-> l, hash |-> h]
        /\ \A m \in 1..Len(log) : log'[m] = log[m]
    <3>1. PICK e : e = [lba |-> l, hash |-> h]
      BY Zenon
    <3>2. /\ Len(Append(log, e)) = Len(log) + 1 /\ Append(log, e)[Len(log) + 1] = e
          /\ \A m \in 1..Len(log) : Append(log, e)[m] = log[m]
      <4>1. PICK S : log \in Seq(S) /\ e \in S
        BY Zenon, <2>1, <3>1
      <4> QED BY <4>1, AppendShape
    <3>3. log' = Append(log, e)
      BY Zenon, <1>1, <3>1
    <3> QED BY Zenon, <3>1, <3>2, <3>3
  <2> QED BY Zenon, <2>2 DEF Records
<1>7. Records' = Records \cup {n}
  <2>1. 1..n = (1..Len(log)) \cup {n}
    BY FileTypes
  <2> QED BY Zenon, <1>6, <2>1 DEF Records
<1>8. recs'[w] = recs[w] \cup {n} /\ \A u \in Ulids : u # w => recs'[u] = recs[u]
  BY Zenon, <1>1, <1>4, FileTypes
<1>9. \A f \in walFiles \cup segFiles : f <= mint
  BY Zenon DEF Durable, FilesInv
<1>10. OpenWals \subseteq walFiles
  BY Zenon DEF Durable, MemoryInv
<1>11. \A u \in OpenWals : u # w => u < w
  <2>1. CASE wal = 0
    <3>1. w = mint + 1 /\ mint \in Nat /\ OpenWals \subseteq Nat
      BY Zenon, <2>1, FileTypes
    <3> HIDE DEF w
    <3> QED BY <1>9, <1>10, <3>1
  <2>2. CASE wal # 0
    <3>1. w = wal
      BY Zenon, <2>2
    <3> QED BY Zenon, <1>10, <2>2, <3>1, OpenIsHighest DEF Wals
  <2> QED BY Zenon, <2>1, <2>2
<1>12. w \notin segFiles /\ (w \notin OpenWals => recs[w] = {})
  <2>1. CASE wal = 0
    <3>1. w = mint + 1 /\ mint \in Nat /\ walFiles \cup segFiles \subseteq Nat
      BY Zenon, <2>1, FileTypes
    <3> HIDE DEF w
    <3>2. w \notin walFiles /\ w \notin segFiles
      BY <1>9, <3>1
    <3>3. w \notin Range(unlinked)
      <4>1. ASSUME NEW u \in Range(unlinked) PROVE u < w
        <5>1. PICK f \in walFiles \cup segFiles : u < f
          BY Zenon DEF Durable, FilesInv
        <5>2. f <= mint /\ f \in Nat /\ u \in Nat
          BY Zenon, <1>9, <3>1, FileTypes DEF Wals
        <5> QED BY <3>1, <5>1, <5>2
      <4>2. ~(w < w)
        BY <3>1
      <4> QED BY Zenon, <4>1, <4>2
    <3>4. recs[w] = {}
      BY Zenon, <1>4, <3>2, <3>3 DEF DiskInv, InFiles, Wals
    <3> QED BY Zenon, <3>2, <3>4
  <2>2. CASE wal # 0
    <3>1. w = wal /\ wal \in OpenWals
      BY Zenon, <2>2 DEF OpenWals
    <3> QED BY Zenon, <1>10, <3>1 DEF Durable, FilesInv
  <2> QED BY Zenon, <2>1, <2>2
<1>13. OpenWals' = OpenWals \cup {w}
  <2>1. wal = 0 \/ wal = w
    BY Zenon
  <2> QED BY Zenon, <1>1, <1>4, <2>1 DEF OpenWals
<1>14. \A k \in AllJobs : k.wal # w
  <2>1. CASE wal = 0
    <3>1. w = mint + 1 /\ mint \in Nat /\ walFiles \subseteq Nat
      BY Zenon, <2>1, FileTypes
    <3> HIDE DEF w
    <3>2. w \notin walFiles
      BY <1>9, <3>1
    <3> QED BY Zenon, <1>10, <3>2, QueueTypes DEF OpenWals
  <2>2. CASE wal # 0
    BY Zenon, <2>2 DEF Durable, JobsInv
  <2> QED BY Zenon, <2>1, <2>2
<1>15. AllJobs' = AllJobs
  BY Zenon, <1>1 DEF AllJobs
<1>16. wal # 0 => wal = w
  BY Zenon
<1>17. log'[n].lba = l /\ log'[n].hash = h
  BY <1>6
<1> HIDE DEF w, n
<1> QED BY Zenon, <1>1, <1>2, <1>4, <1>5, <1>6, <1>7, <1>8, <1>11, <1>12, <1>13, <1>14, <1>15, <1>16, <1>17 DEF w, n

(* The blocks of the records once record n of block l is appended.         *)
AtAfter(n, l) ==
  /\ \A R \in SUBSET Records : \A k : At(R, k)' = At(R, k) /\ Net(R, k)' = Net(R, k)
  /\ \A R \in SUBSET Records : \A Q, k : Q = R \cup {n} /\ k # l =>
       At(Q, k)' = At(R, k) /\ Net(Q, k)' = Net(R, k)
  /\ \A R \in SUBSET Records : \A Q : Q = R \cup {n} => At(Q, l)' # {} /\ Net(Q, l)' = n

(* An appended record is the latest of its block and changes no other.     *)
LEMMA AppendAt ==
  ASSUME TypeInv, NEW n, n = Len(log) + 1, NEW l, log'[n].lba = l,
         \A m \in Records : log'[m] = log[m]
  PROVE  AtAfter(n, l)
<1>1. \A R \in SUBSET Records : \A k : At(R, k)' = At(R, k)
  BY Zenon DEF At
<1>2. \A R \in SUBSET Records : \A k : Net(R, k)' = Net(R, k)
  BY Zenon, <1>1 DEF Net
<1>3. \A R \in SUBSET Records : \A Q, k : Q = R \cup {n} /\ k # l => At(Q, k)' = At(R, k)
  BY Zenon DEF At
<1>4. \A R \in SUBSET Records : \A Q, k : Q = R \cup {n} /\ k # l => Net(Q, k)' = Net(R, k)
  BY Zenon, <1>3 DEF Net
<1>5. ASSUME NEW R \in SUBSET Records, NEW Q, Q = R \cup {n} PROVE At(Q, l)' # {} /\ Net(Q, l)' = n
  <2>1. n \in At(Q, l)' /\ At(Q, l)' \subseteq R \cup {n}
    BY Zenon, <1>5 DEF At
  <2>2. n \in Nat /\ R \cup {n} \subseteq 0..n
    <3>1. Len(log) \in Nat
      BY Zenon, FileTypes
    <3>2. n \in Nat /\ Records \subseteq 0..n /\ n \in 0..n
      BY <3>1 DEF Records
    <3> QED BY Zenon, <1>5, <3>2
  <2>3. \A m \in 0..n : m <= n
    BY <2>2
  <2>4. PICK S : S = At(Q, l)'
    BY Zenon
  <2>5. Max(S) = n
    BY Zenon, <2>1, <2>2, <2>3, <2>4, MaxIs
  <2>6. Net(Q, l)' = Max(S)
    BY Zenon, <2>1, <2>4 DEF Net
  <2> QED BY Zenon, <2>1, <2>5, <2>6
<1> QED BY Zenon, <1>1, <1>2, <1>3, <1>4, <1>5 DEF AtAfter

(* An append claims its block in the layer of the open WAL, and the WAL is *)
(* the last that is replayed.                                              *)
LEMMA CommitClaims ==
  ASSUME TypeInv, TypeInv', Durable, DiskInv, QueueInv, LayerInv, Match, phase = "up",
         NEW l \in Lbas, NEW h \in Contents, Commit(l, h)
  PROVE  LayerInv' /\ Match'
<1>0. PICK w, n : w = (IF wal = 0 THEN mint + 1 ELSE wal) /\ n = Len(log) + 1
  BY Zenon
<1>1. /\ w \in Ulids /\ w # 0 /\ n \in Nat /\ n # 0 /\ n \notin Records
      /\ \A m \in Records : log'[m] = log[m]
      /\ log'[n].lba = l
      /\ recs'[w] = recs[w] \cup {n} /\ \A u \in Ulids : u # w => recs'[u] = recs[u]
      /\ w \notin segFiles /\ (w \notin OpenWals => recs[w] = {})
      /\ OpenWals' = OpenWals \cup {w} /\ wal' = w
      /\ \A u \in OpenWals : u # w => u < w
      /\ \A k \in AllJobs : k.wal # w
      /\ wal # 0 => wal = w
      /\ delta'.wal = w /\ delta'.recs = delta.recs \cup {n}
      /\ UNCHANGED <<segFiles, phase, base, frozen, rotated>>
  BY Zenon, <1>0, CommitFacts
<1>2. OpenWals \subseteq Ulids /\ segFiles \subseteq Ulids /\ rotated \subseteq Ulids
  BY Zenon, FileTypes
<1>3. \A u \in Ulids : recs[u] \in SUBSET Records
  BY Zenon, FileTypes
<1>4. \A f \in Upper : f.recs \in SUBSET Records
  BY Zenon DEF TypeInv, Bounded, Upper
<1>5. w \notin rotated
  BY Zenon, <1>1, QueueTypes
<1>6. \A f \in frozen : f.wal # w /\ f.wal \in OpenWals /\ f.wal < w /\ f.recs \subseteq recs[f.wal]
  BY Zenon, <1>1, <1>5 DEF LayerInv, OpenWals
<1>7. EmptyLayer.recs = {} /\ EmptyLayer.wal = 0
  BY Zenon DEF EmptyLayer
<1>8. delta.recs \subseteq recs[w] /\ (delta = EmptyLayer \/ delta.wal = w)
  BY Zenon, <1>1, <1>7 DEF LayerInv
<1>9. LayersApart'
  BY Zenon, <1>1, <1>6 DEF LayerInv, LayersApart, Upper
<1>10. LayerInv'
  <2>1. (phase' # "up") = FALSE
    BY Zenon, <1>1
  <2>2. \A f \in frozen' : f.wal \in rotated' /\ f.recs \subseteq recs'[f.wal]
    BY Zenon, <1>1, <1>2, <1>6 DEF LayerInv
  <2>3. delta'.wal = wal' /\ wal' # 0 /\ delta'.recs \subseteq recs'[wal']
    BY Zenon, <1>1, <1>8
  <2>4. ASSUME NEW v \in OpenWals', NEW m \in recs'[v]
        PROVE  \/ \E f \in Upper' : f.wal = v /\ m \in f.recs
               \/ \A x \in OpenWals' : v <= x
    <3>1. delta' \in Upper'
      BY Zenon DEF Upper
    <3>2. CASE v = w /\ m = n
      BY Zenon, <1>1, <3>1, <3>2
    <3>3. CASE v \in OpenWals /\ m \in recs[v]
      <4>1. CASE \E f \in Upper : f.wal = v /\ m \in f.recs
        <5>1. PICK f \in Upper : f.wal = v /\ m \in f.recs
          BY Zenon, <4>1
        <5>2. CASE f \in frozen
          BY Zenon, <1>1, <5>1, <5>2 DEF Upper
        <5>3. CASE f = delta
          <6>1. m \in delta'.recs /\ delta'.wal = v
            BY Zenon, <1>1, <1>7, <1>8, <5>1, <5>3
          <6> QED BY Zenon, <3>1, <6>1
        <5> QED BY Zenon, <5>2, <5>3 DEF Upper
      <4>2. CASE \A x \in OpenWals : v <= x
        <5>1. v <= w
          <6>1. v \in Nat /\ w \in Nat
            BY Zenon, <1>1, <1>2, <3>3, FileTypes
          <6>2. v = w \/ v < w
            BY Zenon, <1>1, <3>3
          <6> QED BY <6>1, <6>2
        <5> QED BY Zenon, <1>1, <4>2, <5>1
      <4> QED BY Zenon, <3>3, <4>1, <4>2 DEF LayerInv
    <3>4. (v = w /\ m = n) \/ (v \in OpenWals /\ m \in recs[v])
      BY Zenon, <1>1, <1>2, <2>4
    <3> QED BY Zenon, <3>2, <3>3, <3>4
  <2> QED BY Zenon, <1>9, <2>1, <2>2, <2>3, <2>4 DEF LayerInv
<1>11. /\ \A R \in SUBSET Records : \A k : At(R, k)' = At(R, k) /\ Net(R, k)' = Net(R, k)
       /\ \A R \in SUBSET Records : \A Q, k : Q = R \cup {n} /\ k # l =>
            At(Q, k)' = At(R, k) /\ Net(Q, k)' = Net(R, k)
       /\ \A R \in SUBSET Records : \A Q : Q = R \cup {n} => At(Q, l)' # {} /\ Net(Q, l)' = n
  <2>1. n = Len(log) + 1 /\ log'[n].lba = l /\ \A m \in Records : log'[m] = log[m]
    BY Zenon, <1>0, <1>1
  <2>2. AtAfter(n, l)
    BY Zenon, <2>1, AppendAt
  <2> QED BY Zenon, <2>2 DEF AtAfter
<1>12. w <= w /\ \A u \in OpenWals' : u <= w
  <2>1. w \in Nat /\ OpenWals \subseteq Nat
    BY Zenon, <1>1, <1>2, FileTypes
  <2>2. w <= w /\ \A u \in Nat : u < w => u <= w
    BY <2>1
  <2>3. \A u \in OpenWals' : u = w \/ (u \in OpenWals /\ u < w)
    BY Zenon, <1>1
  <2> QED BY Zenon, <2>1, <2>2, <2>3
<1>13. \A f \in Upper' : f = delta' \/ f \in frozen
  BY Zenon, <1>1 DEF Upper
<1>14. Yields(OpenWals, l, Claim(l))'
  <2>1. PICK c : c = [n |-> n, by |-> w]
    BY Zenon
  <2>2. Shows(l, c)'
    <3>1. At(delta.recs, l)' # {} /\ Net(delta.recs, l)' = n /\ delta' \in Upper'
      BY Zenon, <1>1, <1>4, <1>11 DEF Upper
    <3>2. \A f \in frozen : f.wal <= w
      BY Zenon, <1>1, <1>6, <1>12
    <3>3. \A f \in Upper' : f.wal <= delta'.wal
      BY Zenon, <1>1, <1>12, <1>13, <3>2
    <3> QED BY Zenon, <1>1, <2>1, <3>1, <3>3 DEF Shows, TopLayer
  <2>3. Top(OpenWals, l, c)'
    <3>1. At(recs[w], l)' # {} /\ Net(recs[w], l)' = n
      BY Zenon, <1>1, <1>3, <1>11
    <3> QED BY Zenon, <1>1, <1>12, <2>1, <3>1 DEF Top
  <2>4. Claim(l)' = c
    BY Zenon, <1>9, <2>2, ShowsClaim
  <2> QED BY Zenon, <2>3, <2>4 DEF Yields
<1>15. ASSUME NEW k \in Lbas, k # l PROVE Yields(OpenWals, k, Claim(k))'
  <2>1. PICK c : c = Claim(k)
    BY Zenon
  <2>2. Shows(k, c) /\ Yields(OpenWals, k, c)
    BY Zenon, <2>1, ClaimShows DEF LayerInv, ShowsOne, Match
  <2>3. At(delta.recs, k)' = At(delta.recs, k) /\ Net(delta.recs, k)' = Net(delta.recs, k)
    <3>1. delta.recs \in SUBSET Records /\ delta'.recs = delta.recs \cup {n}
      BY Zenon, <1>1, <1>4 DEF Upper
    <3>2. \A R \in SUBSET Records : \A Q : Q = R \cup {n} =>
            At(Q, k)' = At(R, k) /\ Net(Q, k)' = Net(R, k)
      BY Zenon, <1>11, <1>15
    <3> QED BY Zenon, <3>1, <3>2
  <2>4. \A f \in frozen : At(f.recs, k)' = At(f.recs, k) /\ Net(f.recs, k)' = Net(f.recs, k)
    BY Zenon, <1>4, <1>11 DEF Upper
  <2>5. At(delta.recs, k) # {} => delta.wal = w
    <3>1. At({}, k) = {}
      BY Zenon DEF At
    <3> QED BY Zenon, <1>7, <1>8, <3>1
  <2>6. Shows(k, c)'
    <3>1. CASE \E f \in Upper : TopLayer(f, k) /\ c = [n |-> Net(f.recs, k), by |-> f.wal]
      <4>1. PICK f \in Upper : TopLayer(f, k) /\ c = [n |-> Net(f.recs, k), by |-> f.wal]
        BY Zenon, <3>1
      <4>2. CASE f = delta
        <5>1. TopLayer(delta, k)'
          BY Zenon, <1>1, <1>13, <2>3, <2>4, <2>5, <4>1, <4>2 DEF TopLayer, Upper
        <5>2. c = [n |-> Net(delta.recs, k)', by |-> delta'.wal] /\ delta' \in Upper'
          BY Zenon, <1>1, <2>3, <2>5, <4>1, <4>2 DEF TopLayer, Upper
        <5> QED BY Zenon, <5>1, <5>2 DEF Shows
      <4>3. CASE f \in frozen
        <5>1. TopLayer(f, k)'
          BY Zenon, <1>1, <1>13, <2>3, <2>4, <2>5, <4>1, <4>3 DEF TopLayer, Upper
        <5>2. c = [n |-> Net(f.recs, k)', by |-> f.wal] /\ f \in Upper'
          BY Zenon, <1>1, <2>4, <4>1, <4>3 DEF Upper
        <5> QED BY Zenon, <5>1, <5>2 DEF Shows
      <4> QED BY Zenon, <4>2, <4>3 DEF Upper
    <3>2. CASE (\A f \in Upper : At(f.recs, k) = {}) /\ c = base[k]
      BY Zenon, <1>1, <1>13, <2>3, <2>4, <3>2 DEF Shows, Upper
    <3> QED BY Zenon, <2>2, <3>1, <3>2 DEF Shows
  <2>7. \A u \in Ulids : At(recs[u], k)' = At(recs[u], k) /\ Net(recs[u], k)' = Net(recs[u], k)
    <3>1. \A R \in SUBSET Records : \A Q : Q = R \cup {n} =>
            At(Q, k)' = At(R, k) /\ Net(Q, k)' = Net(R, k)
      BY Zenon, <1>11, <1>15
    <3>2. \A R \in SUBSET Records : At(R, k)' = At(R, k) /\ Net(R, k)' = Net(R, k)
      BY Zenon, <1>11
    <3>3. At(recs[w], k)' = At(recs[w], k) /\ Net(recs[w], k)' = Net(recs[w], k)
      BY Zenon, <1>1, <1>3, <3>1
    <3> QED BY Zenon, <1>1, <1>3, <3>2, <3>3
  <2>8. w \notin OpenWals => At(recs[w], k)' = {}
    <3>1. At({}, k) = {}
      BY Zenon DEF At
    <3> QED BY Zenon, <1>1, <2>7, <3>1
  <2>9. Top(OpenWals, k, c) => Top(OpenWals, k, c)'
    <3>1. SUFFICES ASSUME Top(OpenWals, k, c) PROVE Top(OpenWals, k, c)'
      BY Zenon
    <3>2. PICK f \in OpenWals : /\ At(recs[f], k) # {} /\ \A g \in OpenWals : At(recs[g], k) # {} => g <= f
                               /\ c = [n |-> Net(recs[f], k), by |-> f]
      BY Zenon, <3>1 DEF Top
    <3>3. f \in OpenWals' /\ At(recs[f], k)' # {} /\ c = [n |-> Net(recs[f], k)', by |-> f]
      BY Zenon, <1>1, <1>2, <2>7, <3>2
    <3>4. \A g \in OpenWals' : At(recs[g], k)' # {} => g <= f
      BY Zenon, <1>1, <1>2, <2>7, <2>8, <3>2
    <3> QED BY Zenon, <3>3, <3>4 DEF Top
  <2>10. Bare(OpenWals, k) => Bare(OpenWals, k)'
    BY Zenon, <1>1, <1>2, <2>7, <2>8 DEF Bare
  <2>11. (Top(segFiles, k, c) => Top(segFiles, k, c)') /\ (Bare(segFiles, k) => Bare(segFiles, k)')
    BY Zenon, <1>1, <1>2, <2>7 DEF Top, Bare
  <2>12. Yields(OpenWals, k, c)'
    BY Zenon, <2>2, <2>9, <2>10, <2>11 DEF Yields
  <2>13. Claim(k)' = c
    BY Zenon, <1>9, <2>6, ShowsClaim
  <2> QED BY Zenon, <2>12, <2>13
<1>16. Match'
  <2>1. (phase' = "opening") = FALSE
    BY Zenon, <1>1
  <2> QED BY Zenon, <1>14, <1>15, <2>1 DEF Match
<1> QED BY Zenon, <1>10, <1>16

(* The apply of the oldest WAL: once no later WAL holds the block, the     *)
(* folded claim is the WAL's, and its segment is the highest that holds    *)
(* the block.                                                              *)
LEMMA ApplyClaimsStep ==
  ASSUME TypeInv, TypeInv', Durable, DiskInv, QueueInv, LayerInv, Match, ApplyPromote
  PROVE  LayerInv' /\ Match'
<1>0. PICK j, w, s, L, R : /\ j = Head(results).job /\ w = j.wal /\ s = j.seg
                           /\ L = {f \in frozen : f.wal = w} /\ R = UNION {f.recs : f \in L}
  BY Zenon
<1>1. /\ w \in Ulids /\ s \in Ulids /\ w < s /\ w \in rotated /\ w # wal
      /\ OpenWals = OpenWals' \cup {w} /\ walFiles = OpenWals
      /\ w \notin OpenWals' /\ Sealed(w, s) /\ \A v \in OpenWals' : s < v
  BY Zenon, <1>0, ApplyFacts
<1>2. /\ phase = "up" /\ UNCHANGED <<log, recs, segFiles, phase, wal, delta>>
      /\ base' = ApplyClaims(FoldClaims(base, R, w), recs[s], s)
      /\ frozen' = frozen \ L /\ rotated' = rotated \ {w}
  BY Zenon, <1>0 DEF ApplyPromote, ActorIdle, history, disk
<1>16. delta.wal # w
  <2>1. EmptyLayer.wal = 0 /\ w # 0
    BY Zenon, <1>1, FileTypes DEF EmptyLayer
  <2> QED BY Zenon, <1>1, <2>1 DEF LayerInv
<1>3. \A f : f \in Upper' <=> (f \in Upper /\ f.wal # w)
  BY Zenon, <1>0, <1>2, <1>16 DEF Upper
<1>4. \A v \in OpenWals' : ~(v <= w)
  <2>1. w \in Nat /\ s \in Nat /\ OpenWals' \subseteq Nat
    BY Zenon, <1>1, FileTypes
  <2> QED BY <1>1, <2>1
<1>5. LayerInv'
  <2>1. LayersApart'
    BY Zenon, <1>3 DEF LayerInv, LayersApart
  <2>2. \A f \in frozen' : f.wal \in rotated' /\ f.recs \subseteq recs'[f.wal]
    BY Zenon, <1>0, <1>2 DEF LayerInv
  <2>3. \A v \in OpenWals' : \A n \in recs'[v] : \E f \in Upper' : f.wal = v /\ n \in f.recs
    <3> SUFFICES ASSUME NEW v \in OpenWals', NEW n \in recs'[v]
                 PROVE  \E f \in Upper' : f.wal = v /\ n \in f.recs
      BY Zenon
    <3>1. v \in OpenWals /\ n \in recs[v] /\ w \in OpenWals /\ ~(v <= w) /\ v # w
      BY Zenon, <1>1, <1>2, <1>4
    <3>2. PICK f \in Upper : f.wal = v /\ n \in f.recs
      BY Zenon, <3>1 DEF LayerInv
    <3> QED BY Zenon, <1>3, <3>1, <3>2
  <2> QED BY Zenon, <1>2, <2>1, <2>2, <2>3 DEF LayerInv
<1>6. recs \in [Ulids -> SUBSET Nat] /\ recs[s] = recs[w] /\ s \in segFiles /\ recs[w] \subseteq Records
      /\ OpenWals \subseteq Ulids /\ segFiles \subseteq Ulids
  BY Zenon, <1>1, FileTypes DEF Sealed
<1>7. R \subseteq recs[w]
  BY Zenon, <1>0 DEF LayerInv
<1>8. \A Q, l : At(Q, l)' = At(Q, l) /\ Net(Q, l)' = Net(Q, l)
  BY Zenon, <1>2, SameLog
<1>9. ASSUME NEW l \in Lbas, NEW c, Shows(l, c), Yields(OpenWals, l, c), ~Bare(OpenWals', l)
      PROVE  Shows(l, c)' /\ Top(OpenWals', l, c)
  <2>1. PICK v \in OpenWals' : At(recs[v], l) # {}
    BY Zenon, <1>9 DEF Bare
  <2>2. PICK n \in recs[v] : log[n].lba = l
    BY Zenon, <2>1 DEF At
  <2>3. PICK f \in Upper : f.wal = v /\ n \in f.recs
    BY Zenon, <1>1, <1>4, <2>1, <2>2 DEF LayerInv
  <2>4. At(f.recs, l) # {}
    BY Zenon, <2>2, <2>3 DEF At
  <2>5. Top(OpenWals, l, c)
    BY Zenon, <1>1, <1>9, <2>1 DEF Yields, Bare
  <2>6. PICK t \in OpenWals : /\ At(recs[t], l) # {} /\ \A g \in OpenWals : At(recs[g], l) # {} => g <= t
                            /\ c = [n |-> Net(recs[t], l), by |-> t]
    BY Zenon, <2>5 DEF Top
  <2>7. t # w
    BY Zenon, <1>1, <1>4, <2>1, <2>6
  <2>8. Top(OpenWals', l, c)
    BY Zenon, <1>1, <2>6, <2>7 DEF Top
  <2>9. PICK g \in Upper : TopLayer(g, l) /\ c = [n |-> Net(g.recs, l), by |-> g.wal]
    BY Zenon, <1>9, <2>4 DEF Shows
  <2>10. g.wal # w
    BY Zenon, <1>4, <2>3, <2>4, <2>9 DEF TopLayer
  <2>11. TopLayer(g, l)'
    BY Zenon, <1>3, <1>8, <2>9 DEF TopLayer
  <2>12. Shows(l, c)'
    BY Zenon, <1>3, <1>8, <2>9, <2>10, <2>11 DEF Shows
  <2> QED BY Zenon, <2>8, <2>12
<1>10. ASSUME NEW l \in Lbas, Bare(OpenWals', l) PROVE Shows(l, base[l])'
  <2>1. ASSUME NEW f \in Upper' PROVE At(f.recs, l) = {}
    <3>1. CASE f = EmptyLayer
      BY Zenon, <3>1 DEF EmptyLayer, At
    <3>2. CASE f # EmptyLayer
      <4>1. f.wal \in OpenWals' /\ f.recs \subseteq recs[f.wal]
        BY Zenon, <1>2, <1>5, <2>1, <3>2 DEF LayerInv, Upper, OpenWals
      <4>2. At(recs[f.wal], l) = {}
        BY Zenon, <1>10, <4>1 DEF Bare
      <4> QED BY Zenon, <4>1, <4>2 DEF At
    <3> QED BY Zenon, <3>1, <3>2
  <2> QED BY Zenon, <1>8, <2>1 DEF Shows
<1>11. ASSUME NEW l \in Lbas, NEW c, Shows(l, c), Yields(OpenWals, l, c), Bare(OpenWals', l), At(recs[w], l) = {}
       PROVE  base'[l] = c /\ (Top(segFiles, l, c) \/ (Bare(segFiles, l) /\ c = NoClaim))
  <2>1. At(R, l) = {}
    BY Zenon, <1>7, <1>11 DEF At
  <2>2. FoldClaims(base, R, w)[l] = base[l]
    BY Zenon, <1>11, <2>1 DEF FoldClaims
  <2>3. base'[l] = base[l]
    BY Zenon, <1>2, <1>6, <1>11, <2>2 DEF ApplyClaims
  <2>4. \A f \in Upper : At(f.recs, l) = {}
    <3>1. ASSUME NEW f \in Upper, At(f.recs, l) # {} PROVE FALSE
      <4>1. CASE f = EmptyLayer
        BY Zenon, <3>1, <4>1 DEF EmptyLayer, At
      <4>2. CASE f # EmptyLayer
        <5>1. f.wal \in OpenWals /\ f.recs \subseteq recs[f.wal]
          BY Zenon, <3>1, <4>2 DEF LayerInv, Upper, OpenWals
        <5>2. At(recs[f.wal], l) = {}
          BY Zenon, <1>1, <1>11, <5>1 DEF Bare
        <5> QED BY Zenon, <3>1, <5>1, <5>2 DEF At
      <4> QED BY Zenon, <4>1, <4>2
    <3> QED BY Zenon, <3>1
  <2>5. c = base[l]
    BY Zenon, <1>11, <2>4 DEF Shows, TopLayer
  <2>6. Bare(OpenWals, l)
    BY Zenon, <1>1, <1>11 DEF Bare
  <2>7. ~Top(OpenWals, l, c)
    BY Zenon, <2>6 DEF Top, Bare
  <2> QED BY Zenon, <1>11, <2>3, <2>5, <2>7 DEF Yields
<1>12. ASSUME NEW l \in Lbas, NEW c, Shows(l, c), Yields(OpenWals, l, c), Bare(OpenWals', l), At(recs[w], l) # {}
       PROVE  base'[l] = [n |-> Net(recs[w], l), by |-> s]
  <2>1. c = [n |-> Net(recs[w], l), by |-> w]
    <3>1. Top(OpenWals, l, c)
      BY Zenon, <1>1, <1>12 DEF Yields, Bare
    <3> QED BY Zenon, <1>1, <1>12, <3>1 DEF Top, Bare
  <2>2. FoldClaims(base, R, w)[l] = c
    <3>1. CASE \E f \in Upper : TopLayer(f, l) /\ c = [n |-> Net(f.recs, l), by |-> f.wal]
      <4>1. PICK f \in Upper : TopLayer(f, l) /\ c = [n |-> Net(f.recs, l), by |-> f.wal]
        BY Zenon, <3>1
      <4>2. f.wal = w
        BY <2>1, <4>1
      <4>3. f \in frozen
        BY Zenon, <1>16, <4>1, <4>2 DEF Upper
      <4>4. L = {f}
        BY Zenon, <1>0, <4>1, <4>2, <4>3 DEF LayerInv, LayersApart, Upper
      <4>5. R = f.recs
        BY Zenon, <1>0, <4>4
      <4> QED BY Zenon, <1>12, <4>1, <4>2, <4>5 DEF FoldClaims, TopLayer
    <3>2. CASE (\A f \in Upper : At(f.recs, l) = {}) /\ c = base[l]
      <4>1. At(R, l) = {}
        <5>1. ASSUME NEW n \in R, log[n].lba = l PROVE FALSE
          <6>1. PICK f \in L : n \in f.recs
            BY Zenon, <1>0, <5>1
          <6>2. f \in Upper /\ n \in At(f.recs, l)
            BY Zenon, <1>0, <5>1, <6>1 DEF At, Upper
          <6> QED BY Zenon, <3>2, <6>2
        <5> QED BY Zenon, <5>1 DEF At
      <4> QED BY Zenon, <1>12, <3>2, <4>1 DEF FoldClaims
    <3> QED BY Zenon, <1>12, <3>1, <3>2 DEF Shows
  <2>3. Net(recs[w], l) \in At(recs[w], l) /\ Net(recs[w], l) \in Records
    BY Zenon, <1>6, <1>12, NetIsLatest
  <2>4. c.by < s /\ c.n # 0 /\ c.n \in At(recs[s], l)
    <3>1. c.by = w /\ c.n = Net(recs[w], l)
      BY Zenon, <2>1
    <3> QED BY Zenon, <1>1, <1>6, <2>3, <3>1, FileTypes
  <2>5. base'[l] = [c EXCEPT !.by = s]
    BY Zenon, <1>2, <1>12, <2>2, <2>4 DEF ApplyClaims
  <2> QED BY Zenon, <2>1, <2>5
<1>13. ASSUME NEW l \in Lbas, Bare(OpenWals', l), At(recs[w], l) # {}
       PROVE  Top(segFiles, l, [n |-> Net(recs[w], l), by |-> s])
  <2>1. PICK N : N = Net(recs[w], l)
    BY Zenon
  <2>2. N \in recs[w] /\ N \in Nat /\ \A m \in At(recs[w], l) : m <= N
    BY Zenon, <1>6, <1>13, <2>1, FileTypes, NetIsLatest
  <2>3. ASSUME NEW t \in segFiles, At(recs[t], l) # {} PROVE ~(s < t)
    <3>1. SUFFICES ASSUME s < t PROVE FALSE
      BY Zenon
    <3>2. PICK m \in recs[t] : m \in At(recs[t], l)
      BY Zenon, <2>3 DEF At
    <3>3. N < m
      BY Zenon, <1>1, <2>2, <3>1, <3>2 DEF Sealed
    <3>4. w \in Wals
      BY Zenon, <1>1 DEF Wals
    <3>5. PICK v \in Wals : m \in recs[v]
      BY Zenon, <2>2, <3>2, <3>3, <3>4 DEF DiskInv, Returns
    <3>6. m \in At(recs[v], l) /\ m \in Nat /\ v \in Nat /\ w \in Nat
      <4>1. recs[t] \subseteq Nat
        BY Zenon, <1>6
      <4> QED BY Zenon, <1>1, <3>2, <3>5, <4>1, FileTypes DEF At
    <3>7. ~(v < w)
      <4>1. v < w => m < N
        BY Zenon, <2>2, <3>4, <3>5 DEF DiskInv, WalOrder
      <4> QED BY <2>2, <3>3, <3>6, <4>1
    <3>8. v # w
      <4>1. v = w => m <= N
        BY Zenon, <2>2, <3>6
      <4> QED BY <2>2, <3>3, <3>6, <4>1
    <3>9. v \in walFiles
      BY Zenon, <1>1, <3>7 DEF Wals, DiskInv, UnlinkOrder
    <3>10. v \in OpenWals'
      BY Zenon, <1>1, <3>8, <3>9
    <3> QED BY Zenon, <1>13, <3>6, <3>10 DEF Bare
  <2>4. \A t \in segFiles : At(recs[t], l) # {} => t <= s
    <3>1. s \in Nat /\ segFiles \subseteq Nat
      BY Zenon, <1>6, FileTypes
    <3>2. \A t \in segFiles : ~(s < t) => t <= s
      BY <3>1
    <3> QED BY Zenon, <2>3, <3>2
  <2> QED BY Zenon, <1>6, <1>13, <2>4 DEF Top
<1>14. ASSUME NEW l \in Lbas PROVE Yields(OpenWals, l, Claim(l))'
  <2>1. PICK c : c = Claim(l)
    BY Zenon
  <2>2. Shows(l, c) /\ Yields(OpenWals, l, c)
    BY Zenon, <1>2, <2>1, ClaimShows DEF LayerInv, ShowsOne, Match
  <2>3. \A d : Shows(l, d)' => d = Claim(l)'
    BY Zenon, <1>5, ShowsClaim DEF LayerInv
  <2>4. \A V, d : Yields(V, l, d) => Yields(V, l, d)'
    BY Zenon, <1>2, SameYields
  <2>5. CASE ~Bare(OpenWals', l)
    <3>1. Shows(l, c)' /\ Yields(OpenWals', l, c)
      BY Zenon, <1>9, <2>2, <2>5 DEF Yields
    <3> QED BY Zenon, <2>3, <2>4, <3>1
  <2>6. CASE Bare(OpenWals', l)
    <3>1. PICK d : d = base'[l]
      BY Zenon
    <3>2. Top(segFiles, l, d) \/ (Bare(segFiles, l) /\ d = NoClaim)
      BY Zenon, <1>11, <1>12, <1>13, <2>2, <2>6, <3>1
    <3>3. Yields(OpenWals', l, d)
      BY Zenon, <2>6, <3>2 DEF Yields
    <3>4. d = Claim(l)'
      BY Zenon, <1>10, <2>3, <2>6, <3>1
    <3> QED BY Zenon, <2>4, <3>3, <3>4
  <2> QED BY Zenon, <2>5, <2>6
<1>15. Match'
  <2>1. (phase' = "opening") = FALSE
    BY Zenon, <1>2
  <2> QED BY Zenon, <1>14, <2>1 DEF Match
<1> QED BY Zenon, <1>5, <1>15

(* A promote of recovery: the replayed WAL's claims move to its segment,   *)
(* the highest.                                                            *)
LEMMA RecoverPromoteClaims ==
  ASSUME TypeInv, Durable, DiskInv, LayerInv, Match, FileSyncLinks, RecoverPromote
  PROVE  LayerInv' /\ Match'
<1>0. PICK w, s : w = NextToPromote /\ s = mint + 1
  BY Zenon
<1>1. /\ w \in Ulids
      /\ IF recs[w] = {}
         THEN UNCHANGED <<recs, segFiles, base>>
         ELSE /\ s \in Ulids /\ s \notin segFiles /\ w < s
              /\ \A t \in segFiles : t < s
              /\ segFiles' = segFiles \cup {s} /\ recs' = [recs EXCEPT ![s] = recs[w]]
              /\ base' = ApplyClaims(FoldClaims(base, recs[w], w), recs[w], s)
  BY Zenon, <1>0, RecoverFacts
<1>2. phase = "opening" /\ UNCHANGED <<log, phase, wal, frozen, delta, rotated>>
  BY Zenon DEF RecoverPromote, Recovering, history
<1>3. (phase = "up") = FALSE /\ (phase' = "up") = FALSE
  BY Zenon, <1>2
<1>4. wal = 0 /\ rotated = {} /\ frozen = {} /\ delta = EmptyLayer
  BY Zenon, <1>3 DEF Durable, MemoryInv, LayerInv
<1>5. OpenWals' = {} /\ Upper' = {EmptyLayer}
  BY Zenon, <1>2, <1>4 DEF OpenWals, Upper
<1>6. LayerInv'
  BY Zenon, <1>2, <1>4, <1>5 DEF LayerInv, LayersApart
<1>7. ASSUME NEW l \in Lbas PROVE Yields({}, l, base[l])'
  <2>1. PICK c : c = base[l]
    BY Zenon
  <2>2. Yields({}, l, c)
    BY Zenon, <1>2, <2>1 DEF Match
  <2>3. CASE recs[w] = {}
    <3>1. Yields({}, l, c)'
      BY Zenon, <1>1, <1>2, <2>2, <2>3, SameYields
    <3> QED BY Zenon, <1>1, <2>1, <2>3, <3>1
  <2>4. CASE recs[w] # {}
    <3>1. /\ s \in Ulids /\ s \notin segFiles /\ w < s /\ \A t \in segFiles : t < s
          /\ segFiles' = segFiles \cup {s} /\ recs' = [recs EXCEPT ![s] = recs[w]]
          /\ base' = ApplyClaims(FoldClaims(base, recs[w], w), recs[w], s)
      BY Zenon, <1>1, <2>4
    <3>2. segFiles \subseteq Ulids
      BY Zenon, FileTypes
    <3>3. recs'[s] = recs[w] /\ \A t \in segFiles : recs'[t] = recs[t]
      BY Zenon, <3>1, <3>2, FileTypes
    <3>4. \A R : At(R, l)' = At(R, l) /\ Net(R, l)' = Net(R, l)
      BY Zenon, <1>2, SameLog
    <3>5. Bare({}, l) /\ Bare({}, l)'
      BY Zenon DEF Bare
    <3>6. CASE At(recs[w], l) = {}
      <4>1. FoldClaims(base, recs[w], w)[l] = c
        BY Zenon, <2>1, <3>6 DEF FoldClaims
      <4>2. base'[l] = c
        BY Zenon, <3>1, <3>6, <4>1 DEF ApplyClaims
      <4>3. (Top(segFiles, l, c) => Top(segFiles, l, c)') /\ (Bare(segFiles, l) => Bare(segFiles, l)')
        <5>1. /\ At(recs'[s], l) = {} /\ \A t \in segFiles : recs'[t] = recs[t]
              /\ \A t : t \in segFiles' <=> t \in segFiles \/ t = s
          BY Zenon, <3>1, <3>3, <3>6
        <5>2. Bare(segFiles, l) => Bare(segFiles, l)'
          BY Zenon, <3>4, <5>1 DEF Bare
        <5>3. Top(segFiles, l, c) => Top(segFiles, l, c)'
          BY Zenon, <3>4, <5>1 DEF Top
        <5> QED BY Zenon, <5>2, <5>3
      <4>4. ~Top({}, l, c)
        BY Zenon DEF Top
      <4> QED BY Zenon, <2>2, <3>5, <4>2, <4>3, <4>4 DEF Yields
    <3>7. CASE At(recs[w], l) # {}
      <4>1. PICK d : d = [n |-> Net(recs[w], l), by |-> w]
        BY Zenon
      <4>2. FoldClaims(base, recs[w], w)[l] = d
        BY Zenon, <3>7, <4>1 DEF FoldClaims
      <4>3. Net(recs[w], l) \in At(recs[w], l) /\ Net(recs[w], l) # 0
        <5>1. recs[w] \subseteq Records /\ 0 \notin Records
          BY Zenon, <1>1, FileTypes
        <5>2. Net(recs[w], l) \in At(recs[w], l) /\ Net(recs[w], l) \in Records
          BY Zenon, <3>7, <5>1, NetIsLatest
        <5> QED BY Zenon, <5>1, <5>2
      <4>4. d.by < s /\ d.n # 0 /\ d.n \in At(recs[w], l)
        <5>1. d.by = w /\ d.n = Net(recs[w], l)
          BY Zenon, <4>1
        <5> QED BY Zenon, <3>1, <4>3, <5>1
      <4>5. base'[l] = [d EXCEPT !.by = s]
        BY Zenon, <3>1, <4>2, <4>4 DEF ApplyClaims
      <4>6. base'[l] = [n |-> Net(recs[w], l), by |-> s]
        BY Zenon, <4>1, <4>5
      <4>7. \A t \in segFiles' : t <= s
        BY <3>1, <3>2, FileTypes
      <4>8. Top(segFiles, l, base[l])'
        <5>1. At(recs[s], l)' # {} /\ Net(recs[s], l)' = Net(recs[w], l)
          BY Zenon, <3>3, <3>4, <3>7
        <5>2. s \in segFiles' /\ base'[l] = [n |-> Net(recs[s], l)', by |-> s]
          BY Zenon, <3>1, <4>6, <5>1
        <5> QED BY Zenon, <4>7, <5>1, <5>2 DEF Top
      <4> QED BY Zenon, <3>5, <4>8 DEF Yields
    <3> QED BY Zenon, <3>6, <3>7
  <2> QED BY Zenon, <2>3, <2>4
<1>8. Match'
  BY Zenon, <1>3, <1>7 DEF Match
<1> QED BY Zenon, <1>6, <1>8

(* The last WAL is replayed into base.                                     *)
LEMMA RecoverLatestClaims ==
  ASSUME TypeInv, TypeInv', Durable, LayerInv, Match, RecoverLatest
  PROVE  LayerInv' /\ Match'
<1>1. /\ phase = "opening" /\ phase' = "up" /\ ~ManyWals
      /\ UNCHANGED <<log, recs, segFiles, frozen, delta, rotated>>
      /\ IF walFiles = {} THEN UNCHANGED base
         ELSE wal' = Max(walFiles) /\ base' = FoldClaims(base, recs[wal'], wal')
  BY Zenon DEF RecoverLatest, Recovering, history, disk, pipeline
<1>2. OpenWals' = walFiles /\ rotated' = {}
  BY Zenon, RecoverLatestFacts
<1>3. frozen = {} /\ delta = EmptyLayer
  <2>1. phase # "up"
    BY Zenon, <1>1
  <2> QED BY Zenon, <2>1 DEF LayerInv
<1>4. Upper' = {EmptyLayer}
  BY Zenon, <1>1, <1>3 DEF Upper
<1>5. \A v, x \in OpenWals' : v <= x
  <2>1. walFiles \subseteq Nat
    BY Zenon, FileTypes
  <2>2. \A v \in walFiles : v <= v
    BY <2>1
  <2> QED BY Zenon, <1>1, <1>2, <2>2 DEF ManyWals
<1>6. LayerInv'
  BY Zenon, <1>1, <1>3, <1>4, <1>5 DEF LayerInv, LayersApart
<1>7. ASSUME NEW l \in Lbas PROVE Yields(OpenWals, l, Claim(l))'
  <2>1. PICK d : d = base'[l]
    BY Zenon
  <2>2. Shows(l, d)'
    <3>1. At(EmptyLayer.recs, l)' = {}
      BY Zenon DEF EmptyLayer, At
    <3> QED BY Zenon, <1>4, <2>1, <3>1 DEF Shows
  <2>3. Claim(l)' = d
    BY Zenon, <1>6, <2>2, ShowsClaim DEF LayerInv
  <2>4. Yields({}, l, base[l])
    BY Zenon, <1>1 DEF Match
  <2>5. Yields(walFiles, l, d)
    <3>1. CASE walFiles = {}
      BY Zenon, <1>1, <2>1, <2>4, <3>1
    <3>2. CASE walFiles # {}
      <4>1. PICK w : w = wal'
        BY Zenon
      <4>2. walFiles = {w}
        <5>1. Max(walFiles) \in walFiles
          <6>1. walFiles \subseteq 0..MaxUlid /\ MaxUlid \in Nat
            BY FileTypes DEF Ulids
          <6> QED BY Zenon, <3>2, <6>1, MaxIsGreatest
        <5> QED BY Zenon, <1>1, <3>2, <4>1, <5>1 DEF ManyWals
      <4>3. d = IF At(recs[w], l) = {} THEN base[l] ELSE [n |-> Net(recs[w], l), by |-> w]
        BY Zenon, <1>1, <2>1, <3>2, <4>1 DEF FoldClaims
      <4>4. w <= w
        BY <4>2, FileTypes
      <4>5. CASE At(recs[w], l) = {}
        <5>1. Bare(walFiles, l) /\ ~Top({}, l, base[l])
          BY Zenon, <4>2, <4>5 DEF Bare, Top
        <5> QED BY Zenon, <2>4, <4>3, <4>5, <5>1 DEF Yields
      <4>6. CASE At(recs[w], l) # {}
        <5>1. Top(walFiles, l, d)
          BY Zenon, <4>2, <4>3, <4>4, <4>6 DEF Top
        <5> QED BY Zenon, <5>1 DEF Yields
      <4> QED BY Zenon, <4>5, <4>6
    <3> QED BY Zenon, <3>1, <3>2
  <2>6. \A V : Yields(V, l, d) => Yields(V, l, d)'
    BY Zenon, <1>1, SameYields
  <2> QED BY Zenon, <1>2, <2>3, <2>5, <2>6
<1>8. Match'
  <2>1. (phase' = "opening") = FALSE
    BY Zenon, <1>1
  <2> QED BY Zenon, <1>7, <2>1 DEF Match
<1> QED BY Zenon, <1>6, <1>8

-----------------------------------------------------------------------------
(* What the claims say.                                                    *)

(* The record a replay of the open WALs over the segments gives is the     *)
(* last one that was not lost.                                             *)
LEMMA YieldsLatest ==
  ASSUME TypeInv, Durable, DiskInv, QueueInv, phase = "up",
         NEW l \in Lbas, NEW c, Yields(OpenWals, l, c)
  PROVE  c.n = Net(Surviving(l), l)
<1>1. /\ \A u \in Ulids : recs[u] \subseteq Records
      /\ OpenWals \subseteq Ulids /\ segFiles \subseteq Ulids /\ Wals \subseteq Ulids /\ Ulids \subseteq Nat
      /\ Records \subseteq Nat
  BY Zenon, FileTypes
<1>2. At(Surviving(l), l) = Surviving(l) /\ Surviving(l) = {n \in Live : log[n].lba = l}
  BY Zenon DEF At, Surviving, Live, Records
<1>3. Surviving(l) \subseteq Records /\ Len(log) \in Nat
  BY Zenon, <1>2, FileTypes DEF Live
<1>4. \A u \in Ulids : \A n \in recs[u] : n \in Live
  BY Zenon, <1>1 DEF DiskInv, InFiles, Live
<1>5. ASSUME NEW n \in Surviving(l)
      PROVE  \/ \E s \in segFiles : n \in At(recs[s], l)
             \/ \E w \in OpenWals : n \in At(recs[w], l)
  BY Zenon, <1>2, <1>5 DEF Durable, HeldInv, InSegment, At
<1>6. ASSUME NEW m \in Surviving(l), \A n \in Surviving(l) : ~(m < n)
      PROVE  m = Net(Surviving(l), l)
  <2>1. Surviving(l) \subseteq 0..Len(log)
    BY <1>3 DEF Records
  <2>2. \A n \in Surviving(l) : n <= m
    <3>1. \A n \in Records : ~(m < n) => n <= m
      <4>1. m \in Nat /\ Records \subseteq Nat
        BY Zenon, <1>1, <1>3, <1>6
      <4> QED BY <4>1
    <3> QED BY Zenon, <1>3, <1>6, <3>1
  <2>3. Max(Surviving(l)) = m
    BY Zenon, <1>3, <2>1, <2>2, MaxIs
  <2> QED BY Zenon, <1>2, <2>3 DEF Net
<1>7. ASSUME NEW u \in Ulids, At(recs[u], l) # {}
      PROVE  /\ Net(recs[u], l) \in Surviving(l) /\ Net(recs[u], l) \in recs[u]
             /\ \A n \in At(recs[u], l) : ~(Net(recs[u], l) < n)
  <2>1. /\ Net(recs[u], l) \in At(recs[u], l) /\ Net(recs[u], l) \in recs[u] /\ Net(recs[u], l) \in Records
        /\ \A n \in At(recs[u], l) : n <= Net(recs[u], l)
    BY Zenon, <1>1, <1>7, NetIsLatest
  <2>2. \A m, n \in Records : n <= m => ~(m < n)
    BY <1>1
  <2> QED BY Zenon, <1>1, <1>2, <1>4, <2>1, <2>2 DEF At
<1>8. \A u, v \in Ulids : u < v \/ u = v \/ v < u
  BY <1>1
<1>9. \A u, v \in Ulids : u <= v => ~(v < u)
  BY <1>1
<1>10. \A m, n \in Records : ~(m < n /\ n < m)
  BY <1>1
<1>11. walFiles = OpenWals \cup ({unlinking} \ {0})
  BY Zenon DEF QueueInv, PipelineWals
<1>12. OpenWals \subseteq Wals /\ walFiles \subseteq Wals
  BY Zenon, <1>11 DEF Wals
<1>13. CASE Top(OpenWals, l, c)
  <2>1. PICK w \in OpenWals : /\ At(recs[w], l) # {} /\ \A g \in OpenWals : At(recs[g], l) # {} => g <= w
                            /\ c = [n |-> Net(recs[w], l), by |-> w]
    BY Zenon, <1>13 DEF Top
  <2>2. PICK m : m = Net(recs[w], l)
    BY Zenon
  <2>3. m \in Surviving(l) /\ m \in recs[w] /\ \A n \in At(recs[w], l) : ~(m < n)
    BY Zenon, <1>1, <1>7, <2>1, <2>2
  <2>4. ASSUME NEW v \in Wals, NEW n \in At(recs[v], l), m < n PROVE FALSE
    <3>1. n \in recs[v] /\ n \in Records /\ m \in Records
      BY Zenon, <1>1, <1>3, <2>3 DEF At
    <3>2. ~(v < w)
      BY Zenon, <1>10, <1>12, <2>3, <2>4, <3>1 DEF DiskInv, WalOrder
    <3>3. v # w
      BY Zenon, <2>3, <2>4
    <3>4. w < v
      BY Zenon, <1>1, <1>8, <3>2, <3>3
    <3>5. v \in walFiles
      BY Zenon, <1>11, <3>2 DEF Wals, DiskInv, UnlinkOrder
    <3>6. v \notin OpenWals
      BY Zenon, <1>1, <1>9, <2>1, <2>4, <3>4
    <3>7. v = unlinking /\ unlinking # 0
      BY Zenon, <1>11, <3>5, <3>6
    <3>8. v <= w
      BY Zenon, <1>11, <3>7 DEF QueueInv, OldestGoes
    <3> QED BY Zenon, <1>1, <1>9, <3>4, <3>8
  <2>5. ASSUME NEW n \in Surviving(l), m < n PROVE FALSE
    <3>1. CASE \E v \in OpenWals : n \in At(recs[v], l)
      BY Zenon, <1>12, <2>4, <2>5, <3>1
    <3>2. CASE \E s \in segFiles : n \in At(recs[s], l)
      <4>1. PICK s \in segFiles : n \in recs[s] /\ log[n].lba = l
        BY Zenon, <3>2 DEF At
      <4>2. PICK v \in Wals : n \in recs[v]
        BY Zenon, <1>12, <2>3, <2>5, <4>1 DEF DiskInv, Returns
      <4>3. n \in At(recs[v], l)
        BY Zenon, <4>1, <4>2 DEF At
      <4> QED BY Zenon, <2>4, <2>5, <4>3
    <3> QED BY Zenon, <1>5, <2>5, <3>1, <3>2
  <2>6. m = Net(Surviving(l), l)
    BY Zenon, <1>6, <2>3, <2>5
  <2> QED BY Zenon, <2>1, <2>2, <2>6
<1>14. CASE Bare(OpenWals, l) /\ Top(segFiles, l, c)
  <2>1. PICK t \in segFiles : /\ At(recs[t], l) # {} /\ \A g \in segFiles : At(recs[g], l) # {} => g <= t
                            /\ c = [n |-> Net(recs[t], l), by |-> t]
    BY Zenon, <1>14 DEF Top
  <2>2. PICK m : m = Net(recs[t], l)
    BY Zenon
  <2>3. m \in Surviving(l) /\ m \in recs[t] /\ \A n \in At(recs[t], l) : ~(m < n)
    BY Zenon, <1>1, <1>7, <2>1, <2>2
  <2>4. ASSUME NEW s \in segFiles, NEW n \in At(recs[s], l), m < n PROVE s < t
    <3>1. s # t /\ s <= t
      BY Zenon, <2>1, <2>3, <2>4
    <3> QED BY Zenon, <1>1, <1>8, <1>9, <3>1
  <2>5. ASSUME NEW n \in Surviving(l), m < n PROVE FALSE
    <3>1. ~\E v \in OpenWals : n \in At(recs[v], l)
      BY Zenon, <1>14 DEF Bare
    <3>2. PICK s \in segFiles : n \in At(recs[s], l)
      BY Zenon, <1>5, <2>5, <3>1
    <3>3. s < t /\ n \in recs[s] /\ log[n].lba = l
      BY Zenon, <2>4, <2>5, <3>2 DEF At
    <3>4. n \in Records /\ m \in Records
      BY Zenon, <1>3, <2>3
    <3>5. CASE \E w \in walFiles : n \in recs[w]
      <4>1. PICK w \in walFiles : n \in recs[w]
        BY Zenon, <3>5
      <4>2. w = unlinking /\ unlinking # 0
        BY Zenon, <1>11, <3>1, <3>3, <4>1 DEF At
      <4>3. PICK x \in segFiles : Sealed(w, x)
        BY Zenon, <4>1, <4>2 DEF QueueInv, OldestGoes
      <4>4. n \in At(recs[x], l)
        BY Zenon, <3>3, <4>1, <4>3 DEF Sealed, At
      <4>5. x < t
        BY Zenon, <2>4, <2>5, <4>4
      <4>6. n < m
        BY Zenon, <2>3, <4>1, <4>3, <4>5 DEF Sealed
      <4> QED BY Zenon, <1>10, <2>5, <3>4, <4>6
    <3>6. CASE \E v \in segFiles : t <= v /\ n \in recs[v]
      <4>1. PICK v \in segFiles : t <= v /\ n \in At(recs[v], l)
        BY Zenon, <3>3, <3>6 DEF At
      <4>2. v < t
        BY Zenon, <2>4, <2>5, <4>1
      <4> QED BY Zenon, <1>1, <1>9, <4>1, <4>2
    <3> QED BY Zenon, <2>3, <2>5, <3>3, <3>5, <3>6 DEF DiskInv, SegOrder
  <2>6. m = Net(Surviving(l), l)
    BY Zenon, <1>6, <2>3, <2>5
  <2> QED BY Zenon, <2>1, <2>2, <2>6
<1>15. CASE Bare(OpenWals, l) /\ Bare(segFiles, l) /\ c = NoClaim
  <2>1. Surviving(l) = {}
    BY Zenon, <1>5, <1>15 DEF Bare
  <2>2. Net(Surviving(l), l) = 0
    BY Zenon, <1>2, <2>1 DEF Net
  <2> QED BY Zenon, <1>15, <2>2 DEF NoClaim
<1> QED BY Zenon, <1>13, <1>14, <1>15 DEF Yields

(* So the invariant says what the properties say.                          *)
LEMMA MapsSayLatest == TypeInv /\ Durable /\ MapsInv => ReadLatest
<1>1. SUFFICES ASSUME TypeInv, Durable, MapsInv, phase = "up", NEW l \in Lbas
               PROVE  HashOf(Claim(l).n) = HashOf(Net(Surviving(l), l))
  BY Zenon DEF ReadLatest
<1>2. Yields(OpenWals, l, Claim(l))
  BY Zenon, <1>1 DEF MapsInv, Match
<1>3. Claim(l).n = Net(Surviving(l), l)
  BY Zenon, <1>1, <1>2, YieldsLatest DEF MapsInv
<1> QED BY Zenon, <1>3

(* The maps and a replay of every WAL yield the same claims.               *)
LEMMA MapsSayDisk == TypeInv /\ MapsInv => MapsMatchDisk
<1>1. SUFFICES ASSUME TypeInv, MapsInv, ActorIdle, NEW l \in Lbas
               PROVE  Claim(l) = DiskClaim(l)
  BY Zenon DEF MapsMatchDisk
<1>2. Yields(OpenWals, l, Claim(l)) /\ walFiles = OpenWals
  BY Zenon, <1>1 DEF ActorIdle, MapsInv, Match, QueueInv, PipelineWals
<1>3. Yields(walFiles, l, DiskClaim(l))
  BY Zenon, <1>1, RebuildYields
<1>4. walFiles \subseteq Ulids
  BY Zenon, <1>1, FileTypes
<1> QED BY Zenon, <1>1, <1>2, <1>3, <1>4, YieldsOne

(* A new volume.                                                           *)
LEMMA InitMaps == ASSUME TypeInv, Init PROVE MapsInv
<1>1. /\ lost = {} /\ recs = [u \in Ulids |-> {}] /\ walFiles = {} /\ segFiles = {} /\ linked = {}
      /\ unlinked = <<>> /\ phase = "up" /\ wal = 0 /\ base = [l \in Lbas |-> NoClaim]
      /\ frozen = {} /\ delta = EmptyLayer /\ rotated = {} /\ jobs = <<>> /\ results = <<>>
      /\ stash = <<>> /\ unlinking = 0
  BY Zenon DEF Init
<1>2. /\ Range(unlinked) = {} /\ DOMAIN unlinked = {} /\ Range(jobs) = {} /\ Range(results) = {} /\ Range(stash) = {}
      /\ DOMAIN jobs = {} /\ DOMAIN results = {}
  BY <1>1, RangeEmpty
<1>3. Wals = {} /\ OpenWals = {} /\ AllJobs = {} /\ Upper = {EmptyLayer}
  BY Zenon, <1>1, <1>2 DEF Wals, OpenWals, AllJobs, Upper
<1>4. \A u \in Ulids : recs[u] = {}
  BY Zenon, <1>1
<1>5. DiskInv
  BY Zenon, <1>1, <1>2, <1>3, <1>4 DEF DiskInv, WalOrder, UnlinkOrder, InFiles, Settled, Returns, SegOrder
<1>6. QueueInv
  <2>1. Faultless /\ JobOrder /\ OldestGoes /\ Promoted
    BY Zenon, <1>1, <1>2, <1>3 DEF Faultless, JobOrder, OldestGoes, Promoted
  <2>2. PipelineWals
    BY Zenon, <1>1, <1>3 DEF PipelineWals
  <2> QED BY Zenon, <2>1, <2>2 DEF QueueInv
<1>7. LayerInv
  BY Zenon, <1>1, <1>3 DEF LayerInv, LayersApart
<1>8. ASSUME NEW l \in Lbas PROVE Yields(OpenWals, l, Claim(l))
  <2>1. At(EmptyLayer.recs, l) = {} /\ base[l] = NoClaim
    BY Zenon, <1>1 DEF EmptyLayer, At
  <2>2. Shows(l, NoClaim)
    BY Zenon, <1>3, <2>1 DEF Shows
  <2>3. Claim(l) = NoClaim
    BY Zenon, <1>7, <2>2, ClaimShows DEF LayerInv, ShowsOne
  <2> QED BY Zenon, <1>1, <1>3, <2>3 DEF Yields, Bare
<1>9. Match
  <2>1. (phase = "opening") = FALSE
    BY Zenon, <1>1
  <2> QED BY Zenon, <1>8, <2>1 DEF Match
<1> QED BY Zenon, <1>5, <1>6, <1>7, <1>9 DEF MapsInv

(* No promote and no unlink fails, so none is retried.                     *)
LEMMA NoFault ==
  ASSUME MaxFailures = 0, MaxUnlinkFailures = 0, TypeInv, QueueInv
  PROVE  ~ExecutePromoteFails /\ ~RemoveWalFails /\ ~StashPromote
<1>1. failures \in Nat /\ unlinkFailures \in Nat /\ results \in Seq(Result)
  BY Zenon, QueueTypes DEF TypeInv, TypeOK
<1>2. ~ExecutePromoteFails /\ ~RemoveWalFails
  BY <1>1 DEF ExecutePromoteFails, RemoveWalFails
<1>3. ASSUME StashPromote PROVE FALSE
  <2>1. results # <<>> /\ Head(results).out = "err"
    BY Zenon, <1>3 DEF StashPromote
  <2>2. Head(results) \in Range(results)
    BY Zenon, <1>1, <2>1, RangeHeadTail
  <2>3. Head(results).out = "ok"
    BY Zenon, <2>2 DEF QueueInv, Faultless
  <2> QED BY Zenon, <2>1, <2>3
<1> QED BY Zenon, <1>2, <1>3

(* Every step keeps the invariant.                                         *)
LEMMA NextMaps ==
  ASSUME FileSyncLinks, MaxFailures = 0, MaxUnlinkFailures = 0,
         TypeInv, TypeInv', Durable, MapsInv, [Next]_vars
  PROVE  MapsInv'
<1>1. DiskInv /\ QueueInv /\ LayerInv /\ Match
  BY Zenon DEF MapsInv
<1>2. \A l \in Lbas, h \in Hashes : Write(l, h) => MapsInv'
  <2> SUFFICES ASSUME NEW l \in Lbas, NEW h \in Hashes, Write(l, h) PROVE MapsInv'
    BY Zenon
  <2>1. phase = "up" /\ Commit(l, h) /\ h \in Contents
    BY Zenon DEF Write, Contents
  <2>2. DiskInv'
    BY Zenon, <1>1, <2>1, CommitDisk
  <2>3. QueueInv'
    BY Zenon, <1>1, <2>1, CommitQueue
  <2>4. LayerInv' /\ Match'
    BY Zenon, <1>1, <2>1, CommitClaims
  <2> QED BY Zenon, <2>2, <2>3, <2>4 DEF MapsInv
<1>3. \A l \in Lbas : WriteZeroes(l) => MapsInv'
  <2> SUFFICES ASSUME NEW l \in Lbas, WriteZeroes(l) PROVE MapsInv'
    BY Zenon
  <2>1. phase = "up" /\ Commit(l, ZERO_HASH) /\ ZERO_HASH \in Contents
    BY Zenon DEF WriteZeroes, Contents
  <2>2. DiskInv'
    BY Zenon, <1>1, <2>1, CommitDisk
  <2>3. QueueInv'
    BY Zenon, <1>1, <2>1, CommitQueue
  <2>4. LayerInv' /\ Match'
    BY Zenon, <1>1, <2>1, CommitClaims
  <2> QED BY Zenon, <2>2, <2>3, <2>4 DEF MapsInv
<1>4. ASSUME TakeHandles \/ UNCHANGED vars PROVE MapsInv'
  <2>1. UNCHANGED <<log, lost, recs, bodies, walFiles, segFiles, synced, linked, unlinked, phase, wal,
                    rotated, jobs, results, stash, unlinking, base, frozen, delta>>
    BY Zenon, <1>4 DEF TakeHandles, vars, history, disk, maps, pipeline
  <2>2. DiskInv' /\ QueueInv'
    BY Zenon, <1>1, <2>1, QuietDisk, QuietQueue
  <2>3. OpenWals' = OpenWals
    BY Zenon, <2>1 DEF OpenWals
  <2>4. LayerInv' /\ Match'
    BY Zenon, <1>1, <2>1, <2>3, QuietClaims
  <2> QED BY Zenon, <2>2, <2>4 DEF MapsInv
<1>5. ASSUME SyncFiles PROVE MapsInv'
  <2>1. UNCHANGED <<log, recs, bodies, walFiles, segFiles, phase, wal,
                    rotated, jobs, results, stash, unlinking, base, frozen, delta>>
    BY Zenon, <1>5 DEF SyncFiles, maps, pipeline
  <2>2. DiskInv'
    BY Zenon, <1>1, <1>5, SyncDisk
  <2>3. QueueInv'
    BY Zenon, <1>1, <2>1, QuietQueue
  <2>4. OpenWals' = OpenWals
    BY Zenon, <2>1 DEF OpenWals
  <2>5. LayerInv' /\ Match'
    BY Zenon, <1>1, <2>1, <2>4, QuietClaims
  <2> QED BY Zenon, <2>2, <2>3, <2>5 DEF MapsInv
<1>6. ASSUME DispatchPromote PROVE MapsInv'
  <2>1. QueueInv'
    BY Zenon, <1>1, <1>6, DispatchQueue
  <2>2. LayerInv' /\ Match'
    BY Zenon, <1>1, <1>6, DispatchClaims
  <2>3. DiskInv'
    <3>1. UNCHANGED <<log, lost, recs, walFiles, segFiles, synced, linked, unlinked>>
      BY Zenon, <1>6 DEF DispatchPromote, history, disk
    <3> QED BY Zenon, <1>1, <3>1, QuietDisk
  <2> QED BY Zenon, <2>1, <2>2, <2>3 DEF MapsInv
<1>7. ASSUME ApplyPromote PROVE MapsInv'
  <2>1. QueueInv'
    BY Zenon, <1>1, <1>7, ApplyQueue
  <2>2. LayerInv' /\ Match'
    BY Zenon, <1>1, <1>7, ApplyClaimsStep
  <2>3. DiskInv'
    <3>1. UNCHANGED <<log, lost, recs, walFiles, segFiles, synced, linked, unlinked>>
      BY Zenon, <1>7 DEF ApplyPromote, history, disk
    <3> QED BY Zenon, <1>1, <3>1, QuietDisk
  <2> QED BY Zenon, <2>1, <2>2, <2>3 DEF MapsInv
<1>8. ASSUME RemoveWal PROVE MapsInv'
  <2>1. DiskInv'
    BY Zenon, <1>1, <1>8, RemoveDisk
  <2>2. QueueInv' /\ OpenWals' = OpenWals
    BY Zenon, <1>1, <1>8, RemoveQueue
  <2>3. UNCHANGED <<log, recs, segFiles, phase, wal, rotated, base, frozen, delta>>
    BY Zenon, <1>8 DEF RemoveWal, history, maps
  <2>4. LayerInv' /\ Match'
    BY Zenon, <1>1, <2>2, <2>3, QuietClaims
  <2> QED BY Zenon, <2>1, <2>2, <2>4 DEF MapsInv
<1>9. ASSUME ExecutePromote PROVE MapsInv'
  <2>1. DiskInv'
    BY Zenon, <1>1, <1>9, ExecuteFacts
  <2>2. QueueInv'
    BY Zenon, <1>1, <1>9, ExecuteQueue
  <2>3. LayerInv' /\ Match'
    BY Zenon, <1>1, <1>9, ExecuteClaims
  <2> QED BY Zenon, <2>1, <2>2, <2>3 DEF MapsInv
<1>10. ASSUME Crash \/ PowerLoss PROVE MapsInv'
  <2>1. LoseMemory
    BY Zenon, <1>10 DEF Crash, PowerLoss
  <2>2. QueueInv' /\ LayerInv' /\ Match'
    BY Zenon, <2>1, LoseQueue, LoseClaims
  <2>3. CASE Crash
    <3>1. UNCHANGED <<log, lost, recs, walFiles, segFiles, synced, linked, unlinked>>
      BY Zenon, <2>3 DEF Crash, LoseMemory, disk
    <3>2. DiskInv'
      BY Zenon, <1>1, <3>1, QuietDisk
    <3> QED BY Zenon, <2>2, <3>2 DEF MapsInv
  <2>4. CASE PowerLoss
    <3>1. DiskInv'
      BY Zenon, <1>1, <2>4, PowerLossDisk
    <3> QED BY Zenon, <2>2, <3>1 DEF MapsInv
  <2> QED BY Zenon, <1>10, <2>3, <2>4
<1>11. ASSUME OpenRebuild PROVE MapsInv'
  <2>1. QueueInv'
    BY Zenon, <1>11, RebuildQueue
  <2>2. LayerInv' /\ Match'
    BY Zenon, <1>1, <1>11, RebuildClaims
  <2>3. UNCHANGED <<log, lost, recs, walFiles, segFiles, synced, linked, unlinked>>
    <3>1. walFiles \ segFiles = walFiles
      BY Zenon DEF Durable, FilesInv
    <3> QED BY Zenon, <1>11, <3>1 DEF OpenRebuild, history
  <2>4. DiskInv'
    BY Zenon, <1>1, <2>3, QuietDisk
  <2> QED BY Zenon, <2>1, <2>2, <2>4 DEF MapsInv
<1>12. ASSUME RecoverPromote PROVE MapsInv'
  <2>1. DiskInv' /\ QueueInv'
    BY Zenon, <1>1, <1>12, RecoverFacts
  <2>2. LayerInv' /\ Match'
    BY Zenon, <1>1, <1>12, RecoverPromoteClaims
  <2> QED BY Zenon, <2>1, <2>2 DEF MapsInv
<1>13. ASSUME RecoverLatest PROVE MapsInv'
  <2>1. QueueInv'
    BY Zenon, <1>13, RecoverLatestFacts
  <2>2. LayerInv' /\ Match'
    BY Zenon, <1>1, <1>13, RecoverLatestClaims
  <2>3. UNCHANGED <<log, lost, recs, walFiles, segFiles, synced, linked, unlinked>>
    BY Zenon, <1>13 DEF RecoverLatest, history, disk
  <2>4. DiskInv'
    BY Zenon, <1>1, <2>3, QuietDisk
  <2> QED BY Zenon, <2>1, <2>2, <2>4 DEF MapsInv
<1>14. ~ExecutePromoteFails /\ ~RemoveWalFails /\ ~StashPromote
  BY Zenon, <1>1, NoFault
<1> QED BY Zenon, <1>2, <1>3, <1>4, <1>5, <1>6, <1>7, <1>8, <1>9, <1>10, <1>11, <1>12, <1>13, <1>14 DEF Next

(* The invariant holds in every state.                                     *)
LEMMA MapsAlways ==
  ASSUME FileSyncLinks, MaxFailures = 0, MaxUnlinkFailures = 0
  PROVE  Spec => [](TypeInv /\ Durable /\ MapsInv)
<1>0. MaxUlid \in Nat
  BY Zenon, VolumeAssumption
<1>1. Init => TypeInv /\ Durable /\ MapsInv
  BY Zenon, <1>0, InitTypes, InitDurable, InitMaps
<1>2. TypeInv /\ Durable /\ MapsInv /\ [Next]_vars => TypeInv' /\ Durable' /\ MapsInv'
  <2> SUFFICES ASSUME TypeInv, Durable, MapsInv, [Next]_vars PROVE TypeInv' /\ Durable' /\ MapsInv'
    BY Zenon
  <2>1. TypeInv'
    BY Zenon, <1>0, NextTypes
  <2>2. Durable'
    BY Zenon, <1>0, NextDurable
  <2>3. MapsInv'
    BY Zenon, <2>1, NextMaps
  <2> QED BY Zenon, <2>1, <2>2, <2>3
<1> QED BY <1>1, <1>2, PTL DEF Spec

(* A read of a block returns the last write to it that was not lost, for   *)
(* any blocks, contents and bounds, when no promote and no unlink fails.   *)
THEOREM ReadsAreLatest ==
  ASSUME FileSyncLinks, MaxFailures = 0, MaxUnlinkFailures = 0
  PROVE  Spec => []ReadLatest
  BY MapsAlways, MapsSayLatest, PTL

(* Between two messages of the actor the maps in memory are what a rebuild *)
(* from disk yields, under the same assumptions.                           *)
THEOREM MapsAreDisk ==
  ASSUME FileSyncLinks, MaxFailures = 0, MaxUnlinkFailures = 0
  PROVE  Spec => []MapsMatchDisk
  BY MapsAlways, MapsSayDisk, PTL
=============================================================================
