---------------------------- MODULE VolumeProofs ----------------------------
(***************************************************************************)
(* What the operators of the volume model return (extrema of sets of       *)
(* naturals, sequences, the maps that writes, promotes and rebuilds        *)
(* compute), and that every step keeps the types, so every state is well   *)
(* typed, for any blocks, contents and bounds.  Then the durability of     *)
(* flushes: what FlushedIsDurable needs of the files, the pipeline and a   *)
(* running sync round, and that every step keeps it.  Last, what is on     *)
(* disk and in the promote pipeline when no promote and no unlink fails:   *)
(* the order of WALs, segments and their records that makes a replay of    *)
(* the WALs over the segments give the latest write.                       *)
(***************************************************************************)
EXTENDS Volume, WellFoundedInduction, TLAPS

-----------------------------------------------------------------------------
(* Extrema of sets of naturals.                                            *)

(* A nonempty set of naturals has a least element.                         *)
LEMMA LeastNat ==
  ASSUME NEW S, S \subseteq Nat, S # {}
  PROVE  \E m \in S : \A x \in S : m <= x
<1> DEFINE R == {ss \in Nat \X Nat : ss[1] < ss[2]}
<1>1. IsWellFoundedOn(R, Nat)
  BY Zenon, NatLessThanWellFounded DEF OpToRel
<1>2. \A x, y \in Nat : x < y => <<x, y>> \in R
  BY Zenon
<1> HIDE DEF R
<1>3. PICK m \in S : \A x \in S : ~ (<<x, m>> \in R)
  BY Zenon, <1>1, WFMin
<1>4. \A x \in S : ~(x < m)
  BY <1>2, <1>3, Zenon
<1>5. \A x \in S : m <= x
  BY <1>4, SMT
<1> QED BY Zenon, <1>5

(* A nonempty bounded set of naturals has a greatest element.              *)
LEMMA GreatestNat ==
  ASSUME NEW b \in Nat, NEW S, S \subseteq 0..b, S # {}
  PROVE  \E m \in S : \A x \in S : x <= m
<1> DEFINE T == {b - x : x \in S}
<1>1. T \subseteq Nat
  OBVIOUS
<1>2. T # {}
  <2> PICK x \in S : TRUE
    BY Zenon
  <2>1. b - x \in T
    BY Zenon
  <2> QED BY Zenon, <2>1
<1>3. PICK t \in T : \A y \in T : t <= y
  BY Zenon, <1>1, <1>2, LeastNat
<1>4. PICK m \in S : t = b - m
  BY Zenon, <1>3
<1>5. \A x \in S : x <= m
  <2> TAKE x \in S
  <2>1. b - x \in T
    BY Zenon
  <2> QED BY <2>1, <1>3, <1>4
<1> QED BY Zenon, <1>5

(* So Max and Min are what their names say.                                *)
LEMMA MaxIsGreatest ==
  ASSUME NEW b \in Nat, NEW S, S \subseteq 0..b, S # {}
  PROVE  Max(S) \in S /\ \A x \in S : x <= Max(S)
<1>1. \E m \in S : \A y \in S : m >= y
  BY Zenon, GreatestNat
<1>2. Max(S) \in S /\ \A y \in S : Max(S) >= y
  BY <1>1, Zenon DEF Max
<1> QED BY <1>2, SMT

\* Min of a non-empty set of naturals is its least element.
LEMMA MinIsLeast ==
  ASSUME NEW S, S \subseteq Nat, S # {}
  PROVE  Min(S) \in S /\ \A x \in S : Min(S) <= x
<1>1. \E m \in S : \A y \in S : m <= y
  BY Zenon, LeastNat
<1> QED BY <1>1, Zenon DEF Min

-----------------------------------------------------------------------------
(* Sequences, and the elements of a queue.                                 *)

\* The shape of a sequence.
LEMMA SeqShape ==
  ASSUME NEW S, NEW q \in Seq(S)
  PROVE  /\ Len(q) \in Nat /\ DOMAIN q = 1..Len(q) /\ q \in [1..Len(q) -> S]
         /\ q # <<>> => Len(q) # 0
  OBVIOUS

\* Nothing is queued in the empty sequence.
LEMMA EmptyShape == ASSUME NEW S PROVE <<>> \in Seq(S) /\ Len(<<>>) = 0
  OBVIOUS

\* What Append builds.
LEMMA AppendShape ==
  ASSUME NEW S, NEW q \in Seq(S), NEW e \in S
  PROVE  /\ Append(q, e) \in Seq(S) /\ Len(Append(q, e)) = Len(q) + 1
         /\ \A i \in 1..Len(q) : Append(q, e)[i] = q[i]
         /\ Append(q, e)[Len(q) + 1] = e
  OBVIOUS

\* What Head and Tail leave.
LEMMA HeadTailShape ==
  ASSUME NEW S, NEW q \in Seq(S), q # <<>>
  PROVE  /\ Head(q) \in S /\ Tail(q) \in Seq(S) /\ Len(Tail(q)) = Len(q) - 1
         /\ \A i \in 1..Len(Tail(q)) : Tail(q)[i] = q[i + 1]
  OBVIOUS

\* What a concatenation joins.
LEMMA ConcatShape ==
  ASSUME NEW S, NEW p \in Seq(S), NEW q \in Seq(S)
  PROVE  /\ p \o q \in Seq(S) /\ Len(p \o q) = Len(p) + Len(q)
         /\ \A i \in 1..Len(p) + Len(q) :
              (p \o q)[i] = IF i <= Len(p) THEN p[i] ELSE q[i - Len(p)]
  OBVIOUS

\* What a prefix keeps.
LEMMA PrefixShape ==
  ASSUME NEW S, NEW q \in Seq(S), NEW k \in 0..Len(q)
  PROVE  /\ SubSeq(q, 1, k) \in Seq(S) /\ Len(SubSeq(q, 1, k)) = k
         /\ \A i \in 1..k : SubSeq(q, 1, k)[i] = q[i]
  OBVIOUS

\* An empty queue has no elements.
LEMMA RangeEmpty == Range(<<>>) = {}
  BY DEF Range

\* A queue holds its head, and its tail nothing else.
LEMMA RangeHeadTail ==
  ASSUME NEW S, NEW q \in Seq(S), q # <<>>
  PROVE  /\ Head(q) \in Range(q) /\ Head(q) \in S
         /\ Tail(q) \in Seq(S) /\ Range(Tail(q)) \subseteq Range(q)
  BY HeadTailShape DEF Range

\* Appending adds one element.
LEMMA RangeAppend ==
  ASSUME NEW S, NEW q \in Seq(S), NEW e \in S
  PROVE  Append(q, e) \in Seq(S) /\ Range(Append(q, e)) = Range(q) \cup {e}
<1>1. Append(q, e) \in Seq(S) /\ DOMAIN Append(q, e) = 1..(Len(q) + 1) /\ DOMAIN q = 1..Len(q)
  BY AppendShape, SeqShape
<1>2. \A i \in 1..Len(q) : Append(q, e)[i] = q[i]
  BY AppendShape
<1>3. Append(q, e)[Len(q) + 1] = e
  BY Zenon, AppendShape
<1> QED BY <1>1, <1>2, <1>3, SeqShape DEF Range

\* Concatenation adds nothing of its own.
LEMMA RangeConcat ==
  ASSUME NEW S, NEW p \in Seq(S), NEW q \in Seq(S)
  PROVE  p \o q \in Seq(S) /\ Range(p \o q) \subseteq Range(p) \cup Range(q)
<1>1. p \o q \in Seq(S) /\ DOMAIN (p \o q) = 1..(Len(p) + Len(q))
  BY ConcatShape, SeqShape
<1>2. \A i \in 1..Len(p) + Len(q) : (p \o q)[i] = IF i <= Len(p) THEN p[i] ELSE q[i - Len(p)]
  BY Zenon, ConcatShape
<1>3. Len(p) \in Nat /\ Len(q) \in Nat /\ DOMAIN p = 1..Len(p) /\ DOMAIN q = 1..Len(q)
  BY Zenon, SeqShape
<1> QED BY <1>1, <1>2, <1>3 DEF Range

(* The job a trigger takes off the stash.                                  *)
LEMMA RetryIsStashed ==
  ASSUME NEW S, NEW q \in Seq(S)
  PROVE  LET retry == SubSeq(q, 1, IF q = <<>> THEN 0 ELSE 1)
         IN  retry \in Seq(S) /\ Range(retry) \subseteq Range(q)
<1> DEFINE k == IF q = <<>> THEN 0 ELSE 1
<1>1. k \in Nat /\ k <= Len(q) /\ DOMAIN q = 1..Len(q) /\ \A i \in 1..k : q[i] \in S
  BY EmptyShape, SeqShape
<1> HIDE DEF k
<1>2. /\ SubSeq(q, 1, k) \in Seq(S) /\ Len(SubSeq(q, 1, k)) = k
      /\ \A i \in 1..k : SubSeq(q, 1, k)[i] = q[i]
  BY <1>1, PrefixShape
<1>3. DOMAIN SubSeq(q, 1, k) = 1..k
  BY Zenon, <1>2, SeqShape
<1>4. Range(SubSeq(q, 1, k)) \subseteq Range(q)
  BY <1>1, <1>2, <1>3, SeqShape DEF Range
<1> QED BY Zenon, <1>2, <1>4 DEF k

-----------------------------------------------------------------------------
(* Types.  Records are numbers of the log, so their sets are bounded and   *)
(* the record that governs a block exists.                                 *)

Claims == [Lbas -> [n: Nat, by: Ulids \cup {0}]]
Owners == [Hashes -> Ulids \cup {0}]
Records == 1..Len(log)

Bounded ==
  /\ \A u \in Ulids : recs[u] \subseteq Records
  /\ \A f \in frozen : f.recs \subseteq Records
  /\ delta.recs \subseteq Records

TypeInv == TypeOK /\ Bounded

\* The length of the log is a number.
LEMMA LogLength ==
  ASSUME log \in Seq([lba: Lbas, hash: Contents])
  PROVE  Len(log) \in Nat
  BY Zenon, SeqShape

\* The governing record of a block is a record of the file.
LEMMA NetType ==
  ASSUME Len(log) \in Nat, NEW R, R \subseteq Records, NEW l
  PROVE  Net(R, l) \in Nat
<1>1. CASE At(R, l) = {}
  BY Zenon, <1>1 DEF Net
<1>2. CASE At(R, l) # {}
  <2>0. At(R, l) \subseteq R
    BY Zenon DEF At
  <2>1. At(R, l) \subseteq 0..Len(log)
    <3>1. Records \subseteq 0..Len(log)
      BY DEF Records
    <3> QED BY <2>0, <3>1, Zenon
  <2>2. Max(At(R, l)) \in At(R, l)
    BY Zenon, <1>2, <2>1, MaxIsGreatest
  <2> QED BY <1>2, <2>1, <2>2 DEF Net
<1> QED BY Zenon, <1>1, <1>2

\* Folding a layer keeps the map a map.
LEMMA FoldClaimsType ==
  ASSUME Len(log) \in Nat, NEW b \in Claims, NEW R, R \subseteq Records,
         NEW w \in Ulids
  PROVE  FoldClaims(b, R, w) \in Claims
<1>1. \A l \in Lbas : Net(R, l) \in Nat
  BY Zenon, NetType
<1> QED BY Zenon, <1>1 DEF FoldClaims, Claims

\* Moving claimants keeps the map a map.
LEMMA ApplyClaimsType ==
  ASSUME NEW b \in Claims, NEW R, NEW s \in Ulids
  PROVE  ApplyClaims(b, R, s) \in Claims
  BY Zenon DEF ApplyClaims, Claims

\* Folding a layer's owners keeps the index an index.
LEMMA FoldOwnersType ==
  ASSUME NEW x \in Owners, NEW own, NEW w \in Ulids
  PROVE  FoldOwners(x, own, w) \in Owners
  BY Zenon DEF FoldOwners, Owners

\* Moving owners keeps the index an index.
LEMMA ApplyOwnersType ==
  ASSUME NEW x \in Owners, NEW B, NEW w, NEW s \in Ulids
  PROVE  ApplyOwners(x, B, w, s) \in Owners
  BY Zenon DEF ApplyOwners, Owners

\* The rebuilt LBA map is a map.
LEMMA RebuiltClaimsType ==
  ASSUME TypeInv, MaxUlid \in Nat, NEW S, S \subseteq Ulids
  PROVE  RebuiltClaims(S) \in Claims
<1> DEFINE holding(l) == {s \in S : At(recs[s], l) # {}}
<1>1. \A l \in Lbas : holding(l) # {} => Max(holding(l)) \in Ulids
  <2> TAKE l \in Lbas
  <2> HAVE holding(l) # {}
  <2>0. holding(l) \subseteq S
    BY Zenon
  <2>1. holding(l) \subseteq 0..MaxUlid
    <3>1. Ulids \subseteq 0..MaxUlid
      BY DEF Ulids
    <3> QED BY <2>0, <3>1, Zenon
  <2>2. Max(holding(l)) \in holding(l)
    <3> HIDE DEF holding
    <3> QED BY Zenon, <2>1, MaxIsGreatest
  <2> QED BY Zenon, <2>2
<1>2. \A l \in Lbas : holding(l) # {} => Net(recs[Max(holding(l))], l) \in Nat
  <2>1. Len(log) \in Nat
    BY Zenon, LogLength DEF TypeInv, TypeOK
  <2> HIDE DEF holding
  <2> QED BY Zenon, <1>1, <2>1, NetType DEF TypeInv, Bounded
<1> HIDE DEF holding
<1>3. \A l \in Lbas : (IF holding(l) = {} THEN NoClaim
                       ELSE [n |-> Net(recs[Max(holding(l))], l), by |-> Max(holding(l))])
                      \in [n: Nat, by: Ulids \cup {0}]
  BY Zenon, <1>1, <1>2 DEF NoClaim
<1>4. RebuiltClaims(S) =
        [l \in Lbas |-> IF holding(l) = {} THEN NoClaim
                        ELSE [n |-> Net(recs[Max(holding(l))], l), by |-> Max(holding(l))]]
  BY Zenon DEF RebuiltClaims, holding
<1> QED BY Zenon, <1>3, <1>4 DEF Claims

\* The rebuilt extent index is an index.
LEMMA RebuiltOwnersType ==
  ASSUME MaxUlid \in Nat, NEW S, S \subseteq Ulids
  PROVE  RebuiltOwners(S) \in Owners
<1> DEFINE holding(h) == {s \in S : \E n \in bodies[s] : HashOf(n) = h}
<1>1. \A h \in Hashes : holding(h) # {} => Min(holding(h)) \in Ulids
  <2> TAKE h \in Hashes
  <2> HAVE holding(h) # {}
  <2>0. holding(h) \subseteq S
    BY Zenon
  <2>1. holding(h) \subseteq Nat
    <3>1. Ulids \subseteq Nat
      BY DEF Ulids
    <3> QED BY <2>0, <3>1, Zenon
  <2>2. Min(holding(h)) \in holding(h)
    <3> HIDE DEF holding
    <3> QED BY Zenon, <2>1, MinIsLeast
  <2> QED BY Zenon, <2>2
<1> HIDE DEF holding
<1>2. RebuiltOwners(S) = [h \in Hashes |-> IF holding(h) = {} THEN 0 ELSE Min(holding(h))]
  BY Zenon DEF RebuiltOwners, holding
<1> QED BY Zenon, <1>1, <1>2 DEF Owners

\* The records that keep a body are records of the WAL.
LEMMA StagedType ==
  ASSUME NEW R, NEW w
  PROVE  Staged(R, w, materialised) \subseteq R
  BY Zenon DEF Staged

-----------------------------------------------------------------------------
(* Every action keeps the types.                                           *)

Result == [job: Job, out: {"ok", "err"}]

-----------------------------------------------------------------------------
(* The write path keeps the types.                                        *)

\* A new volume is well typed.
LEMMA InitTypes == ASSUME MaxUlid \in Nat, Init PROVE TypeInv
<1>1. Bounded
  BY Zenon DEF Init, Bounded, EmptyLayer, Records
<1>2. TypeOK
  BY EmptyShape DEF Init, TypeOK, EmptyLayer, NoClaim, NoRound, Layer, Ulids
<1> QED BY Zenon, <1>1, <1>2 DEF TypeInv

\* An append keeps the types.
LEMMA CommitTypes ==
  ASSUME MaxUlid \in Nat, TypeInv, NEW l \in Lbas, NEW h \in Contents, Commit(l, h)
  PROVE  TypeInv'
<1> DEFINE w == IF wal = 0 THEN mint + 1 ELSE wal
           n == Len(log) + 1
           rec == [lba |-> l, hash |-> h]
<1>0. Len(log) \in Nat
  BY Zenon, LogLength DEF TypeInv, TypeOK
<1>1. w \in Ulids
  BY DEF TypeInv, TypeOK, Commit, Ulids
<1>2. /\ log' \in Seq([lba: Lbas, hash: Contents]) /\ Len(log') = Len(log) + 1
  BY AppendShape DEF TypeInv, TypeOK, Commit
<1>3. Records \subseteq Records' /\ n \in Records' /\ n \in Nat
  BY <1>0, <1>2 DEF Records
<1>4. /\ recs' = [recs EXCEPT ![w] = @ \cup {n}]
      /\ walFiles' = walFiles \cup {w} /\ wal' = w /\ mint' = IF wal = 0 THEN w ELSE mint
  BY Zenon DEF Commit
<1>5. delta'.recs = delta.recs \cup {n} /\ delta' \in Layer
  BY Zenon, <1>1, <1>3 DEF Commit, Layer, TypeInv, TypeOK, Contents
<1> HIDE DEF w, n
<1>6. Bounded'
  <2>1. \A u \in Ulids : recs'[u] \subseteq Records'
    BY Zenon, <1>1, <1>3, <1>4 DEF TypeInv, TypeOK, Bounded
  <2>2. frozen' = frozen
    BY Zenon DEF Commit
  <2> QED BY Zenon, <2>1, <2>2, <1>3, <1>5 DEF TypeInv, Bounded
<1>7. recs' \in [Ulids -> SUBSET Nat]
  BY Zenon, <1>1, <1>3, <1>4 DEF TypeInv, TypeOK
<1>8. /\ walFiles' \subseteq Ulids /\ wal' \in Ulids /\ mint' \in Nat
  <2>1. w \in Nat
    BY <1>1 DEF Ulids
  <2> QED BY Zenon, <1>1, <1>4, <2>1 DEF TypeInv, TypeOK
<1>9. UNCHANGED <<flushed, lost, bodies, segFiles, synced, linked, unlinked,
                  phase, base, index, frozen, pipeline, syncing, faults>>
  BY Zenon DEF Commit
<1>10. TypeOK'
  BY Zenon, <1>2, <1>5, <1>7, <1>8, <1>9 DEF TypeInv, TypeOK, pipeline, faults
<1> QED BY Zenon, <1>6, <1>10 DEF TypeInv

\* A sync round keeps the types.
LEMMA SyncTypes ==
  ASSUME MaxUlid \in Nat, TypeInv, TakeHandles \/ SyncFiles
  PROVE  TypeInv'
<1>0. Len(log) \in Nat
  BY Zenon, LogLength DEF TypeInv, TypeOK
<1>1. CASE TakeHandles
  <2>1. Bounded'
    BY Zenon, <1>1 DEF TakeHandles, TypeInv, Bounded, Records, history, disk, maps
  <2>2. syncing' \in [files: SUBSET Ulids, upto: Nat, at: {"idle", "busy"}]
    BY Zenon, <1>0, <1>1 DEF TakeHandles, TypeInv, TypeOK
  <2>3. TypeOK'
    BY Zenon, <1>1, <2>2 DEF TakeHandles, TypeInv, TypeOK, history, disk, maps, pipeline, faults
  <2> QED BY Zenon, <2>1, <2>3 DEF TypeInv
<1>2. CASE SyncFiles
  <2>1. Bounded'
    BY Zenon, <1>2 DEF SyncFiles, TypeInv, Bounded, Records, maps
  <2>2. synced' \in [Ulids -> SUBSET Nat]
    BY Zenon, <1>2 DEF SyncFiles, SyncedWith, TypeInv, TypeOK
  <2>3. linked' \subseteq Ulids
    BY Zenon, <1>2 DEF SyncFiles, LinkedWith, TypeInv, TypeOK
  <2>4. flushed' \in Nat
    <3>1. flushed \in Nat /\ syncing.upto \in Nat
      BY Zenon DEF TypeInv, TypeOK
    <3>2. {flushed, syncing.upto} \subseteq 0..(flushed + syncing.upto)
      BY <3>1
    <3>3. Max({flushed, syncing.upto}) \in {flushed, syncing.upto}
      BY <3>1, <3>2, MaxIsGreatest
    <3> QED BY Zenon, <1>2, <3>1, <3>3 DEF SyncFiles
  <2>5. TypeOK'
    BY Zenon, <1>2, <2>2, <2>3, <2>4 DEF SyncFiles, NoRound, TypeInv, TypeOK, maps, pipeline, faults
  <2> QED BY Zenon, <2>1, <2>5 DEF TypeInv
<1> QED BY Zenon, <1>1, <1>2

\* A rotation keeps the types.
LEMMA DispatchTypes ==
  ASSUME MaxUlid \in Nat, TypeInv, DispatchPromote
  PROVE  TypeInv'
<1> DEFINE retry == SubSeq(stash, 1, IF stash = <<>> THEN 0 ELSE 1)
<1>1. /\ jobs \in Seq(Job) /\ stash \in Seq(Job) /\ mint \in Nat
      /\ wal \in Ulids \cup {0} /\ delta \in Layer /\ frozen \subseteq Layer /\ rotated \subseteq Ulids
  BY Zenon DEF TypeInv, TypeOK
<1>2. retry \in Seq(Job) /\ stash' \in Seq(Job)
  <2>1. stash # <<>> => Tail(stash) \in Seq(Job)
    BY Zenon, <1>1, HeadTailShape
  <2>2. retry \in Seq(Job)
    BY Zenon, <1>1, RetryIsStashed
  <2> QED BY Zenon, <1>1, <2>1, <2>2 DEF DispatchPromote
<1>3. UNCHANGED <<history, disk, phase, base, index, results, unlinking, syncing, faults>>
  BY Zenon DEF DispatchPromote
<1>4. CASE pending = {}
  <2>1. jobs' = jobs \o retry /\ UNCHANGED <<mint, wal, frozen, delta, rotated>>
    BY Zenon, <1>4 DEF DispatchPromote
  <2> HIDE DEF retry
  <2>2. jobs' \in Seq(Job)
    BY Zenon, <1>1, <1>2, <2>1, RangeConcat
  <2>3. Bounded'
    BY Zenon, <1>3, <2>1 DEF TypeInv, Bounded, Records, history, disk
  <2>4. TypeOK'
    BY Zenon, <1>2, <1>3, <2>1, <2>2 DEF TypeInv, TypeOK, history, disk, faults
  <2> QED BY Zenon, <2>3, <2>4 DEF TypeInv
<1>5. CASE pending # {}
  <2>0. wal \in Ulids /\ pending = recs[wal] /\ pending \subseteq Nat
    BY Zenon, <1>1, <1>5 DEF pending, TypeInv, TypeOK
  <2>1. /\ mint + 2 <= MaxUlid /\ mint' = mint + 2 /\ wal' = 0 /\ delta' = EmptyLayer
        /\ jobs' = jobs \o Append(retry, PromoteJob(mint + 1))
        /\ frozen' = IF delta = EmptyLayer THEN frozen ELSE frozen \cup {delta}
        /\ rotated' = rotated \cup {wal}
    BY Zenon, <1>5 DEF DispatchPromote
  <2>2. PromoteJob(mint + 1) \in Job
    <3>1. mint + 1 \in Ulids
      BY <1>1, <2>1 DEF Ulids
    <3>2. Staged(pending, wal, materialised) \subseteq Nat
      BY Zenon, <2>0, StagedType
    <3> QED BY Zenon, <2>0, <3>1, <3>2 DEF PromoteJob, Job
  <2> HIDE DEF retry
  <2>3. jobs' \in Seq(Job)
    BY Zenon, <1>1, <1>2, <2>1, <2>2, RangeConcat, RangeAppend
  <2>4. frozen' \subseteq Layer /\ delta' \in Layer /\ mint' \in Nat /\ rotated' \subseteq Ulids
    BY <1>1, <2>0, <2>1 DEF EmptyLayer, Layer
  <2>5. Bounded'
    BY Zenon, <1>3, <2>1 DEF TypeInv, Bounded, Records, history, disk, EmptyLayer
  <2>6. TypeOK'
    BY Zenon, <1>2, <1>3, <2>1, <2>3, <2>4 DEF TypeInv, TypeOK, history, disk, faults
  <2> QED BY Zenon, <2>5, <2>6 DEF TypeInv
<1> QED BY Zenon, <1>4, <1>5

-----------------------------------------------------------------------------
(* The worker's write of a segment, shared by its three callers.           *)
LEMMA WriteSegmentTypes ==
  ASSUME TypeInv, NEW s \in Ulids, NEW w \in Ulids, NEW B, B \subseteq Nat,
         WriteSegment(s, w, B)
  PROVE  /\ recs' \in [Ulids -> SUBSET Nat] /\ bodies' \in [Ulids -> SUBSET Nat]
         /\ synced' \in [Ulids -> SUBSET Nat] /\ segFiles' \subseteq Ulids
         /\ \A u \in Ulids : recs'[u] \subseteq Records
  BY Zenon DEF TypeInv, TypeOK, Bounded, WriteSegment, SyncedWith

\* The worker's write keeps the types.
LEMMA ExecuteTypes ==
  ASSUME MaxUlid \in Nat, TypeInv, ExecutePromote \/ ExecutePromoteFails
  PROVE  TypeInv'
<1> DEFINE j == Head(jobs)
<1>1. j \in Job /\ jobs' \in Seq(Job) /\ j.seg \in Ulids /\ j.wal \in Ulids /\ j.bodies \subseteq Nat
  <2>1. jobs \in Seq(Job) /\ jobs # <<>> /\ jobs' = Tail(jobs)
    BY Zenon DEF TypeInv, TypeOK, ExecutePromote, ExecutePromoteFails
  <2>2. Head(jobs) \in Job /\ Tail(jobs) \in Seq(Job)
    BY Zenon, <2>1, HeadTailShape
  <2> QED BY Zenon, <2>1, <2>2 DEF Job
<1>2. results' \in Seq(Result)
  <2>1. results \in Seq(Result)
    BY Zenon DEF TypeInv, TypeOK, Result
  <2>2. [job |-> j, out |-> "ok"] \in Result /\ [job |-> j, out |-> "err"] \in Result
    BY Zenon, <1>1 DEF Result
  <2>3. \/ results' = Append(results, [job |-> j, out |-> "ok"])
        \/ results' = Append(results, [job |-> j, out |-> "err"])
    BY Zenon DEF ExecutePromote, ExecutePromoteFails
  <2> HIDE DEF j
  <2> QED BY <2>1, <2>2, <2>3, AppendShape
<1>3. /\ UNCHANGED <<history, walFiles, unlinked, phase, mint, wal, maps, rotated, stash,
                     unlinking, syncing, crashes, unlinkFailures>>
      /\ failures' \in Nat
  BY DEF ExecutePromote, ExecutePromoteFails, TypeInv, TypeOK, faults
<1>4. /\ recs' \in [Ulids -> SUBSET Nat] /\ bodies' \in [Ulids -> SUBSET Nat]
      /\ synced' \in [Ulids -> SUBSET Nat] /\ segFiles' \subseteq Ulids /\ linked' \subseteq Ulids
      /\ \A u \in Ulids : recs'[u] \subseteq Records
  <2>1. CASE /\ WriteSegment(j.seg, j.wal, j.bodies)
             /\ linked' = LinkedWith({j.wal}) \/ linked' = LinkedWith({j.wal}) \cup {j.seg}
    <3>1. linked' \subseteq Ulids
      BY Zenon, <1>1, <2>1 DEF LinkedWith, TypeInv, TypeOK
    <3> QED BY Zenon, <1>1, <2>1, <3>1, WriteSegmentTypes
  <2>2. CASE UNCHANGED <<recs, bodies, segFiles, synced, linked>>
    BY Zenon, <2>2 DEF TypeInv, TypeOK, Bounded
  <2> QED BY Zenon, <2>1, <2>2 DEF ExecutePromote, ExecutePromoteFails, CommitSegment
<1> HIDE DEF j
<1>5. Bounded'
  BY Zenon, <1>3, <1>4 DEF TypeInv, Bounded, Records, history, maps
<1>6. TypeOK'
  BY Zenon, <1>1, <1>2, <1>3, <1>4 DEF TypeInv, TypeOK, Result, history, maps
<1> QED BY Zenon, <1>5, <1>6 DEF TypeInv

\* The apply keeps the types.
LEMMA ApplyTypes ==
  ASSUME MaxUlid \in Nat, TypeInv, ApplyPromote
  PROVE  TypeInv'
<1> DEFINE j == Head(results).job
           layer == {f \in frozen : f.wal = j.wal}
           R == UNION {f.recs : f \in layer}
           own == UNION {f.own : f \in layer}
<1>1. /\ j \in Job /\ j.wal \in Ulids /\ j.seg \in Ulids
      /\ results' \in Seq(Result)
  <2>1. results \in Seq(Result) /\ results # <<>> /\ results' = Tail(results)
    BY Zenon DEF TypeInv, TypeOK, ApplyPromote, Result
  <2>2. Head(results) \in Result /\ Tail(results) \in Seq(Result)
    BY Zenon, <2>1, HeadTailShape
  <2> QED BY Zenon, <2>1, <2>2 DEF Result, Job
<1>2. Len(log) \in Nat /\ base \in Claims /\ index \in Owners
  BY Zenon, LogLength DEF TypeInv, TypeOK, Claims, Owners
<1>3. R \subseteq Records
  BY Zenon DEF TypeInv, Bounded
<1>4. /\ base' = ApplyClaims(FoldClaims(base, R, j.wal), recs[j.seg], j.seg)
      /\ index' = ApplyOwners(FoldOwners(index, own, j.wal), j.bodies, j.wal, j.seg)
      /\ frozen' = frozen \ layer /\ rotated' = rotated \ {j.wal} /\ unlinking' = j.wal
      /\ UNCHANGED <<history, disk, phase, mint, wal, delta, jobs, stash, syncing, faults>>
  BY Zenon DEF ApplyPromote
<1> HIDE DEF j, layer, R, own
<1>5. base' \in Claims
  BY Zenon, <1>1, <1>2, <1>3, <1>4, FoldClaimsType, ApplyClaimsType
<1>6. index' \in Owners
  BY Zenon, <1>1, <1>2, <1>4, FoldOwnersType, ApplyOwnersType
<1>7. Bounded'
  BY Zenon, <1>4 DEF TypeInv, Bounded, Records, history, disk
<1>8. TypeOK'
  BY Zenon, <1>1, <1>4, <1>5, <1>6 DEF TypeInv, TypeOK, Claims, Owners, Result, history, disk, faults
<1> QED BY Zenon, <1>7, <1>8 DEF TypeInv

\* Stashing a failed promote keeps the types.
LEMMA StashTypes ==
  ASSUME MaxUlid \in Nat, TypeInv, StashPromote
  PROVE  TypeInv'
<1>1. results \in Seq(Result) /\ results # <<>> /\ stash \in Seq(Job)
  BY Zenon DEF TypeInv, TypeOK, StashPromote, Result
<1>2. Head(results) \in Result /\ Tail(results) \in Seq(Result)
  BY Zenon, <1>1, HeadTailShape
<1>3. Append(stash, Head(results).job) \in Seq(Job)
  BY Zenon, <1>1, <1>2, AppendShape DEF Result
<1>4. Bounded'
  BY Zenon DEF StashPromote, TypeInv, Bounded, Records, history, disk, maps
<1>5. TypeOK'
  BY Zenon, <1>2, <1>3 DEF StashPromote, TypeInv, TypeOK, Result, history, disk, maps, faults
<1> QED BY Zenon, <1>4, <1>5 DEF TypeInv

\* The unlink keeps the types.
LEMMA RemoveTypes ==
  ASSUME MaxUlid \in Nat, TypeInv, RemoveWal \/ RemoveWalFails
  PROVE  TypeInv'
<1>1. unlinking \in Ulids /\ unlinked \in Seq(Ulids)
  BY Zenon DEF TypeInv, TypeOK, RemoveWal, RemoveWalFails
<1>2. Append(unlinked, unlinking) \in Seq(Ulids)
  BY Zenon, <1>1, AppendShape
<1>3. Bounded'
  BY Zenon DEF RemoveWal, RemoveWalFails, TypeInv, Bounded, Records, history, disk, maps
<1>4. CASE RemoveWal
  BY Zenon, <1>2, <1>3, <1>4 DEF RemoveWal, TypeInv, TypeOK, history, maps, faults
<1>5. CASE RemoveWalFails
  <2>1. unlinkFailures' \in Nat
    <3>1. unlinkFailures \in Nat /\ unlinkFailures' = unlinkFailures + 1
      BY Zenon, <1>5 DEF RemoveWalFails, TypeInv, TypeOK
    <3> QED BY <3>1
  <2> QED BY Zenon, <1>3, <1>5, <2>1 DEF RemoveWalFails, TypeInv, TypeOK, history, disk, maps
<1> QED BY Zenon, <1>4, <1>5

(* What memory holds after a crash.                                        *)
LEMMA LoseMemoryTypes ==
  ASSUME TypeInv, LoseMemory
  PROVE  /\ log' \in Seq([lba: Lbas, hash: Contents]) /\ flushed' \in Nat
         /\ phase' = "down" /\ mint' \in Nat /\ wal' = 0 /\ unlinking' = 0
         /\ base' \in Claims /\ index' \in Owners /\ frozen' = {} /\ delta' = EmptyLayer
         /\ rotated' = {} /\ jobs' \in Seq(Job) /\ stash' \in Seq(Job) /\ results' \in Seq(Result)
         /\ syncing' \in [files: SUBSET Ulids, upto: Nat, at: {"idle", "busy"}]
         /\ {crashes', failures', unlinkFailures'} \subseteq Nat
         /\ log' = log
  BY EmptyShape DEF LoseMemory, TypeInv, TypeOK, Claims, Owners, NoClaim, NoRound

\* The empty layer is a layer.
LEMMA EmptyLayerType == EmptyLayer \in Layer /\ EmptyLayer.recs = {}
  BY Zenon DEF EmptyLayer, Layer

\* A crash keeps the types.
LEMMA CrashTypes ==
  ASSUME MaxUlid \in Nat, TypeInv, Crash
  PROVE  TypeInv'
<1>1. LoseMemory /\ UNCHANGED <<lost, disk>>
  BY Zenon DEF Crash
<1>2. Bounded'
  BY Zenon, <1>1, LoseMemoryTypes, EmptyLayerType DEF TypeInv, Bounded, Records, disk
<1>3. TypeOK'
  BY Zenon, <1>1, LoseMemoryTypes, EmptyLayerType DEF TypeInv, TypeOK, disk, Claims, Owners, Result
<1> QED BY Zenon, <1>2, <1>3 DEF TypeInv

(* The files a power loss leaves: every linked one, and no new one.        *)
LEMMA PowerLossFiles ==
  ASSUME TypeInv, PowerLoss
  PROVE  \E W, S, cut :
           /\ W \subseteq walFiles \cup Range(unlinked) /\ walFiles \cap linked \subseteq W
           /\ S \subseteq segFiles /\ segFiles \cap linked \subseteq S
           /\ \A w \in W : synced[w] \subseteq 0..cut[w]
           /\ Keep(W, S, cut)
<1> DEFINE back(k) == {unlinked[i] : i \in (k + 1)..Len(unlinked)}
           W(gone, k) == (walFiles \ gone) \cup back(k)
<1>1. PICK gone \in SUBSET ((walFiles \cup segFiles) \ linked), k \in 0..Len(unlinked) :
        \E cut \in [W(gone, k) -> 0..Len(log)] :
          /\ \A w \in W(gone, k) : cut[w] \in recs[w] \cup {0} /\ synced[w] \subseteq 0..cut[w]
          /\ Keep(W(gone, k), segFiles \ gone, cut)
  BY Zenon DEF PowerLoss
<1>2. PICK cut : /\ \A w \in W(gone, k) : synced[w] \subseteq 0..cut[w]
                 /\ Keep(W(gone, k), segFiles \ gone, cut)
  BY <1>1, Zenon
<1>3. back(k) \subseteq Range(unlinked)
  BY SeqShape DEF TypeInv, TypeOK, Range
<1>4. /\ W(gone, k) \subseteq walFiles \cup Range(unlinked) /\ walFiles \cap linked \subseteq W(gone, k)
      /\ segFiles \ gone \subseteq segFiles /\ segFiles \cap linked \subseteq segFiles \ gone
  BY Zenon, <1>3
<1> HIDE DEF W, back
<1> QED BY <1>2, <1>4, Zenon

\* A power loss keeps the types.
LEMMA PowerLossTypes ==
  ASSUME MaxUlid \in Nat, TypeInv, PowerLoss
  PROVE  TypeInv'
<1>1. LoseMemory
  BY Zenon DEF PowerLoss
<1>2. PICK W, S, cut : /\ W \subseteq walFiles \cup Range(unlinked) /\ S \subseteq segFiles
                       /\ Keep(W, S, cut)
  BY Zenon, PowerLossFiles
<1>3. Range(unlinked) \subseteq Ulids
  BY SeqShape DEF TypeInv, TypeOK, Range
<1>4. walFiles' \subseteq Ulids /\ segFiles' \subseteq Ulids /\ linked' \subseteq Ulids
  BY Zenon, <1>2, <1>3 DEF TypeInv, TypeOK, Keep
<1>5. \A u \in Ulids : recs'[u] \subseteq recs[u]
  BY Zenon, <1>2 DEF TypeInv, TypeOK, Keep
<1>6. recs' \in [Ulids -> SUBSET Nat]
  <2>1. recs' = [u \in Ulids |-> recs'[u]]
    BY Zenon, <1>2 DEF Keep
  <2> QED BY Zenon, <1>5, <2>1 DEF TypeInv, TypeOK
<1>7. bodies' \in [Ulids -> SUBSET Nat] /\ synced' \in [Ulids -> SUBSET Nat]
  BY Zenon, <1>2, <1>6 DEF TypeInv, TypeOK, Keep
<1>8. lost' \subseteq Nat
  <2>1. Len(log) \in Nat
    BY Zenon, LogLength DEF TypeInv, TypeOK
  <2>2. lost' \subseteq lost \cup 1..Len(log)
    BY <1>2, Zenon DEF Keep
  <2> QED BY <2>1, <2>2 DEF TypeInv, TypeOK
<1>9. Bounded'
  BY Zenon, <1>1, <1>5, LoseMemoryTypes, EmptyLayerType DEF TypeInv, Bounded, Records
<1>10. unlinked' \in Seq(Ulids)
  BY Zenon, <1>2, EmptyShape DEF Keep
<1>11. TypeOK'
  BY Zenon, <1>1, <1>4, <1>6, <1>7, <1>8, <1>10, LoseMemoryTypes, EmptyLayerType
     DEF TypeOK, Claims, Owners, Result
<1> QED BY Zenon, <1>9, <1>11 DEF TypeInv

(* The mint of an opened volume is at or above every file on disk.         *)
LEMMA RebuiltMint ==
  ASSUME MaxUlid \in Nat, TypeInv, OpenRebuild
  PROVE  mint' \in 0..MaxUlid /\ \A u \in segFiles \cup walFiles' : u <= mint'
<1> DEFINE F == segFiles \cup walFiles' \cup {0}
<1>1. F \subseteq 0..MaxUlid
  BY DEF OpenRebuild, TypeInv, TypeOK, Ulids
<1>2. mint' = Max(F)
  BY Zenon DEF OpenRebuild
<1>3. F # {} /\ 0 \in F
  BY Zenon
<1> HIDE DEF F
<1>4. Max(F) \in F /\ \A u \in F : u <= Max(F)
  BY Zenon, <1>1, <1>3, MaxIsGreatest
<1> QED BY Zenon, <1>1, <1>2, <1>4 DEF F

\* The rebuild at open keeps the types.
LEMMA RebuildTypes ==
  ASSUME MaxUlid \in Nat, TypeInv, OpenRebuild
  PROVE  TypeInv'
<1>1. base' \in Claims /\ index' \in Owners
  BY Zenon, RebuiltClaimsType, RebuiltOwnersType DEF OpenRebuild, TypeInv, TypeOK
<1>2. mint' \in Nat
  BY RebuiltMint
<1>3. Bounded'
  BY Zenon DEF OpenRebuild, TypeInv, Bounded, Records, history
<1>4. TypeOK'
  BY Zenon, <1>1, <1>2 DEF OpenRebuild, TypeInv, TypeOK, Claims, Owners, history, pipeline, faults
<1> QED BY Zenon, <1>3, <1>4 DEF TypeInv

(* The WAL recovery promotes next is the lowest on disk.                   *)
LEMMA NextToPromoteIsLowest ==
  ASSUME MaxUlid \in Nat, TypeInv, walFiles # {}
  PROVE  /\ NextToPromote \in walFiles /\ NextToPromote \in Ulids
         /\ \A w \in walFiles : NextToPromote <= w
<1>1. walFiles \subseteq Nat
  BY DEF TypeInv, TypeOK, Ulids
<1>2. Min(walFiles) \in walFiles /\ \A w \in walFiles : Min(walFiles) <= w
  BY Zenon, <1>1, MinIsLeast
<1> QED BY Zenon, <1>2 DEF NextToPromote, TypeInv, TypeOK

\* A recovery promote keeps the types.
LEMMA RecoverPromoteTypes ==
  ASSUME MaxUlid \in Nat, TypeInv, RecoverPromote
  PROVE  TypeInv'
<1> DEFINE w == NextToPromote
           claims == FoldClaims(base, recs[w], w)
           owners == FoldOwners(index, WalHashes(w), w)
           B == Staged(recs[w], w, owners)
<1>0. walFiles # {}
  BY Zenon DEF RecoverPromote, ManyWals
<1>1. w \in Ulids
  BY Zenon, <1>0, NextToPromoteIsLowest
<1>2. /\ unlinking' = w
      /\ UNCHANGED <<history, walFiles, unlinked, phase, wal, frozen, delta,
                     rotated, jobs, results, stash, syncing, faults>>
  BY Zenon DEF RecoverPromote
<1>3. CASE recs[w] = {}
  <2>1. UNCHANGED <<mint, recs, bodies, segFiles, synced, linked, base, index>>
    BY Zenon, <1>3 DEF RecoverPromote
  <2> HIDE DEF w
  <2>2. Bounded'
    BY Zenon, <1>2, <2>1 DEF TypeInv, Bounded, Records, history
  <2>3. TypeOK'
    BY Zenon, <1>1, <1>2, <2>1 DEF TypeInv, TypeOK, history, faults
  <2> QED BY Zenon, <2>2, <2>3 DEF TypeInv
<1>4. CASE recs[w] # {}
  <2>1. /\ mint + 2 <= MaxUlid /\ mint' = mint + 2 /\ CommitSegment(mint + 1, w, B)
        /\ base' = ApplyClaims(claims, recs[w], mint + 1)
        /\ index' = ApplyOwners(owners, B, w, mint + 1)
    BY Zenon, <1>4 DEF RecoverPromote
  <2>2. mint + 1 \in Ulids /\ mint' \in Nat
    <3>1. mint + 2 <= MaxUlid /\ mint' = mint + 2
      BY Zenon, <1>4 DEF RecoverPromote
    <3>2. mint \in Nat
      BY Zenon DEF TypeInv, TypeOK
    <3> QED BY <3>1, <3>2 DEF Ulids
  <2>3. recs[w] \subseteq Nat /\ recs[w] \subseteq Records /\ Len(log) \in Nat
    BY Zenon, <1>1, LogLength DEF TypeInv, TypeOK, Bounded
  <2>4. B \subseteq Nat
    BY Zenon, <2>3 DEF Staged
  <2> HIDE DEF B, w
  <2>5. claims \in Claims /\ owners \in Owners
    <3>1. base \in Claims /\ index \in Owners
      BY Zenon DEF TypeInv, TypeOK, Claims, Owners
    <3> QED BY Zenon, <1>1, <2>3, <3>1, FoldClaimsType, FoldOwnersType
  <2> HIDE DEF claims, owners
  <2>6. base' \in Claims /\ index' \in Owners
    BY Zenon, <2>1, <2>2, <2>5, ApplyClaimsType, ApplyOwnersType
  <2>7. /\ recs' \in [Ulids -> SUBSET Nat] /\ bodies' \in [Ulids -> SUBSET Nat]
        /\ synced' \in [Ulids -> SUBSET Nat] /\ segFiles' \subseteq Ulids
        /\ \A u \in Ulids : recs'[u] \subseteq Records
    <3>1. WriteSegment(mint + 1, w, B)
      BY Zenon, <2>1 DEF CommitSegment
    <3> QED BY Zenon, <1>1, <2>2, <2>4, <3>1, WriteSegmentTypes
  <2>8. linked' \subseteq Ulids
    BY Zenon, <1>1, <2>1, <2>2 DEF CommitSegment, LinkedWith, TypeInv, TypeOK
  <2>9. Bounded'
    BY Zenon, <1>2, <2>7 DEF TypeInv, Bounded, Records, history
  <2>10. TypeOK'
    BY Zenon, <1>1, <1>2, <2>2, <2>6, <2>7, <2>8
       DEF TypeInv, TypeOK, Claims, Owners, history, faults
  <2> QED BY Zenon, <2>9, <2>10 DEF TypeInv
<1> QED BY Zenon, <1>3, <1>4

\* Taking up the last WAL keeps the types.
LEMMA RecoverLatestTypes ==
  ASSUME MaxUlid \in Nat, TypeInv, RecoverLatest
  PROVE  TypeInv'
<1>1. UNCHANGED <<history, disk, mint, frozen, delta, pipeline, syncing, faults>> /\ phase' = "up"
  BY Zenon DEF RecoverLatest
<1>2. wal' \in Ulids \cup {0} /\ base' \in Claims /\ index' \in Owners
  <2>0. base \in Claims /\ index \in Owners /\ wal \in Ulids \cup {0}
    BY Zenon DEF TypeInv, TypeOK, Claims, Owners
  <2>1. CASE walFiles = {}
    BY Zenon, <2>0, <2>1 DEF RecoverLatest
  <2>2. CASE walFiles # {}
    <3>1. /\ wal' = Max(walFiles) /\ base' = FoldClaims(base, recs[wal'], wal')
          /\ index' = FoldOwners(index, WalHashes(wal'), wal')
      BY Zenon, <2>2 DEF RecoverLatest
    <3>2. walFiles \subseteq 0..MaxUlid
      BY DEF TypeInv, TypeOK, Ulids
    <3>3. wal' \in Ulids
      BY Zenon, <2>2, <3>1, <3>2, MaxIsGreatest DEF TypeInv, TypeOK
    <3>4. recs[wal'] \subseteq Records /\ Len(log) \in Nat
      BY Zenon, <3>3, LogLength DEF TypeInv, TypeOK, Bounded
    <3> QED BY Zenon, <2>0, <3>1, <3>3, <3>4, FoldClaimsType, FoldOwnersType
  <2> QED BY Zenon, <2>1, <2>2
<1>3. Bounded'
  BY Zenon, <1>1 DEF TypeInv, Bounded, Records, history, disk
<1>4. TypeOK'
  BY Zenon, <1>1, <1>2 DEF TypeInv, TypeOK, Claims, Owners, history, disk, pipeline, faults
<1> QED BY Zenon, <1>3, <1>4 DEF TypeInv

\* Every step keeps the types.
LEMMA NextTypes ==
  ASSUME MaxUlid \in Nat, TypeInv, [Next]_vars
  PROVE  TypeInv'
<1>1. CASE \E l \in Lbas, h \in Hashes : Write(l, h)
  BY Zenon, <1>1, CommitTypes DEF Write, Contents
<1>2. CASE \E l \in Lbas : WriteZeroes(l)
  BY Zenon, <1>2, CommitTypes DEF WriteZeroes, Contents
<1>3. CASE UNCHANGED vars
  <2>1. Bounded'
    BY Zenon, <1>3 DEF vars, history, disk, maps, TypeInv, Bounded, Records
  <2>2. TypeOK'
    BY Zenon, <1>3 DEF vars, history, disk, maps, pipeline, faults, TypeInv, TypeOK
  <2> QED BY Zenon, <2>1, <2>2 DEF TypeInv
<1> QED
  BY Zenon, <1>1, <1>2, <1>3, SyncTypes, DispatchTypes, ExecuteTypes, ApplyTypes, StashTypes,
     RemoveTypes, CrashTypes, PowerLossTypes, RebuildTypes, RecoverPromoteTypes,
     RecoverLatestTypes
     DEF Next

(* Every variable of the volume keeps its type, through any writes,        *)
(* promotes, crashes and recoveries.                                       *)
THEOREM VolumeTypeCorrect == Spec => []TypeOK
<1>0. MaxUlid \in Nat
  BY Zenon, VolumeAssumption
<1>1. Init => TypeInv
  BY Zenon, <1>0, InitTypes
<1>2. TypeInv /\ [Next]_vars => TypeInv'
  BY Zenon, <1>0, NextTypes
<1>3. TypeInv => TypeOK
  BY Zenon DEF TypeInv
<1> QED BY <1>1, <1>2, <1>3, PTL DEF Spec

-----------------------------------------------------------------------------
AllJobs == Range(jobs) \cup {r.job : r \in Range(results)} \cup Range(stash)
InSegment(n) == \E s \in segFiles \cap linked : n \in recs[s]
Live == {n \in Records : n \notin lost}
OpenWals == rotated \cup ({wal} \ {0})

(* A ULID names a WAL or a segment, never both, and the mint is above all  *)
(* of them.  A file on disk is above every WAL unlinked since the last     *)
(* power loss, so what returns from an unlink never meets a fresh ULID.    *)
FilesInv ==
  /\ walFiles \cap segFiles = {}
  /\ Range(unlinked) \cap segFiles = {}
  /\ \A u \in Range(unlinked) : \E f \in walFiles \cup segFiles : u < f
  /\ \A u \in Ulids \ segFiles : synced[u] \subseteq recs[u]
  /\ phase # "down" => \A f \in walFiles \cup segFiles : f <= mint

(* A volume that is not up holds no pipeline.  A WAL is unlinked once its  *)
(* records are in durable segments.                                        *)
MemoryInv ==
  /\ phase # "up" => /\ wal = 0 /\ rotated = {} /\ syncing = NoRound
                     /\ jobs = <<>> /\ results = <<>> /\ stash = <<>>
  /\ phase = "down" => unlinking = 0
  /\ OpenWals \subseteq walFiles
  /\ wal <= mint
  /\ unlinking # 0 =>
       /\ unlinking \notin OpenWals /\ unlinking \notin segFiles /\ unlinking <= mint
       /\ \A n \in recs[unlinking] : InSegment(n)
       /\ \E f \in walFiles \cup segFiles : unlinking < f
       /\ \A j \in AllJobs : j.seg # unlinking

(* A promote job's segment, once written, holds its WAL's records, and no  *)
(* other job writes it.                                                    *)
JobsInv ==
  /\ \A j \in AllJobs :
       /\ j.wal < j.seg /\ j.seg <= mint /\ j.wal # wal
       /\ j.wal \notin segFiles /\ j.seg \notin walFiles /\ j.seg \notin Range(unlinked)
       /\ j.seg \in segFiles => recs[j.seg] = recs[j.wal]
       /\ \A k \in AllJobs : j.seg # k.wal /\ (j.seg = k.seg => j.wal = k.wal)
  /\ \A r \in Range(results) : r.out = "ok" => r.job.seg \in segFiles \cap linked

(* Every record that is not lost is in a durable segment or in a WAL that  *)
(* the next sync round covers; the running round covers the records it     *)
(* will report.                                                            *)
HeldInv ==
  /\ \A n \in Live : InSegment(n) \/ \E w \in walFiles : n \in recs[w]
  /\ phase = "up" => \A n \in Live : InSegment(n) \/ \E w \in OpenWals : n \in recs[w]
  /\ syncing.at = "busy" =>
       /\ syncing.upto <= Len(log)
       /\ \A n \in Live : n <= syncing.upto =>
            InSegment(n) \/ \E w \in syncing.files \cap walFiles : n \in recs[w]
  /\ flushed <= Len(log)

(* The inductive strengthening of FlushedIsDurable.                        *)
Durable == FilesInv /\ MemoryInv /\ JobsInv /\ HeldInv /\ FlushedIsDurable

-----------------------------------------------------------------------------
\* A new volume has nothing to lose.
LEMMA InitDurable == ASSUME MaxUlid \in Nat, Init PROVE Durable
<1>1. Len(log) = 0 /\ Range(unlinked) = {} /\ AllJobs = {} /\ Range(results) = {}
  BY Zenon, RangeEmpty DEF Init, AllJobs
<1>2. FilesInv
  BY Zenon, <1>1 DEF Init, FilesInv
<1>3. MemoryInv
  BY DEF Init, MemoryInv, OpenWals
<1>4. JobsInv
  BY Zenon, <1>1 DEF JobsInv
<1>5. HeldInv
  BY <1>1 DEF Init, HeldInv, Live, Records, NoRound
<1>6. FlushedIsDurable
  BY DEF Init, FlushedIsDurable
<1> QED BY Zenon, <1>2, <1>3, <1>4, <1>5, <1>6 DEF Durable

\* A job names two ULIDs wherever it waits.
LEMMA JobType ==
  ASSUME TypeInv, NEW j \in AllJobs
  PROVE  j \in Job /\ j.wal \in Ulids /\ j.seg \in Ulids
<1>1. \A i \in Range(jobs) : i \in Job
  BY SeqShape DEF TypeInv, TypeOK, Range
<1>2. \A i \in Range(stash) : i \in Job
  BY SeqShape DEF TypeInv, TypeOK, Range
<1>3. \A r \in Range(results) : r.job \in Job
  <2>1. results \in Seq(Result)
    BY Zenon DEF TypeInv, TypeOK, Result
  <2>2. \A r \in Range(results) : r \in Result
    BY <2>1, SeqShape DEF Range
  <2> QED BY Zenon, <2>2 DEF Result
<1>4. j \in Job
  BY Zenon, <1>1, <1>2, <1>3 DEF AllJobs
<1> QED BY Zenon, <1>4 DEF Job

\* An append reaches a WAL that the next sync round covers.
LEMMA CommitDurable ==
  ASSUME MaxUlid \in Nat, TypeInv, Durable, phase = "up",
         NEW l \in Lbas, NEW h \in Contents, Commit(l, h)
  PROVE  Durable'
<1> DEFINE w == IF wal = 0 THEN mint + 1 ELSE wal
           n == Len(log) + 1
<1>1. /\ recs' = [recs EXCEPT ![w] = @ \cup {n}]
      /\ walFiles' = walFiles \cup {w} /\ wal' = w /\ mint' = IF wal = 0 THEN w ELSE mint
      /\ UNCHANGED <<flushed, lost, segFiles, synced, linked, unlinked, phase, rotated,
                     jobs, results, stash, unlinking, syncing>>
  BY Zenon DEF Commit, pipeline
<1>2. w \in Ulids /\ mint \in Nat /\ wal \in Ulids \cup {0} /\ Len(log) \in Nat /\ Len(log') = n
  <2>1. w \in Ulids
    BY DEF Commit, TypeInv, TypeOK, Ulids
  <2>2. Len(log') = n
    BY AppendShape DEF Commit, TypeInv, TypeOK
  <2> QED BY Zenon, <2>1, <2>2, LogLength DEF TypeInv, TypeOK
<1>3. /\ w \notin segFiles /\ (wal = 0 => \A f \in walFiles \cup segFiles : f < w)
      /\ mint <= mint' /\ w <= mint'
  BY <1>1, <1>2 DEF Durable, FilesInv, MemoryInv, OpenWals, TypeInv, TypeOK, Ulids
<1>4. recs \in [Ulids -> SUBSET Nat] /\ segFiles \subseteq Ulids /\ walFiles \subseteq Ulids
      /\ unlinking \in Ulids \cup {0} /\ Range(unlinked) \subseteq Ulids /\ rotated \subseteq Ulids
  BY SeqShape DEF TypeInv, TypeOK, Range
<1> HIDE DEF w, n
<1>5. AllJobs' = AllJobs /\ Range(unlinked)' = Range(unlinked) /\ Range(results)' = Range(results)
  BY Zenon, <1>1 DEF AllJobs
<1>6. \A u \in Ulids : u # w => recs'[u] = recs[u]
  BY Zenon, <1>1, <1>2, <1>4
<1>7. \A m : InSegment(m) => InSegment(m)'
  BY Zenon, <1>1, <1>3, <1>4, <1>6 DEF InSegment
<1>8. OpenWals \subseteq OpenWals' /\ w \in OpenWals' /\ OpenWals' \subseteq walFiles'
  BY <1>1, <1>2, <1>3 DEF OpenWals, Durable, MemoryInv, Ulids, w
<1>9. \A u \in Range(unlinked) : \E f \in walFiles \cup segFiles : u < f
  BY Zenon DEF Durable, FilesInv
<1>10. FilesInv'
  <2>1. walFiles' \cap segFiles' = {} /\ Range(unlinked)' \cap segFiles' = {}
    BY Zenon, <1>1, <1>3, <1>5 DEF Durable, FilesInv
  <2>2. \A u \in Range(unlinked)' : \E f \in walFiles' \cup segFiles' : u < f
    BY Zenon, <1>1, <1>5, <1>9
  <2>3. \A u \in Ulids \ segFiles' : synced'[u] \subseteq recs'[u]
    <3>1. recs[w] \subseteq recs'[w]
      BY Zenon, <1>1, <1>2, <1>4
    <3> QED BY Zenon, <1>1, <1>6, <3>1 DEF Durable, FilesInv
  <2>4. phase' # "down" => \A f \in walFiles' \cup segFiles' : f <= mint'
    <3>1. \A f \in walFiles \cup segFiles : f <= mint
      BY Zenon DEF Durable, FilesInv
    <3> QED BY <1>1, <1>2, <1>3, <1>4, <3>1 DEF Ulids
  <2> QED BY Zenon, <2>1, <2>2, <2>3, <2>4 DEF FilesInv
<1>11. unlinking # 0 => unlinking # w /\ unlinking \in Ulids
  BY <1>1, <1>2, <1>4 DEF Durable, MemoryInv, OpenWals, Ulids, w
<1>12. MemoryInv'
  <2>1. phase' = "up" /\ wal' <= mint'
    BY Zenon, <1>1, <1>3
  <2>2. ASSUME unlinking' # 0
        PROVE  /\ unlinking' \notin OpenWals' /\ unlinking' \notin segFiles' /\ unlinking' <= mint'
               /\ \A m \in recs'[unlinking'] : InSegment(m)'
               /\ \E f \in walFiles' \cup segFiles' : unlinking' < f
               /\ \A j \in AllJobs' : j.seg # unlinking'
    <3>1. unlinking # 0 /\ unlinking' = unlinking
      BY Zenon, <1>1, <2>2
    <3>2. unlinking \notin OpenWals' /\ unlinking <= mint'
      BY <1>1, <1>2, <1>3, <1>11, <3>1 DEF Durable, MemoryInv, OpenWals, Ulids
    <3>3. \A m \in recs'[unlinking] : InSegment(m)'
      BY Zenon, <1>6, <1>7, <1>11, <3>1 DEF Durable, MemoryInv
    <3> QED BY Zenon, <1>1, <1>5, <3>1, <3>2, <3>3 DEF Durable, MemoryInv
  <2> QED BY Zenon, <1>8, <2>1, <2>2 DEF MemoryInv
<1>13. JobsInv'
  <2>1. ASSUME NEW j \in AllJobs
        PROVE  /\ j.wal < j.seg /\ j.seg <= mint' /\ j.wal # w
               /\ j.wal \notin segFiles /\ j.seg \notin walFiles' /\ j.seg \notin Range(unlinked)
               /\ j.seg \in segFiles => recs'[j.seg] = recs'[j.wal]
               /\ \A k \in AllJobs : j.seg # k.wal /\ (j.seg = k.seg => j.wal = k.wal)
    <3>1. /\ j.wal < j.seg /\ j.seg <= mint /\ j.wal # wal
          /\ j.wal \notin segFiles /\ j.seg \notin walFiles /\ j.seg \notin Range(unlinked)
          /\ j.seg \in segFiles => recs[j.seg] = recs[j.wal]
          /\ \A k \in AllJobs : j.seg # k.wal /\ (j.seg = k.seg => j.wal = k.wal)
      BY Zenon DEF Durable, JobsInv
    <3>2. j.wal \in Ulids /\ j.seg \in Ulids
      BY Zenon, JobType
    <3>3. j.wal # w /\ j.seg # w
      BY <1>2, <3>1, <3>2 DEF Durable, MemoryInv, OpenWals, Ulids, w
    <3>4. j.seg <= mint'
      BY <1>1, <1>2, <3>1, <3>2 DEF Ulids, w
    <3> QED BY Zenon, <1>1, <1>6, <3>1, <3>2, <3>3, <3>4
  <2>2. \A r \in Range(results) : r.out = "ok" => r.job.seg \in segFiles \cap linked
    BY Zenon DEF Durable, JobsInv
  <2> QED BY Zenon, <1>1, <1>5, <2>1, <2>2 DEF JobsInv
<1>14. HeldInv'
  <2>1. Live' \subseteq Live \cup {n} /\ n \in recs'[w]
    BY <1>1, <1>2, <1>4 DEF Live, Records, n
  <2>2. \A u \in Ulids : recs[u] \subseteq recs'[u]
    BY Zenon, <1>1, <1>2, <1>4
  <2>3. \A m \in Live' : InSegment(m)' \/ \E u \in OpenWals' : m \in recs'[u]
    BY Zenon, <1>4, <1>7, <1>8, <2>1, <2>2 DEF Durable, HeldInv, MemoryInv
  <2>4. \A m \in Live' : InSegment(m)' \/ \E u \in walFiles' : m \in recs'[u]
    BY Zenon, <1>8, <2>3
  <2>5. ASSUME syncing'.at = "busy"
        PROVE  /\ syncing'.upto <= Len(log)'
               /\ \A m \in Live' : m <= syncing'.upto =>
                    InSegment(m)' \/ \E u \in syncing'.files \cap walFiles' : m \in recs'[u]
    <3>1. /\ syncing' = syncing /\ syncing.upto <= Len(log) /\ syncing.upto \in Nat
          /\ \A m \in Live : m <= syncing.upto =>
               InSegment(m) \/ \E u \in syncing.files \cap walFiles : m \in recs[u]
      BY Zenon, <1>1, <2>5 DEF Durable, HeldInv, TypeInv, TypeOK
    <3>2. \A m \in Live' : m <= syncing.upto => m \in Live
      BY <1>2, <2>1, <3>1 DEF n
    <3>3. syncing'.upto <= Len(log)'
      BY <1>2, <3>1 DEF n
    <3> QED BY Zenon, <1>1, <1>4, <1>7, <2>2, <3>1, <3>2, <3>3
  <2>6. flushed' <= Len(log)'
    BY <1>1, <1>2 DEF Durable, HeldInv, TypeInv, TypeOK, n
  <2> QED BY Zenon, <2>3, <2>4, <2>5, <2>6 DEF HeldInv
<1>15. FlushedIsDurable'
  BY Zenon, <1>1, <1>4, <1>7 DEF Durable, FlushedIsDurable, InSegment
<1> QED BY Zenon, <1>10, <1>12, <1>13, <1>14, <1>15 DEF Durable

(* Steps that leave the disk and the volume's bookkeeping alone and lose   *)
(* no job keep the invariant.                                              *)
LEMMA QuietDurable ==
  ASSUME TypeInv, Durable,
         UNCHANGED <<log, flushed, lost, disk, phase, mint, wal, rotated, unlinking, syncing>>,
         AllJobs' \subseteq AllJobs, Range(results') \subseteq Range(results),
         phase # "up" => jobs' = <<>> /\ results' = <<>> /\ stash' = <<>>
  PROVE  Durable'
<1>1. \A m : InSegment(m)' <=> InSegment(m)
  BY Zenon DEF InSegment, disk
<1>2. Live' = Live /\ OpenWals' = OpenWals
  BY Zenon DEF Live, Records, OpenWals
<1>3. FilesInv'
  BY Zenon DEF Durable, FilesInv, disk
<1>4. MemoryInv'
  BY Zenon, <1>1, <1>2 DEF Durable, MemoryInv, disk
<1>5. JobsInv'
  BY Zenon DEF Durable, JobsInv, disk
<1>6. HeldInv'
  BY Zenon, <1>1, <1>2 DEF Durable, HeldInv, disk
<1>7. FlushedIsDurable'
  BY Zenon DEF Durable, FlushedIsDurable, disk
<1> QED BY Zenon, <1>3, <1>4, <1>5, <1>6, <1>7 DEF Durable

\* The round takes every WAL that holds an unpromoted record.
LEMMA TakeHandlesDurable ==
  ASSUME TypeInv, Durable, TakeHandles
  PROVE  Durable'
<1>1. /\ UNCHANGED <<log, flushed, lost, disk, phase, mint, wal, rotated, unlinking, jobs, results, stash>>
      /\ phase = "up" /\ syncing' = [files |-> OpenWals, upto |-> Len(log), at |-> "busy"]
  BY Zenon DEF TakeHandles, history, pipeline, OpenWals
<1>2. \A m : InSegment(m)' <=> InSegment(m)
  BY Zenon, <1>1 DEF InSegment, disk
<1>3. Live' = Live /\ OpenWals' = OpenWals /\ AllJobs' = AllJobs
  BY Zenon, <1>1 DEF Live, Records, OpenWals, AllJobs
<1>4. FilesInv' /\ JobsInv' /\ FlushedIsDurable'
  BY Zenon, <1>1, <1>3 DEF Durable, FilesInv, JobsInv, FlushedIsDurable, disk
<1>5. MemoryInv'
  BY Zenon, <1>1, <1>2, <1>3 DEF Durable, MemoryInv, disk
<1>6. HeldInv'
  <2>1. Len(log) \in Nat
    BY Zenon, LogLength DEF TypeInv, TypeOK
  <2>2. \A m \in Live : InSegment(m) \/ \E w \in OpenWals \cap walFiles : m \in recs[w]
    BY Zenon, <1>1 DEF Durable, HeldInv, MemoryInv
  <2> QED BY <1>1, <1>2, <1>3, <2>1, <2>2 DEF Durable, HeldInv, disk
<1> QED BY Zenon, <1>4, <1>5, <1>6 DEF Durable

\* When the flush returns, what the round covered is synced or promoted.
LEMMA SyncFilesDurable ==
  ASSUME TypeInv, Durable, FileSyncLinks, SyncFiles
  PROVE  Durable'
<1>1. /\ UNCHANGED <<log, lost, recs, walFiles, segFiles, unlinked, phase, mint, wal,
                     rotated, unlinking, jobs, results, stash>>
      /\ syncing.at = "busy" /\ synced' = SyncedWith(syncing.files) /\ syncing' = NoRound
      /\ flushed' = Max({flushed, syncing.upto}) /\ phase = "up"
  BY Zenon DEF SyncFiles, pipeline
<1>2. linked' = linked \cup syncing.files
  BY Zenon DEF SyncFiles, LinkedWith
<1>3. flushed \in Nat /\ syncing.upto \in Nat /\ Len(log) \in Nat /\ walFiles \subseteq Ulids
  BY Zenon, LogLength DEF TypeInv, TypeOK
<1>4. flushed' \in {flushed, syncing.upto}
  <2>0. flushed \in Nat /\ syncing.upto \in Nat
    BY Zenon, <1>3
  <2>1. {flushed, syncing.upto} \subseteq 0..(flushed + syncing.upto)
    BY <2>0
  <2>2. Max({flushed, syncing.upto}) \in {flushed, syncing.upto}
    BY <2>0, <2>1, MaxIsGreatest
  <2> QED BY Zenon, <1>1, <2>2
<1>5. \A m : InSegment(m) => InSegment(m)'
  BY Zenon, <1>1, <1>2 DEF InSegment
<1>6. Live' = Live /\ OpenWals' = OpenWals /\ AllJobs' = AllJobs
  BY Zenon, <1>1 DEF Live, Records, OpenWals, AllJobs
<1>7. \A u \in Ulids : synced'[u] = IF u \in syncing.files THEN recs[u] ELSE synced[u]
  BY Zenon, <1>1 DEF SyncedWith
<1>8. FilesInv'
  BY Zenon, <1>1, <1>7 DEF Durable, FilesInv
<1>9. MemoryInv'
  BY Zenon, <1>1, <1>5, <1>6 DEF Durable, MemoryInv
<1>10. JobsInv'
  BY Zenon, <1>1, <1>2, <1>6 DEF Durable, JobsInv
<1>11. HeldInv'
  <2>1. flushed' <= Len(log)
    BY Zenon, <1>1, <1>3, <1>4 DEF Durable, HeldInv
  <2>2. syncing'.at # "busy"
    BY Zenon, <1>1 DEF NoRound
  <2> QED BY Zenon, <1>1, <1>5, <1>6, <2>1, <2>2 DEF Durable, HeldInv
<1>12. FlushedIsDurable'
  <2> SUFFICES ASSUME NEW m \in 1..flushed', m \notin lost'
               PROVE  \/ \E s \in segFiles' \cap linked' : m \in recs'[s]
                      \/ \E w \in walFiles' \cap linked' : m \in synced'[w]
    BY Zenon DEF FlushedIsDurable
  <2>1. CASE m <= flushed
    <3>1. m \in 1..flushed
      BY <1>3, <1>4, <2>1
    <3>2. \/ \E s \in segFiles \cap linked : m \in recs[s]
          \/ \E w \in walFiles \cap linked : m \in synced[w]
      BY Zenon, <1>1, <3>1 DEF Durable, FlushedIsDurable
    <3>3. \A w \in walFiles : synced[w] \subseteq synced'[w]
      BY Zenon, <1>3, <1>7 DEF Durable, FilesInv
    <3> QED BY Zenon, <1>1, <1>2, <3>2, <3>3
  <2>2. CASE m <= syncing.upto
    <3>1. m \in Live
      BY <1>1, <1>3, <1>4, <2>2 DEF Live, Records, Durable, HeldInv
    <3>2. InSegment(m) \/ \E w \in syncing.files \cap walFiles : m \in recs[w]
      BY Zenon, <1>1, <2>2, <3>1 DEF Durable, HeldInv
    <3> QED BY Zenon, <1>1, <1>2, <1>3, <1>7, <3>2 DEF InSegment
  <2> QED BY <1>3, <1>4, <2>1, <2>2
<1> QED BY Zenon, <1>8, <1>9, <1>10, <1>11, <1>12 DEF Durable

-----------------------------------------------------------------------------
\* A stashed promote keeps its WAL in the sync set.
LEMMA StashDurable ==
  ASSUME TypeInv, Durable, StashPromote
  PROVE  Durable'
<1>1. results \in Seq(Result) /\ results # <<>> /\ stash \in Seq(Job)
  BY Zenon DEF TypeInv, TypeOK, StashPromote, Result
<1>2. Head(results) \in Range(results) /\ Head(results) \in Result /\ Range(Tail(results)) \subseteq Range(results)
  BY Zenon, <1>1, RangeHeadTail
<1>3. Range(Append(stash, Head(results).job)) = Range(stash) \cup {Head(results).job}
  BY <1>1, <1>2, RangeAppend DEF Result
<1>4. results' = Tail(results) /\ stash' = Append(stash, Head(results).job) /\ jobs' = jobs
      /\ phase = "up" /\ UNCHANGED <<log, flushed, lost, disk, phase, mint, wal, rotated, unlinking, syncing>>
  BY Zenon DEF StashPromote, ActorIdle, history
<1>5. AllJobs' \subseteq AllJobs /\ Range(results') \subseteq Range(results)
  BY Zenon, <1>2, <1>3, <1>4 DEF AllJobs
<1> QED BY Zenon, <1>4, <1>5, QuietDurable

\* A rotation keeps its WAL in the sync set and mints a ULID no file has.
LEMMA DispatchDurable ==
  ASSUME MaxUlid \in Nat, TypeInv, Durable, DispatchPromote
  PROVE  Durable'
<1> DEFINE retry == SubSeq(stash, 1, IF stash = <<>> THEN 0 ELSE 1)
           new == PromoteJob(mint + 1)
<1>1. /\ jobs \in Seq(Job) /\ stash \in Seq(Job) /\ mint \in Nat /\ wal \in Ulids \cup {0}
      /\ walFiles \subseteq Ulids /\ segFiles \subseteq Ulids /\ Range(unlinked) \subseteq Ulids
  BY SeqShape DEF TypeInv, TypeOK, Range
<1>2. /\ phase = "up" /\ unlinking = 0
      /\ UNCHANGED <<log, flushed, lost, disk, phase, results, unlinking, syncing>>
      /\ stash' = IF stash = <<>> THEN stash ELSE Tail(stash)
  BY Zenon DEF DispatchPromote, ActorIdle, history
<1>3. retry \in Seq(Job) /\ Range(retry) \subseteq Range(stash) /\ Range(stash') \subseteq Range(stash)
  <2>1. retry \in Seq(Job) /\ Range(retry) \subseteq Range(stash)
    BY Zenon, <1>1, RetryIsStashed
  <2>2. Range(stash') \subseteq Range(stash)
    BY Zenon, <1>1, <1>2, RangeHeadTail
  <2> QED BY Zenon, <2>1, <2>2
<1>4. CASE pending = {}
  <2>1. jobs' = jobs \o retry /\ UNCHANGED <<mint, wal, rotated>>
    BY Zenon, <1>4 DEF DispatchPromote
  <2> HIDE DEF retry
  <2>2. Range(jobs') \subseteq Range(jobs) \cup Range(stash)
    BY Zenon, <1>1, <1>3, <2>1, RangeConcat
  <2>3. AllJobs' \subseteq AllJobs /\ Range(results') \subseteq Range(results)
    BY Zenon, <1>2, <1>3, <2>2 DEF AllJobs
  <2> QED BY Zenon, <1>2, <2>1, <2>3, QuietDurable
<1>5. CASE pending # {}
  <2>0. wal \in Ulids /\ pending = recs[wal] /\ pending \subseteq Nat /\ wal \in OpenWals /\ wal \in walFiles
    BY Zenon, <1>1, <1>5 DEF pending, TypeInv, TypeOK, OpenWals, Durable, MemoryInv, Ulids
  <2>1. /\ mint + 2 <= MaxUlid /\ mint' = mint + 2 /\ wal' = 0
        /\ jobs' = jobs \o Append(retry, new) /\ rotated' = rotated \cup {wal}
    BY Zenon, <1>5 DEF DispatchPromote
  <2>2. new \in Job /\ new.wal = wal /\ new.seg = mint + 1
    <3>1. mint + 1 \in Ulids
      BY <1>1, <2>1 DEF Ulids
    <3>2. Staged(pending, wal, materialised) \subseteq Nat
      BY Zenon, <2>0, StagedType
    <3> QED BY Zenon, <2>0, <3>1, <3>2 DEF PromoteJob, Job
  <2> HIDE DEF retry, new
  <2>3. Range(jobs') \subseteq Range(jobs) \cup Range(stash) \cup {new}
    <3>1. Append(retry, new) \in Seq(Job) /\ Range(Append(retry, new)) = Range(retry) \cup {new}
      BY <1>3, <2>2, RangeAppend
    <3>2. Range(jobs \o Append(retry, new)) \subseteq Range(jobs) \cup Range(Append(retry, new))
      BY Zenon, <1>1, <3>1, RangeConcat
    <3> QED BY Zenon, <1>3, <2>1, <3>1, <3>2
  <2>4. AllJobs' \subseteq AllJobs \cup {new}
    BY Zenon, <1>2, <1>3, <2>3 DEF AllJobs
  <2>5. OpenWals' = OpenWals
    BY Zenon, <1>2, <2>0, <2>1 DEF OpenWals, Ulids
  <2>6. \A m : InSegment(m)' <=> InSegment(m)
    BY Zenon, <1>2 DEF InSegment, disk
  <2>7. Live' = Live
    BY Zenon, <1>2 DEF Live, Records
  <2>8. \A f \in walFiles \cup segFiles : f <= mint
    BY Zenon, <1>2 DEF Durable, FilesInv
  <2>9. FilesInv'
    BY <1>1, <1>2, <2>1, <2>8 DEF Durable, FilesInv, disk, Ulids
  <2>10. MemoryInv'
    BY <1>1, <1>2, <2>1, <2>5 DEF Durable, MemoryInv, disk
  <2>11. /\ mint + 1 \notin walFiles /\ mint + 1 \notin segFiles
         /\ mint + 1 \notin Range(unlinked) /\ wal \notin segFiles /\ wal < mint + 1
    <3>1. \A u \in Range(unlinked) : \E f \in walFiles \cup segFiles : u < f
      BY Zenon DEF Durable, FilesInv
    <3>2. mint + 1 \notin Range(unlinked)
      BY <1>1, <2>8, <3>1 DEF Ulids
    <3> QED BY <1>1, <2>0, <2>8, <3>2 DEF Durable, FilesInv, Ulids
  <2>12. JobsInv'
    <3>1. \A j \in AllJobs :
            /\ j.wal \in Ulids /\ j.seg \in Ulids
            /\ j.wal < j.seg /\ j.seg <= mint /\ j.wal # wal
            /\ j.wal \notin segFiles /\ j.seg \notin walFiles /\ j.seg \notin Range(unlinked)
            /\ j.seg \in segFiles => recs[j.seg] = recs[j.wal]
            /\ \A k \in AllJobs : j.seg # k.wal /\ (j.seg = k.seg => j.wal = k.wal)
      BY Zenon, JobType DEF Durable, JobsInv
    <3>2. \A j \in AllJobs \cup {new} :
            /\ j.wal < j.seg /\ j.seg <= mint' /\ j.wal # 0
            /\ j.wal \notin segFiles /\ j.seg \notin walFiles /\ j.seg \notin Range(unlinked)
            /\ j.seg \in segFiles => recs[j.seg] = recs[j.wal]
      BY <1>1, <2>0, <2>1, <2>2, <2>11, <3>1 DEF Ulids
    <3>3. \A j \in AllJobs \cup {new} : \A k \in AllJobs \cup {new} :
            j.seg # k.wal /\ (j.seg = k.seg => j.wal = k.wal)
      BY <1>1, <2>0, <2>2, <2>11, <3>1 DEF Ulids
    <3>4. \A r \in Range(results) : r.out = "ok" => r.job.seg \in segFiles \cap linked
      BY Zenon DEF Durable, JobsInv
    <3> QED BY Zenon, <1>2, <2>1, <2>4, <3>2, <3>3, <3>4 DEF JobsInv, disk
  <2>13. HeldInv'
    BY Zenon, <1>2, <2>5, <2>6, <2>7 DEF Durable, HeldInv, disk
  <2>14. FlushedIsDurable'
    BY Zenon, <1>2 DEF Durable, FlushedIsDurable, disk
  <2> QED BY Zenon, <2>9, <2>10, <2>12, <2>13, <2>14 DEF Durable
<1> QED BY Zenon, <1>4, <1>5

(* Two queues that end differently are different.                          *)
LEMMA AppendDiffers ==
  ASSUME NEW S, NEW q \in Seq(S), NEW d \in S, NEW e \in S, d # e
  PROVE  Append(q, d) # Append(q, e)
<1>1. Append(q, d)[Len(q) + 1] = d /\ Append(q, e)[Len(q) + 1] = e
  BY AppendShape
<1> QED BY Zenon, <1>1

(* A job the worker writes changes no file but its own segment.            *)
LEMMA ExecuteDurable ==
  ASSUME MaxUlid \in Nat, TypeInv, Durable, FileSyncLinks, ExecutePromote \/ ExecutePromoteFails
  PROVE  Durable'
<1> DEFINE j == Head(jobs)
<1>1. /\ phase = "up" /\ jobs' = Tail(jobs) /\ jobs # <<>>
      /\ UNCHANGED <<log, flushed, lost, walFiles, unlinked, phase, mint, wal, rotated, stash,
                     unlinking, syncing>>
      /\ \/ results' = Append(results, [job |-> j, out |-> "ok"])
         \/ results' = Append(results, [job |-> j, out |-> "err"])
  BY Zenon DEF ExecutePromote, ExecutePromoteFails, history
<1>2. jobs \in Seq(Job) /\ results \in Seq(Result)
  BY Zenon DEF TypeInv, TypeOK, Result
<1>3. j \in Range(jobs) /\ j \in Job /\ Range(jobs') \subseteq Range(jobs)
  BY Zenon, <1>1, <1>2, RangeHeadTail
<1>4. j \in AllJobs
  BY Zenon, <1>3 DEF AllJobs
<1>5. /\ j.wal < j.seg /\ j.seg <= mint /\ j.wal # wal
      /\ j.wal \notin segFiles /\ j.seg \notin walFiles /\ j.seg \notin Range(unlinked)
      /\ j.seg \in segFiles => recs[j.seg] = recs[j.wal]
      /\ \A k \in AllJobs : j.seg # k.wal /\ (j.seg = k.seg => j.wal = k.wal)
      /\ j.wal \in Ulids /\ j.seg \in Ulids
      /\ unlinking # 0 => j.seg # unlinking
  BY Zenon, <1>4, JobType DEF Durable, JobsInv, MemoryInv
<1>6. \/ /\ WriteSegment(j.seg, j.wal, j.bodies)
         /\ linked \cup {j.wal} \subseteq linked'
         /\ results' = Append(results, [job |-> j, out |-> "ok"]) => j.seg \in linked'
      \/ /\ UNCHANGED <<recs, segFiles, synced, linked>>
         /\ results' = Append(results, [job |-> j, out |-> "err"])
  <2>1. Append(results, [job |-> j, out |-> "ok"]) # Append(results, [job |-> j, out |-> "err"])
    <3>1. [job |-> j, out |-> "ok"] \in Result /\ [job |-> j, out |-> "err"] \in Result
      BY Zenon, <1>3 DEF Result
    <3> HIDE DEF j
    <3>2. [job |-> j, out |-> "ok"] # [job |-> j, out |-> "err"]
      <4>1. [job |-> j, out |-> "ok"].out # [job |-> j, out |-> "err"].out
        BY Zenon
      <4> QED BY Zenon, <4>1
    <3> QED BY Zenon, <1>2, <3>1, <3>2, AppendDiffers
  <2>2. CASE ExecutePromote
    <3>1. WriteSegment(j.seg, j.wal, j.bodies) /\ linked' = LinkedWith({j.wal}) \cup {j.seg}
      BY Zenon, <2>2 DEF ExecutePromote, CommitSegment
    <3> HIDE DEF j
    <3> QED BY Zenon, <3>1 DEF LinkedWith
  <2>3. CASE ExecutePromoteFails
    <3>1. /\ results' = Append(results, [job |-> j, out |-> "err"])
          /\ \/ WriteSegment(j.seg, j.wal, j.bodies) /\ linked' = LinkedWith({j.wal})
             \/ UNCHANGED <<recs, segFiles, synced, linked>>
      BY Zenon, <2>3 DEF ExecutePromoteFails
    <3> HIDE DEF j
    <3> QED BY Zenon, <2>1, <3>1 DEF LinkedWith
  <2> QED BY Zenon, <2>2, <2>3
<1> HIDE DEF j
<1>7. PICK o \in {"ok", "err"} :
        /\ Range(results') = Range(results) \cup {[job |-> j, out |-> o]}
        /\ o = "ok" => j.seg \in segFiles' \cap linked'
  <2>1. [job |-> j, out |-> "ok"] \in Result /\ [job |-> j, out |-> "err"] \in Result
    BY Zenon, <1>3 DEF Result
  <2>2. /\ Range(Append(results, [job |-> j, out |-> "ok"])) = Range(results) \cup {[job |-> j, out |-> "ok"]}
        /\ Range(Append(results, [job |-> j, out |-> "err"])) = Range(results) \cup {[job |-> j, out |-> "err"]}
    BY <1>2, <2>1, RangeAppend
  <2>3. WriteSegment(j.seg, j.wal, j.bodies) => j.seg \in segFiles'
    BY Zenon DEF WriteSegment
  <2> QED BY Zenon, <1>1, <1>6, <2>2, <2>3
<1>8. AllJobs' \subseteq AllJobs
  BY <1>1, <1>3, <1>4, <1>7 DEF AllJobs
<1>9. /\ segFiles \subseteq segFiles' /\ segFiles' \subseteq segFiles \cup {j.seg}
      /\ linked \subseteq linked'
      /\ \A u \in Ulids : u # j.seg \/ u \in segFiles \/ u \notin segFiles' => recs'[u] = recs[u]
      /\ j.seg \in segFiles' => recs'[j.seg] = recs[j.wal]
      /\ \A u \in Ulids : synced'[u] = synced[u] \/ synced'[u] = recs[u]
  <2>1. recs \in [Ulids -> SUBSET Nat]
    BY Zenon DEF TypeInv, TypeOK
  <2>2. CASE WriteSegment(j.seg, j.wal, j.bodies) /\ linked \cup {j.wal} \subseteq linked'
    <3>1. /\ segFiles' = segFiles \cup {j.seg} /\ recs' = [recs EXCEPT ![j.seg] = recs[j.wal]]
          /\ synced' = [u \in Ulids |-> IF u \in {j.wal} THEN recs[u] ELSE synced[u]]
      BY Zenon, <2>2 DEF WriteSegment, SyncedWith
    <3> QED BY Zenon, <1>5, <2>1, <2>2, <3>1
  <2>3. CASE UNCHANGED <<recs, segFiles, synced, linked>>
    BY Zenon, <1>5, <2>3
  <2> QED BY Zenon, <1>6, <2>2, <2>3
<1>10. \A m : InSegment(m) => InSegment(m)'
  <2>1. segFiles \subseteq Ulids
    BY Zenon DEF TypeInv, TypeOK
  <2> QED BY Zenon, <1>9, <2>1 DEF InSegment
<1>11. /\ OpenWals' = OpenWals /\ Live' = Live
       /\ \A w \in walFiles : w \in Ulids /\ w # j.seg /\ recs'[w] = recs[w] /\ w \notin segFiles
       /\ OpenWals \subseteq walFiles
  <2>1. walFiles \subseteq Ulids /\ walFiles \cap segFiles = {}
    BY Zenon DEF TypeInv, TypeOK, Durable, FilesInv
  <2> QED BY Zenon, <1>1, <1>5, <1>9, <2>1 DEF OpenWals, Live, Records, Durable, MemoryInv
<1>12. FilesInv'
  <2>1. \A u \in Ulids \ segFiles' : synced'[u] \subseteq recs'[u]
    BY Zenon, <1>9 DEF Durable, FilesInv
  <2> QED BY <1>1, <1>5, <1>9, <2>1 DEF Durable, FilesInv
<1>13. MemoryInv'
  <2>1. unlinking # 0 =>
          /\ unlinking \in Ulids /\ unlinking \notin OpenWals /\ unlinking \notin segFiles /\ unlinking <= mint
          /\ \A n \in recs[unlinking] : InSegment(n)
          /\ \E f \in walFiles \cup segFiles : unlinking < f
          /\ \A k \in AllJobs : k.seg # unlinking
    BY Zenon DEF Durable, MemoryInv, TypeInv, TypeOK
  <2>2. unlinking # 0 => recs'[unlinking] = recs[unlinking] /\ unlinking \notin segFiles'
    BY Zenon, <1>5, <1>9, <2>1
  <2>3. unlinking # 0 => \E f \in walFiles \cup segFiles' : unlinking < f
    BY Zenon, <1>9, <2>1
  <2> QED BY Zenon, <1>1, <1>8, <1>10, <1>11, <2>1, <2>2, <2>3 DEF Durable, MemoryInv
<1>14. JobsInv'
  <2>1. \A k \in AllJobs :
          /\ k.wal \in Ulids /\ k.seg \in Ulids
          /\ k.wal < k.seg /\ k.seg <= mint /\ k.wal # wal
          /\ k.wal \notin segFiles /\ k.seg \notin walFiles /\ k.seg \notin Range(unlinked)
          /\ k.seg \in segFiles => recs[k.seg] = recs[k.wal]
          /\ \A i \in AllJobs : k.seg # i.wal /\ (k.seg = i.seg => k.wal = i.wal)
    BY Zenon, JobType DEF Durable, JobsInv
  <2>2. \A k \in AllJobs : k.wal \notin segFiles' /\ recs'[k.wal] = recs[k.wal]
    BY Zenon, <1>5, <1>9, <2>1
  <2>3. \A k \in AllJobs : k.seg \in segFiles' => recs'[k.seg] = recs'[k.wal]
    BY Zenon, <1>4, <1>5, <1>9, <2>1, <2>2
  <2>4. \A r \in Range(results') : r.out = "ok" => r.job.seg \in segFiles' \cap linked'
    <3>1. \A r \in Range(results) : r.out = "ok" => r.job.seg \in segFiles \cap linked
      BY Zenon DEF Durable, JobsInv
    <3> QED BY <1>7, <1>9, <3>1
  <2> QED BY Zenon, <1>1, <1>8, <2>1, <2>2, <2>3, <2>4 DEF JobsInv
<1>15. HeldInv'
  <2>1. /\ \A m \in Live : InSegment(m) \/ \E w \in walFiles : m \in recs[w]
        /\ \A m \in Live : InSegment(m) \/ \E w \in OpenWals : m \in recs[w]
    BY Zenon, <1>1 DEF Durable, HeldInv
  <2>2. syncing.at = "busy" =>
          /\ syncing.upto <= Len(log)
          /\ \A m \in Live : m <= syncing.upto =>
               InSegment(m) \/ \E w \in syncing.files \cap walFiles : m \in recs[w]
    BY Zenon DEF Durable, HeldInv
  <2>3. flushed <= Len(log)
    BY Zenon DEF Durable, HeldInv
  <2> QED BY Zenon, <1>1, <1>10, <1>11, <2>1, <2>2, <2>3 DEF HeldInv
<1>16. FlushedIsDurable'
  <2>1. \A n \in 1..flushed : n \notin lost =>
          InSegment(n) \/ \E w \in walFiles \cap linked : n \in synced[w]
    BY Zenon DEF Durable, FlushedIsDurable, InSegment
  <2>2. \A w \in walFiles : synced[w] \subseteq synced'[w]
    BY Zenon, <1>9, <1>11 DEF Durable, FilesInv
  <2>3. \A n \in 1..flushed : n \notin lost =>
          InSegment(n)' \/ \E w \in walFiles \cap linked' : n \in synced'[w]
    BY Zenon, <1>9, <1>10, <2>1, <2>2
  <2> QED BY Zenon, <1>1, <2>3 DEF FlushedIsDurable, InSegment
<1> QED BY Zenon, <1>12, <1>13, <1>14, <1>15, <1>16 DEF Durable

(* The apply hands to the unlink a WAL whose records are in a durable      *)
(* segment.                                                                *)
LEMMA ApplyDurable ==
  ASSUME TypeInv, Durable, ApplyPromote
  PROVE  Durable'
<1> DEFINE j == Head(results).job
<1>1. /\ phase = "up" /\ unlinking = 0 /\ results # <<>> /\ Head(results).out = "ok"
      /\ UNCHANGED <<log, flushed, lost, disk, phase, mint, wal, jobs, stash, syncing>>
      /\ rotated' = rotated \ {j.wal} /\ unlinking' = j.wal /\ results' = Tail(results)
  BY Zenon DEF ApplyPromote, ActorIdle, history
<1>2. Head(results) \in Range(results) /\ Range(results') \subseteq Range(results)
  <2>1. results \in Seq(Result)
    BY Zenon DEF TypeInv, TypeOK, Result
  <2> QED BY Zenon, <1>1, <2>1, RangeHeadTail
<1>3. j \in AllJobs /\ AllJobs' \subseteq AllJobs
  BY Zenon, <1>1, <1>2 DEF AllJobs
<1>4. /\ j.wal < j.seg /\ j.seg <= mint /\ j.wal # wal /\ j.wal \notin segFiles
      /\ recs[j.seg] = recs[j.wal] /\ j.seg \in segFiles \cap linked
      /\ \A k \in AllJobs : k.seg # j.wal
      /\ j.wal \in Ulids /\ j.seg \in Ulids
  BY Zenon, <1>1, <1>2, <1>3, JobType DEF Durable, JobsInv
<1> HIDE DEF j
<1>5. OpenWals' = OpenWals \ {j.wal} /\ Live' = Live
  BY Zenon, <1>1, <1>4 DEF OpenWals, Live, Records
<1>6. \A m : InSegment(m)' <=> InSegment(m)
  BY Zenon, <1>1 DEF InSegment, disk
<1>7. \A m \in recs[j.wal] : InSegment(m)
  BY Zenon, <1>4 DEF InSegment
<1>8. FilesInv' /\ FlushedIsDurable'
  BY Zenon, <1>1 DEF Durable, FilesInv, FlushedIsDurable, disk
<1>9. MemoryInv'
  <2>1. mint \in Nat /\ j.wal <= mint
    BY <1>4 DEF TypeInv, TypeOK, Ulids
  <2>2. \E f \in walFiles \cup segFiles : j.wal < f
    BY Zenon, <1>4
  <2>3. OpenWals \subseteq walFiles /\ wal <= mint
    BY Zenon DEF Durable, MemoryInv
  <2> QED BY Zenon, <1>1, <1>3, <1>4, <1>5, <1>6, <1>7, <2>1, <2>2, <2>3 DEF MemoryInv, disk
<1>10. JobsInv'
  BY Zenon, <1>1, <1>2, <1>3 DEF Durable, JobsInv, disk
<1>11. HeldInv'
  BY Zenon, <1>1, <1>5, <1>6, <1>7 DEF Durable, HeldInv, disk
<1> QED BY Zenon, <1>8, <1>9, <1>10, <1>11 DEF Durable

-----------------------------------------------------------------------------
(* Unlinking a WAL whose records are in durable segments loses nothing.    *)
LEMMA RemoveDurable ==
  ASSUME TypeInv, Durable, RemoveWal \/ RemoveWalFails
  PROVE  Durable'
<1>1. /\ unlinking # 0 /\ unlinking' = 0
      /\ UNCHANGED <<log, flushed, lost, recs, segFiles, synced, linked, phase, mint, wal,
                     rotated, jobs, results, stash, syncing>>
      /\ \/ UNCHANGED <<walFiles, unlinked>>
         \/ walFiles' = walFiles \ {unlinking} /\ unlinked' = Append(unlinked, unlinking)
  BY Zenon DEF RemoveWal, RemoveWalFails, history, disk
<1>2. /\ unlinking \notin OpenWals /\ unlinking \notin segFiles
      /\ \A n \in recs[unlinking] : InSegment(n)
      /\ \E f \in walFiles \cup segFiles : unlinking < f
      /\ \A j \in AllJobs : j.seg # unlinking
      /\ phase # "down" /\ unlinking \in Ulids
  BY Zenon, <1>1 DEF Durable, MemoryInv, TypeInv, TypeOK
<1>3. /\ walFiles \ {unlinking} \subseteq walFiles' /\ walFiles' \subseteq walFiles
      /\ Range(unlinked') \subseteq Range(unlinked) \cup {unlinking}
  <2>1. unlinked \in Seq(Ulids)
    BY Zenon DEF TypeInv, TypeOK
  <2>2. Range(Append(unlinked, unlinking)) = Range(unlinked) \cup {unlinking}
    BY <1>2, <2>1, RangeAppend
  <2> QED BY Zenon, <1>1, <2>2
<1>4. OpenWals' = OpenWals /\ Live' = Live /\ AllJobs' = AllJobs
  BY Zenon, <1>1 DEF OpenWals, Live, Records, AllJobs
<1>5. \A m : InSegment(m)' <=> InSegment(m)
  BY Zenon, <1>1 DEF InSegment
<1>6. FilesInv'
  <2>0. walFiles \cup segFiles \subseteq Nat /\ Range(unlinked) \subseteq Nat /\ unlinking \in Nat
    <3>1. walFiles \subseteq Ulids /\ segFiles \subseteq Ulids /\ Range(unlinked) \subseteq Ulids
      BY SeqShape DEF TypeInv, TypeOK, Range
    <3> QED BY <1>2, <3>1 DEF Ulids
  <2>1. \A u \in Range(unlinked) : \E f \in walFiles \cup segFiles : u < f
    BY Zenon DEF Durable, FilesInv
  <2>2. PICK g \in walFiles \cup segFiles : unlinking < g
    BY Zenon, <1>2
  <2>3. g \in walFiles' \cup segFiles'
    BY <1>1, <1>3, <2>0, <2>2
  <2>4. ASSUME NEW u \in Range(unlinked')
        PROVE  \E f \in walFiles' \cup segFiles' : u < f
    <3>1. CASE u = unlinking
      BY Zenon, <2>2, <2>3, <3>1
    <3>2. CASE u \in Range(unlinked)
      <4>1. PICK f \in walFiles \cup segFiles : u < f
        BY Zenon, <2>1, <3>2
      <4>2. CASE f = unlinking
        BY <2>0, <2>2, <2>3, <3>2, <4>1, <4>2
      <4>3. CASE f # unlinking
        BY Zenon, <1>1, <1>3, <4>1, <4>3
      <4> QED BY Zenon, <4>2, <4>3
    <3> QED BY Zenon, <1>3, <3>1, <3>2
  <2>5. walFiles' \cap segFiles' = {} /\ Range(unlinked') \cap segFiles' = {}
    BY Zenon, <1>1, <1>2, <1>3 DEF Durable, FilesInv
  <2> QED BY Zenon, <1>1, <1>3, <2>4, <2>5 DEF Durable, FilesInv
<1>7. MemoryInv'
  BY Zenon, <1>1, <1>2, <1>3, <1>4 DEF Durable, MemoryInv
<1>8. JobsInv'
  BY Zenon, <1>1, <1>2, <1>3, <1>4 DEF Durable, JobsInv
<1>9. HeldInv'
  BY Zenon, <1>1, <1>2, <1>3, <1>4, <1>5 DEF Durable, HeldInv
<1>10. FlushedIsDurable'
  <2>1. synced[unlinking] \subseteq recs[unlinking]
    BY Zenon, <1>2 DEF Durable, FilesInv
  <2>2. \A n \in 1..flushed : n \notin lost =>
          InSegment(n) \/ \E w \in walFiles \cap linked : n \in synced[w]
    BY Zenon DEF Durable, FlushedIsDurable, InSegment
  <2>3. \A n \in 1..flushed : n \notin lost =>
          InSegment(n) \/ \E w \in walFiles' \cap linked : n \in synced[w]
    BY Zenon, <1>2, <1>3, <2>1, <2>2
  <2> QED BY Zenon, <1>1, <2>3 DEF FlushedIsDurable, InSegment
<1> QED BY Zenon, <1>6, <1>7, <1>8, <1>9, <1>10 DEF Durable

(* A crash keeps the files, and with them what they hold.                  *)
LEMMA CrashDurable ==
  ASSUME TypeInv, Durable, Crash
  PROVE  Durable'
<1>1. /\ UNCHANGED <<log, flushed, lost, disk>> /\ phase' = "down" /\ mint' = 0 /\ wal' = 0
      /\ rotated' = {} /\ jobs' = <<>> /\ results' = <<>> /\ stash' = <<>>
      /\ unlinking' = 0 /\ syncing' = NoRound
  BY Zenon DEF Crash, LoseMemory
<1>2. AllJobs' = {} /\ Range(results') = {} /\ OpenWals' = {} /\ Live' = Live
  BY Zenon, <1>1, RangeEmpty DEF AllJobs, OpenWals, Live, Records
<1>3. \A m : InSegment(m)' <=> InSegment(m)
  BY Zenon, <1>1 DEF InSegment, disk
<1>4. FilesInv' /\ FlushedIsDurable'
  BY Zenon, <1>1 DEF Durable, FilesInv, FlushedIsDurable, disk
<1>5. MemoryInv'
  BY <1>1, <1>2 DEF MemoryInv
<1>6. JobsInv'
  BY Zenon, <1>2 DEF JobsInv
<1>7. HeldInv'
  BY Zenon, <1>1, <1>2, <1>3 DEF Durable, HeldInv, NoRound, disk
<1> QED BY Zenon, <1>4, <1>5, <1>6, <1>7 DEF Durable

(* A power loss keeps every synced record under a durable entry, and what  *)
(* it takes was not flushed.                                               *)
LEMMA PowerLossDurable ==
  ASSUME TypeInv, Durable, PowerLoss
  PROVE  Durable'
<1>1. /\ UNCHANGED <<log, flushed>> /\ phase' = "down" /\ mint' = 0 /\ wal' = 0
      /\ rotated' = {} /\ jobs' = <<>> /\ results' = <<>> /\ stash' = <<>>
      /\ unlinking' = 0 /\ syncing' = NoRound
  BY Zenon DEF PowerLoss, LoseMemory
<1>2. PICK W, S, cut :
        /\ W \subseteq walFiles \cup Range(unlinked) /\ walFiles \cap linked \subseteq W
        /\ S \subseteq segFiles /\ segFiles \cap linked \subseteq S
        /\ \A w \in W : synced[w] \subseteq 0..cut[w]
        /\ Keep(W, S, cut)
  BY Zenon, PowerLossFiles
<1>3. /\ walFiles' = W /\ segFiles' = S /\ linked' = W \cup S /\ unlinked' = <<>>
      /\ \A u \in Ulids : recs'[u] = IF u \in S THEN recs[u]
                                     ELSE IF u \in W THEN recs[u] \cap 0..cut[u] ELSE {}
      /\ \A u \in Ulids : synced'[u] = IF u \in W THEN recs'[u] ELSE {}
      /\ lost' = lost \cup {n \in 1..Len(log) : n > flushed /\ \A u \in Ulids : n \notin recs'[u]}
  BY Zenon, <1>2 DEF Keep
<1>4. AllJobs' = {} /\ Range(results') = {} /\ OpenWals' = {} /\ Range(unlinked') = {}
  BY Zenon, <1>1, <1>3, RangeEmpty DEF AllJobs, OpenWals
<1>5. /\ W \cap S = {} /\ W \subseteq Ulids /\ S \subseteq Ulids
      /\ \A w \in W : synced[w] \subseteq recs[w]
  <2>1. walFiles \subseteq Ulids /\ segFiles \subseteq Ulids /\ Range(unlinked) \subseteq Ulids
    BY SeqShape DEF TypeInv, TypeOK, Range
  <2>2. walFiles \cap segFiles = {} /\ Range(unlinked) \cap segFiles = {}
    BY Zenon DEF Durable, FilesInv
  <2>3. \A u \in Ulids \ segFiles : synced[u] \subseteq recs[u]
    BY Zenon DEF Durable, FilesInv
  <2> QED BY Zenon, <1>2, <2>1, <2>2, <2>3
<1>6. ASSUME NEW n \in 1..flushed, n \notin lost
      PROVE  (\E s \in S : n \in recs'[s]) \/ (\E w \in W : n \in recs'[w])
  <2>1. CASE \E s \in segFiles \cap linked : n \in recs[s]
    BY Zenon, <1>2, <1>3, <1>5, <2>1
  <2>2. CASE \E w \in walFiles \cap linked : n \in synced[w]
    <3>1. PICK w \in walFiles \cap linked : n \in synced[w]
      BY Zenon, <2>2
    <3>2. w \in W /\ w \in Ulids /\ w \notin S /\ n \in recs[w] /\ n \in 0..cut[w]
      BY Zenon, <1>2, <1>5, <3>1
    <3> QED BY Zenon, <1>3, <3>2
  <2> QED BY Zenon, <1>6, <2>1, <2>2 DEF Durable, FlushedIsDurable
<1>7. FilesInv'
  <2>1. \A u \in Ulids \ S : synced'[u] \subseteq recs'[u]
    BY Zenon, <1>3
  <2> QED BY Zenon, <1>1, <1>3, <1>4, <1>5, <2>1 DEF FilesInv
<1>8. MemoryInv'
  BY <1>1, <1>4 DEF MemoryInv
<1>9. JobsInv'
  BY Zenon, <1>4 DEF JobsInv
<1>10. HeldInv'
  <2>1. ASSUME NEW n \in Live'
        PROVE  InSegment(n)' \/ \E w \in walFiles' : n \in recs'[w]
    <3>1. n \in 1..Len(log) /\ n \notin lost'
      BY Zenon, <1>1 DEF Live, Records
    <3>2. flushed \in Nat /\ Len(log) \in Nat
      BY Zenon, LogLength DEF TypeInv, TypeOK
    <3>3. CASE n > flushed
      <4>1. PICK u \in Ulids : n \in recs'[u]
        BY Zenon, <1>3, <3>1, <3>3
      <4>2. u \in S \/ u \in W
        BY Zenon, <1>3, <4>1
      <4> QED BY Zenon, <1>3, <4>1, <4>2 DEF InSegment
    <3>4. CASE ~(n > flushed)
      <4>1. n \in 1..flushed /\ n \notin lost
        BY <1>3, <3>1, <3>2, <3>4
      <4> QED BY Zenon, <1>3, <1>6, <4>1 DEF InSegment
    <3> QED BY Zenon, <3>3, <3>4
  <2>2. flushed' <= Len(log')
    BY Zenon, <1>1 DEF Durable, HeldInv
  <2> QED BY Zenon, <1>1, <2>1, <2>2 DEF HeldInv, NoRound
<1>11. FlushedIsDurable'
  <2>1. ASSUME NEW n \in 1..flushed', n \notin lost'
        PROVE  \/ \E s \in segFiles' \cap linked' : n \in recs'[s]
               \/ \E w \in walFiles' \cap linked' : n \in synced'[w]
    <3>1. n \in 1..flushed /\ n \notin lost
      BY Zenon, <1>1, <1>3, <2>1
    <3>2. \A w \in W : synced'[w] = recs'[w]
      BY Zenon, <1>3, <1>5
    <3> QED BY Zenon, <1>3, <1>6, <3>1, <3>2
  <2> QED BY Zenon, <2>1 DEF FlushedIsDurable
<1> QED BY Zenon, <1>7, <1>8, <1>9, <1>10, <1>11 DEF Durable

(* No WAL shares a ULID with a segment, so the rebuild drops none.         *)
LEMMA RebuildDurable ==
  ASSUME MaxUlid \in Nat, TypeInv, Durable, OpenRebuild
  PROVE  Durable'
<1>1. /\ UNCHANGED <<log, flushed, lost, recs, segFiles, synced, linked, unlinked, wal,
                     rotated, jobs, results, stash, unlinking, syncing>>
      /\ walFiles' = walFiles \ segFiles /\ phase = "down" /\ phase' = "opening"
  BY Zenon DEF OpenRebuild, history, pipeline
<1>2. walFiles' = walFiles
  BY Zenon, <1>1 DEF Durable, FilesInv
<1>3. mint' \in 0..MaxUlid /\ \A u \in segFiles \cup walFiles' : u <= mint'
  BY Zenon, RebuiltMint
<1>4. AllJobs' = AllJobs /\ OpenWals' = OpenWals /\ Live' = Live
  BY Zenon, <1>1 DEF AllJobs, OpenWals, Live, Records
<1>5. \A m : InSegment(m)' <=> InSegment(m)
  BY Zenon, <1>1 DEF InSegment
<1>6. /\ wal = 0 /\ rotated = {} /\ syncing = NoRound /\ unlinking = 0
      /\ jobs = <<>> /\ results = <<>> /\ stash = <<>>
  BY Zenon, <1>1 DEF Durable, MemoryInv
<1>7. AllJobs = {} /\ Range(results) = {} /\ OpenWals = {}
  BY Zenon, <1>6, RangeEmpty DEF AllJobs, OpenWals
<1>8. FilesInv'
  BY Zenon, <1>1, <1>2, <1>3 DEF Durable, FilesInv
<1>9. MemoryInv'
  BY <1>1, <1>2, <1>3, <1>4, <1>6, <1>7 DEF MemoryInv
<1>10. JobsInv'
  BY Zenon, <1>1, <1>4, <1>7 DEF JobsInv
<1>11. HeldInv'
  BY Zenon, <1>1, <1>2, <1>4, <1>5 DEF Durable, HeldInv
<1>12. FlushedIsDurable'
  BY Zenon, <1>1, <1>2 DEF Durable, FlushedIsDurable
<1> QED BY Zenon, <1>8, <1>9, <1>10, <1>11, <1>12 DEF Durable

(* Recovery unlinks a WAL only once its records are in a durable segment.  *)
LEMMA RecoverPromoteDurable ==
  ASSUME MaxUlid \in Nat, TypeInv, Durable, FileSyncLinks, RecoverPromote
  PROVE  Durable'
<1> DEFINE w == NextToPromote
<1>1. /\ UNCHANGED <<log, flushed, lost, walFiles, unlinked, phase, wal, rotated, jobs,
                     results, stash, syncing>>
      /\ phase = "opening" /\ unlinking = 0 /\ unlinking' = w /\ ManyWals
  BY Zenon DEF RecoverPromote, Recovering, history
<1>2. /\ wal = 0 /\ rotated = {} /\ syncing = NoRound
      /\ jobs = <<>> /\ results = <<>> /\ stash = <<>>
  BY Zenon, <1>1 DEF Durable, MemoryInv
<1>3. AllJobs' = {} /\ Range(results') = {} /\ OpenWals' = {} /\ Live' = Live
  BY Zenon, <1>1, <1>2, RangeEmpty DEF AllJobs, OpenWals, Live, Records
<1>4. /\ walFiles \subseteq Ulids /\ segFiles \subseteq Ulids /\ Range(unlinked) \subseteq Ulids
      /\ mint \in Nat /\ recs \in [Ulids -> SUBSET Nat]
  BY SeqShape DEF TypeInv, TypeOK, Range
<1>5. w \in walFiles /\ w \in Ulids /\ \A x \in walFiles : w <= x
  <2>1. walFiles # {}
    BY Zenon, <1>1 DEF ManyWals
  <2> QED BY Zenon, <2>1, NextToPromoteIsLowest
<1>6. \E x \in walFiles : w < x
  <2>1. PICK x \in walFiles : x # w
    BY Zenon, <1>1, <1>5 DEF ManyWals
  <2> QED BY <1>4, <1>5, <2>1 DEF Ulids
<1>7. /\ \A f \in walFiles \cup segFiles : f <= mint
      /\ w \notin segFiles /\ w <= mint
  BY Zenon, <1>1, <1>5 DEF Durable, FilesInv
<1>8. CASE recs[w] = {}
  <2>1. UNCHANGED <<mint, recs, segFiles, synced, linked>>
    BY Zenon, <1>8 DEF RecoverPromote
  <2> HIDE DEF w
  <2>2. \A m : InSegment(m)' <=> InSegment(m)
    BY Zenon, <2>1 DEF InSegment
  <2>3. FilesInv' /\ FlushedIsDurable'
    BY Zenon, <1>1, <2>1 DEF Durable, FilesInv, FlushedIsDurable
  <2>4. MemoryInv'
    BY <1>1, <1>2, <1>3, <1>4, <1>6, <1>7, <1>8, <2>1 DEF MemoryInv
  <2>5. JobsInv'
    BY Zenon, <1>3 DEF JobsInv
  <2>6. HeldInv'
    BY Zenon, <1>1, <1>3, <2>1, <2>2 DEF Durable, HeldInv
  <2> QED BY Zenon, <2>3, <2>4, <2>5, <2>6 DEF Durable
<1>9. CASE recs[w] # {}
  <2>1. PICK B : mint' = mint + 2 /\ mint + 2 <= MaxUlid /\ CommitSegment(mint + 1, w, B)
    BY Zenon, <1>9 DEF RecoverPromote
  <2> HIDE DEF w
  <2> DEFINE s == mint + 1
  <2>2. /\ segFiles' = segFiles \cup {s} /\ linked \cup {s} \subseteq linked'
        /\ recs' = [recs EXCEPT ![s] = recs[w]]
        /\ synced' = [u \in Ulids |-> IF u \in {w} THEN recs[u] ELSE synced[u]]
    BY Zenon, <2>1 DEF CommitSegment, WriteSegment, SyncedWith, LinkedWith
  <2>3. /\ s \in Ulids /\ s \notin walFiles /\ s \notin segFiles /\ s \notin Range(unlinked)
        /\ w < s /\ s <= mint' /\ mint <= mint' /\ mint' \in Nat
    <3>1. \A u \in Range(unlinked) : \E f \in walFiles \cup segFiles : u < f
      BY Zenon DEF Durable, FilesInv
    <3>2. s \notin Range(unlinked)
      BY <1>4, <1>7, <3>1 DEF Ulids
    <3> QED BY <1>4, <1>5, <1>7, <2>1, <3>2 DEF Ulids
  <2>4. \A f \in walFiles \cup segFiles' : f <= mint'
    BY <1>4, <1>7, <2>2, <2>3 DEF Ulids
  <2> HIDE DEF s
  <2>5. /\ recs'[s] = recs[w] /\ \A u \in Ulids : u # s => recs'[u] = recs[u]
        /\ recs'[w] = recs[w]
        /\ \A u \in Ulids : synced'[u] = synced[u] \/ synced'[u] = recs[u]
    BY Zenon, <1>4, <1>5, <2>2, <2>3
  <2>6. \A m : InSegment(m) => InSegment(m)'
    BY Zenon, <1>4, <2>2, <2>3, <2>5 DEF InSegment
  <2>7. \A m \in recs'[w] : InSegment(m)'
    BY Zenon, <2>2, <2>5 DEF InSegment
  <2>8. FilesInv'
    <3>1. \A u \in Ulids \ segFiles' : synced'[u] \subseteq recs'[u]
      BY Zenon, <2>2, <2>5 DEF Durable, FilesInv
    <3> QED BY Zenon, <1>1, <2>2, <2>3, <2>4, <3>1 DEF Durable, FilesInv
  <2>9. MemoryInv'
    <3>1. \E f \in walFiles \cup segFiles' : w < f
      BY Zenon, <2>2, <2>3
    <3>2. w \notin segFiles' /\ w <= mint' /\ 0 <= mint'
      BY <1>4, <1>5, <1>7, <2>2, <2>3 DEF Ulids
    <3> QED BY Zenon, <1>1, <1>2, <1>3, <2>7, <3>1, <3>2 DEF MemoryInv
  <2>10. JobsInv'
    BY Zenon, <1>3 DEF JobsInv
  <2>11. \A x \in walFiles : recs'[x] = recs[x] /\ synced[x] \subseteq synced'[x]
    BY Zenon, <1>4, <2>3, <2>5 DEF Durable, FilesInv
  <2>12. HeldInv'
    <3>1. \A m \in Live : InSegment(m) \/ \E x \in walFiles : m \in recs[x]
      BY Zenon DEF Durable, HeldInv
    <3>2. flushed <= Len(log)
      BY Zenon DEF Durable, HeldInv
    <3> QED BY Zenon, <1>1, <1>2, <1>3, <2>6, <2>11, <3>1, <3>2 DEF HeldInv, NoRound
  <2>13. FlushedIsDurable'
    <3>1. \A n \in 1..flushed : n \notin lost =>
            InSegment(n) \/ \E x \in walFiles \cap linked : n \in synced[x]
      BY Zenon DEF Durable, FlushedIsDurable, InSegment
    <3>2. \A n \in 1..flushed : n \notin lost =>
            InSegment(n)' \/ \E x \in walFiles \cap linked' : n \in synced'[x]
      BY Zenon, <2>2, <2>6, <2>11, <3>1
    <3> QED BY Zenon, <1>1, <3>2 DEF FlushedIsDurable, InSegment
  <2> QED BY Zenon, <2>8, <2>9, <2>10, <2>12, <2>13 DEF Durable
<1> QED BY Zenon, <1>8, <1>9

(* At most one WAL is left, and it is the one a sync round covers next.    *)
LEMMA RecoverLatestDurable ==
  ASSUME MaxUlid \in Nat, TypeInv, Durable, RecoverLatest
  PROVE  Durable'
<1>1. /\ UNCHANGED <<log, flushed, lost, disk, mint, rotated, jobs, results, stash, unlinking, syncing>>
      /\ phase = "opening" /\ phase' = "up" /\ unlinking = 0 /\ ~ManyWals
  BY Zenon DEF RecoverLatest, Recovering, history, pipeline
<1>2. /\ wal = 0 /\ rotated = {} /\ syncing = NoRound
      /\ jobs = <<>> /\ results = <<>> /\ stash = <<>>
  BY Zenon, <1>1 DEF Durable, MemoryInv
<1>3. AllJobs' = {} /\ Range(results') = {} /\ Live' = Live
  BY Zenon, <1>1, <1>2, RangeEmpty DEF AllJobs, Live, Records
<1>4. OpenWals' = walFiles /\ wal' <= mint
  <2>1. CASE walFiles = {}
    <3>1. wal' = 0
      BY Zenon, <1>2, <2>1 DEF RecoverLatest
    <3> QED BY <1>1, <1>2, <2>1, <3>1 DEF OpenWals, TypeInv, TypeOK
  <2>2. CASE walFiles # {}
    <3>1. PICK x : walFiles = {x}
      BY <1>1, <2>2 DEF ManyWals
    <3>2. walFiles \subseteq 0..MaxUlid /\ x \in Ulids
      BY <3>1 DEF TypeInv, TypeOK, Ulids
    <3>3. Max(walFiles) \in walFiles
      BY Zenon, <2>2, <3>2, MaxIsGreatest
    <3>4. wal' = x
      BY Zenon, <2>2, <3>1, <3>3 DEF RecoverLatest
    <3>5. x <= mint
      BY Zenon, <1>1, <3>1 DEF Durable, FilesInv
    <3> QED BY <1>1, <1>2, <3>1, <3>2, <3>4, <3>5 DEF OpenWals, Ulids
  <2> QED BY Zenon, <2>1, <2>2
<1>5. \A m : InSegment(m)' <=> InSegment(m)
  BY Zenon, <1>1 DEF InSegment, disk
<1>6. FilesInv' /\ FlushedIsDurable'
  BY Zenon, <1>1 DEF Durable, FilesInv, FlushedIsDurable, disk
<1>7. MemoryInv'
  BY Zenon, <1>1, <1>4 DEF MemoryInv, disk
<1>8. JobsInv'
  BY Zenon, <1>3 DEF JobsInv
<1>9. HeldInv'
  BY Zenon, <1>1, <1>2, <1>3, <1>4, <1>5 DEF Durable, HeldInv, NoRound, disk
<1> QED BY Zenon, <1>6, <1>7, <1>8, <1>9 DEF Durable

(* Every step keeps what makes a flush durable.                            *)
LEMMA NextDurable ==
  ASSUME MaxUlid \in Nat, TypeInv, Durable, FileSyncLinks, [Next]_vars
  PROVE  Durable'
<1>1. CASE \E l \in Lbas, h \in Hashes : Write(l, h)
  BY Zenon, <1>1, CommitDurable DEF Write, Contents
<1>2. CASE \E l \in Lbas : WriteZeroes(l)
  BY Zenon, <1>2, CommitDurable DEF WriteZeroes, Contents
<1>3. CASE UNCHANGED vars
  <2>1. AllJobs' = AllJobs
    BY Zenon, <1>3 DEF vars, pipeline, AllJobs
  <2> QED BY Zenon, <1>3, <2>1, QuietDurable DEF vars, history, pipeline, Durable, MemoryInv
<1> QED
  BY Zenon, <1>1, <1>2, <1>3, TakeHandlesDurable, SyncFilesDurable, DispatchDurable, ExecuteDurable,
     ApplyDurable, StashDurable, RemoveDurable, CrashDurable, PowerLossDurable, RebuildDurable,
     RecoverPromoteDurable, RecoverLatestDurable
     DEF Next

(* What a flush covered survives any crash, power loss, failed promote and *)
(* recovery, for any blocks, contents and bounds, where syncing a WAL      *)
(* makes its directory entry durable (sync_handles, execute_promote,       *)
(* remove_promoted_wal, Volume::open).                                     *)
THEOREM FlushedSurvives == ASSUME FileSyncLinks PROVE Spec => []FlushedIsDurable
<1>0. MaxUlid \in Nat
  BY Zenon, VolumeAssumption
<1>1. Init => TypeInv /\ Durable
  BY Zenon, <1>0, InitTypes, InitDurable
<1>2. TypeInv /\ Durable /\ [Next]_vars => (TypeInv /\ Durable)'
  BY Zenon, <1>0, NextTypes, NextDurable
<1>3. Durable => FlushedIsDurable
  BY Zenon DEF Durable
<1> QED BY <1>1, <1>2, <1>3, PTL DEF Spec

-----------------------------------------------------------------------------
(* The disk.                                                               *)

(* The WALs a power loss may leave: those on disk and those unlinked since *)
(* the last one.                                                           *)
Wals == walFiles \cup Range(unlinked)

(* A later WAL holds later records.                                        *)
WalOrder == \A u, w \in Wals : u < w => \A m \in recs[u], n \in recs[w] : m < n

(* WALs are unlinked in their order, oldest first.                         *)
UnlinkOrder ==
  /\ \A i, k \in DOMAIN unlinked : i < k => unlinked[i] < unlinked[k]
  /\ \A u \in Range(unlinked), w \in walFiles : u < w

(* Records are in files, and a lost one is in none.                        *)
InFiles ==
  /\ \A u \in Ulids : recs[u] # {} => u \in Wals \cup segFiles
  /\ \A u \in Ulids : recs[u] \cap lost = {}
  /\ lost \subseteq Records

(* A segment's entry is durable, and so is the part of a WAL that was      *)
(* promoted: a power loss that brings the WAL back brings all of it.       *)
Settled ==
  /\ segFiles \subseteq linked
  /\ \A s \in segFiles, w \in Wals : \A n \in recs[s] \cap recs[w] : n \in synced[w] /\ w \in linked

(* A promoted record newer than one in a WAL is itself in a WAL: replaying *)
(* the WALs over the segments restores it.                                 *)
Returns ==
  \A s \in segFiles, w \in Wals : \A n \in recs[s], m \in recs[w] :
    m < n => \E v \in Wals : n \in recs[v]

(* A segment may hold older records than a lower one only while the newer  *)
(* ones are in a WAL, or in a segment above both.                          *)
SegOrder ==
  \A s, t \in segFiles : s < t => \A n \in recs[s], m \in recs[t] : m < n =>
    \/ \E w \in walFiles : n \in recs[w]
    \/ \E v \in segFiles : t <= v /\ n \in recs[v]

DiskInv == WalOrder /\ UnlinkOrder /\ InFiles /\ Settled /\ Returns /\ SegOrder

-----------------------------------------------------------------------------
(* The pipeline.                                                           *)

(* s is the segment of WAL w, and every segment above it holds only newer  *)
(* records than w.                                                         *)
Sealed(w, s) ==
  /\ s \in segFiles /\ recs[s] = recs[w]
  /\ \A t \in segFiles : s < t => \A m \in recs[t], n \in recs[w] : n < m

Faultless == stash = <<>> /\ \A r \in Range(results) : r.out = "ok"

(* Promotes are dispatched, written and applied in the order of their WALs *)
(* and segments.                                                           *)
JobOrder ==
  /\ \A i, k \in DOMAIN results : i < k => results[i].job.seg < results[k].job.wal
  /\ \A i, k \in DOMAIN jobs : i < k => jobs[i].seg < jobs[k].wal
  /\ \A r \in Range(results), j \in Range(jobs) : r.job.seg < j.wal
  /\ wal # 0 => \A j \in AllJobs : j.seg < wal

(* The WALs on disk are the open one, the ones the pipeline holds and the  *)
(* one about to be unlinked.                                               *)
PipelineWals ==
  /\ rotated = {j.wal : j \in AllJobs}
  /\ phase = "up" => walFiles = OpenWals \cup ({unlinking} \ {0})

(* The oldest WAL is unlinked, once its segment is in place.               *)
OldestGoes ==
  unlinking # 0 => /\ unlinking \in walFiles /\ \A w \in walFiles : unlinking <= w
                   /\ recs[unlinking] = {} \/ \E s \in segFiles : Sealed(unlinking, s)

(* Segments are written in the order of their ULIDs.                       *)
Promoted ==
  /\ \A j \in Range(jobs) : \A s \in segFiles : s < j.seg
  /\ \A r \in Range(results) : Sealed(r.job.wal, r.job.seg) /\ bodies[r.job.seg] = r.job.bodies

QueueInv == Faultless /\ JobOrder /\ PipelineWals /\ OldestGoes /\ Promoted

-----------------------------------------------------------------------------
(* What the operators give.                                                *)

(* The element above all others is the maximum.                            *)
LEMMA MaxIs ==
  ASSUME NEW b \in Nat, NEW S, S \subseteq 0..b, NEW m \in S, \A x \in S : x <= m
  PROVE  Max(S) = m
<1>1. Max(S) \in S /\ \A x \in S : x <= Max(S)
  BY Zenon, MaxIsGreatest
<1>2. Max(S) \in 0..b /\ m \in 0..b /\ m <= Max(S) /\ Max(S) <= m
  BY Zenon, <1>1
<1> QED BY <1>2

(* The maximum of one number.                                              *)
LEMMA MaxOne == ASSUME NEW b \in Nat, NEW m \in 0..b PROVE Max({m}) = m /\ Min({m}) = m
<1>1. {m} \subseteq 0..b /\ {m} \subseteq Nat /\ {m} # {} /\ m <= m
  OBVIOUS
<1>2. Max({m}) \in {m} /\ Min({m}) \in {m}
  BY Zenon, <1>1, MaxIsGreatest, MinIsLeast
<1> QED BY Zenon, <1>2

(* The record that governs a block is one of the block's records, and the  *)
(* latest.                                                                 *)
LEMMA NetIsLatest ==
  ASSUME TypeInv, NEW R, R \subseteq Records, NEW l, At(R, l) # {}
  PROVE  /\ Net(R, l) \in At(R, l) /\ Net(R, l) \in R /\ Net(R, l) \in Records
         /\ \A m \in At(R, l) : m <= Net(R, l)
<1>1. Len(log) \in Nat
  BY Zenon, LogLength DEF TypeInv, TypeOK
<1>2. At(R, l) \subseteq 0..Len(log) /\ At(R, l) \subseteq R
  <2>1. Records \subseteq 0..Len(log)
    BY <1>1 DEF Records
  <2> QED BY Zenon, <2>1 DEF At
<1>3. Max(At(R, l)) \in At(R, l) /\ \A m \in At(R, l) : m <= Max(At(R, l))
  BY Zenon, <1>1, <1>2, MaxIsGreatest
<1> QED BY Zenon, <1>2, <1>3 DEF Net

(* The types the steps below use.                                          *)
LEMMA FileTypes ==
  ASSUME TypeInv
  PROVE  /\ recs \in [Ulids -> SUBSET Nat] /\ synced \in [Ulids -> SUBSET Nat]
         /\ walFiles \subseteq Ulids /\ segFiles \subseteq Ulids /\ Wals \subseteq Ulids
         /\ rotated \subseteq Ulids /\ OpenWals \subseteq Ulids
         /\ wal \in Ulids \cup {0} /\ unlinking \in Ulids \cup {0} /\ mint \in Nat
         /\ MaxUlid \in Nat /\ Ulids \subseteq Nat /\ 0 \notin Ulids
         /\ Len(log) \in Nat /\ Records \subseteq Nat /\ 0 \notin Records
         /\ \A u \in Ulids : recs[u] \subseteq Records
<1>1. /\ recs \in [Ulids -> SUBSET Nat] /\ synced \in [Ulids -> SUBSET Nat]
      /\ walFiles \subseteq Ulids /\ segFiles \subseteq Ulids /\ rotated \subseteq Ulids
      /\ wal \in Ulids \cup {0} /\ unlinking \in Ulids \cup {0} /\ mint \in Nat
      /\ \A u \in Ulids : recs[u] \subseteq Records
  BY Zenon DEF TypeInv, TypeOK, Bounded
<1>2. unlinked \in Seq(Ulids)
  BY Zenon DEF TypeInv, TypeOK
<1>3. Range(unlinked) \subseteq Ulids
  BY <1>2, SeqShape DEF Range
<1>4. Len(log) \in Nat
  BY Zenon, LogLength DEF TypeInv, TypeOK
<1>5. MaxUlid \in Nat
  BY Zenon, VolumeAssumption
<1>6. Ulids \subseteq Nat /\ 0 \notin Ulids /\ Records \subseteq Nat /\ 0 \notin Records
  BY <1>4, <1>5 DEF Ulids, Records
<1> QED BY Zenon, <1>1, <1>3, <1>4, <1>5, <1>6 DEF Wals, OpenWals

-----------------------------------------------------------------------------
(* The disk under each step.                                               *)

(* The open WAL is the highest.                                            *)
LEMMA OpenIsHighest ==
  ASSUME TypeInv, Durable, DiskInv, QueueInv, phase = "up", wal # 0
  PROVE  wal \in walFiles /\ \A u \in Wals : u # wal => u < wal
<1>1. walFiles = OpenWals \cup ({unlinking} \ {0}) /\ wal \in OpenWals
  BY Zenon DEF QueueInv, PipelineWals, OpenWals
<1>2. ASSUME NEW u \in rotated PROVE u < wal
  <2>1. PICK j \in AllJobs : u = j.wal
    BY Zenon, <1>2 DEF QueueInv, PipelineWals
  <2>2. j.wal < j.seg /\ j.seg < wal
    BY Zenon, <2>1 DEF QueueInv, JobOrder, Durable, JobsInv
  <2>3. j.wal \in Nat /\ j.seg \in Nat /\ wal \in Nat
    BY Zenon, JobType, FileTypes
  <2> QED BY <2>1, <2>2, <2>3
<1>3. ASSUME unlinking # 0, unlinking # wal PROVE unlinking < wal
  <2>1. unlinking <= wal /\ unlinking \in Nat /\ wal \in Nat
    BY Zenon, <1>1, <1>3, FileTypes DEF QueueInv, OldestGoes
  <2> QED BY <1>3, <2>1
<1>4. ASSUME NEW u \in Range(unlinked) PROVE u < wal
  BY Zenon, <1>1, <1>4 DEF DiskInv, UnlinkOrder
<1> QED BY Zenon, <1>1, <1>2, <1>3, <1>4 DEF Wals, OpenWals

(* An append adds the newest record to the highest WAL.                    *)
LEMMA CommitDisk ==
  ASSUME TypeInv, Durable, DiskInv, QueueInv, phase = "up",
         NEW l \in Lbas, NEW h \in Contents, Commit(l, h)
  PROVE  DiskInv'
<1> DEFINE w == IF wal = 0 THEN mint + 1 ELSE wal
           n == Len(log) + 1
<1>1. /\ recs' = [recs EXCEPT ![w] = @ \cup {n}] /\ walFiles' = walFiles \cup {w}
      /\ UNCHANGED <<lost, segFiles, synced, linked, unlinked>>
  BY Zenon DEF Commit
<1>2. w \in Ulids /\ Len(log') = n /\ n \in Nat
  <2>1. w \in Ulids
    BY DEF Commit, TypeInv, TypeOK, Ulids
  <2>2. Len(log') = n
    BY AppendShape DEF Commit, TypeInv, TypeOK
  <2> QED BY <2>1, <2>2, FileTypes
<1>3. \A u \in Wals : u # w => u < w
  <2>1. CASE wal = 0
    <3>1. \A f \in walFiles \cup segFiles : f <= mint
      BY Zenon DEF Durable, FilesInv
    <3>2. \A u \in Range(unlinked) : \E f \in walFiles \cup segFiles : u < f
      BY Zenon DEF Durable, FilesInv
    <3>3. \A u \in Wals : u <= mint
      <4>1. ASSUME NEW u \in Range(unlinked) PROVE u <= mint
        <5>1. PICK f \in walFiles \cup segFiles : u < f /\ f <= mint
          BY Zenon, <3>1, <3>2
        <5>2. u \in Nat /\ f \in Nat /\ mint \in Nat
          BY Zenon, FileTypes DEF Wals
        <5> QED BY <5>1, <5>2
      <4> QED BY Zenon, <3>1, <4>1 DEF Wals
    <3> QED BY <2>1, <3>3, FileTypes
  <2>2. CASE wal # 0
    BY Zenon, <2>2, OpenIsHighest
  <2> QED BY Zenon, <2>1, <2>2
<1>4. w \notin segFiles /\ (w \notin Wals => recs[w] = {})
  <2>1. wal # 0 => w \in Wals /\ w \notin segFiles
    BY Zenon, OpenIsHighest DEF Durable, FilesInv, Wals
  <2>2. wal = 0 => w \notin segFiles
    <3>1. \A f \in segFiles : f <= mint
      BY Zenon DEF Durable, FilesInv
    <3> QED BY <3>1, FileTypes
  <2> HIDE DEF w
  <2> QED BY Zenon, <1>2, <2>1, <2>2 DEF DiskInv, InFiles
<1>5. \A u \in Ulids : \A m \in recs[u] : m < n
  <2>1. \A m \in Records : m < n
    BY FileTypes DEF Records
  <2> HIDE DEF n
  <2> QED BY Zenon, <2>1, FileTypes
<1> HIDE DEF w, n
<1>6. /\ \A u \in Ulids : u # w => recs'[u] = recs[u]
      /\ recs'[w] = recs[w] \cup {n}
  BY Zenon, <1>1, <1>2, FileTypes
<1>7. Wals' = Wals \cup {w} /\ Wals \subseteq Ulids /\ segFiles \subseteq Ulids
  BY Zenon, <1>1, FileTypes DEF Wals
<1>8. \A u \in Wals' : \A m \in recs'[u] : (u \in Wals /\ m \in recs[u]) \/ (u = w /\ m = n)
  BY Zenon, <1>4, <1>6, <1>7
<1>9. \A s \in segFiles : recs'[s] = recs[s]
  BY Zenon, <1>4, <1>6, <1>7
<1>10. \A u \in Wals : recs[u] \subseteq recs'[u]
  BY Zenon, <1>2, <1>6, <1>7
<1>11. WalOrder'
  <2> SUFFICES ASSUME NEW u \in Wals', NEW v \in Wals', u < v, NEW m \in recs'[u], NEW k \in recs'[v]
               PROVE  m < k
    BY Zenon DEF WalOrder
  <2>1. ~(w < w) /\ \A x \in Wals : ~(w < x)
    <3>1. w \in Nat /\ \A x \in Wals : x \in Nat
      BY Zenon, <1>2, FileTypes
    <3> QED BY <1>3, <3>1
  <2>2. u \in Wals /\ m \in recs[u]
    BY Zenon, <1>7, <1>8, <2>1
  <2>3. CASE v \in Wals /\ k \in recs[v]
    BY Zenon, <2>2, <2>3 DEF DiskInv, WalOrder
  <2>4. CASE v = w /\ k = n
    BY Zenon, <1>5, <1>7, <2>2, <2>4
  <2> QED BY Zenon, <1>8, <2>3, <2>4
<1>12. UnlinkOrder'
  <2>1. \A u \in Range(unlinked) : u < w
    <3>1. CASE w \in walFiles
      BY Zenon, <3>1 DEF DiskInv, UnlinkOrder
    <3>2. CASE w \notin walFiles
      <4>1. w \notin Range(unlinked)
        <5>1. wal = 0
          BY Zenon, <3>2, OpenIsHighest DEF w
        <5>2. \A u \in Range(unlinked) : \E f \in walFiles \cup segFiles : u < f /\ f <= mint
          BY Zenon DEF Durable, FilesInv
        <5>3. w = mint + 1 /\ mint \in Nat /\ \A f \in walFiles \cup segFiles : f \in Nat
          BY Zenon, <5>1, FileTypes DEF w
        <5> QED BY <5>2, <5>3
      <4> QED BY Zenon, <1>3, <4>1 DEF Wals
    <3> QED BY Zenon, <3>1, <3>2
  <2> QED BY Zenon, <1>1, <2>1 DEF DiskInv, UnlinkOrder
<1>13. InFiles'
  <2>1. \A u \in Ulids : recs'[u] # {} => u \in Wals' \cup segFiles'
    BY Zenon, <1>1, <1>6, <1>7 DEF DiskInv, InFiles
  <2>2. n \notin lost
    <3>1. n \notin Records
      BY FileTypes DEF Records, n
    <3> QED BY Zenon, <3>1 DEF DiskInv, InFiles
  <2>3. \A u \in Ulids : recs'[u] \cap lost' = {}
    BY Zenon, <1>1, <1>6, <2>2 DEF DiskInv, InFiles
  <2>4. lost' \subseteq Records'
    <3>1. Records \subseteq Records'
      BY <1>2, FileTypes DEF Records, n
    <3> QED BY Zenon, <1>1, <3>1 DEF DiskInv, InFiles
  <2> QED BY Zenon, <2>1, <2>3, <2>4 DEF InFiles
<1>14. ~(n < n) /\ \A s \in segFiles : n \notin recs[s] /\ \A k \in recs[s] : ~(n < k)
  <2>1. \A s \in segFiles : \A k \in recs[s] : k \in Nat /\ k < n
    BY Zenon, <1>5, FileTypes
  <2> QED BY <1>2, <2>1
<1>15. Settled'
  <2>1. ASSUME NEW s \in segFiles', NEW v \in Wals', NEW k \in recs'[s], k \in recs'[v]
        PROVE  k \in synced'[v] /\ v \in linked'
    <3>1. s \in segFiles /\ k \in recs[s]
      BY Zenon, <1>1, <1>9, <2>1
    <3>2. v \in Wals /\ k \in recs[v]
      BY Zenon, <1>8, <1>14, <2>1, <3>1
    <3>3. k \in synced[v] /\ v \in linked
      BY Zenon, <3>1, <3>2 DEF DiskInv, Settled
    <3> QED BY Zenon, <1>1, <3>3
  <2>2. segFiles' \subseteq linked'
    BY Zenon, <1>1 DEF DiskInv, Settled
  <2> QED BY Zenon, <2>1, <2>2 DEF Settled
<1>16. Returns'
  <2> SUFFICES ASSUME NEW s \in segFiles', NEW v \in Wals', NEW k \in recs'[s], NEW m \in recs'[v], m < k
               PROVE  \E x \in Wals' : k \in recs'[x]
    BY Zenon DEF Returns
  <2>1. s \in segFiles /\ k \in recs[s]
    BY Zenon, <1>1, <1>9
  <2>2. v \in Wals /\ m \in recs[v]
    BY Zenon, <1>8, <1>14, <2>1
  <2>3. PICK x \in Wals : k \in recs[x]
    BY Zenon, <2>1, <2>2 DEF DiskInv, Returns
  <2> QED BY Zenon, <1>7, <1>10, <2>3
<1>17. SegOrder'
  <2> SUFFICES ASSUME NEW s \in segFiles', NEW t \in segFiles', s < t, NEW k \in recs'[s], NEW m \in recs'[t], m < k
               PROVE  \/ \E x \in walFiles' : k \in recs'[x]
                      \/ \E v \in segFiles' : t <= v /\ k \in recs'[v]
    BY Zenon DEF SegOrder
  <2>1. s \in segFiles /\ t \in segFiles /\ k \in recs[s] /\ m \in recs[t]
    BY Zenon, <1>1, <1>9
  <2>2. \/ \E x \in walFiles : k \in recs[x]
        \/ \E v \in segFiles : t <= v /\ k \in recs[v]
    BY Zenon, <2>1 DEF DiskInv, SegOrder
  <2>3. \A x \in walFiles : x \in walFiles' /\ recs[x] \subseteq recs'[x]
    BY Zenon, <1>1, <1>10 DEF Wals
  <2> QED BY Zenon, <1>1, <1>9, <2>2, <2>3
<1> QED BY Zenon, <1>11, <1>12, <1>13, <1>15, <1>16, <1>17 DEF DiskInv

(* Nothing of the disk changes.                                            *)
LEMMA QuietDisk ==
  ASSUME DiskInv, UNCHANGED <<log, lost, recs, walFiles, segFiles, synced, linked, unlinked>>
  PROVE  DiskInv'
<1>1. UNCHANGED <<Wals, Records, Range(unlinked)>>
  BY Zenon DEF Wals, Records
<1>2. WalOrder' /\ UnlinkOrder'
  BY Zenon, <1>1 DEF DiskInv, WalOrder, UnlinkOrder
<1>3. InFiles' /\ Settled'
  BY Zenon, <1>1 DEF DiskInv, InFiles, Settled
<1>4. Returns' /\ SegOrder'
  BY Zenon, <1>1 DEF DiskInv, Returns, SegOrder
<1> QED BY Zenon, <1>2, <1>3, <1>4 DEF DiskInv

(* A sync round only makes more durable.                                   *)
LEMMA SyncDisk ==
  ASSUME TypeInv, DiskInv, FileSyncLinks, SyncFiles
  PROVE  DiskInv'
<1>1. /\ UNCHANGED <<log, lost, recs, walFiles, segFiles, unlinked>>
      /\ synced' = SyncedWith(syncing.files) /\ linked' = LinkedWith(syncing.files)
  BY Zenon DEF SyncFiles
<1>2. linked \subseteq linked'
  BY Zenon, <1>1 DEF LinkedWith
<1>3. \A u \in Ulids : synced'[u] = recs[u] \/ synced'[u] = synced[u]
  BY Zenon, <1>1 DEF SyncedWith
<1>4. UNCHANGED <<Wals, Records, Range(unlinked)>>
  BY Zenon, <1>1 DEF Wals, Records
<1>5. WalOrder' /\ UnlinkOrder' /\ InFiles'
  BY Zenon, <1>1, <1>4 DEF DiskInv, WalOrder, UnlinkOrder, InFiles
<1>6. Returns' /\ SegOrder'
  BY Zenon, <1>1, <1>4 DEF DiskInv, Returns, SegOrder
<1>7. Settled'
  <2>1. ASSUME NEW s \in segFiles', NEW v \in Wals', NEW k \in recs'[s], k \in recs'[v]
        PROVE  k \in synced'[v] /\ v \in linked'
    <3>1. s \in segFiles /\ v \in Wals /\ v \in Ulids /\ k \in recs[s] /\ k \in recs[v]
      BY Zenon, <1>1, <1>4, <2>1, FileTypes
    <3>2. k \in synced[v] /\ v \in linked
      BY Zenon, <3>1 DEF DiskInv, Settled
    <3>3. k \in synced'[v]
      BY Zenon, <1>3, <3>1, <3>2
    <3> QED BY Zenon, <1>2, <3>2, <3>3
  <2>2. segFiles' \subseteq linked'
    BY Zenon, <1>1, <1>2 DEF DiskInv, Settled
  <2> QED BY Zenon, <2>1, <2>2 DEF Settled
<1> QED BY Zenon, <1>5, <1>6, <1>7 DEF DiskInv

(* A promote copies a WAL into a segment above all others.                 *)
LEMMA SegmentDisk ==
  ASSUME TypeInv, Durable, DiskInv, FileSyncLinks,
         NEW s \in Ulids, NEW w \in walFiles, NEW B, CommitSegment(s, w, B),
         s \notin Wals, \A t \in segFiles : t < s, UNCHANGED <<log, lost, walFiles, unlinked>>
  PROVE  DiskInv'
<1>1. /\ recs' = [recs EXCEPT ![s] = recs[w]] /\ segFiles' = segFiles \cup {s}
      /\ synced' = SyncedWith({w}) /\ linked' = LinkedWith({w}) \cup {s}
  BY Zenon DEF CommitSegment, WriteSegment
<1>2. w \in Ulids /\ w \in Wals /\ Wals \subseteq Ulids /\ segFiles \subseteq Ulids
  BY Zenon, FileTypes DEF Wals
<1>3. s \notin segFiles
  <2>1. \A t \in segFiles : t # s
    BY <1>2, FileTypes
  <2> QED BY Zenon, <2>1
<1>4. recs'[s] = recs[w] /\ \A u \in Ulids : u # s => recs'[u] = recs[u]
  BY Zenon, <1>1, FileTypes
<1>5. /\ \A u \in Wals : recs'[u] = recs[u]
      /\ \A t \in segFiles : recs'[t] = recs[t]
  BY Zenon, <1>2, <1>3, <1>4
<1>6. linked \subseteq linked' /\ w \in linked' /\ s \in linked'
  BY Zenon, <1>1 DEF LinkedWith
<1>7. \A u \in Ulids : (u = w /\ synced'[u] = recs[u]) \/ (u # w /\ synced'[u] = synced[u])
  BY Zenon, <1>1 DEF SyncedWith
<1>8. UNCHANGED <<Wals, Records, Range(unlinked)>>
  BY Zenon DEF Wals, Records
<1>9. ASSUME NEW u \in Wals, NEW v \in Wals, NEW m \in recs[u], m \in recs[v] PROVE u = v
  <2>1. u \in Nat /\ v \in Nat /\ m \in Nat
    BY Zenon, <1>2, <1>9, FileTypes
  <2>2. ~(u < v) /\ ~(v < u)
    <3>1. ~(m < m)
      BY <2>1
    <3> QED BY Zenon, <1>9, <3>1 DEF DiskInv, WalOrder
  <2> QED BY <2>1, <2>2
<1>10. WalOrder' /\ UnlinkOrder'
  BY Zenon, <1>5, <1>8 DEF DiskInv, WalOrder, UnlinkOrder
<1>11. InFiles'
  <2>1. \A u \in Ulids : recs'[u] # {} => u \in Wals' \cup segFiles'
    BY Zenon, <1>1, <1>4, <1>8 DEF DiskInv, InFiles
  <2>2. \A u \in Ulids : recs'[u] \cap lost' = {}
    BY Zenon, <1>2, <1>4 DEF DiskInv, InFiles
  <2> QED BY Zenon, <1>8, <2>1, <2>2 DEF DiskInv, InFiles
<1>12. Settled'
  <2>1. ASSUME NEW t \in segFiles', NEW v \in Wals', NEW k \in recs'[t], k \in recs'[v]
        PROVE  k \in synced'[v] /\ v \in linked'
    <3>1. v \in Wals /\ v \in Ulids /\ k \in recs[v]
      BY Zenon, <1>2, <1>5, <1>8, <2>1
    <3>2. CASE t = s
      <4>1. v = w
        BY Zenon, <1>2, <1>4, <1>9, <2>1, <3>1, <3>2
      <4> QED BY Zenon, <1>6, <1>7, <3>1, <4>1
    <3>3. CASE t \in segFiles
      <4>1. k \in recs[t]
        BY Zenon, <1>5, <2>1, <3>3
      <4>2. k \in synced[v] /\ v \in linked
        BY Zenon, <3>1, <3>3, <4>1 DEF DiskInv, Settled
      <4>3. k \in synced'[v]
        BY Zenon, <1>7, <3>1, <4>2
      <4> QED BY Zenon, <1>6, <4>2, <4>3
    <3> QED BY Zenon, <1>1, <3>2, <3>3
  <2>2. segFiles' \subseteq linked'
    BY Zenon, <1>1, <1>6 DEF DiskInv, Settled
  <2> QED BY Zenon, <2>1, <2>2 DEF Settled
<1>13. Returns'
  <2> SUFFICES ASSUME NEW t \in segFiles', NEW v \in Wals', NEW k \in recs'[t], NEW m \in recs'[v], m < k
               PROVE  \E x \in Wals' : k \in recs'[x]
    BY Zenon DEF Returns
  <2>1. v \in Wals /\ m \in recs[v]
    BY Zenon, <1>5, <1>8
  <2>2. CASE t = s
    BY Zenon, <1>2, <1>4, <1>5, <1>8, <2>2
  <2>3. CASE t \in segFiles
    <3>1. k \in recs[t]
      BY Zenon, <1>5, <2>3
    <3>2. PICK x \in Wals : k \in recs[x]
      BY Zenon, <2>1, <2>3, <3>1 DEF DiskInv, Returns
    <3> QED BY Zenon, <1>5, <1>8, <3>2
  <2> QED BY Zenon, <1>1, <2>2, <2>3
<1>14. SegOrder'
  <2> SUFFICES ASSUME NEW r \in segFiles', NEW t \in segFiles', r < t, NEW k \in recs'[r], NEW m \in recs'[t], m < k
               PROVE  \/ \E x \in walFiles' : k \in recs'[x]
                      \/ \E v \in segFiles' : t <= v /\ k \in recs'[v]
    BY Zenon DEF SegOrder
  <2>1. r \in segFiles
    <3>1. \A x \in segFiles' : ~(s < x)
      BY <1>1, <1>2, FileTypes
    <3> QED BY Zenon, <1>1, <3>1
  <2>2. k \in recs[r]
    BY Zenon, <1>5, <2>1
  <2>3. \A x \in walFiles : recs'[x] = recs[x]
    BY Zenon, <1>5 DEF Wals
  <2>4. CASE t = s
    <3>1. m \in recs[w]
      BY Zenon, <1>4, <2>4
    <3>2. PICK x \in Wals : k \in recs[x]
      BY <1>2, <2>1, <2>2, <3>1 DEF DiskInv, Returns
    <3>3. ~(x < w)
      <4>1. m \in Nat /\ k \in Nat
        BY Zenon, <1>2, <2>1, <2>2, <3>1, FileTypes
      <4>2. ~(k < m)
        BY <4>1
      <4> QED BY Zenon, <1>2, <3>1, <3>2, <4>2 DEF DiskInv, WalOrder
    <3>4. x \in walFiles
      BY Zenon, <3>2, <3>3 DEF DiskInv, UnlinkOrder, Wals
    <3> QED BY Zenon, <2>3, <3>2, <3>4
  <2>5. CASE t \in segFiles
    <3>1. m \in recs[t]
      BY Zenon, <1>5, <2>5
    <3>2. \/ \E x \in walFiles : k \in recs[x]
          \/ \E v \in segFiles : t <= v /\ k \in recs[v]
      BY Zenon, <2>1, <2>2, <2>5, <3>1 DEF DiskInv, SegOrder
    <3> QED BY Zenon, <1>1, <1>5, <2>3, <3>2
  <2> QED BY Zenon, <1>1, <2>4, <2>5
<1> QED BY Zenon, <1>10, <1>11, <1>12, <1>13, <1>14 DEF DiskInv

(* The oldest WAL goes, after its segment is in place.                     *)
LEMMA RemoveDisk ==
  ASSUME TypeInv, DiskInv, QueueInv, RemoveWal
  PROVE  DiskInv'
<1> DEFINE w == unlinking
<1>1. /\ w # 0 /\ walFiles' = walFiles \ {w} /\ unlinked' = Append(unlinked, w)
      /\ UNCHANGED <<log, lost, recs, segFiles, synced, linked>>
  BY Zenon DEF RemoveWal, history
<1>2. /\ w \in walFiles /\ w \in Ulids /\ \A u \in walFiles : w <= u
      /\ recs[w] = {} \/ \E s \in segFiles : Sealed(w, s)
  BY Zenon, <1>1, FileTypes DEF QueueInv, OldestGoes
<1>3. unlinked \in Seq(Ulids)
  BY Zenon DEF TypeInv, TypeOK
<1> HIDE DEF w
<1>4. Range(unlinked') = Range(unlinked) \cup {w}
  BY <1>1, <1>2, <1>3, RangeAppend
<1>5. Wals' = Wals /\ Records' = Records
  BY Zenon, <1>1, <1>2, <1>4 DEF Wals, Records
<1>6. WalOrder' /\ InFiles'
  BY Zenon, <1>1, <1>5 DEF DiskInv, WalOrder, InFiles
<1>7. Settled' /\ Returns'
  BY Zenon, <1>1, <1>5 DEF DiskInv, Settled, Returns
<1>8. UnlinkOrder'
  <2>1. \A u \in Range(unlinked) : u < w
    BY Zenon, <1>2 DEF DiskInv, UnlinkOrder
  <2>2. \A x \in walFiles' : w < x
    BY <1>1, <1>2, FileTypes
  <2>3. /\ DOMAIN unlinked' = 1..(Len(unlinked) + 1) /\ DOMAIN unlinked = 1..Len(unlinked)
        /\ Len(unlinked) \in Nat /\ unlinked'[Len(unlinked) + 1] = w
        /\ \A i \in 1..Len(unlinked) : unlinked'[i] = unlinked[i]
    BY <1>1, <1>2, <1>3, AppendShape, SeqShape
  <2>4. ASSUME NEW i \in DOMAIN unlinked', NEW k \in DOMAIN unlinked', i < k
        PROVE  unlinked'[i] < unlinked'[k]
    <3>1. i \in DOMAIN unlinked
      BY <2>3, <2>4
    <3>2. unlinked[i] \in Range(unlinked)
      BY Zenon, <3>1 DEF Range
    <3>3. CASE k \in DOMAIN unlinked
      BY <2>3, <2>4, <3>1, <3>3 DEF DiskInv, UnlinkOrder
    <3>4. CASE k = Len(unlinked) + 1
      BY Zenon, <2>1, <2>3, <3>1, <3>2, <3>4
    <3> QED BY <2>3, <3>3, <3>4
  <2>5. \A u \in Range(unlinked'), x \in walFiles' : u < x
    BY Zenon, <1>1, <1>4, <2>2 DEF DiskInv, UnlinkOrder
  <2> QED BY Zenon, <2>4, <2>5 DEF UnlinkOrder
<1>9. SegOrder'
  <2> SUFFICES ASSUME NEW r \in segFiles, NEW t \in segFiles, r < t, NEW k \in recs[r], NEW m \in recs[t], m < k
               PROVE  \/ \E x \in walFiles' : k \in recs[x]
                      \/ \E v \in segFiles : t <= v /\ k \in recs[v]
    BY Zenon, <1>1 DEF SegOrder
  <2>1. CASE \E v \in segFiles : t <= v /\ k \in recs[v]
    BY Zenon, <2>1
  <2>2. CASE k \in recs[w]
    <3>1. PICK s \in segFiles : Sealed(w, s)
      BY Zenon, <1>2, <2>2
    <3>2. k \in recs[s] /\ (s < t => k < m)
      BY Zenon, <2>2, <3>1 DEF Sealed
    <3>3. s \in Nat /\ t \in Nat /\ k \in Nat /\ m \in Nat
      BY Zenon, FileTypes
    <3>4. t <= s
      BY <3>2, <3>3
    <3> QED BY Zenon, <3>2, <3>4
  <2>3. CASE \E x \in walFiles : k \in recs[x] /\ x # w
    BY Zenon, <1>1, <2>3
  <2>4. \/ \E x \in walFiles : k \in recs[x]
        \/ \E v \in segFiles : t <= v /\ k \in recs[v]
    BY Zenon DEF DiskInv, SegOrder
  <2> QED BY Zenon, <2>1, <2>2, <2>3, <2>4
<1> QED BY Zenon, <1>6, <1>7, <1>8, <1>9 DEF DiskInv

(* A power loss leaves the WALs whose entry is durable, and of the ones    *)
(* that were unlinked the latest: with a WAL it leaves every durable one   *)
(* above it.                                                               *)
LEMMA PowerLossWals ==
  ASSUME TypeInv, DiskInv, PowerLoss
  PROVE  \E W, cut :
           /\ W \subseteq Wals /\ walFiles \cap linked \subseteq W
           /\ \A u \in W, v \in Wals : u <= v /\ v \in linked => v \in W
           /\ \A u \in W : synced[u] \subseteq 0..cut[u]
           /\ Keep(W, segFiles, cut)
<1> DEFINE back(k) == {unlinked[i] : i \in (k + 1)..Len(unlinked)}
<1>1. PICK gone \in SUBSET ((walFiles \cup segFiles) \ linked), k \in 0..Len(unlinked) :
        \E cut \in [(walFiles \ gone) \cup back(k) -> 0..Len(log)] :
          /\ \A u \in (walFiles \ gone) \cup back(k) :
               cut[u] \in recs[u] \cup {0} /\ synced[u] \subseteq 0..cut[u]
          /\ Keep((walFiles \ gone) \cup back(k), segFiles \ gone, cut)
  BY Zenon DEF PowerLoss
<1> DEFINE W == (walFiles \ gone) \cup back(k)
<1>2. PICK cut \in [W -> 0..Len(log)] :
        /\ \A u \in W : synced[u] \subseteq 0..cut[u]
        /\ Keep(W, segFiles \ gone, cut)
  BY Zenon, <1>1
<1>3. segFiles \ gone = segFiles
  BY Zenon DEF DiskInv, Settled
<1>4. unlinked \in Seq(Ulids) /\ Len(unlinked) \in Nat /\ DOMAIN unlinked = 1..Len(unlinked)
  BY Zenon, SeqShape DEF TypeInv, TypeOK
<1>5. back(k) \subseteq Range(unlinked)
  BY <1>4 DEF Range
<1>6. W \subseteq Wals /\ walFiles \cap linked \subseteq W
  BY Zenon, <1>5 DEF Wals
<1>7. ASSUME NEW u \in W, NEW v \in Wals, u <= v, v \in linked PROVE v \in W
  <2>1. CASE v \in walFiles
    BY Zenon, <1>6, <1>7, <2>1
  <2>2. CASE v \in Range(unlinked)
    <3>1. PICK j \in DOMAIN unlinked : v = unlinked[j]
      BY Zenon, <2>2 DEF Range
    <3>2. u \in Nat /\ v \in Nat
      BY Zenon, <1>6, FileTypes
    <3>3. u \notin walFiles
      <4>1. ~(v < u)
        BY <1>7, <3>2
      <4> QED BY Zenon, <2>2, <4>1 DEF DiskInv, UnlinkOrder
    <3>4. PICK i \in (k + 1)..Len(unlinked) : u = unlinked[i]
      BY Zenon, <3>3
    <3>5. i \in DOMAIN unlinked /\ ~(j < i)
      <4>1. i \in DOMAIN unlinked
        BY <1>4
      <4>2. ~(unlinked[j] < unlinked[i])
        BY <1>7, <3>1, <3>2, <3>4
      <4> QED BY Zenon, <3>1, <4>1, <4>2 DEF DiskInv, UnlinkOrder
    <3>6. j \in (k + 1)..Len(unlinked)
      BY <1>4, <3>1, <3>5
    <3> QED BY Zenon, <3>1, <3>6
  <2> QED BY Zenon, <2>1, <2>2 DEF Wals
<1> HIDE DEF W
<1>8. Keep(W, segFiles, cut)
  BY Zenon, <1>2, <1>3
<1>9. \A u \in W, v \in Wals : u <= v /\ v \in linked => v \in W
  BY Zenon, <1>7
<1> QED BY Zenon, <1>2, <1>6, <1>8, <1>9

(* What the WALs bring back after a power loss restores every promoted     *)
(* record newer than theirs.                                               *)
LEMMA PowerLossDisk ==
  ASSUME TypeInv, Durable, DiskInv, PowerLoss
  PROVE  DiskInv'
<1>1. PICK W, cut :
        /\ W \subseteq Wals /\ walFiles \cap linked \subseteq W
        /\ \A u \in W, v \in Wals : u <= v /\ v \in linked => v \in W
        /\ \A u \in W : synced[u] \subseteq 0..cut[u]
        /\ Keep(W, segFiles, cut)
  BY Zenon, PowerLossWals
<1>2. /\ walFiles' = W /\ segFiles' = segFiles /\ unlinked' = <<>> /\ linked' = W \cup segFiles
      /\ recs' = [u \in Ulids |-> IF u \in segFiles THEN recs[u]
                                  ELSE IF u \in W THEN recs[u] \cap 0..cut[u] ELSE {}]
      /\ synced' = [u \in Ulids |-> IF u \in W THEN recs'[u] ELSE {}]
      /\ lost' = lost \cup {n \in 1..Len(log) : n > flushed /\ \A u \in Ulids : n \notin recs'[u]}
  BY Zenon, <1>1 DEF Keep
<1>3. log' = log
  BY Zenon DEF PowerLoss, LoseMemory
<1>4. Wals \subseteq Ulids /\ W \subseteq Ulids /\ segFiles \subseteq Ulids
  BY Zenon, <1>1, FileTypes
<1>5. Wals \cap segFiles = {}
  BY Zenon DEF Durable, FilesInv, Wals
<1>6. Range(unlinked') = {} /\ Wals' = W /\ DOMAIN unlinked' = {}
  <2>1. Range(unlinked') = {} /\ DOMAIN unlinked' = {}
    BY <1>2, RangeEmpty
  <2> QED BY Zenon, <1>2, <2>1 DEF Wals
<1>7. /\ \A s \in segFiles : recs'[s] = recs[s]
      /\ \A u \in W : recs'[u] = recs[u] \cap 0..cut[u] /\ synced'[u] = recs'[u]
      /\ \A u \in Ulids : recs'[u] # {} => u \in W \cup segFiles
      /\ \A u \in Ulids : recs'[u] \subseteq recs[u]
  BY Zenon, <1>1, <1>2, <1>4, <1>5
<1>8. ASSUME NEW s \in segFiles, NEW v \in W, NEW k \in recs[s], k \in recs[v] PROVE k \in recs'[v]
  <2>1. k \in synced[v]
    BY Zenon, <1>1, <1>8 DEF DiskInv, Settled
  <2> QED BY Zenon, <1>1, <1>7, <1>8, <2>1
<1>9. WalOrder'
  BY Zenon, <1>1, <1>4, <1>6, <1>7 DEF DiskInv, WalOrder
<1>10. UnlinkOrder'
  BY Zenon, <1>6 DEF UnlinkOrder
<1>11. InFiles'
  <2>1. \A u \in Ulids : recs'[u] \cap lost' = {}
    BY Zenon, <1>2, <1>7 DEF DiskInv, InFiles
  <2>2. lost' \subseteq Records'
    BY Zenon, <1>2, <1>3 DEF DiskInv, InFiles, Records
  <2> QED BY Zenon, <1>2, <1>6, <1>7, <2>1, <2>2 DEF InFiles
<1>12. Settled'
  BY Zenon, <1>2, <1>6, <1>7 DEF Settled
<1>13. Returns'
  <2> SUFFICES ASSUME NEW s \in segFiles', NEW u \in Wals', NEW k \in recs'[s], NEW m \in recs'[u], m < k
               PROVE  \E x \in Wals' : k \in recs'[x]
    BY Zenon DEF Returns
  <2>0. s \in segFiles /\ u \in W /\ k \in recs[s]
    BY Zenon, <1>2, <1>6, <1>7
  <2>1. u \in Wals /\ m \in recs[u]
    BY Zenon, <1>1, <1>4, <1>7, <2>0
  <2>2. PICK x \in Wals : k \in recs[x]
    BY Zenon, <2>0, <2>1 DEF DiskInv, Returns
  <2>3. k \in synced[x] /\ x \in linked
    BY Zenon, <2>0, <2>2 DEF DiskInv, Settled
  <2>4. u <= x
    <3>1. k \in Nat /\ m \in Nat /\ u \in Nat /\ x \in Nat
      BY Zenon, <1>4, <2>1, <2>2, FileTypes
    <3>2. ~(k < m)
      BY <3>1
    <3>3. ~(x < u)
      BY Zenon, <2>1, <2>2, <3>2 DEF DiskInv, WalOrder
    <3> QED BY <3>1, <3>3
  <2>5. x \in W
    BY Zenon, <1>1, <2>0, <2>2, <2>3, <2>4
  <2> QED BY Zenon, <1>6, <1>8, <2>0, <2>2, <2>5
<1>14. SegOrder'
  <2> SUFFICES ASSUME NEW r \in segFiles', NEW t \in segFiles', r < t,
                      NEW k \in recs'[r], NEW m \in recs'[t], m < k
               PROVE  \/ \E x \in walFiles' : k \in recs'[x]
                      \/ \E v \in segFiles' : t <= v /\ k \in recs'[v]
    BY Zenon DEF SegOrder
  <2>0. r \in segFiles /\ t \in segFiles /\ k \in recs[r] /\ m \in recs[t]
    BY Zenon, <1>2, <1>7
  <2>1. CASE \E v \in segFiles : t <= v /\ k \in recs[v]
    BY Zenon, <1>2, <1>7, <2>1
  <2>2. ASSUME NEW x \in walFiles, k \in recs[x] PROVE x \in W /\ k \in recs'[x]
    <3>1. x \in linked
      BY Zenon, <2>0, <2>2 DEF DiskInv, Settled, Wals
    <3>2. x \in W
      BY Zenon, <1>1, <3>1
    <3> QED BY Zenon, <1>8, <2>0, <2>2, <3>2
  <2>3. \/ \E x \in walFiles : k \in recs[x]
        \/ \E v \in segFiles : t <= v /\ k \in recs[v]
    BY Zenon, <2>0 DEF DiskInv, SegOrder
  <2> QED BY Zenon, <1>2, <2>1, <2>2, <2>3
<1> QED BY Zenon, <1>9, <1>10, <1>11, <1>12, <1>13, <1>14 DEF DiskInv

-----------------------------------------------------------------------------
(* The pipeline under each step.                                           *)

(* The jobs while none is stashed, with their types.                       *)
LEMMA QueueTypes ==
  ASSUME TypeInv, QueueInv
  PROVE  /\ jobs \in Seq(Job) /\ results \in Seq(Result)
         /\ AllJobs = Range(jobs) \cup {r.job : r \in Range(results)}
         /\ \A j \in AllJobs : j \in Job /\ j.wal \in Ulids /\ j.seg \in Ulids
         /\ \A j \in AllJobs : j.wal \in rotated
         /\ \A w \in rotated : \E j \in AllJobs : w = j.wal
<1>1. jobs \in Seq(Job) /\ results \in Seq(Result)
  BY Zenon DEF TypeInv, TypeOK, Result
<1>2. AllJobs = Range(jobs) \cup {r.job : r \in Range(results)}
  <2>1. Range(stash) = {}
    BY Zenon, RangeEmpty DEF QueueInv, Faultless
  <2> QED BY Zenon, <2>1 DEF AllJobs
<1>3. rotated = {j.wal : j \in AllJobs}
  BY Zenon DEF QueueInv, PipelineWals
<1> QED BY Zenon, <1>1, <1>2, <1>3, JobType

(* A segment stays that of its WAL while neither changes.                  *)
LEMMA SealedKept ==
  ASSUME NEW w, NEW s, Sealed(w, s), segFiles' = segFiles, recs'[w] = recs[w],
         \A t \in segFiles : recs'[t] = recs[t]
  PROVE  Sealed(w, s)'
  BY Zenon DEF Sealed

(* An append leaves the jobs and their WALs alone.                         *)
LEMMA CommitQueue ==
  ASSUME TypeInv, Durable, DiskInv, QueueInv, phase = "up",
         NEW l \in Lbas, NEW h \in Contents, Commit(l, h)
  PROVE  QueueInv'
<1> DEFINE w == IF wal = 0 THEN mint + 1 ELSE wal
           n == Len(log) + 1
<1>1. /\ recs' = [recs EXCEPT ![w] = @ \cup {n}] /\ walFiles' = walFiles \cup {w} /\ wal' = w
      /\ UNCHANGED <<bodies, segFiles, phase, rotated, jobs, results, stash, unlinking>>
  BY Zenon DEF Commit, pipeline
<1>2. w \in Ulids
  BY DEF Commit, TypeInv, TypeOK, Ulids
<1>3. w \notin segFiles /\ w \notin rotated /\ (unlinking # 0 => unlinking < w)
      /\ \A j \in AllJobs : j.seg < w
  <2>1. CASE wal = 0
    <3>1. \A f \in walFiles \cup segFiles : f <= mint
      BY Zenon DEF Durable, FilesInv
    <3>2. rotated \subseteq walFiles /\ (unlinking # 0 => unlinking \in walFiles)
      BY Zenon DEF Durable, MemoryInv, OpenWals, QueueInv, OldestGoes
    <3>3. \A j \in AllJobs : j.seg <= mint /\ j.seg \in Nat
      BY Zenon, QueueTypes, FileTypes DEF Durable, JobsInv
    <3> QED BY <2>1, <3>1, <3>2, <3>3, FileTypes
  <2>2. CASE wal # 0
    <3>1. \A j \in AllJobs : j.seg < wal
      BY Zenon, <2>2 DEF QueueInv, JobOrder
    <3>2. wal \in walFiles /\ wal \notin segFiles
      BY Zenon, <2>2, OpenIsHighest DEF Durable, FilesInv
    <3>3. wal \notin rotated
      BY Zenon, QueueTypes DEF Durable, JobsInv
    <3>4. unlinking # 0 => unlinking < wal
      <4>1. unlinking # 0 => unlinking # wal /\ unlinking \in Wals
        BY Zenon, <2>2 DEF Durable, MemoryInv, OpenWals, QueueInv, OldestGoes, Wals
      <4> QED BY Zenon, <2>2, <4>1, OpenIsHighest
    <3> QED BY Zenon, <2>2, <3>1, <3>2, <3>3, <3>4
  <2> QED BY Zenon, <2>1, <2>2
<1> HIDE DEF w, n
<1>4. \A u \in Ulids : u # w => recs'[u] = recs[u]
  BY Zenon, <1>1, <1>2, FileTypes
<1>5. AllJobs' = AllJobs /\ Range(results)' = Range(results) /\ Range(jobs)' = Range(jobs)
  BY Zenon, <1>1 DEF AllJobs
<1>6. \A s \in segFiles : recs'[s] = recs[s]
  BY Zenon, <1>3, <1>4, FileTypes
<1>7. Faultless' /\ JobOrder'
  BY Zenon, <1>1, <1>3, <1>5 DEF QueueInv, Faultless, JobOrder
<1>8. PipelineWals'
  <2>1. OpenWals' = rotated \cup {w}
    BY Zenon, <1>1, <1>2, FileTypes DEF OpenWals
  <2>2. walFiles = rotated \cup ({wal} \ {0}) \cup ({unlinking} \ {0})
    BY Zenon DEF QueueInv, PipelineWals, OpenWals
  <2>3. wal # 0 => w = wal
    BY Zenon DEF w
  <2>4. walFiles' = OpenWals' \cup ({unlinking'} \ {0})
    BY Zenon, <1>1, <2>1, <2>2, <2>3
  <2> QED BY Zenon, <1>1, <1>5, <2>4 DEF QueueInv, PipelineWals
<1>9. OldestGoes'
  <2> SUFFICES ASSUME unlinking # 0 PROVE OldestGoes'
    BY Zenon, <1>1 DEF OldestGoes
  <2>1. /\ unlinking \in walFiles /\ \A v \in walFiles : unlinking <= v
        /\ recs[unlinking] = {} \/ \E s \in segFiles : Sealed(unlinking, s)
    BY Zenon DEF QueueInv, OldestGoes
  <2>2. unlinking # w /\ unlinking <= w
    BY <1>2, <1>3, FileTypes
  <2>3. recs'[unlinking] = recs[unlinking]
    BY Zenon, <1>4, <2>1, <2>2, FileTypes
  <2>4. \A s \in segFiles : Sealed(unlinking, s) => Sealed(unlinking, s)'
    BY Zenon, <1>1, <1>6, <2>3, SealedKept
  <2> QED BY Zenon, <1>1, <2>1, <2>2, <2>3, <2>4 DEF OldestGoes
<1>10. Promoted'
  <2>1. ASSUME NEW r \in Range(results) PROVE Sealed(r.job.wal, r.job.seg)'
    <3>1. Sealed(r.job.wal, r.job.seg)
      BY Zenon DEF QueueInv, Promoted
    <3>2. r.job \in AllJobs
      BY Zenon, QueueTypes
    <3>3. r.job.wal \in Ulids /\ r.job.wal # w
      BY Zenon, <1>3, <3>2, QueueTypes
    <3>4. recs'[r.job.wal] = recs[r.job.wal]
      BY Zenon, <1>4, <3>3
    <3> QED BY Zenon, <1>1, <1>6, <3>1, <3>4, SealedKept
  <2> QED BY Zenon, <1>1, <1>5, <2>1 DEF QueueInv, Promoted
<1> QED BY Zenon, <1>7, <1>8, <1>9, <1>10 DEF QueueInv

(* Nothing of the pipeline changes.                                        *)
LEMMA QuietQueue ==
  ASSUME QueueInv, UNCHANGED <<recs, bodies, walFiles, segFiles, phase, wal, rotated, jobs,
                               results, stash, unlinking>>
  PROVE  QueueInv'
<1>1. UNCHANGED <<AllJobs, Range(results), Range(jobs), OpenWals>>
  BY Zenon DEF AllJobs, OpenWals
<1>2. Faultless' /\ JobOrder' /\ PipelineWals'
  BY Zenon, <1>1 DEF QueueInv, Faultless, JobOrder, PipelineWals
<1>3. OldestGoes' /\ Promoted'
  BY Zenon, <1>1 DEF QueueInv, OldestGoes, Promoted, Sealed
<1> QED BY Zenon, <1>2, <1>3 DEF QueueInv

(* A volume that is not up has no jobs.                                    *)
LEMMA EmptyQueue ==
  ASSUME jobs' = <<>>, results' = <<>>, stash' = <<>>, rotated' = {}, OldestGoes',
         phase' = "up" => walFiles' = OpenWals' \cup ({unlinking'} \ {0})
  PROVE  QueueInv'
<1>1. /\ Range(jobs') = {} /\ Range(results') = {} /\ Range(stash') = {}
      /\ DOMAIN jobs' = {} /\ DOMAIN results' = {}
  BY RangeEmpty
<1>2. AllJobs' = {}
  BY Zenon, <1>1 DEF AllJobs
<1>3. Faultless' /\ JobOrder' /\ PipelineWals' /\ Promoted'
  BY Zenon, <1>1, <1>2 DEF Faultless, JobOrder, PipelineWals, Promoted
<1> QED BY Zenon, <1>3 DEF QueueInv

(* A crash empties the pipeline.                                           *)
LEMMA LoseQueue == ASSUME LoseMemory PROVE QueueInv'
<1>1. /\ jobs' = <<>> /\ results' = <<>> /\ stash' = <<>> /\ rotated' = {} /\ wal' = 0
      /\ unlinking' = 0 /\ phase' = "down"
  BY Zenon DEF LoseMemory
<1>2. OldestGoes' /\ phase' # "up"
  BY Zenon, <1>1 DEF OldestGoes
<1> QED BY Zenon, <1>1, <1>2, EmptyQueue

(* A rebuild finds it empty.                                               *)
LEMMA RebuildQueue == ASSUME Durable, OpenRebuild PROVE QueueInv'
<1>1. /\ phase = "down" /\ phase' = "opening" /\ UNCHANGED <<pipeline, wal>>
  BY Zenon DEF OpenRebuild
<1>2. /\ jobs = <<>> /\ results = <<>> /\ stash = <<>> /\ rotated = {} /\ wal = 0 /\ unlinking = 0
  BY Zenon, <1>1 DEF Durable, MemoryInv
<1>3. /\ jobs' = <<>> /\ results' = <<>> /\ stash' = <<>> /\ rotated' = {} /\ wal' = 0 /\ unlinking' = 0
  BY Zenon, <1>1, <1>2 DEF pipeline
<1>4. OldestGoes' /\ phase' # "up"
  BY Zenon, <1>1, <1>3 DEF OldestGoes
<1> QED BY Zenon, <1>3, <1>4, EmptyQueue

(* The job that is dispatched is behind all others.                        *)
LEMMA DispatchQueue ==
  ASSUME TypeInv, Durable, DiskInv, QueueInv, DispatchPromote
  PROVE  /\ QueueInv' /\ wal # 0 /\ jobs' = Append(jobs, PromoteJob(mint + 1)) /\ wal' = 0
         /\ PromoteJob(mint + 1) \in Job
         /\ AllJobs' = AllJobs \cup {PromoteJob(mint + 1)} /\ OpenWals' = OpenWals
<1> DEFINE j == PromoteJob(mint + 1)
<1>1. stash = <<>> /\ pending # {} /\ wal # 0 /\ phase = "up" /\ unlinking = 0
  BY Zenon DEF DispatchPromote, QueueInv, Faultless, pending, ActorIdle
<1>2. /\ mint + 2 <= MaxUlid /\ wal' = 0 /\ rotated' = rotated \cup {wal}
      /\ jobs' = jobs \o Append(SubSeq(stash, 1, 0), j) /\ stash' = stash
      /\ UNCHANGED <<recs, bodies, walFiles, segFiles, phase, results, unlinking>>
  BY Zenon, <1>1 DEF DispatchPromote, disk
<1>3. j \in Job /\ j.wal = wal /\ j.seg = mint + 1
  <2>1. wal \in Ulids /\ mint + 1 \in Ulids /\ recs[wal] \subseteq Nat
    BY <1>1, <1>2, FileTypes DEF Ulids
  <2>2. Staged(pending, wal, materialised) \subseteq Nat
    BY Zenon, <1>1, <2>1, StagedType DEF pending
  <2> QED BY Zenon, <2>1, <2>2 DEF PromoteJob, Job
<1> HIDE DEF j
<1>4. jobs \in Seq(Job) /\ Len(jobs) \in Nat
  BY Zenon, QueueTypes, SeqShape
<1>5. jobs' = Append(jobs, j)
  <2>1. SubSeq(stash, 1, 0) = <<>>
    BY <1>1
  <2>2. Append(<<>>, j) = <<j>>
    OBVIOUS
  <2> QED BY <1>2, <1>3, <1>4, <2>1, <2>2
<1>6. Range(jobs') = Range(jobs) \cup {j} /\ Range(results') = Range(results)
  <2>1. Range(jobs') = Range(jobs) \cup {j}
    BY <1>3, <1>4, <1>5, RangeAppend
  <2> QED BY Zenon, <1>2, <2>1
<1>7. AllJobs' = AllJobs \cup {j}
  <2>1. Range(stash') = {} /\ Range(stash) = {}
    BY Zenon, <1>1, <1>2, RangeEmpty
  <2> QED BY Zenon, <1>6, <2>1 DEF AllJobs
<1>8. OpenWals' = OpenWals
  BY Zenon, <1>1, <1>2 DEF OpenWals
<1>9. Faultless'
  BY Zenon, <1>1, <1>2, <1>6 DEF QueueInv, Faultless
<1>10. JobOrder'
  <2>1. \A k \in AllJobs : k.seg < wal
    BY Zenon, <1>1 DEF QueueInv, JobOrder
  <2>2. /\ DOMAIN jobs' = 1..(Len(jobs) + 1) /\ DOMAIN jobs = 1..Len(jobs)
        /\ jobs'[Len(jobs) + 1] = j
        /\ \A i \in 1..Len(jobs) : jobs'[i] = jobs[i]
    BY <1>3, <1>4, <1>5, AppendShape, SeqShape
  <2>3. ASSUME NEW i \in DOMAIN jobs', NEW k \in DOMAIN jobs', i < k PROVE jobs'[i].seg < jobs'[k].wal
    <3>1. i \in DOMAIN jobs
      BY <1>4, <2>2, <2>3
    <3>2. CASE k \in DOMAIN jobs
      <4>1. jobs[i].seg < jobs[k].wal
        BY Zenon, <2>3, <3>1, <3>2 DEF QueueInv, JobOrder
      <4> QED BY <2>2, <3>1, <3>2, <4>1
    <3>3. CASE k = Len(jobs) + 1
      <4>1. jobs[i] \in AllJobs
        BY Zenon, <3>1 DEF AllJobs, Range
      <4> QED BY Zenon, <1>3, <2>1, <2>2, <3>1, <3>3, <4>1
    <3> QED BY <1>4, <2>2, <3>2, <3>3
  <2>4. \A r \in Range(results'), k \in Range(jobs') : r.job.seg < k.wal
    <3>1. \A r \in Range(results) : r.job \in AllJobs
      BY Zenon DEF AllJobs
    <3> QED BY Zenon, <1>3, <1>6, <2>1, <3>1 DEF QueueInv, JobOrder
  <2> QED BY Zenon, <1>2, <2>3, <2>4 DEF QueueInv, JobOrder
<1>11. PipelineWals'
  <2>1. rotated' = {k.wal : k \in AllJobs'}
    <3>1. rotated = {k.wal : k \in AllJobs}
      BY Zenon DEF QueueInv, PipelineWals
    <3> QED BY Zenon, <1>2, <1>3, <1>7, <3>1
  <2> QED BY Zenon, <1>2, <1>8, <2>1 DEF QueueInv, PipelineWals
<1>12. OldestGoes'
  BY Zenon, <1>1, <1>2 DEF OldestGoes
<1>13. Promoted'
  <2>1. \A s \in segFiles : s < j.seg
    <3>1. \A s \in segFiles : s <= mint
      BY Zenon, <1>1 DEF Durable, FilesInv
    <3> QED BY <1>3, <3>1, FileTypes
  <2> QED BY Zenon, <1>2, <1>6, <2>1 DEF QueueInv, Promoted, Sealed
<1>14. QueueInv'
  BY Zenon, <1>9, <1>10, <1>11, <1>12, <1>13 DEF QueueInv
<1> QED BY Zenon, <1>1, <1>2, <1>3, <1>5, <1>7, <1>8, <1>14 DEF j

(* A queue is its head and its tail.                                       *)
LEMMA HeadAndTail ==
  ASSUME NEW S, NEW q \in Seq(S), q # <<>>
  PROVE  /\ Range(q) = {Head(q)} \cup Range(Tail(q)) /\ Head(q) = q[1] /\ 1 \in DOMAIN q
         /\ \A i \in DOMAIN Tail(q) : i + 1 \in DOMAIN q /\ Tail(q)[i] = q[i + 1]
         /\ DOMAIN Tail(q) \subseteq Nat /\ DOMAIN q \subseteq Nat
<1>1. /\ Len(q) \in Nat /\ Len(q) # 0 /\ DOMAIN q = 1..Len(q) /\ Tail(q) \in Seq(S)
      /\ DOMAIN Tail(q) = 1..(Len(q) - 1)
      /\ \A i \in 1..(Len(q) - 1) : Tail(q)[i] = q[i + 1]
  BY Zenon, SeqShape, HeadTailShape
<1>2. Head(q) = q[1]
  OBVIOUS
<1>3. ASSUME NEW x \in Range(q) PROVE x = Head(q) \/ x \in Range(Tail(q))
  <2>1. PICK i \in 1..Len(q) : x = q[i]
    BY Zenon, <1>1, <1>3 DEF Range
  <2>2. CASE i = 1
    BY Zenon, <1>2, <2>1, <2>2
  <2>3. CASE i # 1
    <3>1. i - 1 \in DOMAIN Tail(q) /\ Tail(q)[i - 1] = q[i]
      BY <1>1, <2>1, <2>3
    <3> QED BY Zenon, <2>1, <3>1 DEF Range
  <2> QED BY Zenon, <2>2, <2>3
<1>4. Head(q) \in Range(q) /\ Range(Tail(q)) \subseteq Range(q)
  BY Zenon, RangeHeadTail
<1>5. Range(q) = {Head(q)} \cup Range(Tail(q))
  BY Zenon, <1>3, <1>4
<1> QED BY <1>1, <1>2, <1>5

(* A segment written above the others, with newer records, keeps what was  *)
(* sealed.                                                                 *)
LEMMA SealedGrows ==
  ASSUME recs \in [Ulids -> SUBSET Nat], NEW u, NEW t, Sealed(u, t), NEW s \in Ulids, NEW w,
         segFiles' = segFiles \cup {s}, recs' = [recs EXCEPT ![s] = recs[w]],
         segFiles \subseteq Ulids, u \in Ulids,
         s \notin segFiles, s # u, \A n \in recs[u], m \in recs[w] : n < m
  PROVE  Sealed(u, t)'
<1>1. t \in segFiles /\ t # s /\ recs[t] = recs[u]
  BY Zenon DEF Sealed
<1>2. recs'[t] = recs[t] /\ recs'[u] = recs[u] /\ recs'[s] = recs[w] /\ \A x \in segFiles : recs'[x] = recs[x]
  BY Zenon, <1>1
<1>3. ASSUME NEW x \in segFiles', t < x PROVE \A m \in recs'[x], n \in recs'[u] : n < m
  <2>1. CASE x = s
    BY Zenon, <1>2, <2>1
  <2>2. CASE x \in segFiles
    <3>1. \A m \in recs[x], n \in recs[u] : n < m
      BY Zenon, <1>3, <2>2 DEF Sealed
    <3> QED BY Zenon, <1>2, <2>2, <3>1
  <2> QED BY Zenon, <2>1, <2>2
<1> QED BY Zenon, <1>1, <1>2, <1>3 DEF Sealed

(* The worker writes the segment of the oldest job, above all others.      *)
LEMMA ExecuteFacts ==
  ASSUME TypeInv, Durable, DiskInv, QueueInv, FileSyncLinks, ExecutePromote
  PROVE  LET j == Head(jobs)
         IN  /\ j \in Range(jobs) /\ j \in AllJobs /\ j \in Job /\ j.wal \in OpenWals /\ j.wal \in walFiles
             /\ j.wal \in Ulids /\ j.seg \in Ulids /\ j.seg \notin segFiles /\ j.seg \notin Wals
             /\ j.seg \notin OpenWals
             /\ \A t \in segFiles : t < j.seg
             /\ segFiles' = segFiles \cup {j.seg} /\ recs' = [recs EXCEPT ![j.seg] = recs[j.wal]]
             /\ bodies' = [bodies EXCEPT ![j.seg] = j.bodies]
             /\ \A u \in Ulids : u # j.seg => recs'[u] = recs[u]
             /\ recs'[j.seg] = recs[j.wal]
             /\ Range(jobs) = {j} \cup Range(jobs')
             /\ Range(results') = Range(results) \cup {[job |-> j, out |-> "ok"]}
             /\ AllJobs' = AllJobs /\ OpenWals' = OpenWals /\ DiskInv'
<1> DEFINE j == Head(jobs)
<1>1. /\ jobs # <<>> /\ CommitSegment(j.seg, j.wal, j.bodies) /\ jobs' = Tail(jobs)
      /\ results' = Append(results, [job |-> j, out |-> "ok"])
      /\ UNCHANGED <<log, lost, walFiles, unlinked, wal, rotated, stash>>
  BY Zenon DEF ExecutePromote, history
<1>2. jobs \in Seq(Job) /\ results \in Seq(Result)
  BY Zenon, QueueTypes
<1>3. /\ j \in Range(jobs) /\ Range(jobs) = {j} \cup Range(jobs')
  BY Zenon, <1>1, <1>2, HeadAndTail, RangeHeadTail
<1>4. j \in AllJobs /\ j \in Job /\ j.wal \in Ulids /\ j.seg \in Ulids /\ j.wal \in rotated
  BY Zenon, <1>3, QueueTypes
<1>5. j.wal \in OpenWals /\ j.wal \in walFiles
  BY Zenon, <1>4 DEF OpenWals, Durable, MemoryInv
<1>6. j.seg \notin walFiles /\ j.seg \notin Range(unlinked) /\ \A t \in segFiles : t < j.seg
  BY Zenon, <1>3, <1>4 DEF Durable, JobsInv, QueueInv, Promoted
<1>7. j.seg \notin segFiles
  BY <1>6, FileTypes
<1>8. [job |-> j, out |-> "ok"] \in Result
  BY Zenon, <1>4 DEF Result
<1>9. Range(results') = Range(results) \cup {[job |-> j, out |-> "ok"]}
  BY <1>1, <1>2, <1>8, RangeAppend
<1>10. /\ segFiles' = segFiles \cup {j.seg} /\ recs' = [recs EXCEPT ![j.seg] = recs[j.wal]]
       /\ bodies' = [bodies EXCEPT ![j.seg] = j.bodies]
  BY Zenon, <1>1 DEF CommitSegment, WriteSegment
<1>11. recs'[j.seg] = recs[j.wal] /\ \A u \in Ulids : u # j.seg => recs'[u] = recs[u]
  BY Zenon, <1>4, <1>10, FileTypes
<1> HIDE DEF j
<1>12. AllJobs' = AllJobs
  <2>1. Range(stash') = Range(stash)
    BY Zenon, <1>1
  <2>2. {r.job : r \in Range(results')} = {r.job : r \in Range(results)} \cup {j}
    <3>1. [job |-> j, out |-> "ok"].job = j
      BY Zenon
    <3> QED BY Zenon, <1>9, <3>1
  <2> QED BY Zenon, <1>3, <2>1, <2>2 DEF AllJobs
<1>13. OpenWals' = OpenWals /\ j.seg \notin OpenWals
  <2>1. OpenWals \subseteq walFiles
    BY Zenon DEF Durable, MemoryInv
  <2> QED BY Zenon, <1>1, <1>6, <2>1 DEF OpenWals
<1>14. j.seg \notin Wals
  BY Zenon, <1>6 DEF Wals
<1>15. DiskInv'
  BY Zenon, <1>1, <1>4, <1>5, <1>6, <1>14, SegmentDisk
<1> QED BY Zenon, <1>3, <1>4, <1>5, <1>6, <1>7, <1>9, <1>10, <1>11, <1>12, <1>13, <1>14, <1>15 DEF j

(* The segment the worker writes is sealed, and the order stays.           *)
LEMMA ExecuteQueue ==
  ASSUME TypeInv, Durable, DiskInv, QueueInv, FileSyncLinks, ExecutePromote
  PROVE  QueueInv'
<1>0. PICK j : j = Head(jobs)
  BY Zenon
<1>13. [job |-> j, out |-> "ok"].job = j /\ [job |-> j, out |-> "ok"].out = "ok"
  BY Zenon
<1>1. /\ j \in Range(jobs) /\ j \in AllJobs /\ j \in Job /\ j.wal \in OpenWals /\ j.wal \in walFiles
      /\ j.wal \in Ulids /\ j.seg \in Ulids /\ j.seg \notin segFiles /\ j.seg \notin Wals
      /\ \A t \in segFiles : t < j.seg
      /\ segFiles' = segFiles \cup {j.seg} /\ recs' = [recs EXCEPT ![j.seg] = recs[j.wal]]
      /\ bodies' = [bodies EXCEPT ![j.seg] = j.bodies]
      /\ \A u \in Ulids : u # j.seg => recs'[u] = recs[u]
      /\ recs'[j.seg] = recs[j.wal]
      /\ Range(jobs) = {j} \cup Range(jobs')
      /\ Range(results') = Range(results) \cup {[job |-> j, out |-> "ok"]}
      /\ AllJobs' = AllJobs /\ OpenWals' = OpenWals
  BY Zenon, <1>0, ExecuteFacts
<1>2. /\ jobs # <<>> /\ jobs' = Tail(jobs) /\ results' = Append(results, [job |-> j, out |-> "ok"])
      /\ UNCHANGED <<walFiles, phase, wal, rotated, stash, unlinking>>
  BY Zenon, <1>0 DEF ExecutePromote
<1>3. jobs \in Seq(Job) /\ results \in Seq(Result) /\ j = jobs[1] /\ 1 \in DOMAIN jobs
  BY Zenon, <1>0, <1>2, QueueTypes, HeadAndTail
<1>4. \A k \in AllJobs : k.wal \in Nat /\ k.seg \in Nat /\ k.wal < k.seg /\ k.wal \in walFiles
  <2>1. \A k \in AllJobs : k.wal \in Ulids /\ k.seg \in Ulids /\ k.wal \in rotated
    BY Zenon, QueueTypes
  <2>2. \A k \in AllJobs : k.wal < k.seg
    BY Zenon DEF Durable, JobsInv
  <2>3. rotated \subseteq walFiles
    BY Zenon DEF Durable, MemoryInv, OpenWals
  <2> QED BY Zenon, <2>1, <2>2, <2>3, FileTypes
<1>5. Faultless'
  BY Zenon, <1>1, <1>2, <1>13 DEF QueueInv, Faultless
<1>6. \A k \in Range(jobs') : j.seg < k.wal
  <2> TAKE k \in Range(jobs')
  <2>1. PICK i \in DOMAIN Tail(jobs) : k = Tail(jobs)[i]
    BY Zenon, <1>2 DEF Range
  <2>2. i \in Nat /\ i + 1 \in DOMAIN jobs /\ k = jobs[i + 1] /\ i \in DOMAIN Tail(jobs)
    BY Zenon, <1>2, <1>3, <2>1, HeadAndTail
  <2>3. 1 < i + 1
    <3>1. i # 0
      BY <1>2, <1>3, <2>1, HeadTailShape, SeqShape
    <3> QED BY <2>2, <3>1
  <2> QED BY Zenon, <1>3, <2>2, <2>3 DEF QueueInv, JobOrder
<1>7. JobOrder'
  <2>1. ASSUME NEW i \in DOMAIN results', NEW k \in DOMAIN results', i < k
        PROVE  results'[i].job.seg < results'[k].job.wal
    <3>1. [job |-> j, out |-> "ok"] \in Result
      BY Zenon, <1>1 DEF Result
    <3>2. /\ Len(results) \in Nat /\ DOMAIN results' = 1..(Len(results) + 1) /\ DOMAIN results = 1..Len(results)
          /\ results'[Len(results) + 1] = [job |-> j, out |-> "ok"]
          /\ \A e \in 1..Len(results) : results'[e] = results[e]
      BY <1>2, <1>3, <3>1, AppendShape, SeqShape
    <3>3. i \in DOMAIN results /\ results'[i] = results[i]
      BY <2>1, <3>2
    <3>4. CASE k \in DOMAIN results
      <4>1. results[i].job.seg < results[k].job.wal
        BY Zenon, <2>1, <3>3, <3>4 DEF QueueInv, JobOrder
      <4> QED BY Zenon, <3>2, <3>3, <3>4, <4>1
    <3>5. CASE k = Len(results) + 1
      <4>1. results[i] \in Range(results)
        BY Zenon, <3>3 DEF Range
      <4>2. results[i].job.seg < j.wal
        BY Zenon, <1>1, <4>1 DEF QueueInv, JobOrder
      <4> QED BY <3>2, <3>3, <3>5, <4>2
    <3> QED BY <3>2, <3>4, <3>5
  <2>2. ASSUME NEW i \in DOMAIN jobs', NEW k \in DOMAIN jobs', i < k
        PROVE  jobs'[i].seg < jobs'[k].wal
    <3>1. /\ i + 1 \in DOMAIN jobs /\ k + 1 \in DOMAIN jobs /\ i \in Nat /\ k \in Nat
          /\ jobs'[i] = jobs[i + 1] /\ jobs'[k] = jobs[k + 1]
      BY Zenon, <1>2, <1>3, HeadAndTail
    <3>2. i + 1 < k + 1
      BY <2>2, <3>1
    <3> QED BY Zenon, <3>1, <3>2 DEF QueueInv, JobOrder
  <2>3. \A r \in Range(results'), k \in Range(jobs') : r.job.seg < k.wal
    BY Zenon, <1>1, <1>6, <1>13 DEF QueueInv, JobOrder
  <2>4. wal' # 0 => \A k \in AllJobs' : k.seg < wal'
    BY Zenon, <1>1, <1>2 DEF QueueInv, JobOrder
  <2> QED BY Zenon, <2>1, <2>2, <2>3, <2>4 DEF JobOrder
<1>8. PipelineWals'
  BY Zenon, <1>1, <1>2 DEF QueueInv, PipelineWals
<1>9. ASSUME NEW u \in walFiles, u < j.wal PROVE \A n \in recs[u], m \in recs[j.wal] : n < m
  <2>1. u \in Wals /\ j.wal \in Wals
    BY Zenon, <1>1 DEF Wals
  <2> QED BY Zenon, <1>9, <2>1 DEF DiskInv, WalOrder
<1>10. ASSUME NEW u \in walFiles, u < j.wal, NEW t, Sealed(u, t) PROVE Sealed(u, t)'
  <2>1. \A n \in recs[u], m \in recs[j.wal] : n < m
    BY Zenon, <1>9, <1>10
  <2>2. j.seg # u /\ u \in Ulids
    BY Zenon, <1>1, FileTypes DEF Wals
  <2> QED BY Zenon, <1>1, <1>10, <2>1, <2>2, FileTypes, SealedGrows
<1>11. OldestGoes'
  <2>1. SUFFICES ASSUME unlinking # 0 PROVE OldestGoes'
    BY Zenon, <1>2 DEF OldestGoes
  <2>2. /\ unlinking \in walFiles /\ \A x \in walFiles : unlinking <= x
        /\ recs[unlinking] = {} \/ \E s \in segFiles : Sealed(unlinking, s)
    BY Zenon, <2>1 DEF QueueInv, OldestGoes
  <2>3. unlinking < j.wal
    <3>1. unlinking # j.wal /\ unlinking <= j.wal
      BY Zenon, <1>1, <2>1, <2>2 DEF Durable, MemoryInv
    <3>2. unlinking \in Nat /\ j.wal \in Nat
      BY Zenon, <1>1, <2>1, <2>2, FileTypes
    <3> QED BY <3>1, <3>2
  <2>4. recs'[unlinking] = recs[unlinking]
    <3>1. unlinking # j.seg /\ unlinking \in Ulids
      BY Zenon, <1>1, <2>2, FileTypes DEF Wals
    <3> QED BY Zenon, <1>1, <3>1
  <2>5. PICK u : u = unlinking /\ unlinking' = u
    BY Zenon, <1>2
  <2>6. \A t : Sealed(u, t) => Sealed(u, t)'
    BY Zenon, <1>10, <2>2, <2>3, <2>5
  <2>7. recs'[u] = {} \/ \E s \in segFiles' : Sealed(u, s)'
    BY Zenon, <1>1, <2>2, <2>4, <2>5, <2>6
  <2> QED BY Zenon, <1>2, <2>2, <2>5, <2>7 DEF OldestGoes, Sealed
<1>12. Promoted'
  <2>1. ASSUME NEW k \in Range(jobs'), NEW t \in segFiles' PROVE t < k.seg
    <3>1. k \in Range(jobs) /\ k \in AllJobs
      BY Zenon, <1>1 DEF AllJobs
    <3>2. CASE t \in segFiles
      BY Zenon, <3>1, <3>2 DEF QueueInv, Promoted
    <3>3. CASE t = j.seg
      <4>1. j.seg < k.wal /\ k.wal < k.seg /\ k.wal \in Nat /\ k.seg \in Nat /\ j.seg \in Nat
        BY Zenon, <1>1, <1>4, <1>6, <3>1
      <4> QED BY <3>3, <4>1
    <3> QED BY Zenon, <1>1, <3>2, <3>3
  <2>2. ASSUME NEW r \in Range(results)
        PROVE  Sealed(r.job.wal, r.job.seg)' /\ bodies'[r.job.seg] = r.job.bodies
    <3>1. Sealed(r.job.wal, r.job.seg) /\ bodies[r.job.seg] = r.job.bodies /\ r.job \in AllJobs
          /\ r.job.seg < j.wal
      BY Zenon, <1>1 DEF QueueInv, Promoted, JobOrder, AllJobs
    <3>2. r.job.wal < j.wal /\ r.job.wal \in walFiles
      <4>1. /\ r.job.wal < r.job.seg /\ r.job.seg < j.wal /\ r.job.wal \in Nat
            /\ r.job.seg \in Nat /\ j.wal \in Nat /\ r.job.wal \in walFiles
        BY Zenon, <1>1, <1>4, <3>1
      <4> QED BY <4>1
    <3>3. bodies'[r.job.seg] = bodies[r.job.seg]
      <4>1. r.job.seg \in segFiles
        BY Zenon, <3>1 DEF Sealed
      <4>2. bodies \in [Ulids -> SUBSET Nat] /\ r.job.seg \in Ulids /\ r.job.seg # j.seg
        BY Zenon, <1>1, <4>1, FileTypes DEF TypeInv, TypeOK
      <4> QED BY Zenon, <1>1, <4>2
    <3> QED BY Zenon, <1>10, <3>1, <3>2, <3>3
  <2>3. Sealed(j.wal, j.seg)' /\ bodies'[j.seg] = j.bodies
    <3>1. bodies'[j.seg] = j.bodies
      BY Zenon, <1>1 DEF TypeInv, TypeOK
    <3>2. recs'[j.wal] = recs[j.wal] /\ j.wal # j.seg
      BY Zenon, <1>1 DEF Wals
    <3>3. \A t \in segFiles' : ~(j.seg < t)
      <4>1. j.seg \in Nat /\ segFiles \subseteq Nat
        BY Zenon, <1>1, FileTypes
      <4> QED BY <1>1, <4>1
    <3> QED BY Zenon, <1>1, <3>1, <3>2, <3>3 DEF Sealed
  <2>4. \A r \in Range(results') : Sealed(r.job.wal, r.job.seg)' /\ bodies'[r.job.seg] = r.job.bodies
    BY Zenon, <1>1, <1>13, <2>2, <2>3
  <2> QED BY Zenon, <2>1, <2>4 DEF Promoted, Sealed
<1> QED BY Zenon, <1>5, <1>7, <1>8, <1>11, <1>12 DEF QueueInv

(* The result that is applied is the one of the oldest WAL, whose segment  *)
(* is in place.                                                            *)
LEMMA ApplyFacts ==
  ASSUME TypeInv, Durable, DiskInv, QueueInv, ApplyPromote
  PROVE  LET j == Head(results).job
         IN  /\ j \in AllJobs /\ j \in Job /\ j.wal \in Ulids /\ j.seg \in Ulids /\ j.wal < j.seg
             /\ Head(results) \in Range(results)
             /\ j.wal \in rotated /\ OpenWals = OpenWals' \cup {j.wal} /\ walFiles = OpenWals
             /\ \A v \in OpenWals' : j.seg < v
             /\ j.wal \notin OpenWals' /\ j.wal # wal
             /\ Sealed(j.wal, j.seg) /\ bodies[j.seg] = j.bodies
             /\ Range(results) = {Head(results)} \cup Range(results') /\ AllJobs = AllJobs' \cup {j}
             /\ \A k \in AllJobs' : j.seg < k.wal
             /\ rotated' = rotated \ {j.wal}
<1> DEFINE j == Head(results).job
<1>1. /\ phase = "up" /\ unlinking = 0 /\ results # <<>> /\ results' = Tail(results)
      /\ rotated' = rotated \ {j.wal} /\ UNCHANGED <<wal, jobs, stash>>
  BY Zenon DEF ApplyPromote, ActorIdle
<1>2. results \in Seq(Result)
  BY Zenon, QueueTypes
<1>3. /\ Range(results) = {Head(results)} \cup Range(results') /\ Head(results) = results[1] /\ 1 \in DOMAIN results
      /\ Head(results) \in Range(results)
  BY Zenon, <1>1, <1>2, HeadAndTail
<1>4. j \in AllJobs
  BY Zenon, <1>3 DEF AllJobs
<1>5. j \in Job /\ j.wal \in Ulids /\ j.seg \in Ulids /\ j.wal \in rotated /\ j.wal < j.seg
  BY Zenon, <1>4, QueueTypes DEF Durable, JobsInv
<1>6. Sealed(j.wal, j.seg) /\ bodies[j.seg] = j.bodies
  BY Zenon, <1>3 DEF QueueInv, Promoted
<1>7. AllJobs = AllJobs' \cup {j}
  BY Zenon, <1>1, <1>3 DEF AllJobs
<1>8. \A k \in AllJobs' : j.seg < k.wal
  <2>1. \A r \in Range(results') : j.seg < r.job.wal
    <3> TAKE r \in Range(results')
    <3>1. PICK i \in DOMAIN Tail(results) : r = Tail(results)[i]
      BY Zenon, <1>1 DEF Range
    <3>2. i \in Nat /\ i + 1 \in DOMAIN results /\ r = results[i + 1]
      BY Zenon, <1>1, <1>2, <3>1, HeadAndTail
    <3>3. i # 0
      BY <1>1, <1>2, <3>1, HeadTailShape, SeqShape
    <3>4. 1 < i + 1
      BY <3>2, <3>3
    <3> QED BY Zenon, <1>3, <3>2, <3>4 DEF QueueInv, JobOrder
  <2>2. \A k \in Range(jobs) : j.seg < k.wal
    BY Zenon, <1>3 DEF QueueInv, JobOrder
  <2>3. Range(stash') = {}
    BY Zenon, <1>1, RangeEmpty DEF QueueInv, Faultless
  <2> QED BY Zenon, <1>1, <2>1, <2>2, <2>3 DEF AllJobs
<1>9. wal # 0 => j.seg < wal
  BY Zenon, <1>4 DEF QueueInv, JobOrder
<1>10. \A v \in OpenWals' : j.seg < v
  <2>1. ASSUME NEW v \in rotated' PROVE j.seg < v
    <3>1. v \in rotated /\ v # j.wal
      BY Zenon, <1>1, <2>1
    <3>2. PICK k \in AllJobs : v = k.wal
      BY Zenon, <3>1, QueueTypes
    <3>3. k \in AllJobs'
      BY Zenon, <1>7, <3>1, <3>2
    <3> QED BY Zenon, <1>8, <3>2, <3>3
  <2> QED BY Zenon, <1>1, <1>9, <2>1 DEF OpenWals
<1>11. j.wal \notin OpenWals' /\ j.wal # wal
  <2>1. j.wal \in Nat /\ j.seg \in Nat /\ j.wal # 0
    BY Zenon, <1>5, FileTypes
  <2>2. ~(j.seg < j.wal)
    BY <1>5, <2>1
  <2> QED BY Zenon, <1>9, <1>10, <2>1, <2>2
<1>12. OpenWals = OpenWals' \cup {j.wal}
  BY Zenon, <1>1, <1>5, <1>11 DEF OpenWals
<1>13. walFiles = OpenWals
  BY Zenon, <1>1 DEF QueueInv, PipelineWals
<1> QED BY Zenon, <1>1, <1>3, <1>4, <1>5, <1>6, <1>7, <1>8, <1>10, <1>11, <1>12, <1>13

(* The apply takes the oldest result and hands the oldest WAL to the       *)
(* unlink.                                                                 *)
LEMMA ApplyQueue ==
  ASSUME TypeInv, Durable, DiskInv, QueueInv, ApplyPromote
  PROVE  QueueInv'
<1>0. PICK j : j = Head(results).job
  BY Zenon
<1>1. /\ j \in AllJobs /\ j \in Job /\ j.wal \in Ulids /\ j.seg \in Ulids /\ j.wal < j.seg
      /\ j.wal \in rotated /\ OpenWals = OpenWals' \cup {j.wal} /\ walFiles = OpenWals
      /\ \A v \in OpenWals' : j.seg < v
      /\ j.wal \notin OpenWals' /\ Sealed(j.wal, j.seg)
      /\ Range(results) = {Head(results)} \cup Range(results') /\ AllJobs = AllJobs' \cup {j}
      /\ \A k \in AllJobs' : j.seg < k.wal
      /\ rotated' = rotated \ {j.wal}
  BY Zenon, <1>0, ApplyFacts
<1>2. /\ phase = "up" /\ unlinking = 0 /\ results # <<>> /\ results' = Tail(results) /\ unlinking' = j.wal
      /\ UNCHANGED <<wal, jobs, stash, recs, bodies, segFiles, walFiles, phase>>
  BY Zenon, <1>0 DEF ApplyPromote, ActorIdle, disk
<1>3. results \in Seq(Result)
  BY Zenon, QueueTypes
<1>4. Range(results') \subseteq Range(results) /\ AllJobs' \subseteq AllJobs
  BY Zenon, <1>1
<1>5. Faultless'
  BY Zenon, <1>2, <1>4 DEF QueueInv, Faultless
<1>6. JobOrder'
  <2>1. ASSUME NEW i \in DOMAIN results', NEW k \in DOMAIN results', i < k
        PROVE  results'[i].job.seg < results'[k].job.wal
    <3>1. /\ i + 1 \in DOMAIN results /\ k + 1 \in DOMAIN results /\ i \in Nat /\ k \in Nat
          /\ results'[i] = results[i + 1] /\ results'[k] = results[k + 1]
      BY Zenon, <1>2, <1>3, HeadAndTail
    <3>2. i + 1 < k + 1
      BY <2>1, <3>1
    <3> QED BY Zenon, <3>1, <3>2 DEF QueueInv, JobOrder
  <2> QED BY Zenon, <1>2, <1>4, <2>1 DEF QueueInv, JobOrder
<1>7. PipelineWals'
  <2>1. rotated' = {k.wal : k \in AllJobs'}
    <3>1. rotated = {k.wal : k \in AllJobs}
      BY Zenon DEF QueueInv, PipelineWals
    <3>2. \A k \in AllJobs' : k.wal # j.wal
      <4>1. j.wal \in Nat /\ j.seg \in Nat
        BY Zenon, <1>1, FileTypes
      <4>2. ~(j.seg < j.wal)
        BY <1>1, <4>1
      <4> QED BY Zenon, <1>1, <4>2
    <3> QED BY Zenon, <1>1, <3>1, <3>2
  <2>2. j.wal # 0
    BY Zenon, <1>1, FileTypes
  <2> QED BY Zenon, <1>1, <1>2, <2>1, <2>2 DEF PipelineWals
<1>8. OldestGoes'
  <2>1. \A v \in walFiles : j.wal <= v
    <3>1. j.wal \in Nat /\ j.seg \in Nat /\ walFiles \subseteq Nat
      BY Zenon, <1>1, FileTypes
    <3> QED BY <1>1, <3>1
  <2>2. j.wal \in walFiles /\ j.seg \in segFiles
    BY Zenon, <1>1 DEF Sealed
  <2>3. Sealed(j.wal, j.seg)'
    BY Zenon, <1>1, <1>2 DEF Sealed
  <2> QED BY Zenon, <1>2, <2>1, <2>2, <2>3 DEF OldestGoes, Sealed
<1>9. Promoted'
  BY Zenon, <1>2, <1>4 DEF QueueInv, Promoted, Sealed
<1> QED BY Zenon, <1>5, <1>6, <1>7, <1>8, <1>9 DEF QueueInv

(* The unlink takes the WAL that is not in use.                            *)
LEMMA RemoveQueue ==
  ASSUME Durable, QueueInv, RemoveWal
  PROVE  QueueInv' /\ OpenWals' = OpenWals /\ AllJobs' = AllJobs
<1>1. /\ unlinking # 0 /\ unlinking' = 0 /\ walFiles' = walFiles \ {unlinking}
      /\ UNCHANGED <<recs, bodies, segFiles, phase, wal, rotated, jobs, results, stash>>
  BY Zenon DEF RemoveWal
<1>2. OpenWals' = OpenWals /\ AllJobs' = AllJobs
  BY Zenon, <1>1 DEF OpenWals, AllJobs
<1>3. Faultless' /\ JobOrder' /\ Promoted'
  BY Zenon, <1>1, <1>2 DEF QueueInv, Faultless, JobOrder, Promoted, Sealed
<1>4. PipelineWals'
  <2>1. unlinking \notin OpenWals
    BY Zenon, <1>1 DEF Durable, MemoryInv
  <2> QED BY Zenon, <1>1, <1>2, <2>1 DEF QueueInv, PipelineWals
<1>5. OldestGoes'
  BY Zenon, <1>1 DEF OldestGoes
<1> QED BY Zenon, <1>2, <1>3, <1>4, <1>5 DEF QueueInv

(* Recovery promotes the oldest WAL, into a segment above all others.      *)
LEMMA RecoverFacts ==
  ASSUME TypeInv, Durable, DiskInv, FileSyncLinks, RecoverPromote
  PROVE  LET w == NextToPromote
             B == Staged(recs[w], w, FoldOwners(index, WalHashes(w), w))
         IN  /\ w \in walFiles /\ w \in Ulids /\ \A v \in walFiles : w <= v
             /\ unlinking' = w
             /\ IF recs[w] = {}
                THEN UNCHANGED <<recs, bodies, segFiles, base, index>>
                ELSE /\ mint + 1 \in Ulids /\ mint + 1 \notin Wals /\ mint + 1 \notin segFiles
                     /\ \A t \in segFiles : t < mint + 1
                     /\ w < mint + 1
                     /\ segFiles' = segFiles \cup {mint + 1} /\ recs' = [recs EXCEPT ![mint + 1] = recs[w]]
                     /\ bodies' = [bodies EXCEPT ![mint + 1] = B]
                     /\ base' = ApplyClaims(FoldClaims(base, recs[w], w), recs[w], mint + 1)
                     /\ index' = ApplyOwners(FoldOwners(index, WalHashes(w), w), B, w, mint + 1)
             /\ DiskInv' /\ QueueInv'
<1>0. PICK w : w = NextToPromote
  BY Zenon
<1>1. /\ phase = "opening" /\ walFiles # {} /\ unlinking' = w
      /\ UNCHANGED <<log, lost, walFiles, unlinked, phase, wal, rotated, jobs, results, stash>>
  BY Zenon, <1>0 DEF RecoverPromote, Recovering, ManyWals, history
<1>2. w \in walFiles /\ w \in Ulids /\ \A v \in walFiles : w <= v
  <2>1. walFiles \subseteq Nat
    BY Zenon, FileTypes
  <2>2. Min(walFiles) \in walFiles /\ \A v \in walFiles : Min(walFiles) <= v
    BY Zenon, <1>1, <2>1, MinIsLeast
  <2> QED BY Zenon, <1>0, <2>2, FileTypes DEF NextToPromote
<1>3. jobs = <<>> /\ results = <<>> /\ stash = <<>> /\ rotated = {}
  BY Zenon, <1>1 DEF Durable, MemoryInv
<1>4. (phase' = "up") = FALSE
  BY Zenon, <1>1
<1>5. CASE recs[w] = {}
  <2>1. UNCHANGED <<recs, bodies, segFiles, synced, linked, base, index>>
    BY Zenon, <1>0, <1>5 DEF RecoverPromote
  <2>2. DiskInv'
    BY Zenon, <1>1, <2>1, QuietDisk
  <2>3. OldestGoes'
    BY Zenon, <1>1, <1>2, <1>5, <2>1 DEF OldestGoes
  <2>4. QueueInv'
    BY Zenon, <1>1, <1>3, <1>4, <2>3, EmptyQueue
  <2> QED BY Zenon, <1>0, <1>1, <1>2, <1>5, <2>1, <2>2, <2>4
<1>6. CASE recs[w] # {}
  <2> DEFINE B == Staged(recs[w], w, FoldOwners(index, WalHashes(w), w))
  <2>1. PICK s : s = mint + 1
    BY Zenon
  <2>2. /\ mint + 2 <= MaxUlid /\ CommitSegment(s, w, B)
        /\ base' = ApplyClaims(FoldClaims(base, recs[w], w), recs[w], s)
        /\ index' = ApplyOwners(FoldOwners(index, WalHashes(w), w), B, w, s)
    BY Zenon, <1>0, <1>6, <2>1 DEF RecoverPromote
  <2> HIDE DEF B
  <2>3. /\ segFiles' = segFiles \cup {s} /\ recs' = [recs EXCEPT ![s] = recs[w]]
        /\ bodies' = [bodies EXCEPT ![s] = B]
    BY Zenon, <2>2 DEF CommitSegment, WriteSegment
  <2>4. \A f \in walFiles \cup segFiles : f <= mint
    BY Zenon, <1>1 DEF Durable, FilesInv
  <2>5. s \in Ulids /\ \A f \in walFiles \cup segFiles : f < s
    BY <2>1, <2>2, <2>4, FileTypes DEF Ulids
  <2>6. \A u \in Range(unlinked) : u < s
    <3> TAKE u \in Range(unlinked)
    <3>1. PICK f \in walFiles \cup segFiles : u < f
      BY Zenon DEF Durable, FilesInv
    <3>2. f < s /\ f \in Nat /\ s \in Nat
      BY Zenon, <2>5, <3>1, FileTypes
    <3>3. u \in Nat
      BY Zenon, FileTypes DEF Wals
    <3> QED BY <3>1, <3>2, <3>3
  <2>7. s \notin Wals /\ s \notin segFiles
    <3>1. ~(s < s)
      BY <2>5, FileTypes
    <3> QED BY Zenon, <2>5, <2>6, <3>1 DEF Wals
  <2>8. DiskInv'
    BY Zenon, <1>1, <1>2, <2>2, <2>5, <2>7, SegmentDisk
  <2>9. Sealed(w, s)'
    <3>1. recs'[s] = recs[w] /\ recs'[w] = recs[w]
      BY Zenon, <1>2, <2>3, <2>5, <2>7, FileTypes DEF Wals
    <3>2. \A t \in segFiles' : ~(s < t)
      BY <2>3, <2>5, FileTypes
    <3> QED BY Zenon, <2>3, <3>1, <3>2 DEF Sealed
  <2>10. OldestGoes'
    BY Zenon, <1>1, <1>2, <2>3, <2>9 DEF OldestGoes, Sealed
  <2>11. QueueInv'
    BY Zenon, <1>1, <1>3, <1>4, <2>10, EmptyQueue
  <2> QED BY Zenon, <1>0, <1>1, <1>2, <1>6, <2>1, <2>2, <2>3, <2>5, <2>7, <2>8, <2>11 DEF B
<1> QED BY Zenon, <1>5, <1>6

(* The last WAL is taken up again.                                         *)
LEMMA RecoverLatestFacts ==
  ASSUME TypeInv, Durable, RecoverLatest
  PROVE  QueueInv' /\ OpenWals' = walFiles /\ AllJobs' = {} /\ rotated' = {}
<1>1. /\ phase = "opening" /\ unlinking = 0 /\ ~ManyWals
      /\ UNCHANGED <<walFiles, rotated, jobs, results, stash, unlinking>>
  BY Zenon DEF RecoverLatest, Recovering, pipeline, disk
<1>2. jobs = <<>> /\ results = <<>> /\ stash = <<>> /\ rotated = {} /\ wal = 0
  BY Zenon, <1>1 DEF Durable, MemoryInv
<1>3. walFiles = {wal'} \ {0}
  <2>1. CASE walFiles = {}
    BY Zenon, <1>2, <2>1 DEF RecoverLatest
  <2>2. CASE walFiles # {}
    <3>1. wal' = Max(walFiles)
      BY Zenon, <2>2 DEF RecoverLatest
    <3>2. walFiles \subseteq 0..MaxUlid /\ MaxUlid \in Nat /\ 0 \notin walFiles
      BY FileTypes DEF Ulids
    <3>3. wal' \in walFiles
      BY Zenon, <2>2, <3>1, <3>2, MaxIsGreatest
    <3> QED BY Zenon, <1>1, <3>2, <3>3 DEF ManyWals
  <2> QED BY Zenon, <2>1, <2>2
<1>4. OpenWals' = walFiles
  BY Zenon, <1>1, <1>2, <1>3 DEF OpenWals
<1>5. OldestGoes'
  BY Zenon, <1>1 DEF OldestGoes
<1>6. AllJobs' = {}
  <2>1. Range(jobs') = {} /\ Range(results') = {} /\ Range(stash') = {}
    BY Zenon, <1>1, <1>2, RangeEmpty
  <2> QED BY Zenon, <2>1 DEF AllJobs
<1>7. QueueInv'
  BY Zenon, <1>1, <1>2, <1>4, <1>5, EmptyQueue
<1> QED BY Zenon, <1>1, <1>2, <1>4, <1>6, <1>7
=============================================================================
