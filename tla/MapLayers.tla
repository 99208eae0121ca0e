----------------------------- MODULE MapLayers ------------------------------
(***************************************************************************)
(* The volume's maps and what is derived from segments: the extent index   *)
(* (which file holds the body of a content), the layers of the WAL epochs  *)
(* over base, the registration of a segment's entries, the rebuild from    *)
(* disk and the classification of a segment's entries as live or dead.     *)
(*                                                                         *)
(* elide-core/src/map_layers.rs, extentindex.rs, segment_classify.rs,      *)
(* segment.rs (discover_fork_segments), lbamap.rs (LbaMapBuilder).         *)
(*                                                                         *)
(* An entry of a segment is data (a body and a claim), ref (a claim on a   *)
(* body stored elsewhere), zero (a claim on zeroes) or canon (a body and   *)
(* no claim).  A segment records the inputs it was rewritten from.         *)
(***************************************************************************)
EXTENDS LbaMap, SequencesExt, TLC

Entry(kind, start, len, hash) ==
  [kind |-> kind, start |-> start, len |-> len, hash |-> hash]
Canonical(h) == Entry("canon", 0, 0, h)

owns_extent_hash(e) == e.kind \in {"data", "canon"}
is_canonical_only(e) == e.kind = "canon"

EntriesOf(seq) == {seq[i] : i \in DOMAIN seq}
Claiming(seq) == {e \in EntriesOf(seq) : ~is_canonical_only(e)}
Bodies(seq) == {e.hash : e \in {x \in EntriesOf(seq) : owns_extent_hash(x)}}

\* The blocks a set of entries claims.
Ranges(E) == UNION {e.start .. e.start + e.len - 1 : e \in E}

Ascending(S) == SetToSortSeq(S, LAMBDA a, b : a < b)

-----------------------------------------------------------------------------
\* Maps: an LBA map and the location of each body, a record of a WAL or
\* somewhere in a segment.  The layers: base, the frozen epochs oldest
\* first, and delta.

InWal(w, i) == [by |-> w, at |-> i]
InSegment(s) == [by |-> s, at |-> 0]

EmptyMaps == [lba |-> EmptyMap, own |-> <<>>]

\* register_entry of the extent index: a free slot, or one an input holds.
\* With no inputs this is the first-write-wins admission.
RegisterBody(own, e, by, inputs) ==
  IF owns_extent_hash(e) /\ (e.hash \in DOMAIN own => own[e.hash].by \in inputs)
  THEN (e.hash :> InSegment(by)) @@ own ELSE own

\* register_entry_inner of the LBA map.
RegisterClaim(m, e, by, how) ==
  IF is_canonical_only(e) THEN m
  ELSE insert_inner_if_newer(m, Run(e.start, e.len, 0, e.hash, by), how)

\* fold: the runs of a layer over base, its owners where base has none.
fold(base, layer) ==
  [lba |-> FoldSet(LAMBDA r, acc : insert_inner(acc, r), base.lba, layer.lba.runs),
   own |-> base.own @@ layer.own]

FoldFrozen(base, layers) ==
  FoldLeft(LAMBDA acc, f : fold(acc, f.maps), base, layers)

materialised(L) == fold(FoldFrozen(L.base, L.frozen), L.delta)

\* freeze: delta becomes the newest frozen layer.
freeze(L, w) ==
  IF L.delta = EmptyMaps THEN L
  ELSE [L EXCEPT !.frozen = Append(@, [wal |-> w, maps |-> L.delta]),
                 !.delta = EmptyMaps]

\* below: base under the frozen layers older than ulid.
below(L, ulid) ==
  FoldFrozen(L.base, SelectSeq(L.frozen, LAMBDA f : f.wal < ulid))

\* with_base and above: the layers over another base, without the ones that
\* base has taken in.
with_base(L, maps) == [L EXCEPT !.base = maps]
above(L, ulid, maps) ==
  [L EXCEPT !.base = maps, !.frozen = SelectSeq(@, LAMBDA f : f.wal >= ulid)]

\* The layers, topmost first.
Stack(L) == <<L.delta>> \o Reverse([i \in DOMAIN L.frozen |-> L.frozen[i].maps]) \o <<L.base>>

\* The first layer of the stack that meets a set of blocks, base if none.
Topmost(L, s, t) ==
  LET stack == Stack(L)
      hit == {i \in DOMAIN stack : Meeting(stack[i].lba, s, t) # {}}
  IN stack[Min(hit \cup {Len(stack)})]

full_match(L, s, n, h) == has_full_match(Topmost(L, s, s + n).lba, s, n, h)

\* The claims a read of block l finds, at most one.
ClaimAt(L, l) == extents_in_range(Topmost(L, l, l + 1).lba, l, l + 1)

\* lookup_extent: the owners named by the topmost layer that names one.
OwnersOf(L, h) ==
  LET stack == Stack(L)
      hit == {i \in DOMAIN stack : h \in DOMAIN stack[i].own}
  IN IF hit = {} THEN {} ELSE {stack[Min(hit)].own[h].by}

delta_claims_any(L, H) == claim_hashes(L.delta.lba) \cap H # {}

-----------------------------------------------------------------------------
\* discover_fork_segments: the committed tiers ascending, then the pending
\* ones; a bare output of a collection hides its inputs in the index tier.

Superseded(segs) ==
  UNION {segs[g].inputs : g \in {x \in DOMAIN segs : segs[x].tier = "bare"}}
Visible(segs) ==
  {u \in DOMAIN segs : ~(segs[u].tier = "index" /\ u \in Superseded(segs))}
discover_fork_segments(segs) ==
  LET committed == {u \in Visible(segs) : segs[u].tier \in {"index", "bare"}}
  IN Ascending(committed) \o Ascending(Visible(segs) \ committed)

RegisterClaims(m, seg, by, how) ==
  FoldLeft(LAMBDA acc, e : RegisterClaim(acc, e, by, how), m, seg.entries)

\* LbaMapBuilder: flushed segments by the highest claimant; then the
\* outputs of rewrites, each over what its inputs could see.
RebuiltLba(segs) ==
  LET flushed == {u \in Visible(segs) : segs[u].inputs = {}}
      outputs == Visible(segs) \ flushed
      claims == FoldLeft(LAMBDA acc, u : RegisterClaims(acc, segs[u], u, Higher),
                         EmptyMap, Ascending(flushed))
  IN FoldLeft(LAMBDA acc, u : RegisterClaims(acc, segs[u], u, AboveHorizon(Max(segs[u].inputs))),
              claims, Ascending(outputs))

\* ExtentIndexBuilder: the first of the walk to store a body owns it.
RebuiltOwners(segs) ==
  LET visit(acc, u) ==
        FoldLeft(LAMBDA own, e : RegisterBody(own, e, u, {}), acc, segs[u].entries)
  IN FoldLeft(visit, <<>>, discover_fork_segments(segs))

Rebuilt(segs) == [lba |-> RebuiltLba(segs), own |-> RebuiltOwners(segs)]

\* replay_wal_records: the records of a WAL over the maps, in order.
ReplayWal(maps, w, records) ==
  LET record(acc, i) ==
        LET r == records[i]
        IN [lba |-> insert_inner(acc.lba, Run(r.start, r.len, 0, r.hash, w)),
            own |-> IF r.hash = ZERO_HASH THEN acc.own ELSE acc.own @@ (r.hash :> InWal(w, i))]
  IN FoldLeft(record, maps, [i \in DOMAIN records |-> i])

-----------------------------------------------------------------------------
\* segment_classify: what a rewrite keeps of an entry of segment u.

\* block_is_live: the content, its anchor, and the claimant.
block_is_live(e, u, x) ==
  x.hash = e.hash /\ x.off = x.start - e.start /\ x.by = u

LiveRuns(maps, u, e) ==
  SetToSortSeq({x \in extents_in_range(maps.lba, e.start, e.start + e.len) :
                  block_is_live(e, u, x)},
               LAMBDA a, b : a.start < b.start)

owns_home(maps, u, e) == e.hash \in DOMAIN maps.own /\ maps.own[e.hash].by = u

\* classify_entry and the materialised output: a surviving part of a content
\* is a content of its own, and the whole stays as a body without a claim.
Carry(maps, u, e) ==
  LET runs == LiveRuns(maps, u, e)
      matching == CoveredBy(EntriesOf(runs))
      referenced == is_referenced(maps.lba, e.hash)
      slice(x) == Entry("data", x.start, x.len, SubSeq(e.hash, x.off + 1, x.off + x.len))
  IN CASE e.kind = "zero" ->
            [i \in DOMAIN runs |-> Entry("zero", runs[i].start, runs[i].len, ZERO_HASH)]
       [] e.kind = "canon" -> IF referenced THEN <<e>> ELSE <<>>
       [] e.kind \in {"data", "ref"} /\ Cardinality(matching) = e.len -> <<e>>
       [] e.kind \in {"data", "ref"} /\ matching = {} ->
            IF e.kind = "data" /\ owns_home(maps, u, e) /\ referenced
            THEN <<Canonical(e.hash)>> ELSE <<>>
       [] OTHER ->
            (IF e.kind = "data" /\ referenced THEN <<Canonical(e.hash)>> ELSE <<>>)
              \o [i \in DOMAIN runs |-> slice(runs[i])]

\* The entries of a rewrite of segments U.
Rewritten(maps, segs, U) ==
  LET carried(u) == FlattenSeq([i \in DOMAIN segs[u].entries |->
                                  Carry(maps, u, segs[u].entries[i])])
      order == Ascending(U)
  IN FlattenSeq([i \in DOMAIN order |-> carried(order[i])])
=============================================================================
