------------------------------- MODULE LbaMap -------------------------------
(***************************************************************************)
(* The LBA map: disjoint runs of blocks, each naming the content that      *)
(* covers it, where in that content the run begins, and the segment or WAL *)
(* that claims it; with a count of claims per content.                     *)
(*                                                                         *)
(* elide-core/src/lbamap.rs.                                               *)
(*                                                                         *)
(* A content hash is the sequence of block values it hashes, so equal      *)
(* hashes are equal contents and a part of a content has a hash of its     *)
(* own.  ULIDs are numbers.                                                *)
(***************************************************************************)
EXTENDS Integers, Sequences, FiniteSetsExt, Bags

\* The sentinel of a zeroed run: no body is stored for it.
ZERO_HASH == <<>>

Run(start, len, off, hash, by) ==
  [start |-> start, len |-> len, off |-> off, hash |-> hash, by |-> by]

End(r) == r.start + r.len
Covered(r) == r.start .. End(r) - 1
CoveredBy(S) == UNION {Covered(r) : r \in S}

\* The part of r in the blocks s..t-1: the offset advances with the start.
Clip(r, s, t) ==
  LET i == Max({s, r.start})
      j == Min({t, End(r)})
  IN [r EXCEPT !.start = i, !.len = j - i, !.off = r.off + (i - r.start)]

ClaimCounts(S) ==
  [h \in {r.hash : r \in S} |-> Cardinality({r \in S : r.hash = h})]

EmptyMap == [runs |-> {}, counts |-> EmptyBag]

\* Mutant: the claims of the replaced runs stay counted.
ReplaceUncounted(m, out, in) ==
  [runs |-> (m.runs \ out) \cup in, counts |-> m.counts (+) ClaimCounts(in)]

\* remove_entry and add_entry: the counts follow the runs.
Replace(m, out, in) ==
  [runs |-> (m.runs \ out) \cup in,
   counts |-> (m.counts (-) ClaimCounts(out)) (+) ClaimCounts(in)]

is_referenced(m, h) == BagIn(h, m.counts)
claim_hashes(m) == BagToSet(m.counts)

\* Runs are disjoint, so the predecessor that reaches into s..t-1 and the
\* runs that start there are all the runs that meet it.
Meeting(m, s, t) == {r \in m.runs : r.start < t /\ End(r) > s}

extents_in_range(m, s, t) == {Clip(r, s, t) : r \in Meeting(m, s, t)}

has_full_match(m, s, n, h) ==
  \E r \in m.runs : r.start = s /\ r.len = n /\ r.off = 0 /\ r.hash = h

\* What a run keeps outside the blocks of e: its head and its tail.
Around(r, e) ==
  {x \in {Clip(r, r.start, e.start), Clip(r, End(e), End(r))} : x.len > 0}

\* insert_inner: e over whatever it meets.
insert_inner(m, e) ==
  LET met == Meeting(m, e.start, End(e))
  IN Replace(m, met, {e} \cup UNION {Around(r, e) : r \in met})

-----------------------------------------------------------------------------
\* The rules under which a run already in the map keeps its blocks from e.

Higher == [rule |-> "higher"]
Consuming(inputs) == [rule |-> "consuming", inputs |-> inputs]
AboveHorizon(upto) == [rule |-> "horizon", upto |-> upto]

\* r is an earlier entry of e's own segment, or the same content of an older
\* one.
Restated(r, e) == r.by = e.by \/ (r.hash = e.hash /\ r.by < e.by)

\* Mutant: a claim also blocks the later entries of its own segment.
BlocksTies(r, e, how) ==
  CASE how.rule = "higher" -> r.by >= e.by
    [] how.rule = "consuming" -> r.by \notin how.inputs /\ ~Restated(r, e)
    [] how.rule = "horizon" -> r.by > how.upto /\ ~Restated(r, e)
blocks(r, e, how) ==
  CASE how.rule = "higher" -> r.by > e.by
    [] how.rule = "consuming" -> r.by \notin how.inputs /\ ~Restated(r, e)
    [] how.rule = "horizon" -> r.by > how.upto /\ ~Restated(r, e)

\* The blocks of e no blocking run holds, and the maximal runs of them.
Free(m, e, how) ==
  Covered(e) \ CoveredBy({r \in Meeting(m, e.start, End(e)) : blocks(r, e, how)})
Gaps(e, free) ==
  {Clip(e, i, j + 1) : <<i, j>> \in
     {p \in free \X free : /\ p[1] <= p[2] /\ p[1] .. p[2] \subseteq free
                           /\ p[1] - 1 \notin free /\ p[2] + 1 \notin free}}

\* insert_inner_if_newer: a run over exactly e's blocks is restated in place;
\* otherwise e goes into the gaps between the blocking runs.
insert_inner_if_newer(m, e, how) ==
  LET exact == {r \in m.runs : r.start = e.start /\ r.len = e.len}
  IN IF exact # {}
     THEN IF \E r \in exact : blocks(r, e, how) THEN m ELSE Replace(m, exact, {e})
     ELSE FoldSet(LAMBDA g, acc : insert_inner(acc, g), m, Gaps(e, Free(m, e, how)))

\* Mutant: the runs of this content are re-keyed wherever they are.
RekeyAnywhere(m, s, n, h, by) ==
  LET met == {r \in m.runs : r.hash = h /\ r.by < by}
  IN [m EXCEPT !.runs = (@ \ met) \cup {[r EXCEPT !.by = by] : r \in met}]

\* set_claimant_if_matches: the runs of this content that meet the range and
\* have an older claimant are re-keyed whole.
set_claimant_if_matches(m, s, n, h, by) ==
  LET met == {r \in Meeting(m, s, s + n) : r.hash = h /\ r.by < by}
  IN [m EXCEPT !.runs = (@ \ met) \cup {[r EXCEPT !.by = by] : r \in met}]
=============================================================================
