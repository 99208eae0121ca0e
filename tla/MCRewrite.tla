----------------------------- MODULE MCRewrite ------------------------------
(* A content of three blocks, one of a block inside it and again beside it,  *)
(* and zeroes over part of it: an overwrite splits, a repeat is a ref.       *)
EXTENDS Rewrite

CONSTANTS a, b

X(s, h) == [start |-> s, len |-> Len(h), hash |-> h]
MCExtents == {X(1, <<a, b, a>>), X(2, <<b>>), X(3, <<b>>),
              [start |-> 1, len |-> 2, hash |-> ZERO_HASH]}

Budget(w, p, c, g, r) ==
  [write |-> w, promote |-> p, close |-> c, check |-> g, restart |-> r]
MCBudgets == {Budget(3, 2, 1, 1, 0), Budget(3, 1, 0, 2, 0), Budget(3, 2, 2, 0, 0), Budget(2, 1, 1, 1, 1)}
=============================================================================
