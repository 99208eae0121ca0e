------------------------------ MODULE Ownership ------------------------------
(***************************************************************************)
(* What the records at names/<name> promise, without the protocol that     *)
(* keeps the promise: a name is bound to one fork, held by at most one     *)
(* coordinator, and whenever it is taken from a holder it is bound to a    *)
(* fork it was never bound to before.  A holder that was displaced         *)
(* therefore keeps a fork of its own and writes into nobody else's.        *)
(***************************************************************************)
EXTENDS Integers

CONSTANTS VolNames,    \* volume names
          Vols,        \* fork ULIDs, positive numbers
          Coords, Nobody

VARIABLES bound,       \* the fork each name is bound to, 0 for none
          holder,      \* the coordinator that holds it, or Nobody
          left         \* the forks it was bound to before

vars == <<bound, holder, left>>

Init == /\ bound  = [n \in VolNames |-> 0]
        /\ holder = [n \in VolNames |-> Nobody]
        /\ left   = [n \in VolNames |-> {}]

\* A fork the name may be bound to: no name is bound to it, this one never was.
Unbound(n, v) == /\ v \notin left[n]
                 /\ \A m \in VolNames : bound[m] # v

Leave(n) == left' = [left EXCEPT ![n] = IF bound[n] = 0 THEN @ ELSE @ \cup {bound[n]}]

\* The name gets a holder, or loses it; the fork stays.
Take(n, c) == /\ bound[n] # 0 /\ holder[n] = Nobody
              /\ holder' = [holder EXCEPT ![n] = c]
              /\ UNCHANGED <<bound, left>>

Yield(n) == /\ bound[n] # 0
            /\ holder' = [holder EXCEPT ![n] = Nobody]
            /\ UNCHANGED <<bound, left>>

\* The name is bound to a new fork: from nothing, from a released name, or
\* over the head of its holder.
Bind(n, h, v) == /\ Unbound(n, v)
                 /\ bound[n] # 0 => h # Nobody
                 /\ bound'  = [bound EXCEPT ![n] = v]
                 /\ holder' = [holder EXCEPT ![n] = h]
                 /\ Leave(n)

\* The record is deleted.
Forget(n) == /\ bound'  = [bound EXCEPT ![n] = 0]
             /\ holder' = [holder EXCEPT ![n] = Nobody]
             /\ Leave(n)

Next == \E n \in VolNames :
            \/ \E c \in Coords : Take(n, c)
            \/ Yield(n)
            \/ Forget(n)
            \/ \E h \in Coords \cup {Nobody}, v \in Vols : Bind(n, h, v)

Spec == Init /\ [][Next]_vars

=============================================================================
