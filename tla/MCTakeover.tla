----------------------------- MODULE MCTakeover -----------------------------
(***************************************************************************)
(* Takeover on two hosts.  Which coordinator creates the volume is fixed,  *)
(* the verbs of both, and the writes and faults, are bounded together, and *)
(* guest writes go to the fork that holds the name: what a displaced fork  *)
(* still takes in is lost by design.                                       *)
(***************************************************************************)
EXTENDS Takeover

CONSTANTS Creator,     \* the coordinator that creates the volume
          MaxTotal,    \* bound: verbs given to all coordinators
          LastVerbs,   \* what the last of them may be
          MaxEvent     \* bound: writes and faults together

Given == MapThenSumSet(LAMBDA c : job[c].begun, Coords)

Scenario ==
    /\ (minted = 0 /\ minted' = 1) => job'[Creator].verb = "create"
    /\ \A c \in Coords : job'[c].begun # job[c].begun
         => Given < MaxTotal - 1 \/ (Given < MaxTotal /\ job'[c].verb \in LastVerbs)
    /\ written' + faults' =< MaxEvent
    /\ \A f \in Forks : own'[f] # own[f] /\ written' # written => rec[Main].vol = f

=============================================================================
