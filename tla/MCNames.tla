------------------------------- MODULE MCNames -------------------------------
EXTENDS Names, TLC

CONSTANT Spare         \* the name a displaced fork is rehomed under

\* Volumes are created, imported and snapshotted under the other names.
Scenario ==
    \A q \in flight' : q.name = Spare => q.verb \notin {"initial", "importing", "latest"}

CoordSymmetry == Permutations(Coords)

=============================================================================
