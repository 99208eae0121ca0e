------------------------------ MODULE MCVolume ------------------------------
(***************************************************************************)
(* The instances of Volume that TLC checks.                                *)
(***************************************************************************)
EXTENDS Volume, TLC

\* Blocks and contents are interchangeable.
VolumeSymmetry == Permutations(Lbas) \cup Permutations(Hashes)

\* Bound: a second crash, which may interrupt the recovery from the first, is
\* tried on logs of a single block and ends the log.
SecondCrash ==
    crashes' = 2 =>
      /\ Len(log') =< MaxCrashLog
      /\ \A m, n \in DOMAIN log' : log'[m].lba = log'[n].lba
=============================================================================
