---------------------------- MODULE MCDurableCut ----------------------------
(***************************************************************************)
(* The instances of DurableCut that TLC checks.                            *)
(***************************************************************************)
EXTENDS DurableCut, TLC

\* Blocks are interchangeable.
CutSymmetry == Permutations(Lbas)

None == [b \in Rationed |-> 0]

\* The budgets of a run, one per combination of faults it looks at.
PlainBudgets ==
    {[None EXCEPT !.write = 3, !.fail = 2, !.crash = 1, !.stop = 1],
     [None EXCEPT !.write = 2, !.fail = 1, !.crash = 1, !.stop = 1, !.start = 1, !.late = 1]}

GcBudgets ==
    {[None EXCEPT !.write = 3, !.check = 2, !.reap = 1],
     [None EXCEPT !.write = 2, !.check = 2, !.fail = 1, !.crash = 1, !.reap = 1],
     [None EXCEPT !.write = 2, !.check = 2, !.fail = 1, !.reap = 1, !.stop = 1],
     [None EXCEPT !.write = 2, !.check = 1, !.crash = 1, !.reap = 1, !.snapshot = 1,
                  !.late = 1],
     [None EXCEPT !.write = 2, !.crash = 1, !.snapshot = 1, !.stop = 1, !.start = 1,
                  !.late = 1]}

LiveBudgets ==
    {[None EXCEPT !.write = 2, !.check = 1, !.fail = 1, !.crash = 1, !.fold = 1,
                  !.sweep = 1]}
=============================================================================
