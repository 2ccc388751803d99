------------------------ MODULE MCFactSheetLifecycle ------------------------
(* Model values and symmetry for the runs of FactSheetLifecycle.           *)
EXTENDS FactSheetLifecycle, TLC

CONSTANTS f1, f2, u1, u2, c1

OneSheet == {f1}
TwoSheets == {f1, f2}
TwoUsers == {u1, u2}
OneCron == {c1}

UserSymmetry == Permutations({u1, u2})
=============================================================================
