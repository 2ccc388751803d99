-------------------------- MODULE MCFactSheetPatch --------------------------
(* Model values, patch lists and symmetry for the runs of FactSheetPatch.  *)
EXTENDS FactSheetPatch, TLC

CONSTANTS s1, s2, u1, u2, x1, ph1, ph2, a1, a2

OneSheet == {s1}
TwoSheets == {s1, s2}
OneUser == {u1}
TwoUsers == {u1, u2}

Field(kind, val) == [kind |-> kind, val |-> val]

\* Updates that touch different rows, and the same rows in opposite orders; a
\* lifecycle that ends without phases is still filled.
RowPatches == {<<Field("set", a2)>>,
               <<Field("description", TRUE), Field("unset", a1)>>,
               <<Field("set", a1), Field("description", FALSE)>>,
               <<Field("phase", ph2), Field("lifecycle", {})>>}

\* External ids, lifecycle phases, an attribute, and a list that fails half-way.
ColumnPatches == {<<Field("externalId", x1)>>, <<Field("phase", ph1)>>,
                  <<Field("phase", ph2)>>, <<Field("externalId", None)>>,
                  <<Field("set", a1)>>, <<Field("description", TRUE), Field("bad", None)>>}

Mandatory1 == {"description", "lifecycle", a1, a2}
Mandatory2 == {"externalId", "lifecycle", a1}

UserSymmetry == Permutations({u1, u2})
=============================================================================
