----------------------------- MODULE MCLdifSync ------------------------------
(* Model values and contents for the runs of LdifSync.                     *)
EXTENDS LdifSync, TLC

CONSTANTS r1, a1, a2

Give(r, data) == [id |-> r, known |-> TRUE, data |-> data]
OfUnknownType(r) == [id |-> r, known |-> FALSE, data |-> {}]

\* A record alone, and with other data after an item that is rejected.
SmallContents == {<<Give(r1, {a1})>>, <<OfUnknownType(r1), Give(r1, {a2})>>}

\* Data, and none: a full run without data removes what is there.
TinyContents == {<<Give(r1, {a1})>>, <<Give(r1, {})>>}
=============================================================================
