-------------------------- MODULE TrashBinContract --------------------------
(***************************************************************************)
(* What archiving, reviving and deleting promise a client of the fact      *)
(* sheet API and of the trash bin: each takes effect on both tables in one *)
(* step, a deleted sheet stays deleted.  FactSheetLifecycle implements it. *)
(***************************************************************************)
EXTENDS Integers

CONSTANT Sheets

VARIABLES status,    \* "ACTIVE", "ARCHIVED" or "GONE"
          deadline,  \* deletion date on the fact sheet, -1 for none
          entry      \* deletion date on its trash bin entry, -1 for none

tables == <<status, deadline, entry>>

Init ==
    /\ deadline \in [Sheets -> Nat \cup {-1}]
    /\ status = [f \in Sheets |-> IF deadline[f] = -1 THEN "ACTIVE" ELSE "ARCHIVED"]
    /\ entry = deadline

\* Set a sheet that still exists to status s with deletion date d.
Put(f, s, d) ==
    /\ status[f] # "GONE"
    /\ status' = [status EXCEPT ![f] = s]
    /\ deadline' = [deadline EXCEPT ![f] = d]

\* The date is the caller's clock plus the retention: any date will do.
Archive(f) ==
    LET d == deadline'[f] IN
    /\ d \in Nat
    /\ Put(f, "ARCHIVED", d)
    /\ entry' = [entry EXCEPT ![f] = d]

Revive(f) == Put(f, "ACTIVE", -1) /\ entry' = [entry EXCEPT ![f] = -1]

\* Any sheet, ACTIVE ones too: the code checks the trash bin before the
\* transaction this step stands for (FactSheetLifecycle!OnlyTrashDeleted).  The
\* entry of a deleted sheet may outlive it: nothing ties trash_bin rows to
\* fact_sheets rows, and a sheet may be re-archived while it is deleted.
Delete(f) ==
    /\ Put(f, "GONE", -1)
    /\ entry' \in {entry, [entry EXCEPT ![f] = -1]}

Next == \E f \in Sheets : Archive(f) \/ Revive(f) \/ Delete(f)

Spec == Init /\ [][Next]_tables
=============================================================================
