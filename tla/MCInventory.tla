---------------------------- MODULE MCInventory ----------------------------
(* A small instance of Collaboration, and of RelationGraph in it, for TLC. *)
EXTENDS Collaboration

CONSTANTS a, b, c, d, t, u, i1, i2, i3, i4, i5, i6, i7, p1, p2, w1, w2, c1, c2, d1, r1, d2, r2, r3,
          k1, k2, k3, v1, v2, v3, yes

\* Three sheets and both relation types in one workspace, a sheet in another.
TwoSpaces == [x \in {a, b, c, d, t, u} |-> IF x = c THEN w2 ELSE w1]

\* d is two hops away from a; a and b are related in two ways.
FirstRelations ==
    [i \in RelIds |-> CASE i = i1 -> [type |-> t, source |-> a, target |-> b]
                        [] i = i2 -> [type |-> t, source |-> d, target |-> b]
                        [] i = i3 -> [type |-> u, source |-> a, target |-> b]
                        [] OTHER -> NoRel]

LinkPatch(g) == LinkStmt(t, Nothing, g)
UnlinkPatch(i) == [S("unlink") EXCEPT !.id = i, !.type = t]
MovePatch(i, g) == [S("move") EXCEPT !.id = i, !.type = t, !.target = g]

\* Two handlers that link the same relations in opposite orders may deadlock.
Patches == {<<LinkPatch(a), LinkPatch(b)>>, <<LinkPatch(b), LinkPatch(a)>>, <<LinkPatch(c)>>,
            <<UnlinkPatch(i1)>>, <<MovePatch(i1, a)>>, <<MovePatch(i1, c)>>}

Targets == {<<a>>, <<b, a>>}

TwoRuns == [r \in RunIds |-> IF r = r3 THEN Nothing ELSE d1]
TwoInvited ==
    [x \in InvitationIds |->
        [NotInvited EXCEPT !.run = IF x = v1 THEN r1 ELSE IF x = v2 THEN r2 ELSE Nothing]]
OneTodo == [i \in TodoIds |-> IF i = k1 THEN NewTodo(a) ELSE NoRel]

Changes == {[title |-> "new", status |-> Same], [title |-> Same, status |-> "DONE"]}

=============================================================================
