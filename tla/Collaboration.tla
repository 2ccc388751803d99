--------------------------- MODULE Collaboration ---------------------------
(***************************************************************************)
(* Comments, to-dos and surveys, beside the relation handlers they run     *)
(* with: a comment or to-do belongs to a fact sheet that permanentDelete   *)
(* may be deleting, and the schema lets it go with the sheet.  A handler   *)
(* checks that what it needs is there and writes in a later statement.     *)
(* Survey invitations name a sheet without referring to it and outlive it. *)
(*                                                                         *)
(* Both kinds of handler share Procs and the bound MaxCalls.               *)
(***************************************************************************)
EXTENDS RelationGraph

CONSTANTS CommentIds, TodoIds, DefinitionIds, RunIds, InvitationIds,
          FirstTodos,        \* todo at first
          FirstInvitations,  \* invitation at first
          FirstRuns,         \* runs at first
          TodoChanges,       \* bound: bodies of to-do updates, Same for a field left out
          Answers

Todo == [sheet : Sheets \cup {Nothing}, title : {"first", "new"},
         status : {"OPEN", "IN_PROGRESS", "DONE"}]

TodoChange == [title : {"first", "new", Same}, status : {"OPEN", "IN_PROGRESS", "DONE", Same}]

Invitation == [run : RunIds \cup {Nothing}, status : {"PENDING", "RESPONDED"},
               response : Answers \cup {Nothing}]

Desk == [do : {"none", "comment", "todo", "edit", "answer", "results", "report"},
         on : Sheets \cup TodoIds \cup InvitationIds \cup RunIds \cup {Nothing},
         with : TodoChanges \cup Answers \cup {Nothing},
         seen : SUBSET InvitationIds, known : SUBSET InvitationIds]

ASSUME CollaborationAssumption ==
    /\ Nothing \notin RunIds \cup Answers
    /\ Todo \cap {NoRel, Deleted} = {}
    /\ FirstTodos \in [TodoIds -> Todo \cup {NoRel, Deleted}]
    /\ FirstInvitations \in [InvitationIds -> Invitation]
    /\ FirstRuns \in [RunIds -> DefinitionIds \cup {Nothing}]
    /\ TodoChanges \subseteq TodoChange

VARIABLES
    comment,      \* comment[c]: its sheet, NoRel before, Deleted after
    todo,         \* todo[i]: its row, NoRel before, Deleted after
    definitions,  \* survey definitions
    runs,         \* runs[r]: the definition of survey run r
    invitation,   \* invitation[v]: its run, status and response
    desk,         \* desk[p]: what handler p does
    posts         \* calls of this module so far

postVars == <<comment, todo, definitions, runs, invitation, desk, posts>>
vars == <<graphVars, postVars>>

NewTodo(f) == [sheet |-> f, title |-> "first", status |-> "OPEN"]
NotInvited == [run |-> Nothing, status |-> "PENDING", response |-> Nothing]
Free == [do |-> "none", on |-> Nothing, with |-> Nothing, seen |-> {}, known |-> {}]

TypeOK ==
    /\ GraphTypeOK
    /\ comment \in [CommentIds -> Sheets \cup {NoRel, Deleted}]
    /\ todo \in [TodoIds -> Todo \cup {NoRel, Deleted}]
    /\ definitions \subseteq DefinitionIds
    /\ runs \in [RunIds -> DefinitionIds \cup {Nothing}]
    /\ invitation \in [InvitationIds -> Invitation]
    /\ desk \in [Procs -> Desk]
    /\ posts \in 0 .. MaxCalls

Init ==
    /\ GraphInit
    /\ comment = [c \in CommentIds |-> NoRel]
    /\ todo = FirstTodos
    /\ definitions = {FirstRuns[r] : r \in RunIds} \ {Nothing}
    /\ runs = FirstRuns
    /\ invitation = FirstInvitations
    /\ desk = [p \in Procs |-> Free]
    /\ posts = 0

Invited(r) == {v \in InvitationIds : invitation[v].run = r}
Responded(r) == {v \in Invited(r) : invitation[v].response # Nothing}

-----------------------------------------------------------------------------
(* Checks                                                                  *)

Budget == calls + posts < MaxCalls

Begin(p, do, on, with) ==
    /\ desk[p].do = "none" /\ call[p].at = "idle" /\ Budget
    /\ posts' = posts + 1
    /\ desk' = [desk EXCEPT ![p] = [Free EXCEPT !.do = do, !.on = on, !.with = with]]
    /\ UNCHANGED <<graphVars, comment, todo, definitions, runs, invitation>>

\* requireFactSheet looks in no particular workspace.
CreateComment(p, f) == sheet[f].live /\ Begin(p, "comment", f, Nothing)

CreateTodo(p, f) == (f # Nothing => sheet[f].live) /\ Begin(p, "todo", f, Nothing)

\* update; complete is one that sets the status DONE.
UpdateTodo(p, i, change) == Stored(todo[i]) /\ Begin(p, "edit", i, change)

SubmitResponse(p, r, v, answer) ==
    /\ runs[r] # Nothing /\ invitation[v].run = r
    /\ Begin(p, "answer", v, answer)

GetResults(p, r) == runs[r] # Nothing /\ Begin(p, "results", r, Nothing)

-----------------------------------------------------------------------------
(* Statements                                                              *)

Done(p) == desk' = [desk EXCEPT ![p] = Free] /\ UNCHANGED <<graphVars, posts>>

\* A row that refers to the sheet waits for a transaction that deletes it.
Waits(f) == \E q \in Procs : f \in tx[q].dropped

Accepts(f) == f # Nothing => sheet[f].live

Unwritten(table) == {i \in DOMAIN table : table[i] = NoRel}

NewRow(table) == CHOOSE i \in Unwritten(table) : TRUE

InsertComment(p) ==
    /\ desk[p].do = "comment" /\ ~Waits(desk[p].on) /\ Accepts(desk[p].on)
    /\ Unwritten(comment) # {}
    /\ comment' = [comment EXCEPT ![NewRow(comment)] = desk[p].on]
    /\ Done(p)
    /\ UNCHANGED <<todo, definitions, runs, invitation>>

InsertTodo(p) ==
    /\ desk[p].do = "todo" /\ ~Waits(desk[p].on) /\ Accepts(desk[p].on)
    /\ Unwritten(todo) # {}
    /\ todo' = [todo EXCEPT ![NewRow(todo)] = NewTodo(desk[p].on)]
    /\ Done(p)
    /\ UNCHANGED <<comment, definitions, runs, invitation>>

Given(new, old) == IF new = Same THEN old ELSE new

\* Mutant: the fields left out get their defaults.
EditedWithDefaults(p, i) ==
    [NewTodo(todo[i].sheet) EXCEPT !.title = Given(desk[p].with.title, @),
                                   !.status = Given(desk[p].with.status, @)]

\* UPDATE todos SET the fields that were given.
Edited(p, i) ==
    [todo[i] EXCEPT !.title = Given(desk[p].with.title, @),
                    !.status = Given(desk[p].with.status, @)]

WriteTodo(p) ==
    LET i == desk[p].on IN
    /\ desk[p].do = "edit" /\ Stored(todo[i]) /\ ~Waits(todo[i].sheet)
    /\ todo' = [todo EXCEPT ![i] = Edited(p, i)]
    /\ Done(p)
    /\ UNCHANGED <<comment, definitions, runs, invitation>>

\* The foreign key, or the row to update, is gone by now.
Lost(p) ==
    \/ desk[p].do \in {"comment", "todo"} /\ ~Accepts(desk[p].on)
    \/ desk[p].do = "edit" /\ ~Stored(todo[desk[p].on])

Reject(p) ==
    /\ Lost(p)
    /\ Done(p)
    /\ UNCHANGED <<comment, todo, definitions, runs, invitation>>

\* The response and the invitation's status, in one transaction.
Answered(p) ==
    [invitation EXCEPT ![desk[p].on] = [@ EXCEPT !.response = desk[p].with,
                                                 !.status = "RESPONDED"]]

StoreResponse(p) ==
    /\ desk[p].do = "answer"
    /\ invitation' = Answered(p)
    /\ Done(p)
    /\ UNCHANGED <<comment, todo, definitions, runs>>

\* Mutant: the invitations of every run.
ReadAllInvitations(p) ==
    /\ desk[p].do = "results"
    /\ desk' = [desk EXCEPT ![p] = [desk[p] EXCEPT !.do = "report", !.seen = InvitationIds,
                                             !.known = Responded(desk[p].on)]]
    /\ UNCHANGED <<graphVars, comment, todo, definitions, runs, invitation, posts>>

\* findMany reads the invitations, then the responses that belong to them.
ReadInvitations(p) ==
    /\ desk[p].do = "results"
    /\ desk' = [desk EXCEPT ![p] = [desk[p] EXCEPT !.do = "report", !.seen = Invited(desk[p].on),
                                             !.known = Responded(desk[p].on)]]
    /\ UNCHANGED <<graphVars, comment, todo, definitions, runs, invitation, posts>>

Report(p) == {v \in desk[p].seen : invitation[v].response # Nothing}

ReadResponses(p) ==
    /\ desk[p].do = "report"
    /\ Done(p)
    /\ UNCHANGED <<comment, todo, definitions, runs, invitation>>

Statements(p) ==
    \/ InsertComment(p) \/ InsertTodo(p) \/ WriteTodo(p) \/ Reject(p)
    \/ StoreResponse(p) \/ ReadInvitations(p) \/ ReadResponses(p)

-----------------------------------------------------------------------------
(* Survey administration: nothing it checks for is ever deleted.           *)

Administer == Budget /\ posts' = posts + 1 /\ UNCHANGED <<graphVars, comment, todo, desk>>

CreateDefinition(d) ==
    /\ d \notin definitions
    /\ definitions' = definitions \cup {d}
    /\ Administer
    /\ UNCHANGED <<runs, invitation>>

CreateRun(d, r) ==
    /\ d \in definitions /\ runs[r] = Nothing
    /\ runs' = [runs EXCEPT ![r] = d]
    /\ Administer
    /\ UNCHANGED <<definitions, invitation>>

Invite(r, v) ==
    /\ runs[r] # Nothing /\ invitation[v].run = Nothing
    /\ invitation' = [invitation EXCEPT ![v].run = r]
    /\ Administer
    /\ UNCHANGED <<definitions, runs>>

-----------------------------------------------------------------------------
(* With the relation handlers                                              *)

\* Mutant: to-dos have no onDelete.
CascadeComments ==
    /\ comment' = [c \in CommentIds |->
            IF Stored(comment[c]) /\ ~sheet'[comment[c]].live THEN Deleted ELSE comment[c]]
    /\ UNCHANGED todo

\* onDelete: Cascade.
Cascade ==
    /\ comment' = [c \in CommentIds |->
            IF Stored(comment[c]) /\ ~sheet'[comment[c]].live THEN Deleted ELSE comment[c]]
    /\ todo' = [i \in TodoIds |->
            IF Stored(todo[i]) /\ todo[i].sheet # Nothing /\ ~sheet'[todo[i].sheet].live
            THEN Deleted ELSE todo[i]]

WithGraph == Cascade /\ UNCHANGED <<definitions, runs, invitation, desk, posts>>

Crash ==
    /\ GraphCrash
    /\ desk' = [p \in Procs |-> Free]
    /\ UNCHANGED <<comment, todo, definitions, runs, invitation, posts>>

Posts(p) ==
    \/ \E f \in Called : CreateComment(p, f)
    \/ \E f \in Called \cup {Nothing} : CreateTodo(p, f)
    \/ \E i \in TodoIds, change \in TodoChanges : UpdateTodo(p, i, change)
    \/ \E r \in RunIds, v \in InvitationIds, answer \in Answers : SubmitResponse(p, r, v, answer)
    \/ \E r \in RunIds : GetResults(p, r)

Administration ==
    \/ \E d \in DefinitionIds : CreateDefinition(d)
    \/ \E d \in DefinitionIds, r \in RunIds : CreateRun(d, r)
    \/ \E r \in RunIds, v \in InvitationIds : Invite(r, v)

Relate(p) == GraphCalls(p) /\ desk[p].do = "none" /\ Budget /\ WithGraph
Proceed(p) == Step(p) /\ WithGraph
Expire(p) == TimeOut(p) /\ WithGraph

Next ==
    \/ \E p \in Procs : Relate(p) \/ Proceed(p) \/ Expire(p) \/ Posts(p) \/ Statements(p)
    \/ Administration
    \/ Crash

Spec == Init /\ [][Next]_vars

\* A started handler runs on, and PostgreSQL breaks a deadlock.
Fairness == \A p \in Procs : WF_vars(Proceed(p)) /\ WF_vars(Statements(p))
FairSpec == Spec /\ Fairness

-----------------------------------------------------------------------------
(* Properties                                                              *)

\* No relation, comment or to-do is left on a sheet that is gone, although the
\* check for the sheet and the insert are two statements (comment.service.ts:33,
\* fact-sheet.service.ts:297) and others delete the sheet in between.
NoOrphans ==
    /\ NoDangling
    /\ \A c \in CommentIds : Stored(comment[c]) => sheet[comment[c]].live
    /\ \A i \in TodoIds :
        Stored(todo[i]) /\ todo[i].sheet # Nothing => sheet[todo[i].sheet].live

Asked(i, field, value) ==
    \E p \in Procs :
        /\ desk[p].do = "edit" /\ desk[p].on = i /\ desk'[p].do = "none"
        /\ desk[p].with[field] = value

\* What was acknowledged stays: a comment or to-do goes only with its own sheet,
\* in the step that commits the deletion (schema.prisma:152, 169), and a field
\* of a to-do changes only to what an update of that field asked for, so two
\* updates do not undo each other (todo.service.ts:68).
StaysAcknowledged ==
    /\ \A c \in CommentIds :
        Stored(comment[c]) /\ comment'[c] # comment[c] => ~sheet'[comment[c]].live
    /\ \A i \in TodoIds :
        Stored(todo[i]) =>
            IF Stored(todo'[i])
            THEN \A field \in {"title", "status"} :
                    todo'[i][field] # todo[i][field] => Asked(i, field, todo'[i][field])
            ELSE todo[i].sheet # Nothing /\ ~sheet'[todo[i].sheet].live

AcknowledgedStay == [][StaysAcknowledged]_vars

\* The results of a run, read in two queries, hold every response there was
\* when the first was sent, and none of another run (survey.service.ts:128).
ResultsComplete ==
    \A p \in Procs : desk[p].do = "report" =>
        /\ desk[p].known \subseteq Report(p)
        /\ Report(p) \subseteq Responded(desk[p].on)

\* Every relation, comment, to-do and survey call returns: two updates that
\* link the same relations in opposite orders do not wait for ever, nor does a
\* comment on a sheet that is being deleted.
CallsReturn ==
    \A p \in Procs :
        (call[p].at # "idle" \/ desk[p].do # "none")
            ~> (call[p].at = "idle" /\ desk[p].do = "none")
=============================================================================
