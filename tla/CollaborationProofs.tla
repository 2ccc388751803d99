------------------------- MODULE CollaborationProofs -------------------------
(***************************************************************************)
(* Collaboration for any sheets, to-dos, surveys and handlers: together    *)
(* with comments, to-dos and surveys the relation handlers still do what   *)
(* RelationGraph says (GraphImplemented), nothing is left on a sheet that  *)
(* is gone (NoOrphans), what was acknowledged stays (AcknowledgedStay) and *)
(* the results of a survey run are complete (ResultsComplete).  Handlers   *)
(* that nobody commits beside are exact (RelationsExact).                  *)
(*                                                                         *)
(* CollaborationInv adds to the relation handlers' invariant what a handler*)
(* of this module may count on between two of its statements: no table it  *)
(* was told of loses rows other than those of a deleted sheet, responses   *)
(* stay, and an invitation never changes its run.                          *)
(***************************************************************************)
EXTENDS Collaboration, RelationGraphProofs

\* What handler p was asked for, and what it has read.
DeskOK(d) ==
    /\ d.do = "comment" => d.on \in Sheets
    /\ d.do = "todo" => d.on \in Sheets \cup {Nothing}
    /\ d.do = "edit" => d.on \in TodoIds /\ d.with \in TodoChanges
    /\ d.do = "answer" => d.on \in InvitationIds /\ d.with \in Answers
    /\ d.do \in {"results", "report"} => d.on \in RunIds
    /\ d.do = "report" =>
          /\ \A v \in d.known : v \in d.seen /\ invitation[v].response # Nothing
          /\ \A v \in d.seen : invitation[v].run = d.on

\* A comment or to-do that is there has its sheet.
PostsOnSheets ==
    /\ \A c \in CommentIds : Stored(comment[c]) => sheet[comment[c]].live
    /\ \A i \in TodoIds :
        Stored(todo[i]) /\ todo[i].sheet # Nothing => sheet[todo[i].sheet].live

CollaborationInv ==
    /\ GraphInv
    /\ TypeOK
    /\ \A p \in Procs : DeskOK(desk[p])
    /\ PostsOnSheets

-----------------------------------------------------------------------------
(* The relation handlers                                                   *)

LEMMA FreeTyped == Free \in Desk /\ DeskOK(Free)
BY DEF Free, Desk, DeskOK

\* What this module adds to RelationGraph touches none of its variables.
LEMMA GraphStep == [Next]_vars => [GraphNext]_graphVars
<1> SUFFICES ASSUME [Next]_vars PROVE GraphNext \/ UNCHANGED graphVars
    OBVIOUS
<1>1. CASE UNCHANGED vars
      BY <1>1 DEF vars
<1>2. ASSUME NEW p \in Procs, Relate(p) \/ Proceed(p) \/ Expire(p) PROVE GraphNext
      BY <1>2 DEF Relate, Proceed, Expire, GraphNext
<1>3. ASSUME NEW p \in Procs, Posts(p) PROVE UNCHANGED graphVars
  <2>1. \A do, on, with : Begin(p, do, on, with) => UNCHANGED graphVars
        BY DEF Begin
  <2> QED BY <1>3, <2>1 DEF Posts, CreateComment, CreateTodo, UpdateTodo, SubmitResponse, GetResults
<1>4. ASSUME NEW p \in Procs, Statements(p) PROVE UNCHANGED graphVars
      BY <1>4 DEF Statements, InsertComment, InsertTodo, WriteTodo, Reject, StoreResponse,
                  ReadInvitations, ReadResponses, Done
<1>5. CASE Administration
      BY <1>5 DEF Administration, CreateDefinition, CreateRun, Invite, Administer
<1>6. CASE Crash
      BY <1>6 DEF Crash, GraphNext
<1> QED BY <1>1, <1>2, <1>3, <1>4, <1>5, <1>6 DEF Next

-----------------------------------------------------------------------------
(* The invariant                                                           *)

LEMMA CollaborationInit == Init => CollaborationInv
<1> SUFFICES ASSUME Init PROVE CollaborationInv
    OBVIOUS
<1> USE CollaborationAssumption
<1>1. GraphInv
      BY InitOK DEF Init
<1>2. TypeOK
  <2>1. definitions \subseteq DefinitionIds
        BY DEF Init
  <2>2. posts \in 0 .. MaxCalls
        BY RelationAssumption DEF Init
  <2>3. desk \in [Procs -> Desk]
        BY FreeTyped DEF Init
  <2> QED BY <1>1, <2>1, <2>2, <2>3 DEF Init, TypeOK, GraphInv
<1>3. \A p \in Procs : DeskOK(desk[p])
      BY FreeTyped DEF Init
<1>4. PostsOnSheets
  <2>1. \A c \in CommentIds : ~Stored(comment[c])
        BY DEF Init, Stored
  <2>2. \A f \in Sheets : sheet[f].live
        BY DEF Init, GraphInit
  <2>3. ASSUME NEW i \in TodoIds, Stored(todo[i]), todo[i].sheet # Nothing
        PROVE  todo[i].sheet \in Sheets
        BY <2>3 DEF Init, Stored, Todo
  <2> QED BY <2>1, <2>2, <2>3 DEF PostsOnSheets
<1> QED BY <1>1, <1>2, <1>3, <1>4 DEF CollaborationInv

\* A handler of this module begins.
LEMMA BeginOK ==
    ASSUME CollaborationInv, GraphInv', NEW p \in Procs, NEW do, NEW on, NEW with,
           Begin(p, do, on, with),
           [Free EXCEPT !.do = do, !.on = on, !.with = with] \in Desk,
           do # "report", DeskOK([Free EXCEPT !.do = do, !.on = on, !.with = with])
    PROVE  CollaborationInv'
<1> DEFINE d == [Free EXCEPT !.do = do, !.on = on, !.with = with]
<1>1. /\ desk' = [desk EXCEPT ![p] = d] /\ d \in Desk /\ DeskOK(d)
      /\ UNCHANGED <<sheet, comment, todo, definitions, runs, invitation>>
      BY DEF Begin, graphVars
<1> HIDE DEF d
<1>2. posts' \in 0 .. MaxCalls
  <2>1. calls \in Nat /\ posts \in Nat /\ posts' = posts + 1 /\ calls + posts < MaxCalls
        BY DEF Begin, Budget, CollaborationInv, TypeOK, GraphTypeOK
  <2> QED BY <2>1, RelationAssumption
<1>3. TypeOK'
      BY <1>1, <1>2 DEF CollaborationInv, GraphInv, TypeOK
<1>4. \A q \in Procs : DeskOK(desk[q])'
      BY <1>1 DEF CollaborationInv, TypeOK, DeskOK
<1>5. PostsOnSheets'
      BY <1>1 DEF CollaborationInv, PostsOnSheets
<1> QED BY <1>3, <1>4, <1>5 DEF CollaborationInv

LEMMA PostsOK ==
    ASSUME CollaborationInv, GraphInv', NEW p \in Procs, Posts(p) PROVE CollaborationInv'
<1> DEFINE D(do, on, with) == [Free EXCEPT !.do = do, !.on = on, !.with = with]
<1> USE RelationAssumption
<1>1. ASSUME NEW f \in Called, CreateComment(p, f) PROVE CollaborationInv'
  <2>1. D("comment", f, Nothing) \in Desk /\ DeskOK(D("comment", f, Nothing))
        BY DEF Free, Desk, DeskOK
  <2> QED BY <1>1, <2>1, BeginOK DEF CreateComment
<1>2. ASSUME NEW f \in Called \cup {Nothing}, CreateTodo(p, f) PROVE CollaborationInv'
  <2>1. D("todo", f, Nothing) \in Desk /\ DeskOK(D("todo", f, Nothing))
        BY DEF Free, Desk, DeskOK
  <2> QED BY <1>2, <2>1, BeginOK DEF CreateTodo
<1>3. ASSUME NEW i \in TodoIds, NEW change \in TodoChanges, UpdateTodo(p, i, change)
      PROVE  CollaborationInv'
  <2>1. D("edit", i, change) \in Desk /\ DeskOK(D("edit", i, change))
        BY DEF Free, Desk, DeskOK
  <2> QED BY <1>3, <2>1, BeginOK DEF UpdateTodo
<1>4. ASSUME NEW r \in RunIds, NEW v \in InvitationIds, NEW answer \in Answers,
             SubmitResponse(p, r, v, answer)
      PROVE  CollaborationInv'
  <2>1. D("answer", v, answer) \in Desk /\ DeskOK(D("answer", v, answer))
        BY DEF Free, Desk, DeskOK
  <2> QED BY <1>4, <2>1, BeginOK DEF SubmitResponse
<1>5. ASSUME NEW r \in RunIds, GetResults(p, r) PROVE CollaborationInv'
  <2>1. D("results", r, Nothing) \in Desk /\ DeskOK(D("results", r, Nothing))
        BY DEF Free, Desk, DeskOK
  <2> QED BY <1>5, <2>1, BeginOK DEF GetResults
<1> QED BY <1>1, <1>2, <1>3, <1>4, <1>5 DEF Posts

\* The desks of the other handlers, when no invitation loses what they rely on.
LEMMA DesksKept ==
    ASSUME CollaborationInv, NEW p \in Procs, NEW d, desk' = [desk EXCEPT ![p] = d],
           d \in Desk, DeskOK(d)',
           \A v \in InvitationIds :
              /\ invitation[v].run \in RunIds => invitation'[v].run = invitation[v].run
              /\ invitation[v].response # Nothing => invitation'[v].response # Nothing
    PROVE  desk' \in [Procs -> Desk] /\ \A q \in Procs : DeskOK(desk[q])'
<1>1. desk' \in [Procs -> Desk]
      BY DEF CollaborationInv, TypeOK
<1>2. ASSUME NEW q \in Procs, q # p PROVE DeskOK(desk[q])'
  <2>1. desk'[q] = desk[q] /\ desk[q] \in Desk /\ DeskOK(desk[q])
        BY <1>2 DEF CollaborationInv, TypeOK
  <2>2. desk[q].seen \subseteq InvitationIds /\ desk[q].known \subseteq InvitationIds
        BY <2>1 DEF Desk
  <2> QED BY <2>1, <2>2 DEF DeskOK
<1>3. DeskOK(desk[p])'
      BY DEF CollaborationInv, TypeOK
<1> QED BY <1>1, <1>2, <1>3

\* The row an insert takes was not in use.
LEMMA NewRowUnused ==
    ASSUME NEW table, Unwritten(table) # {}
    PROVE  NewRow(table) \in DOMAIN table /\ table[NewRow(table)] = NoRel
BY DEF NewRow, Unwritten

\* What an update leaves is a to-do on the same sheet.
LEMMA EditTyped ==
    ASSUME TypeOK, NEW p \in Procs, NEW i \in TodoIds, Stored(todo[i]),
           desk[p].with \in TodoChanges
    PROVE  /\ Edited(p, i) \in Todo /\ Edited(p, i).sheet = todo[i].sheet
           /\ Edited(p, i).title \in {todo[i].title, desk[p].with.title}
           /\ Edited(p, i).status \in {todo[i].status, desk[p].with.status}
           /\ todo[i] \in Todo
<1> DEFINE w == desk[p].with
<1>1. todo[i] \in Todo
      BY DEF TypeOK, Stored
<1>2. w \in TodoChange
      BY CollaborationAssumption
<1> HIDE DEF w
<1>3. /\ Given(w.title, todo[i].title) \in {"first", "new"}
      /\ Given(w.title, todo[i].title) \in {todo[i].title, w.title}
      BY <1>1, <1>2 DEF Given, Todo, TodoChange
<1>4. /\ Given(w.status, todo[i].status) \in {"OPEN", "IN_PROGRESS", "DONE"}
      /\ Given(w.status, todo[i].status) \in {todo[i].status, w.status}
      BY <1>1, <1>2 DEF Given, Todo, TodoChange
<1>5. Edited(p, i) = [todo[i] EXCEPT !.title = Given(w.title, todo[i].title),
                                     !.status = Given(w.status, todo[i].status)]
      BY DEF Edited, w
<1> QED BY <1>1, <1>3, <1>4, <1>5 DEF Todo, w

LEMMA InsertOK ==
    ASSUME CollaborationInv, GraphInv', NEW p \in Procs,
           InsertComment(p) \/ InsertTodo(p)
    PROVE  CollaborationInv'
<1> DEFINE f == desk[p].on
<1>1. /\ desk' = [desk EXCEPT ![p] = Free]
      /\ UNCHANGED <<sheet, posts, definitions, runs, invitation>>
      BY DEF InsertComment, InsertTodo, Done, graphVars
<1>2. desk' \in [Procs -> Desk] /\ \A q \in Procs : DeskOK(desk[q])'
  <2>1. DeskOK(Free)'
        BY DEF Free, DeskOK
  <2> QED BY <1>1, <2>1, FreeTyped, DesksKept
<1>3. CASE InsertComment(p)
  <2>1. f \in Sheets /\ sheet[f].live
        BY <1>3, RelationAssumption DEF InsertComment, CollaborationInv, DeskOK, Accepts
  <2> DEFINE c == NewRow(comment)
  <2>2. comment' = [comment EXCEPT ![c] = f] /\ todo' = todo
        BY <1>3 DEF InsertComment
  <2> HIDE DEF f, c
  <2>3. comment' \in [CommentIds -> Sheets \cup {NoRel, Deleted}]
        BY <2>1, <2>2 DEF CollaborationInv, TypeOK
  <2>4. TypeOK'
        BY <1>1, <1>2, <2>2, <2>3 DEF CollaborationInv, GraphInv, TypeOK
  <2>5. PostsOnSheets'
        BY <1>1, <2>1, <2>2 DEF CollaborationInv, TypeOK, PostsOnSheets
  <2> QED BY <1>2, <2>4, <2>5 DEF CollaborationInv
<1>4. CASE InsertTodo(p)
  <2>1. f \in Sheets \cup {Nothing} /\ (f # Nothing => sheet[f].live)
        BY <1>4 DEF InsertTodo, CollaborationInv, DeskOK, Accepts
  <2> DEFINE i == NewRow(todo)
  <2>2. todo' = [todo EXCEPT ![i] = NewTodo(f)] /\ comment' = comment
        BY <1>4 DEF InsertTodo
  <2>3. NewTodo(f) \in Todo /\ NewTodo(f).sheet = f
        BY <2>1 DEF NewTodo, Todo
  <2> HIDE DEF f, i
  <2>4. todo' \in [TodoIds -> Todo \cup {NoRel, Deleted}]
        BY <2>2, <2>3 DEF CollaborationInv, TypeOK
  <2>5. TypeOK'
        BY <1>1, <1>2, <2>2, <2>4 DEF CollaborationInv, GraphInv, TypeOK
  <2>6. PostsOnSheets'
        BY <1>1, <2>1, <2>2, <2>3 DEF CollaborationInv, TypeOK, PostsOnSheets
  <2> QED BY <1>2, <2>5, <2>6 DEF CollaborationInv
<1> QED BY <1>3, <1>4

LEMMA WriteTodoOK ==
    ASSUME CollaborationInv, GraphInv', NEW p \in Procs, WriteTodo(p) PROVE CollaborationInv'
<1> DEFINE i == desk[p].on
<1>1. /\ desk' = [desk EXCEPT ![p] = Free]
      /\ todo' = [todo EXCEPT ![i] = Edited(p, i)] /\ Stored(todo[i])
      /\ UNCHANGED <<sheet, posts, comment, definitions, runs, invitation>>
      BY DEF WriteTodo, Done, graphVars
<1>2. i \in TodoIds /\ desk[p].with \in TodoChanges
      BY DEF WriteTodo, CollaborationInv, DeskOK
<1>3. desk' \in [Procs -> Desk] /\ \A q \in Procs : DeskOK(desk[q])'
  <2>1. DeskOK(Free)'
        BY DEF Free, DeskOK
  <2> QED BY <1>1, <2>1, FreeTyped, DesksKept
<1> HIDE DEF i
<1>4. Edited(p, i) \in Todo /\ Edited(p, i).sheet = todo[i].sheet
      BY <1>1, <1>2, EditTyped DEF CollaborationInv
<1>5. todo' \in [TodoIds -> Todo \cup {NoRel, Deleted}]
      BY <1>1, <1>4 DEF CollaborationInv, TypeOK
<1>6. TypeOK'
      BY <1>1, <1>3, <1>5 DEF CollaborationInv, GraphInv, TypeOK
<1>7. PostsOnSheets'
      BY <1>1, <1>2, <1>4 DEF CollaborationInv, TypeOK, PostsOnSheets
<1> QED BY <1>3, <1>6, <1>7 DEF CollaborationInv

LEMMA StatementsOK ==
    ASSUME CollaborationInv, GraphInv', NEW p \in Procs, Statements(p) PROVE CollaborationInv'
<1>1. CASE InsertComment(p) \/ InsertTodo(p)
      BY <1>1, InsertOK
<1>2. CASE WriteTodo(p)
      BY <1>2, WriteTodoOK
<1>3. ASSUME NEW d, desk' = [desk EXCEPT ![p] = d], d \in Desk, DeskOK(d)',
             invitation' \in [InvitationIds -> Invitation],
             \A v \in InvitationIds :
                /\ invitation[v].run \in RunIds => invitation'[v].run = invitation[v].run
                /\ invitation[v].response # Nothing => invitation'[v].response # Nothing,
             UNCHANGED <<sheet, posts, comment, todo, definitions, runs>>
      PROVE  CollaborationInv'
  <2>1. desk' \in [Procs -> Desk] /\ \A q \in Procs : DeskOK(desk[q])'
        BY <1>3, DesksKept
  <2>2. TypeOK'
        BY <1>3, <2>1 DEF CollaborationInv, GraphInv, TypeOK
  <2>3. PostsOnSheets'
        BY <1>3 DEF CollaborationInv, PostsOnSheets
  <2> QED BY <2>1, <2>2, <2>3 DEF CollaborationInv
<1>4. invitation \in [InvitationIds -> Invitation] /\ desk[p] \in Desk /\ DeskOK(desk[p])
      BY DEF CollaborationInv, TypeOK
<1>5. DeskOK(Free)'
      BY DEF Free, DeskOK
<1>6. CASE Reject(p) \/ ReadResponses(p)
  <2>1. /\ desk' = [desk EXCEPT ![p] = Free]
        /\ UNCHANGED <<sheet, posts, comment, todo, definitions, runs, invitation>>
        BY <1>6 DEF Reject, ReadResponses, Done, graphVars
  <2> QED BY <1>3, <1>4, <1>5, <2>1, FreeTyped
<1>7. CASE StoreResponse(p)
  <2> DEFINE v == desk[p].on
             answer == desk[p].with
  <2>1. /\ desk' = [desk EXCEPT ![p] = Free]
        /\ invitation' = [invitation EXCEPT ![v] = [@ EXCEPT !.response = answer,
                                                           !.status = "RESPONDED"]]
        /\ UNCHANGED <<sheet, posts, comment, todo, definitions, runs>>
        BY <1>7 DEF StoreResponse, Answered, Done, graphVars
  <2>2. v \in InvitationIds /\ answer \in Answers /\ answer # Nothing
        BY <1>4, <1>7, CollaborationAssumption DEF StoreResponse, DeskOK
  <2> HIDE DEF v, answer
  <2>3. invitation'[v] = [invitation[v] EXCEPT !.response = answer, !.status = "RESPONDED"]
        BY <1>4, <2>1, <2>2
  <2>4. /\ invitation'[v] \in Invitation /\ invitation'[v].run = invitation[v].run
        /\ invitation'[v].response # Nothing
        BY <1>4, <2>2, <2>3 DEF Invitation
  <2>5. \A x \in InvitationIds : x # v => invitation'[x] = invitation[x]
        BY <1>4, <2>1
  <2>6. invitation' \in [InvitationIds -> Invitation]
        BY <1>4, <2>1, <2>4, <2>5
  <2>7. \A x \in InvitationIds :
            /\ invitation[x].run \in RunIds => invitation'[x].run = invitation[x].run
            /\ invitation[x].response # Nothing => invitation'[x].response # Nothing
        BY <2>4, <2>5
  <2> QED BY <1>3, <1>5, <2>1, <2>6, <2>7, FreeTyped
<1>8. CASE ReadInvitations(p)
  <2>0. PICK d : d = [desk[p] EXCEPT !.do = "report", !.seen = Invited(desk[p].on),
                                     !.known = Responded(desk[p].on)]
        OBVIOUS
  <2>1. /\ desk' = [desk EXCEPT ![p] = d]
        /\ UNCHANGED <<sheet, posts, comment, todo, definitions, runs, invitation>>
        BY <1>8, <2>0 DEF ReadInvitations, graphVars
  <2>2. desk[p].do = "results" /\ desk[p].on \in RunIds
        BY <1>4, <1>8 DEF ReadInvitations, DeskOK
  <2>3. d \in Desk
        BY <1>4, <2>0 DEF Desk, Invited, Responded
  <2>4. /\ d.do = "report" /\ d.on = desk[p].on /\ d.seen = Invited(desk[p].on)
        /\ d.known = Responded(desk[p].on)
        BY <1>4, <2>0 DEF Desk
  <2>5. DeskOK(d)'
        BY <2>1, <2>2, <2>4 DEF DeskOK, Invited, Responded
  <2> QED BY <1>3, <1>4, <2>1, <2>3, <2>5
<1> QED BY <1>1, <1>2, <1>6, <1>7, <1>8 DEF Statements

LEMMA AdministrationOK ==
    ASSUME CollaborationInv, GraphInv', Administration PROVE CollaborationInv'
<1>1. /\ UNCHANGED <<sheet, comment, todo, desk>>
      /\ posts' \in 0 .. MaxCalls
  <2>1. Administer
        BY DEF Administration, CreateDefinition, CreateRun, Invite
  <2>2. calls \in Nat /\ posts \in Nat /\ posts' = posts + 1 /\ calls + posts < MaxCalls
        BY <2>1 DEF Administer, Budget, CollaborationInv, TypeOK, GraphTypeOK
  <2> QED BY <2>1, <2>2, RelationAssumption DEF Administer, graphVars
<1>2. /\ definitions' \subseteq DefinitionIds
      /\ runs' \in [RunIds -> DefinitionIds \cup {Nothing}]
      BY DEF Administration, CreateDefinition, CreateRun, Invite, CollaborationInv, TypeOK
<1>3. /\ invitation' \in [InvitationIds -> Invitation]
      /\ \A v \in InvitationIds :
            /\ invitation[v].run \in RunIds => invitation'[v].run = invitation[v].run
            /\ invitation'[v].response = invitation[v].response
  <2>1. invitation \in [InvitationIds -> Invitation]
        BY DEF CollaborationInv, TypeOK
  <2>2. CASE invitation' = invitation
        BY <2>1, <2>2
  <2>3. ASSUME NEW r \in RunIds, NEW v \in InvitationIds, invitation[v].run = Nothing,
               invitation' = [invitation EXCEPT ![v].run = r]
        PROVE  /\ invitation' \in [InvitationIds -> Invitation]
               /\ \A x \in InvitationIds :
                    /\ invitation[x].run \in RunIds => invitation'[x].run = invitation[x].run
                    /\ invitation'[x].response = invitation[x].response
    <3>1. /\ invitation'[v].run = r /\ invitation'[v].response = invitation[v].response
          /\ invitation'[v] \in Invitation
          BY <2>1, <2>3 DEF Invitation
    <3>2. \A x \in InvitationIds : x # v => invitation'[x] = invitation[x]
          BY <2>1, <2>3
    <3>3. invitation' \in [InvitationIds -> Invitation]
          BY <2>1, <2>3, <3>1, <3>2
    <3>4. invitation[v].run \notin RunIds
          BY <2>3, CollaborationAssumption
    <3> QED BY <3>1, <3>2, <3>3, <3>4
  <2> QED BY <2>2, <2>3 DEF Administration, CreateDefinition, CreateRun, Invite
<1>4. TypeOK'
      BY <1>1, <1>2, <1>3 DEF CollaborationInv, GraphInv, TypeOK
<1>5. \A q \in Procs : DeskOK(desk[q])'
  <2> SUFFICES ASSUME NEW q \in Procs PROVE DeskOK(desk[q])'
      OBVIOUS
  <2>1. /\ desk'[q] = desk[q] /\ DeskOK(desk[q])
        /\ desk[q].seen \subseteq InvitationIds /\ desk[q].known \subseteq InvitationIds
        BY <1>1 DEF CollaborationInv, TypeOK, Desk
  <2> QED BY <1>3, <2>1 DEF DeskOK
<1>6. PostsOnSheets'
      BY <1>1 DEF CollaborationInv, PostsOnSheets
<1> QED BY <1>4, <1>5, <1>6 DEF CollaborationInv
LEMMA CascadeOK ==
    ASSUME CollaborationInv, GraphInv', WithGraph PROVE CollaborationInv'
<1>1. UNCHANGED <<definitions, runs, invitation, desk, posts>> /\ Cascade
      BY DEF WithGraph
<1>2. comment' \in [CommentIds -> Sheets \cup {NoRel, Deleted}]
      BY <1>1 DEF Cascade, CollaborationInv, TypeOK
<1>3. todo' \in [TodoIds -> Todo \cup {NoRel, Deleted}]
      BY <1>1 DEF Cascade, CollaborationInv, TypeOK
<1>4. TypeOK'
      BY <1>1, <1>2, <1>3 DEF CollaborationInv, GraphInv, TypeOK
<1>5. \A q \in Procs : DeskOK(desk[q])'
      BY <1>1 DEF CollaborationInv, DeskOK
<1>6. PostsOnSheets'
  <2>1. ASSUME NEW c \in CommentIds, Stored(comment'[c]) PROVE sheet'[comment'[c]].live
        BY <1>1, <2>1 DEF Cascade, Stored
  <2>2. ASSUME NEW i \in TodoIds, Stored(todo'[i]), todo'[i].sheet # Nothing
        PROVE  sheet'[todo'[i].sheet].live
        BY <1>1, <2>2 DEF Cascade, Stored
  <2> QED BY <2>1, <2>2 DEF PostsOnSheets
<1> QED BY <1>4, <1>5, <1>6 DEF CollaborationInv

LEMMA CrashKeeps ==
    ASSUME CollaborationInv, GraphInv', Crash PROVE CollaborationInv'
<1>1. /\ desk' = [p \in Procs |-> Free]
      /\ UNCHANGED <<sheet, comment, todo, definitions, runs, invitation, posts>>
      BY DEF Crash, GraphCrash
<1>2. TypeOK'
      BY <1>1, FreeTyped DEF CollaborationInv, GraphInv, TypeOK
<1>3. \A q \in Procs : DeskOK(desk[q])'
      BY <1>1 DEF DeskOK, Free
<1>4. PostsOnSheets'
      BY <1>1 DEF CollaborationInv, PostsOnSheets
<1> QED BY <1>2, <1>3, <1>4 DEF CollaborationInv

LEMMA CollaborationNext == CollaborationInv /\ [Next]_vars => CollaborationInv'
<1> SUFFICES ASSUME CollaborationInv, [Next]_vars PROVE CollaborationInv'
    OBVIOUS
<1>1. GraphInv'
      BY GraphStep, NextOK DEF CollaborationInv
<1>2. CASE UNCHANGED vars
  <2>1. UNCHANGED <<sheet, comment, todo, definitions, runs, invitation, desk, posts>>
        BY <1>2 DEF vars, postVars, graphVars
  <2>2. TypeOK'
        BY <1>1, <2>1 DEF CollaborationInv, GraphInv, TypeOK
  <2>3. (\A q \in Procs : DeskOK(desk[q])') /\ PostsOnSheets'
        BY <2>1 DEF CollaborationInv, DeskOK, PostsOnSheets
  <2> QED BY <1>1, <2>2, <2>3 DEF CollaborationInv
<1>3. ASSUME NEW p \in Procs, Relate(p) \/ Proceed(p) \/ Expire(p) PROVE CollaborationInv'
      BY <1>1, <1>3, CascadeOK DEF Relate, Proceed, Expire
<1>4. ASSUME NEW p \in Procs, Posts(p) \/ Statements(p) PROVE CollaborationInv'
      BY <1>1, <1>4, PostsOK, StatementsOK
<1>5. CASE Administration
      BY <1>1, <1>5, AdministrationOK
<1>6. CASE Crash
      BY <1>1, <1>6, CrashKeeps
<1> QED BY <1>2, <1>3, <1>4, <1>5, <1>6 DEF Next

-----------------------------------------------------------------------------
(* The properties                                                          *)

LEMMA InvHolds == CollaborationInv => TypeOK /\ NoOrphans /\ ResultsComplete
<1> SUFFICES ASSUME CollaborationInv PROVE TypeOK /\ NoOrphans /\ ResultsComplete
    OBVIOUS
<1>1. NoOrphans
      BY InvImplies DEF CollaborationInv, PostsOnSheets, NoOrphans
<1>2. ResultsComplete
  <2> SUFFICES ASSUME NEW p \in Procs, desk[p].do = "report"
               PROVE  /\ desk[p].known \subseteq Report(p)
                      /\ Report(p) \subseteq Responded(desk[p].on)
      BY DEF ResultsComplete
  <2>1. desk[p] \in Desk /\ DeskOK(desk[p])
        BY DEF CollaborationInv, TypeOK
  <2>2. desk[p].seen \subseteq InvitationIds
        BY <2>1 DEF Desk
  <2> QED BY <2>1, <2>2 DEF DeskOK, Report, Responded, Invited
<1> QED BY <1>1, <1>2 DEF CollaborationInv

\* Rows in use change by an update, or by the end of their sheet.
LEMMA StepStays == CollaborationInv /\ [Next]_vars => StaysAcknowledged
<1> SUFFICES ASSUME CollaborationInv, [Next]_vars PROVE StaysAcknowledged
    OBVIOUS
<1>1. ASSUME UNCHANGED <<comment, todo>> PROVE StaysAcknowledged
      BY <1>1 DEF StaysAcknowledged
<1>2. CASE UNCHANGED vars
      BY <1>1, <1>2 DEF vars, postVars
<1>3. ASSUME NEW p \in Procs, Relate(p) \/ Proceed(p) \/ Expire(p) PROVE StaysAcknowledged
  <2>1. Cascade
        BY <1>3 DEF Relate, Proceed, Expire, WithGraph
  <2>2. ASSUME NEW c \in CommentIds, Stored(comment[c]), comment'[c] # comment[c]
        PROVE  ~sheet'[comment[c]].live
        BY <2>1, <2>2 DEF Cascade
  <2>3. ASSUME NEW i \in TodoIds, Stored(todo[i]), todo'[i] # todo[i]
        PROVE  ~Stored(todo'[i]) /\ todo[i].sheet # Nothing /\ ~sheet'[todo[i].sheet].live
        BY <2>1, <2>3 DEF Cascade, Stored
  <2> QED BY <2>2, <2>3 DEF StaysAcknowledged
<1>4. ASSUME NEW p \in Procs, Statements(p) PROVE StaysAcknowledged
  <2>1. CASE InsertComment(p)
    <3>1. /\ todo' = todo
          /\ \A c \in CommentIds : Stored(comment[c]) => comment'[c] = comment[c]
          BY <2>1, NewRowUnused DEF InsertComment, CollaborationInv, TypeOK, Stored
    <3> QED BY <3>1 DEF StaysAcknowledged
  <2>2. CASE InsertTodo(p)
    <3>1. /\ comment' = comment
          /\ \A i \in TodoIds : Stored(todo[i]) => todo'[i] = todo[i]
          BY <2>2, NewRowUnused DEF InsertTodo, CollaborationInv, TypeOK, Stored
    <3> QED BY <3>1 DEF StaysAcknowledged
  <2>3. CASE WriteTodo(p)
    <3> DEFINE i == desk[p].on
    <3>1. /\ desk[p].do = "edit" /\ desk'[p].do = "none" /\ comment' = comment
          /\ todo' = [todo EXCEPT ![i] = Edited(p, i)] /\ Stored(todo[i])
          BY <2>3 DEF WriteTodo, Done, Free, CollaborationInv, TypeOK
    <3>2. i \in TodoIds /\ desk[p].with \in TodoChanges
          BY <3>1 DEF CollaborationInv, DeskOK
    <3>3. /\ Edited(p, i) \in Todo
          /\ Edited(p, i).title \in {todo[i].title, desk[p].with.title}
          /\ Edited(p, i).status \in {todo[i].status, desk[p].with.status}
          BY <3>1, <3>2, EditTyped DEF CollaborationInv
    <3>4. todo'[i] = Edited(p, i) /\ \A j \in TodoIds : j # i => todo'[j] = todo[j]
          BY <3>1, <3>2 DEF CollaborationInv, TypeOK
    <3>5. Stored(todo'[i])
          BY <3>3, <3>4, CollaborationAssumption DEF Stored
    <3>6. \A field \in {"title", "status"} :
             todo'[i][field] # todo[i][field] => Asked(i, field, todo'[i][field])
      <4>1. todo'[i].title # todo[i].title => Asked(i, "title", todo'[i].title)
            BY <3>1, <3>3, <3>4 DEF Asked
      <4>2. todo'[i].status # todo[i].status => Asked(i, "status", todo'[i].status)
            BY <3>1, <3>3, <3>4 DEF Asked
      <4> QED BY <4>1, <4>2
    <3> HIDE DEF i
    <3> QED BY <3>1, <3>4, <3>5, <3>6 DEF StaysAcknowledged
  <2>4. CASE Reject(p) \/ StoreResponse(p) \/ ReadInvitations(p) \/ ReadResponses(p)
        BY <1>1, <2>4 DEF Reject, StoreResponse, ReadInvitations, ReadResponses
  <2> QED BY <1>4, <2>1, <2>2, <2>3, <2>4 DEF Statements
<1>5. ASSUME NEW p \in Procs, Posts(p) PROVE StaysAcknowledged
  <2>1. \A do, on, with : Begin(p, do, on, with) => UNCHANGED <<comment, todo>>
        BY DEF Begin
  <2>2. UNCHANGED <<comment, todo>>
        BY <1>5, <2>1 DEF Posts, CreateComment, CreateTodo, UpdateTodo, SubmitResponse, GetResults
  <2> QED BY <1>1, <2>2
<1>6. CASE Administration \/ Crash
      BY <1>1, <1>6 DEF Administration, CreateDefinition, CreateRun, Invite, Administer, Crash
<1> QED BY <1>2, <1>3, <1>4, <1>5, <1>6 DEF Next

\* The relation handlers, run among the other modules' handlers and under one
\* budget of calls, do what RelationGraph says they may.
THEOREM GraphImplemented == Spec => GraphSpec
<1>1. Init => GraphInit
      BY DEF Init
<1> QED BY <1>1, GraphStep, PTL DEF Spec, GraphSpec

\* No relation crosses workspaces, and no event names one that was not
\* committed, whatever else runs.
THEOREM RelationsSafe == Spec => [](OneWorkspace /\ AnnouncedWereLinked)
BY GraphImplemented, GraphSafe, PTL

\* A deletion or an explanation that nobody commits beside does exactly what it
\* was asked for, and a full item leaves no relation it does not name, whatever
\* else runs.
THEOREM RelationsExact == Spec => [](NotInItsOwnWay /\ ExplainExact) /\ FullModeExact
BY GraphImplemented, RemovalUnhindered, ExplanationExact, FullItemsExact, PTL

\* A relation changes behind its source's rev in the three ways named in
\* RevTellsOfRelations only, whatever else runs.
THEOREM RelationsTell == Spec => RevTellsOfRelations
BY GraphImplemented, GraphTells, PTL

\* Every variable keeps its type, and nothing is left on a sheet that is gone.
THEOREM CollaborationSafe == Spec => [](TypeOK /\ NoOrphans)
<1>1. Spec => []CollaborationInv
      BY CollaborationInit, CollaborationNext, PTL DEF Spec
<1> QED BY <1>1, InvHolds, PTL

\* The results of a run, read in two queries while people answer, hold every
\* response there was at the first, and none of another run.
THEOREM ResultsHold == Spec => []ResultsComplete
<1>1. Spec => []CollaborationInv
      BY CollaborationInit, CollaborationNext, PTL DEF Spec
<1> QED BY <1>1, InvHolds, PTL

\* Comments and to-dos go only with their sheets, and to-dos change only as asked.
THEOREM WhatWasAcknowledged == Spec => AcknowledgedStay
<1>1. Spec => []CollaborationInv
      BY CollaborationInit, CollaborationNext, PTL DEF Spec
<1>2. CollaborationInv /\ [Next]_vars => [StaysAcknowledged]_vars
      BY StepStays
<1> QED BY <1>1, <1>2, PTL DEF Spec, AcknowledgedStay
=============================================================================
