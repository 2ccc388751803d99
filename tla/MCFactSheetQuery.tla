-------------------------- MODULE MCFactSheetQuery --------------------------
(* A small instance of FactSheetQuery for TLC. *)
EXTENDS FactSheetQuery, TLC

CONSTANTS a, b, c, d, app, itc, ext, red, blue, high, runsOn, w1, w2

\* Three sheets of the reader's workspace, and one of another.
SmallFacts ==
    a :> [space |-> w1, kind |-> app, tags |-> {red, blue}, value |-> high,
          description |-> None,
          links |-> {[type |-> runsOn, other |-> b, out |-> TRUE]}]
    @@ b :> [space |-> w1, kind |-> itc, tags |-> {red}, value |-> high,
             description |-> 2, links |-> {[type |-> runsOn, other |-> a, out |-> FALSE]}]
    @@ c :> [space |-> w1, kind |-> app, tags |-> {}, value |-> None,
             description |-> 3, links |-> {}]
    @@ d :> [space |-> w2, kind |-> ext, tags |-> {red}, value |-> high,
             description |-> 1, links |-> {}]

KindSpaces == app :> w1 @@ itc :> w1 @@ ext :> w2

\* Pattern 1 occurs in the texts 1 and 2, at the start of 1 and the end of 2.
SmallLike == {<<"CONTAINS", 1, 1>>, <<"CONTAINS", 1, 2>>,
              <<"STARTS_WITH", 1, 1>>, <<"ENDS_WITH", 1, 2>>}

FirstRows == [f \in Sheets |->
    [live |-> TRUE, archived |-> f = d,
     name |-> CASE f = a -> 1 [] f = b -> 2 [] f = c -> 3 [] OTHER -> 4,
     updated |-> CASE f = a -> 2 [] f = b -> 1 [] f = c -> 3 [] OTHER -> 4]]

All == [search |-> None, status |-> "none", kind |-> None, facets |-> {}, fields |-> {},
        relations |-> {}]
Facet(key, all, keys) == [All EXCEPT !.facets = {[key |-> key, all |-> all, keys |-> keys]}]
Field(key, operator, values) ==
    [All EXCEPT !.fields = {[key |-> key, operator |-> operator, values |-> values]}]
Related(other) == [All EXCEPT !.relations = {[type |-> runsOn, other |-> other, kind |-> None]}]

Asked == {All, [All EXCEPT !.status = "ARCHIVED"], [All EXCEPT !.kind = app],
          [All EXCEPT !.search = 1],
          Facet("FactSheetTypes", FALSE, <<app, itc>>), Facet("FactSheetTypes", TRUE, <<app, itc>>),
          Facet("_TAGS_", TRUE, <<red, blue>>), Facet("_TAGS_", FALSE, <<red, blue>>),
          Facet("criticality", FALSE, <<high>>),
          [Facet("_TAGS_", FALSE, <<red>>) EXCEPT !.kind = app, !.relations = Related(b).relations],
          Field("name", "CONTAINS", <<1>>), Field("name", "NOT_IN", <<1, 2>>),
          Field("description", "ENDS_WITH", <<1>>), Field("description", "IN", <<2, 3>>),
          Field("description", "NOT_IN", <<3>>),
          [Facet("_TAGS_", FALSE, <<red>>) EXCEPT !.search = 1, !.status = "ARCHIVED"],
          Field("criticality", "EQUALS", <<high>>), Related(None), Related(a)}

FetchedFilters == {All, [All EXCEPT !.search = 1], Facet("_TAGS_", FALSE, <<red>>)}

Orders == {Unsorted,
           [mode |-> "BY_NAME", direction |-> "none", key |-> None],
           [mode |-> "BY_FIELD", direction |-> "none", key |-> None]}
=============================================================================
