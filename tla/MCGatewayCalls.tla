---------------------------- MODULE MCGatewayCalls ----------------------------
(***************************************************************************)
(* Calls of the gateway for TLC, made of the pieces below, and $filter     *)
(* expressions.                                                            *)
(***************************************************************************)
EXTENDS GatewayCalls, ODataFilter

UpTo(n, S) == UNION {[1..k -> S] : k \in 0..n}

-----------------------------------------------------------------------------
(* $filter expressions up to two operators deep, over a number, a text.     *)

MCEmpty == [n |-> 0, t |-> <<>>, a |-> 0, b |-> 0]

FilterRows == [n : 0..2, t : {<<>>, <<"x">>, <<"x", "y">>, <<"y", "x">>}]

Ident(f)  == <<"ident", f>>
Number(v) == Literal("number", v)

Leaves == <<
  [text |-> <<Ident("n"), Op("eq"), Number(1)>>, holds |-> {r \in FilterRows : r.n = 1}],
  [text |-> <<Ident("n"), Op("lt"), Number(1)>>, holds |-> {r \in FilterRows : r.n < 1}],
  [text |-> <<Ident("n"), Op("ge"), Number(2)>>, holds |-> {r \in FilterRows : r.n >= 2}],
  [text |-> <<Ident("t"), Op("ne"), Literal("null", 0)>>, holds |-> {r \in FilterRows : r.t # <<>>}],
  [text |-> <<Ident("n"), Op("in"), Lparen, Number(0), Comma, Number(2), Rparen>>,
   holds |-> {r \in FilterRows : r.n \in {0, 2}}],
  [text |-> <<Ident("startswith"), Lparen, Ident("t"), Comma, Literal("string", <<"x">>), Rparen>>,
   holds |-> {r \in FilterRows : IsPrefix(<<"x">>, r.t)}]>>

Deeper(es)  == es \cup {<<"not", e>> : e \in es} \cup {<<op, a, b>> : op \in {"and", "or"}, a \in es, b \in es}
Expressions == Deeper(Deeper({<<"leaf", i>> : i \in DOMAIN Leaves}))

-----------------------------------------------------------------------------
(* The DocTypes: orders with lines, the agents they are looked up in, notes *)
(* of another app, and one of the gateway itself.                           *)

Field(name, type)  == [name |-> name, type |-> type, read_only |-> FALSE, options |-> None]
Plain(app, fields) == [app |-> app, kind |-> "plain", submittable |-> FALSE, fields |-> fields]

MCMeta == [
  Order |-> Plain("shop", <<Field("a", "Link"), Field("b", "Data"), Field("due", "Date"), Field("secret", "Password"),
                            [Field("items", "Table") EXCEPT !.options = "Line"]>>),
  Line  |-> [Plain("shop", <<Field("q", "Data")>>) EXCEPT !.kind = "table"],
  Agent |-> Plain("shop", <<Field("k", "Data"), Field("v", "Data")>>),
  Note  |-> Plain("memo", <<Field("text", "Text")>>),
  User  |-> Plain("frappe", <<>>)]
MCDocType == DOMAIN MCMeta

NoSettings == [exposed_apps |-> {}, only_expose |-> {}, also_expose |-> {}, never_expose |-> {},
               excluded_fields |-> <<>>, field_mappings |-> <<>>, routes |-> <<>>, page_size |-> 0, max_page_size |-> 0]

Excluding(d, fields)  == [doctype |-> d, fieldnames |-> fields]
Mapping(f, public)    == [doctype |-> "Order", field |-> f, public |-> public, lookup |-> None, restrict |-> TRUE,
                          returned |-> "Lists and Records"]
Returned(m, where)    == [m EXCEPT !.returned = where]
LookedUp(m, restrict) == [m EXCEPT !.lookup = [doctype |-> "Agent", match |-> "k", value |-> "v"], !.restrict = restrict]

\* The names of fields: one field excluded or none, and up to two mappings
\* <<field, public name>>, of all kinds of fields.
Names == {"none", "b", "modified", "items"} \X
         UpTo(2, {"name", "modified", "a", "b", "items"} \X {"", "a", "b", "items", "modified", "ref"})

MCNameForm ==
  {[NoSettings EXCEPT !.excluded_fields = IF names[1] = "none" THEN <<>> ELSE <<Excluding("Order", <<names[1]>>)>>,
                      !.field_mappings = [i \in DOMAIN names[2] |-> Mapping(names[2][i][1], names[2][i][2])]]
     : names \in Names}

\* Up to three routes <<sub category and path, DocType, method>>.
Routing ==
  (1..4) \X UpTo(3, {"", "calls", "calls day"} \X {"Order", "Note"} \X {"GET", "PATCH"} \cup {<<"path calls", "User", "POST">>})

Exposure == <<NoSettings, [NoSettings EXCEPT !.exposed_apps = {"shop"}], [NoSettings EXCEPT !.never_expose = {"Order"}],
              [NoSettings EXCEPT !.only_expose = {"Note", "User"}, !.also_expose = {"Order"}]>>

RouteRow(place, d, verb) ==
  [sub_route |-> "stats", doctype |-> d, verb |-> verb, public |-> "", exposed |-> FALSE,
   sub_category |-> IF place \in {"calls", "calls day"} THEN "calls" ELSE "",
   path |-> CASE place = "calls day" -> <<"day">> [] place = "path calls" -> <<"calls">> [] OTHER -> <<>>]

MCRouteForm ==
  {[Exposure[routing[1]] EXCEPT !.routes = [i \in DOMAIN routing[2] |->
      RouteRow(routing[2][i][1], routing[2][i][2], routing[2][i][3])]] : routing \in Routing}

MCRest == {<<"1">>, <<"day">>, <<"day", "1">>}

-----------------------------------------------------------------------------
(* Requests on two orders, which two agents may be looked up for.           *)

Order(name, a, b) == [name |-> name, owner |-> 3 - name, creation |-> 3 - name, modified |-> name, a |-> a, b |-> b, due |-> b,
                      secret |-> 0, items |-> {}]
Agent(name, v) == [name |-> name, owner |-> 1, creation |-> name, modified |-> name, k |-> name, v |-> v]

OnDocTypes(orders, agents) ==
  [d \in MCDocType |-> CASE d = "Order" -> orders [] d = "Agent" -> agents [] OTHER -> {}]

MCWorld ==
  {[rows |-> OnDocTypes({Order(1, a, b), Order(2, 1, 1)}, {Agent(1, 1), Agent(2, v)}),
    readable |-> OnDocTypes(orders, agents)]
     : a \in 0..2, b \in 0..1, v \in 1..2, orders \in {{2}, {1, 2}}, agents \in {{1}, {1, 2}}}

\* Not the order of the names.
MCStored == <<2, 1, 3>>

MCBlank == [Order |-> Order(3, 0, 0)]

Param(d, f, type, value) == [doctype |-> d, field |-> f, type |-> type, value |-> value]
Unscoped  == {<<>>, <<Param("Agent", "v", "Int", 1)>>}
MCProfile == Unscoped \cup {
  <<Param("Order", "b", "Int", 1), Param("Order", "owner", "Data", 1)>>, <<Param("Order", "a", "Int", 1)>>,
  <<Param("Agent", "v", "Data", 1), Param("Agent", "v", "Data", 2)>>,
  <<Param("Order", "b", "Data", 1), Param("Order", "b", "Data", Word), Param("Agent", "k", "Int", 2)>>,
  <<Param("Order", "b", "Int", 1), Param("Order", "b", "Data", Word)>>}

\* Excluded Fields as the patch merged them, or as they were typed.
OldRow(fields, f) == [doctype |-> "Order", fieldnames |-> fields, fieldname |-> f]
Mapped(mappings)  == [NoSettings EXCEPT !.field_mappings = mappings]
MCForm == {
  NoSettings,
  Mapped(<<LookedUp(Mapping("a", "agent"), TRUE)>>),
  Mapped(<<LookedUp(Mapping("a", "agent"), FALSE), Returned(Mapping("b", ""), "Never")>>),
  Mapped(<<Returned(Mapping("b", "c"), "Records Only"), Mapping("name", "b"), LookedUp(Mapping("a", ""), TRUE)>>),
  [Mapped(<<LookedUp(Mapping("a", "agent"), TRUE)>>) EXCEPT
     !.excluded_fields = MergeExcludedFields(<<OldRow(<<>>, <<"due">>), OldRow(<<"b">>, <<"due">>)>>)],
  [NoSettings EXCEPT !.excluded_fields = <<Excluding("Order", <<"a", "items">>)>>]}

Compared(f, word, v) == [NoOptions EXCEPT !.filter = ToFrappe(<<Ident(f), Op(word), Number(v)>>)]
Asked(f, values)     == [NoOptions EXCEPT !.params = <<[name |-> f, values |-> values]>>]
MCQuery == {
  NoOptions, Compared("b", "eq", 1), Compared("agent", "ne", 1),
  Asked("agent", <<[is |-> 1], [is |-> 2]>>), Asked("due_from", <<[day |-> 0]>>), Asked("b", <<[is |-> 1]>>),
  [NoOptions EXCEPT !.select = <<"b">>, !.top = <<1>>],
  [NoOptions EXCEPT !.orderby = <<[name |-> "b", desc |-> FALSE]>>, !.skip = 1]}

MCBody == {{}, {<<"b", 0>>}, {<<"b", 1>>, <<"agent", 1>>}, {<<"agent", 2>>}, {<<"agent", 0>>}, {<<"a", 2>>, <<"b", Word>>}}

-----------------------------------------------------------------------------
(* The calls: an expression; or one of Calls, of which those that write or  *)
(* hide are of fewer worlds and profiles.                                   *)

Expressed == call \in [about : {"filter"}, e : Expressions]

Sampled ==
  \/ Expressed
  \/ /\ call \in Calls
     /\ call.about = "write" => call.w.readable["Order"] = {2}
     /\ call.about = "hide"  => call.profile \in Unscoped /\ call.w.readable["Agent"] = {1}

\* filter_parser: a $filter is refused or selects the rows it is true of.
FilterMeansWhatItSays == call.about = "filter" => MeansWhatItSays(call.e, Leaves, FilterRows)

=============================================================================
