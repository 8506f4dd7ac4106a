---------------------------- MODULE ODataConditions ----------------------------
(***************************************************************************)
(* gateway/odata/filter_parser.py: the conditions at the leaves of a       *)
(* $filter and their negation.  FrappeList says when one holds.            *)
(***************************************************************************)
EXTENDS FrappeList

NEGATED(op) ==
  CASE op = "="      -> "!="
    [] op = "!="     -> "="
    [] op = ">"      -> "<="
    [] op = ">="     -> "<"
    [] op = "<"      -> ">="
    [] op = "<="     -> ">"
    [] op = "in"     -> "not in"
    [] op = "not in" -> "in"
    [] op = "like"   -> "not like"
    [] op = "not like" -> "like"

NegateCond(node) ==
  IF node[3] = "is" THEN <<"cond", node[2], "is", IF node[4] = "set" THEN "not set" ELSE "set">>
  ELSE <<"cond", node[2], NEGATED(node[3]), node[4]>>

=============================================================================
