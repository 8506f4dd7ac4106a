------------------------------ MODULE ODataFilter ------------------------------
(***************************************************************************)
(* gateway/odata/filter_parser.py: the $filter option of a list.  The      *)
(* tokens are parsed by recursive descent into a tree; negations are       *)
(* pushed to its leaves; what is left must be a conjunction with one       *)
(* or-group at most, for that is what FrappeList evaluates.                *)
(*                                                                         *)
(* A token is <<kind, value>>, a literal <<kind, value>>, a tree           *)
(* <<"and", a, b>>, <<"or", a, b>>, <<"not", a>> or                        *)
(* <<"cond", field, operator, value>>, as in the source.                   *)
(***************************************************************************)
EXTENDS ODataConditions, SequencesExt

COMPARISON == [eq |-> "=", ne |-> "!=", gt |-> ">", ge |-> ">=", lt |-> "<", le |-> "<="]
FUNCTIONS  == {"contains", "startswith", "endswith"}

Op(word) == <<"op", word>>
Literal(kind, value) == <<"literal", <<kind, value>>>>
Lparen == <<"lparen", "(">>
Rparen == <<"rparen", ")">>
Comma  == <<"comma", ",">>

-----------------------------------------------------------------------------
(* The parser: each function answers the tree and the place it has got to, *)
(* or that the text is invalid (400).                                      *)

Got(node, at) == [ok |-> TRUE, node |-> node, at |-> at]
Invalid       == [ok |-> FALSE]

Peek(toks, at, tok)    == at <= Len(toks) /\ toks[at] = tok
KindAt(toks, at)       == IF at <= Len(toks) THEN toks[at][1] ELSE "end"
Shape(toks, at, kinds) == \A j \in DOMAIN kinds : KindAt(toks, at + j - 1) = kinds[j]

\* The pattern of a function: whether anything may come before the text, the
\* text, and whether anything may come after it.
Pattern(name, text) == <<name # "startswith", text, name # "endswith">>

\* name ( field , 'text' )
Function(toks, at) ==
  IF /\ Shape(toks, at, <<"ident", "lparen", "ident", "comma", "literal", "rparen">>)
     /\ toks[at + 4][2][1] = "string"
  THEN Got(<<"cond", toks[at + 2][2], "like", Pattern(toks[at][2], toks[at + 4][2][2])>>, at + 6)
  ELSE Invalid

\* The literals of field in (l1, l2, ...).
RECURSIVE Literals(_, _)
Literals(toks, at) ==
  CASE Shape(toks, at, <<"literal", "rparen">>) -> Got(<<toks[at][2][2]>>, at + 2)
    [] Shape(toks, at, <<"literal", "comma">>)  ->
         LET rest == Literals(toks, at + 2) IN
         IF rest.ok THEN Got(<<toks[at][2][2]>> \o rest.node, rest.at) ELSE Invalid
    [] OTHER -> Invalid

\* field in (...), or field op literal; null goes with eq and ne only.
Comparison(toks, at) ==
  LET field == toks[at][2]  word == toks[at + 1][2]  lit == toks[at + 2][2] IN
  IF ~ Shape(toks, at, <<"ident", "op">>) THEN Invalid
  ELSE IF word = "in" THEN
    LET values == Literals(toks, at + 3) IN
    IF Peek(toks, at + 2, Lparen) /\ values.ok
    THEN Got(<<"cond", field, "in", ToSet(values.node)>>, values.at) ELSE Invalid
  ELSE IF word \notin DOMAIN COMPARISON \/ KindAt(toks, at + 2) # "literal" THEN Invalid
  ELSE IF lit[1] # "null" THEN Got(<<"cond", field, COMPARISON[word], lit[2]>>, at + 3)
  ELSE IF word \in {"eq", "ne"}
       THEN Got(<<"cond", field, "is", IF word = "eq" THEN "not set" ELSE "set">>, at + 3)
  ELSE Invalid

Condition(toks, at) ==
  IF Shape(toks, at, <<"ident", "lparen">>) /\ toks[at][2] \in FUNCTIONS
  THEN Function(toks, at) ELSE Comparison(toks, at)

\* `not` and what it negates; a parenthesis that closes; two operands of a
\* word; the whole text.
Not(arg) == IF arg.ok THEN Got(<<"not", arg.node>>, arg.at) ELSE Invalid

Closed(toks, inner) ==
  IF inner.ok /\ Peek(toks, inner.at, Rparen) THEN Got(inner.node, inner.at + 1) ELSE Invalid

Joined(word, left, right) == IF right.ok THEN Got(<<word, left.node, right.node>>, right.at) ELSE Invalid

Whole(toks, expr) == IF expr.ok /\ expr.at = Len(toks) + 1 THEN expr ELSE Invalid

RECURSIVE Unary(_, _), AndExpr(_, _), OrExpr(_, _), Chain(_, _, _)

\* What has been read so far, and the operands that the same word adds to it.
Chain(toks, word, left) ==
  IF ~ left.ok \/ ~ Peek(toks, left.at, Op(word)) THEN left
  ELSE Chain(toks, word,
             Joined(word, left, IF word = "or" THEN AndExpr(toks, left.at + 1) ELSE Unary(toks, left.at + 1)))

OrExpr(toks, at)  == Chain(toks, "or", AndExpr(toks, at))
AndExpr(toks, at) == Chain(toks, "and", Unary(toks, at))

Unary(toks, at) ==
  CASE Peek(toks, at, Op("not")) -> Not(Unary(toks, at + 1))
    [] Peek(toks, at, Lparen)    -> Closed(toks, OrExpr(toks, at + 1))
    [] OTHER -> Condition(toks, at)

Parse(toks) == Whole(toks, OrExpr(toks, 1))

-----------------------------------------------------------------------------
(* From the tree to frappe.get_list.                                       *)

\* Mutant of Negate: the negation of a conjunction stays a conjunction.
RECURSIVE NegateLeaves(_)
NegateLeaves(node) ==
  CASE node[1] = "not"  -> node[2]
    [] node[1] = "cond" -> NegateCond(node)
    [] OTHER -> <<node[1], NegateLeaves(node[2]), NegateLeaves(node[3])>>

\* The negation of a tree; negations further down are left to PushNot.
RECURSIVE Negate(_)
Negate(node) ==
  CASE node[1] = "not"  -> node[2]
    [] node[1] = "cond" -> NegateCond(node)
    [] OTHER -> <<IF node[1] = "and" THEN "or" ELSE "and", Negate(node[2]), Negate(node[3])>>

\* Negations pushed down to the conditions.
RECURSIVE PushNot(_)
PushNot(node) ==
  CASE node[1] = "not"  -> PushNot(Negate(node[2]))
    [] node[1] = "cond" -> node
    [] OTHER -> <<node[1], PushNot(node[2]), PushNot(node[3])>>

\* The operands of a chain of one operator.
RECURSIVE Flatten(_, _)
Flatten(node, kind) ==
  IF node[1] = kind THEN Flatten(node[2], kind) \o Flatten(node[3], kind) ELSE <<node>>

\* The conditions that must all hold, and those of which one must; or an
\* error, 400 for the text and 501 for the shape.
Arranged(parsed) ==
  LET terms  == Flatten(PushNot(parsed.node), "and")
      groups == SelectSeq(terms, LAMBDA t : t[1] = "or")
      parts  == IF groups = <<>> THEN <<>> ELSE Flatten(groups[1], "or") IN
  IF ~ parsed.ok THEN [status |-> 400]
  ELSE IF Len(groups) > 1 \/ \E i \in DOMAIN parts : parts[i][1] # "cond" THEN [status |-> 501]
  ELSE [status |-> 200, filters |-> SelectSeq(terms, LAMBDA t : t[1] = "cond"), or_filters |-> parts]

ToFrappe(toks) == Arranged(Parse(toks))

-----------------------------------------------------------------------------
(* The reference: what an expression means, and how a client writes it,     *)
(* with no more parentheses than it needs.  A leaf is <<"leaf", i>>, and    *)
(* leaves[i] its tokens and the rows it is true of: [text, holds].          *)

RECURSIVE Means(_, _, _)
Means(e, leaves, row) ==
  CASE e[1] = "or"   -> Means(e[2], leaves, row) \/ Means(e[3], leaves, row)
    [] e[1] = "and"  -> Means(e[2], leaves, row) /\ Means(e[3], leaves, row)
    [] e[1] = "not"  -> ~ Means(e[2], leaves, row)
    [] e[1] = "leaf" -> row \in leaves[e[2]].holds

Strength(e) == CASE e[1] = "or" -> 1 [] e[1] = "and" -> 2 [] OTHER -> 3

RECURSIVE Text(_, _, _)
Text(e, leaves, strength) ==
  LET plain == CASE e[1] = "or"   -> Text(e[2], leaves, 1) \o <<Op("or")>> \o Text(e[3], leaves, 2)
                 [] e[1] = "and"  -> Text(e[2], leaves, 2) \o <<Op("and")>> \o Text(e[3], leaves, 3)
                 [] e[1] = "not"  -> <<Op("not")>> \o Text(e[2], leaves, 3)
                 [] e[1] = "leaf" -> leaves[e[2]].text IN
  IF Strength(e) < strength THEN <<Lparen>> \o plain \o <<Rparen>> ELSE plain

Agrees(query, e, leaves, rows) ==
  /\ query.status \in {200, 501}
  /\ query.status = 200 =>
       \A row \in rows : Selects(query.filters, query.or_filters, row) <=> Means(e, leaves, row)

\* "Rejected with a clear 501 instead of being guessed": a text is never
\* taken for an invalid one, and if it is accepted, the conditions that
\* get_list evaluates select the rows of which the expression is true.
MeansWhatItSays(e, leaves, rows) == Agrees(ToFrappe(Text(e, leaves, 1)), e, leaves, rows)

=============================================================================
