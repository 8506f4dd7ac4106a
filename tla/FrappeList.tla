------------------------------ MODULE FrappeList ------------------------------
(***************************************************************************)
(* What frappe.get_list makes of conditions, as far as the gateway uses it: *)
(* a condition is <<"cond", field, operator, value>>, a row a function of  *)
(* its fields; NULL is read as the empty value of the column.              *)
(***************************************************************************)
EXTENDS Integers, Sequences

CONSTANT Empty  \* Empty[field]: what NULL is read as, 0 or the empty text

\* A pattern is whether anything may come before its text, the text, and
\* whether anything may come after it.
Like(pattern, text) ==
  \E from \in 1..(Len(text) + 1), to \in 0..Len(text) :
    /\ SubSeq(text, from, to) = pattern[2]
    /\ pattern[1] \/ from = 1
    /\ pattern[3] \/ to = Len(text)

Holds(cond, row) ==
  LET v == row[cond[2]]  arg == cond[4] IN
  CASE cond[3] = "="        -> v = arg
    [] cond[3] = "!="       -> v # arg
    [] cond[3] = ">"        -> v > arg
    [] cond[3] = ">="       -> v >= arg
    [] cond[3] = "<"        -> v < arg
    [] cond[3] = "<="       -> v <= arg
    [] cond[3] = "in"       -> v \in arg
    [] cond[3] = "not in"   -> v \notin arg
    [] cond[3] = "like"     -> Like(arg, v)
    [] cond[3] = "not like" -> ~ Like(arg, v)
    [] cond[3] = "is"       -> (arg = "set") = (v # Empty[cond[2]])

Selects(filters, or_filters, row) ==
  /\ \A i \in DOMAIN filters : Holds(filters[i], row)
  /\ or_filters = <<>> \/ \E i \in DOMAIN or_filters : Holds(or_filters[i], row)

=============================================================================
