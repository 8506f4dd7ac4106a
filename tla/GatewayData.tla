------------------------------ MODULE GatewayData ------------------------------
(***************************************************************************)
(* What one request of the gateway answers and writes, as functions of the *)
(* data: the options of a query (odata/query.py), the Extra Params of the  *)
(* caller (scope.py, fraxis_user_profile.py), lookup fields (lookup.py),   *)
(* bodies and answers (odata/serialize.py) and the operations on documents *)
(* (documents.py).                                                         *)
(*                                                                         *)
(* A world w is the rows of every DocType and the names of those that the  *)
(* caller may read; a row is a function of its fields; 0 is the empty      *)
(* value.  A profile is the rows of Extra Params.  An error is a record    *)
(* with a status only.                                                     *)
(***************************************************************************)
EXTENDS GatewaySettings, FrappeList

CONSTANTS
  Word,   \* a value that is no number
  Stored  \* Stored[name]: where the database comes to a row that order_by does not place

Error(status) == [status |-> status]

\* A record laid over another, which shows where the first has no field.
Over(f, g) == [x \in DOMAIN f \cup DOMAIN g |-> IF x \in DOMAIN f THEN f[x] ELSE g[x]]

-----------------------------------------------------------------------------
(* scope.py: the params of a profile; each row has a type of its own.      *)

Casts(value, type) == type = "Int" => value # Word

\* A profile is saved if the value of each row has the type of the row, and
\* the field is one of a DocType that has rows of its own.
ValidProfile(profile) ==
  \A row \in ToSet(profile) :
    /\ Meta[row.doctype].kind = "plain"
    /\ row.field = "owner" \/ HasField(row.doctype, row.field)
    /\ Casts(row.value, row.type)

\* The rows of a DocType and field; the first of them gives the type.
ParamRows(profile, d, f) == {i \in DOMAIN profile : profile[i].doctype = d /\ profile[i].field = f}
ParamType(profile, d, f) == profile[Least(ParamRows(profile, d, f))].type

\* Every value is cast to the type of the first: _params raises otherwise, and
\* with it every request of the user.
ParamsLoad(profile) ==
  \A i \in DOMAIN profile : Casts(profile[i].value, ParamType(profile, profile[i].doctype, profile[i].field))

ForDoctype(profile, d) ==
  {[field |-> f, type |-> ParamType(profile, d, f), rows |-> Cardinality(ParamRows(profile, d, f)),
    values |-> {profile[i].value : i \in ParamRows(profile, d, f)}] : f \in {row.field : row \in {r \in ToSet(profile) : r.doctype = d}}}

ListFilters(profile, d) == {<<"cond", p.field, "in", p.values>> : p \in ForDoctype(profile, d)}

Allowed(p, value) == Casts(value, p.type) /\ value \in p.values

InScope(profile, d, row) == \A p \in ForDoctype(profile, d) : Allowed(p, row[p.field])

\* The params that the body leaves open, and the body with the one value of
\* each of them; 400 if there are several to choose from.
Missing(profile, d, data) == {p \in ForDoctype(profile, d) : p.field \notin DOMAIN data}

Filled(data, missing) ==
  IF \E p \in missing : p.rows > 1 THEN Error(400)
  ELSE [status |-> 200,
        data |-> Over(data, [f \in {p.field : p \in missing} |->
                         CHOOSE v \in (CHOOSE p \in missing : p.field = f).values : TRUE])]

\* Mutant of ApplyToNew: the params only fill in what the body leaves open.
ApplyDefaults(profile, d, data) == Filled(data, Missing(profile, d, data))

\* A new document takes the value of a param, or must have one of its values.
ApplyToNew(profile, d, data) ==
  LET missing == Missing(profile, d, data) IN
  IF \E p \in ForDoctype(profile, d) \ missing : ~ Allowed(p, data[p.field]) THEN Error(403)
  ELSE Filled(data, missing)

UpdateAllowed(profile, d, data) ==
  \A p \in ForDoctype(profile, d) : p.field \in DOMAIN data => Allowed(p, data[p.field])

-----------------------------------------------------------------------------
(* lookup.py: a field shown as the matching record of another DocType.     *)

\* frappe.get_list as the caller.
GetList(w, d, conds) ==
  {row \in w.rows[d] : row["name"] \in w.readable[d] /\ \A c \in conds : Holds(c, row)}

LookupRows(w, profile, p, conds) == GetList(w, p.lookup.doctype, conds \cup ListFilters(profile, p.lookup.doctype))

\* What the visible records that match an internal value are shown as.
Matched(w, profile, p, value) ==
  IF value = 0 THEN {}
  ELSE {r[p.lookup.value] : r \in LookupRows(w, profile, p, {<<"cond", p.lookup.match, "=", value>>})}

\* The value clients see: that of the first visible match, none for others.
ToPublic(w, profile, p, value) ==
  LET found == Matched(w, profile, p, value) IN IF found = {} THEN None ELSE Least(found)

\* The internal values of the visible records that clients may mean.
ToInternal(w, profile, p, values) ==
  {r[p.lookup.match] : r \in LookupRows(w, profile, p, {<<"cond", p.lookup.value, "in", values>>})} \ {0}

InFilter(field, values, negate) == <<"cond", field, IF negate THEN "not in" ELSE "in", values>>

\* Rows are restricted where the caller is scoped on the lookup DocType.
Restricting(profile, e) ==
  {p \in e.props : p.lookup # None /\ p.restrict /\ ForDoctype(profile, p.lookup.doctype) # {}}

Restrictions(w, profile, e) ==
  {InFilter(p.field, {r[p.lookup.match] : r \in LookupRows(w, profile, p, {})} \ {0}, FALSE)
     : p \in Restricting(profile, e)}

LookupsAllowed(w, profile, e, row) ==
  \A p \in Restricting(profile, e) : Matched(w, profile, p, row[p.field]) # {}

-----------------------------------------------------------------------------
(* odata/query.py: the query string of a list.  An option that was not     *)
(* sent is <<>>.                                                           *)

Unfilterable == {"JSON", "Text", "Attach"}

\* Mutant of Named: clients name whatever the model has.
NamedInModel(e, public, collections) ==
  LET field == Fieldname(e, public) IN
  IF field # None /\ (collections \/ \E p \in e.props : p.field = field) THEN field ELSE None

\* The field that clients may name in an option: no child table, except where
\* they can be selected, and nothing write-only.
Named(e, public, collections) ==
  LET field == Fieldname(e, public)
      prop  == {p \in e.props : p.field = field} IN
  IF field # None /\ (collections \/ prop # {}) /\ \A p \in prop : ~ p.write_only THEN field ELSE None

PropOf(e, field) == CHOOSE p \in e.props : p.field = field

\* The parameters of a property, at their places; a later one takes over the
\* same name.
FieldParameters(e) ==
  LET param(name, p, op, k) == [at |-> 3 * p.at + k, name |-> name, prop |-> p, op |-> op]
      of(p) == {param(p.public, p, IF p.type = "Datetime" THEN "day" ELSE "=", 0)} \cup
               IF p.type \in {"Date", "Datetime"} /\ p.lookup = None
               THEN {param(p.public \o "_from", p, ">=", 1), param(p.public \o "_to", p, "<=", 2)} ELSE {} IN
  UNION {of(p) : p \in {q \in e.props : q.type \notin Unfilterable /\ ~ q.write_only}}

ParamNamed(e, name) ==
  LET named == {q \in FieldParameters(e) : q.name = name} IN CHOOSE p \in named : \A q \in named : q.at <= p.at

\* The moments of a day, which is a datetime without the time.
StartOf(day) == 2 * day
EndOf(day)   == 2 * day + 1

\* The conditions of ?name=v1,v2: any of the values; a day; or one end of a
\* range, of days or of moments.  A value is [day |-> d] or [is |-> v].
ParamConditions(w, profile, param, values) ==
  LET p == param.prop
      plain == {v.is : v \in {x \in ToSet(values) : "is" \in DOMAIN x}}
      first == values[1]
      day   == IF "day" \in DOMAIN first THEN first.day ELSE first.is \div 2
      bound == IF "is" \in DOMAIN first THEN first.is
               ELSE IF param.op = ">=" THEN StartOf(first.day) ELSE EndOf(first.day) IN
  CASE param.op = "day" -> {<<"cond", p.field, ">=", StartOf(day)>>, <<"cond", p.field, "<=", EndOf(day)>>}
    [] param.op \in {">=", "<="} -> {<<"cond", p.field, param.op, bound>>}
    [] param.op = "=" /\ p.lookup # None -> {InFilter(p.field, ToInternal(w, profile, p, plain), FALSE)}
    [] OTHER -> {<<"cond", p.field, "in", plain>>}

\* One condition of $filter, on a public name: the field, whose lookup is
\* turned into internal values.  None if the name or the operator is not known.
FilterCondition(w, profile, e, cond) ==
  LET field == Named(e, cond[2], FALSE)
      p     == PropOf(e, field)
      values == IF cond[3] \in {"in", "not in"} THEN cond[4] ELSE {cond[4]} IN
  IF field = None THEN None
  ELSE IF p.lookup = None \/ cond[3] = "is" THEN <<"cond", field, cond[3], cond[4]>>
  ELSE IF cond[3] \in {"=", "!=", "in", "not in"}
       THEN InFilter(field, ToInternal(w, profile, p, values), cond[3] \in {"!=", "not in"})
  ELSE None

FilterConditions(w, profile, e, conds) == [i \in DOMAIN conds |-> FilterCondition(w, profile, e, conds[i])]

\* $select: the fields, None among them if a name is not known.
Select(e, names, collections) == [i \in DOMAIN names |-> Named(e, names[i], collections)]

\* $orderby: [name, desc]; lists come newest first.
OrderBy(e, items) ==
  IF items = <<>> THEN <<[field |-> "creation", desc |-> TRUE]>>
  ELSE [i \in DOMAIN items |-> [field |-> Named(e, items[i].name, FALSE), desc |-> items[i].desc]]

\* The arguments of get_list, or an error.  args.filter is what the parser made
\* of $filter: the conditions that must all hold and those of which one must,
\* or its error.
ParseList(w, profile, s, e, args) ==
  LET known   == {p.name : p \in FieldParameters(e)}
      listed  == {p.field : p \in {q \in e.props : q.in_lists}}
      chosen  == IF args.select = <<>> THEN listed ELSE ToSet(Select(e, args.select, FALSE))
      filters == FilterConditions(w, profile, e, args.filter.filters)
      groups  == FilterConditions(w, profile, e, args.filter.or_filters)
      order   == OrderBy(e, args.orderby)
      wanted  == IF args.top = <<>> THEN PageSize(s) ELSE args.top[1]
      top     == IF wanted <= MaxPageSize(s) THEN wanted ELSE MaxPageSize(s) IN
  IF \/ \E i \in DOMAIN args.params : args.params[i].name \notin known
     \/ ~ chosen \subseteq listed
  THEN Error(400)
  ELSE IF args.filter.status # 200 THEN Error(args.filter.status)
  ELSE IF None \in ToSet(filters) \cup ToSet(groups) \/ top = 0 \/ \E i \in DOMAIN order : order[i].field = None THEN Error(400)
  ELSE [status |-> 200, fields |-> chosen \cup {"name"}, order_by |-> order, top |-> top,
        filters |-> ToSet(filters) \cup
          UNION {ParamConditions(w, profile, ParamNamed(e, args.params[i].name), args.params[i].values) : i \in DOMAIN args.params},
        or_filters |-> ToSet(groups)]

-----------------------------------------------------------------------------
(* odata/serialize.py: rows out, bodies in.  A row for clients is a set of *)
(* pairs of public name and value.                                         *)

SerializeRow(w, profile, props, row) ==
  {<<p.public, IF p.lookup = None THEN row[p.field] ELSE ToPublic(w, profile, p, row[p.field])>>
     : p \in {q \in props : q.field \in DOMAIN row}}

\* document, with the rows of its child tables and its ETag.
SerializeDocument(w, profile, s, e, row, chosen) ==
  LET props  == {p \in e.props : ~ p.write_only /\ (chosen = {} \/ p.field \in chosen \cup {"name"})}
      tables == {c \in e.collections : chosen = {} \/ c.field \in chosen} IN
  SerializeRow(w, profile, props, row)
    \cup {<<c.public, {SerializeRow(w, profile, {[p EXCEPT !.lookup = None] : p \in Props(s, c.child)}, child)
                         : child \in row[c.field]}>> : c \in tables}
    \cup {<<"@odata.etag", row["modified"]>>}

\* A body is a set of pairs of public name and value: to fields, of
\* properties that are known and not read-only, lookups turned back.  The
\* answers are all those that records with the same public value allow.
ParseBody(w, profile, e, body) ==
  LET of(public) == {p \in e.props : p.public = public}
      known  == {pair \in body : \E p \in of(pair[1]) : ~ p.read_only}
      prop(f) == PropOf(e, f)
      sent(f) == CHOOSE pair \in known : pair[1] = prop(f).public
      inside(f) == IF prop(f).lookup = None \/ sent(f)[2] = 0 THEN {sent(f)[2]}
                   ELSE ToInternal(w, profile, prop(f), {sent(f)[2]})
      fields == {p.field : p \in UNION {of(pair[1]) : pair \in known}} IN
  IF known # body \/ \E f \in fields : inside(f) = {} THEN {Error(400)}
  ELSE {[status |-> 200, data |-> data]
          : data \in {g \in [fields -> UNION {inside(f) : f \in fields}] : \A f \in fields : g[f] \in inside(f)}}

-----------------------------------------------------------------------------
(* documents.py.                                                           *)

\* Rows in the order of order_by; rows that are equal in it as the database
\* comes to them, in an order that nobody names: any, but one for all pages.
Before(order, a, b) ==
  LET differs == {i \in DOMAIN order : a[order[i].field] # b[order[i].field]}
      key     == order[Least(differs)] IN
  IF differs = {} THEN Stored[a["name"]] < Stored[b["name"]]
  ELSE IF key.desc THEN b[key.field] < a[key.field] ELSE a[key.field] < b[key.field]

Chosen(q, rows) == {row \in rows : q.or_filters = {} \/ \E c \in q.or_filters : Holds(c, row)}

\* Mutant of Matching: the list forgets which lookup records are visible.
MatchingUnrestricted(w, profile, e, q) ==
  Chosen(q, GetList(w, e.doctype, q.filters \cup ListFilters(profile, e.doctype)))

\* The rows of a list: those of the query, of the params and of the lookups.
Matching(w, profile, e, q) ==
  Chosen(q, GetList(w, e.doctype,
                    q.filters \cup ListFilters(profile, e.doctype) \cup Restrictions(w, profile, e)))

\* The place of a row in a list: how many come before it.
PlaceOf(order, rows, row) == Cardinality({r \in rows : Before(order, r, row)})

\* The answer to a list whose query q was parsed: the rows of a page, each at
\* its place.
Listed(w, profile, e, skip, q) ==
  LET found == Matching(w, profile, e, q)
      page  == {row \in found : PlaceOf(q.order_by, found, row) \in skip..(skip + q.top - 1)}
      props == {p \in e.props : p.field \in q.fields} IN
  IF q.status # 200 THEN q
  ELSE IF ~ ParamsLoad(profile) THEN Error(500)
  ELSE [status |-> 200, count |-> Cardinality(found), next |-> Cardinality(page) = q.top,
        value |-> {<<PlaceOf(q.order_by, found, row), SerializeRow(w, profile, props, row)>> : row \in page}]

ListDocuments(w, profile, s, d, args) ==
  LET e == Entity(s, d) IN Listed(w, profile, e, args.skip, ParseList(w, profile, s, e, args))

\* _get_in_scope: a document outside of the scope of the caller is not there.
GetInScope(w, profile, s, d, name) ==
  {row \in w.rows[d] : row["name"] = name /\ InScope(profile, d, row) /\ LookupsAllowed(w, profile, Entity(s, d), row)}

ReadDocument(w, profile, s, d, name, names) ==
  LET e      == Entity(s, d)
      chosen == ToSet(Select(e, names, TRUE))
      found  == GetInScope(w, profile, s, d, name) IN
  IF None \in chosen THEN Error(400)
  ELSE IF \A row \in w.rows[d] : row["name"] # name THEN Error(404)
  ELSE IF ~ ParamsLoad(profile) THEN Error(500)
  ELSE IF found = {} THEN Error(404)
  ELSE IF name \notin w.readable[d] THEN Error(403)
  ELSE [status |-> 200, value |-> SerializeDocument(w, profile, s, e, CHOOSE row \in found : TRUE, chosen)]

\* The rows that a create may insert, blank but for what was sent and what
\* the params set; and those that an update may leave.
Created(w, profile, s, d, body, blank) ==
  LET parsed  == {a \in ParseBody(w, profile, Entity(s, d), body) : a.status = 200}
      applied == {ApplyToNew(profile, d, a.data) : a \in parsed} IN
  {Over(a.data, blank) : a \in {x \in applied : x.status = 200}}

Updated(w, profile, s, d, name, body) ==
  LET parsed == {a \in ParseBody(w, profile, Entity(s, d), body) :
                   a.status = 200 /\ UpdateAllowed(profile, d, a.data)} IN
  {Over(a.data, row) : row \in GetInScope(w, profile, s, d, name), a \in parsed}

-----------------------------------------------------------------------------
(* Properties of one request.                                              *)

Answerable(s, profile) == ValidSettings(s) /\ ValidProfile(profile) /\ ParamsLoad(profile)

\* What a list shows can be read, one by one; a list that asks for nothing in
\* particular counts what can be read, and shows it if a page can hold it.
Agree(list, readable, id, everything, page) ==
  LET listed == {pair[2] : pair \in {x \in UNION {item[2] : item \in list.value} : x[1] = id}} IN
  list.status = 200 =>
    /\ listed \subseteq readable
    /\ everything => list.count = Cardinality(readable) /\ (list.count <= page => listed = readable)

ListAgreesWithReads(w, profile, s, d, args, all) ==
  Answerable(s, profile) =>
    Agree(ListDocuments(w, profile, s, d, args),
          {row["name"] : row \in {r \in w.rows[d] : ReadDocument(w, profile, s, d, r["name"], <<>>).status = 200}},
          Public(Entity(s, d), "name"), args = all, PageSize(s))

\* What a request has written is in the scope of its caller, who also sees the
\* records that its lookup fields lead to, where they restrict rows.
\* (A param on such a field is written without being looked up.)
WriteStaysInScope(w, profile, s, d, name, body, blank) ==
  Answerable(s, profile) =>
    \A row \in Created(w, profile, s, d, body, blank) \cup Updated(w, profile, s, d, name, body) :
      /\ InScope(profile, d, row)
      /\ \A p \in Restricting(profile, Entity(s, d)) :
           \/ row[p.field] = 0 \/ \E q \in ForDoctype(profile, d) : q.field = p.field
           \/ Matched(w, profile, p, row[p.field]) # {}

\* Fields that clients are never to learn of: passwords, those excluded and
\* those that only go in.  `modified`, which is the ETag, and `creation`, the
\* order of lists, are known to clients even if they are excluded; so is what
\* a param or a lookup decides upon or shows.
HiddenFields(s, profile, d) ==
  LET shown   == {p.field : p \in {q \in Props(s, d) : ~ q.write_only}} \cup {c.field : c \in Collections(s, d)}
      decides == {p.field : p \in ForDoctype(profile, d)} \cup {p.field : p \in Restricting(profile, Entity(s, d))}
      lookups == {p.lookup : p \in {q \in Props(s, d) : q.lookup # None}}
      looked  == UNION {{l.match, l.value} : l \in {m \in lookups : m.doctype = d}} IN
  {f.name : f \in ToSet(Meta[d].fields)} \ (shown \cup decides \cup looked)

\* The world in which the field f of one row has another value.
Twin(w, d, name, f, v) ==
  [w EXCEPT !.rows[d] = {IF row["name"] = name THEN [row EXCEPT ![f] = v] ELSE row : row \in @}]

\* No list, however it selects, filters and sorts, and no read answers
\* otherwise when a hidden field f of a row has another value v.
HidesField(w, profile, s, d, name, args, f, v) ==
  LET twin == Twin(w, d, name, f, v) IN
  Answerable(s, profile) /\ f \in HiddenFields(s, profile, d) =>
    /\ ListDocuments(w, profile, s, d, args) = ListDocuments(twin, profile, s, d, args)
    /\ ReadDocument(w, profile, s, d, name, args.select) = ReadDocument(twin, profile, s, d, name, args.select)

=============================================================================
