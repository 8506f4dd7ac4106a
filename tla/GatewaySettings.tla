---------------------------- MODULE GatewaySettings ----------------------------
(***************************************************************************)
(* The settings of the gateway as functions: what Fraxis Settings accepts  *)
(* (fraxis_settings.py, merge_excluded_fields.py), which DocTypes and      *)
(* routes they publish (config.py), what a route shows of its DocType      *)
(* (odata/model.py), and where a request goes (router.py).                 *)
(*                                                                         *)
(* Settings s are a record of the tables and fields of the form; a row is  *)
(* a record.  A path is the sequence of its segments.                      *)
(***************************************************************************)
EXTENDS Integers, Sequences, SequencesExt

CONSTANTS
  None,          \* no field, no lookup, no value
  DocType,       \* names of DocTypes
  Meta,          \* Meta[d]: app, kind, submittable and the fields of d
  NEVER_EXPOSED, \* the DocTypes of the gateway itself
  DefaultPageSize, DefaultMaxPageSize

ASSUME NeverExposedAssumption == NEVER_EXPOSED \subseteq DocType
ASSUME PageSizeAssumption == DefaultPageSize \in Nat /\ DefaultMaxPageSize \in Nat

SUB_ROUTES == {"stats", "assistants", "numbers", "campaigns"}
Verbs      == {"GET", "POST", "PATCH", "DELETE"}

\* What may be typed into the form: a sub route and a method are selected.
SettingsForm ==
  LET names == [doctype : DocType, fieldnames : Seq(STRING)]
      links == [doctype : DocType, match : STRING, value : STRING] \cup {None}
      maps  == [doctype : DocType, field : STRING, public : STRING, lookup : links, restrict : BOOLEAN,
                returned : {"Lists and Records", "Records Only", "Never"}]
      rows  == [sub_route : SUB_ROUTES, sub_category : STRING, path : Seq(STRING), doctype : DocType,
                verb : Verbs, public : STRING, exposed : BOOLEAN] IN
  [exposed_apps : SUBSET STRING, only_expose : SUBSET DocType, also_expose : SUBSET DocType,
   never_expose : SUBSET DocType, excluded_fields : Seq(names), field_mappings : Seq(maps), routes : Seq(rows),
   page_size : Nat, max_page_size : Nat]

Least(S)    == CHOOSE i \in S : \A j \in S : i <= j
Greatest(S) == CHOOSE i \in S : \A j \in S : j <= i

-----------------------------------------------------------------------------
(* config.py: exposure, exclusions and mappings.                           *)

\* Only Expose wins outright; else the apps, Also Expose and Never Expose.
ComputeExposed(s) ==
  LET apps   == IF s.exposed_apps # {} THEN s.exposed_apps ELSE {Meta[d].app : d \in DocType} \ {"frappe"}
      ofApps == {d \in DocType : Meta[d].app \in apps /\ Meta[d].kind = "plain"} IN
  (IF s.only_expose # {} THEN s.only_expose ELSE (ofApps \cup s.also_expose) \ s.never_expose) \ NEVER_EXPOSED

ExcludedFields(s, d) ==
  UNION {ToSet(row.fieldnames) : row \in {r \in ToSet(s.excluded_fields) : r.doctype = d}}

\* A field without a row; of several rows the last one counts.
Unmapped(f) == [public |-> f, lookup |-> None, restrict |-> TRUE, returned |-> "Lists and Records"]

FieldMapping(s, d, f) ==
  LET rows == {i \in DOMAIN s.field_mappings : s.field_mappings[i].doctype = d /\ s.field_mappings[i].field = f}
      row  == s.field_mappings[Greatest(rows)] IN
  IF rows = {} THEN Unmapped(f)
  ELSE [public |-> IF row.public = "" THEN f ELSE row.public, lookup |-> row.lookup,
        restrict |-> row.restrict, returned |-> row.returned]

-----------------------------------------------------------------------------
(* odata/model.py: the entity of a DocType.                                *)

TableTypes == {"Table", "Table MultiSelect"}
SkipTypes  == {"Section Break", "Password"}

\* The standard properties of a document and of a row of a child table.
ReadOnly(f, type) == [name |-> f, type |-> type, read_only |-> TRUE]

Standard(d) ==
  <<ReadOnly("name", "Data")>> \o
  IF Meta[d].kind = "table" THEN <<ReadOnly("idx", "Int")>>
  ELSE <<ReadOnly("creation", "Datetime"), ReadOnly("modified", "Datetime")>> \o
       IF Meta[d].submittable THEN <<ReadOnly("docstatus", "Int")>> ELSE <<>>

\* The columns of a DocType at their places, of which Frappe lets no two have
\* the same name; those that are not excluded are seen.
Columns == [d \in DocType |-> Standard(d) \o Meta[d].fields]

ASSUME MetaAssumption ==
  /\ Meta \in [DocType -> [app : STRING, kind : STRING, submittable : BOOLEAN, fields : Seq(
       [name : STRING, type : STRING, read_only : BOOLEAN, options : DocType \cup {None}])]]
  /\ \A d \in DocType : \A i, j \in DOMAIN Columns[d] :
       Columns[d][i].name # None /\ (Columns[d][i].name = Columns[d][j].name => i = j)

Seen(s, d) ==
  LET columns == Columns[d]  excluded == ExcludedFields(s, d) IN
  {i \in DOMAIN columns : columns[i].name \notin excluded}

\* A standard property takes no more than its public name from its mapping.
StandardProp(s, d, i) ==
  LET f == Columns[d][i] IN
  [at |-> i, field |-> f.name, type |-> f.type, read_only |-> TRUE, public |-> FieldMapping(s, d, f.name).public,
   lookup |-> None, restrict |-> TRUE, in_lists |-> TRUE, write_only |-> FALSE]

OwnProp(s, d, i) ==
  LET f == Columns[d][i]  m == FieldMapping(s, d, f.name) IN
  [at |-> i, field |-> f.name, type |-> f.type, read_only |-> f.read_only, public |-> m.public,
   lookup |-> m.lookup, restrict |-> m.restrict,
   in_lists |-> m.returned = "Lists and Records", write_only |-> m.returned = "Never"]

Prop(s, d, i) == IF i <= Len(Standard(d)) THEN StandardProp(s, d, i) ELSE OwnProp(s, d, i)

Props(s, d) == {Prop(s, d, i) : i \in {j \in Seen(s, d) : Columns[d][j].type \notin TableTypes \cup SkipTypes}}

\* The child tables: their field, their DocType and their public name.
Collections(s, d) ==
  {[at |-> i, field |-> Columns[d][i].name, child |-> Columns[d][i].options,
    public |-> FieldMapping(s, d, Columns[d][i].name).public]
     : i \in {j \in Seen(s, d) : Columns[d][j].type \in TableTypes}}

Entity(s, d) == [doctype |-> d, props |-> Props(s, d), collections |-> Collections(s, d)]

First(columns) == CHOOSE p \in columns : \A q \in columns : p.at <= q.at

\* The public name of a property or child table, and the one behind a name:
\* the first property that has it, or else the first child table.
Public(e, field) ==
  LET named == {p \in e.props \cup e.collections : p.field = field} IN
  IF named = {} THEN field ELSE First(named).public

Fieldname(e, public) ==
  LET props  == {p \in e.props : p.public = public}
      tables == {c \in e.collections : c.public = public} IN
  CASE props # {} -> First(props).field
    [] props = {} /\ tables # {} -> First(tables).field
    [] OTHER -> None

\* What a DocType can return, before exclusions and mappings.
PublishableFields(d) ==
  {f.name : f \in {g \in ToSet(Columns[d]) : g.type \notin SkipTypes}}

-----------------------------------------------------------------------------
(* fraxis_settings.py: validate throws, or leaves the settings filled in.  *)

HasField(d, f) == f = "name" \/ \E g \in ToSet(Meta[d].fields) : g.name = f

\* One row of a DocType, of fields that it could return but for the ID.
ValidExcludedFields(s) ==
  \A i \in DOMAIN s.excluded_fields :
    LET row == s.excluded_fields[i] IN
    /\ \A j \in 1..(i - 1) : s.excluded_fields[j].doctype # row.doctype
    /\ row.fieldnames # <<>> /\ ToSet(row.fieldnames) \subseteq PublishableFields(row.doctype) \ {"name"}

ValidLookup(row) ==
  row.lookup # None =>
    /\ row.lookup.doctype \notin NEVER_EXPOSED
    /\ \E f \in ToSet(Meta[row.doctype].fields) : f.name = row.field /\ f.type \in {"Data", "Link", "Dynamic Link"}
    /\ HasField(row.lookup.doctype, row.lookup.match) /\ HasField(row.lookup.doctype, row.lookup.value)

\* Mutant of ValidFieldMappings: only the names of mapped fields are compared.
ValidMappedNames(s) ==
  \A i \in DOMAIN s.field_mappings :
    LET row == s.field_mappings[i] IN
    /\ row.field = "name" => row.returned = "Lists and Records"
    /\ row.field \in PublishableFields(row.doctype) \ ExcludedFields(s, row.doctype)
    /\ ValidLookup(row)
    /\ \A j \in 1..(i - 1) :
         LET other == s.field_mappings[j] IN
         other.doctype = row.doctype => other.field # row.field /\ other.public # row.public

\* The ID is always returned; no field is mapped twice, excluded and mapped, or
\* unknown; and no two fields that clients see share a public name.
ValidFieldMappings(s) ==
  /\ \A i \in DOMAIN s.field_mappings :
       LET row == s.field_mappings[i] IN
       /\ row.field = "name" => row.returned = "Lists and Records"
       /\ row.field \in PublishableFields(row.doctype) \ ExcludedFields(s, row.doctype)
       /\ ValidLookup(row)
       /\ \A j \in 1..(i - 1) :
            s.field_mappings[j].doctype # row.doctype \/ s.field_mappings[j].field # row.field
  /\ \A d \in {row.doctype : row \in ToSet(s.field_mappings)} :
       \A f, g \in PublishableFields(d) \ ExcludedFields(s, d) :
         FieldMapping(s, d, f).public = FieldMapping(s, d, g).public => f = g

\* <sub_route>[/<sub_category>][/<path>]; the last two may be empty.
Segments(row) ==
  <<row.sub_route>> \o (IF row.sub_category = "" THEN <<>> ELSE <<row.sub_category>>) \o row.path

\* The public name typed on any row of a path names all of its rows.
PublicNameOfPath(s, path) ==
  LET typed == {row.public : row \in {r \in ToSet(s.routes) : Segments(r) = path}} \ {""} IN
  IF typed = {} THEN "" ELSE CHOOSE name \in typed : TRUE

ApiName(s, row) ==
  LET name == PublicNameOfPath(s, Segments(row)) IN IF name = "" THEN row.doctype ELSE name

\* Routes serve DocTypes with rows of their own that are not the gateway's;
\* a path and a method are published once, one path serves one DocType and
\* has one name, and one name names one DocType.
ValidRoutes(s) ==
  \A i \in DOMAIN s.routes :
    LET row == s.routes[i] IN
    /\ row.doctype \notin NEVER_EXPOSED /\ Meta[row.doctype].kind = "plain"
    /\ \A j \in 1..(i - 1) :
         LET other == s.routes[j] IN
         /\ Segments(other) = Segments(row) =>
              /\ other.verb # row.verb /\ other.doctype = row.doctype
              /\ "" \in {other.public, row.public} \/ other.public = row.public
         /\ ApiName(s, other) = ApiName(s, row) => other.doctype = row.doctype

PageSize(s)    == IF s.page_size > 0 THEN s.page_size ELSE DefaultPageSize
MaxPageSize(s) == IF s.max_page_size > 0 THEN s.max_page_size ELSE DefaultMaxPageSize

ValidSettings(s) ==
  /\ PageSize(s) <= MaxPageSize(s)
  /\ ValidExcludedFields(s) /\ ValidFieldMappings(s) /\ ValidRoutes(s)

\* What validate leaves: while Only Expose has rows the other exposure fields
\* are emptied; every route shows whether its DocType is exposed.
Validated(s) ==
  LET kept == IF s.only_expose = {} THEN s
              ELSE [s EXCEPT !.exposed_apps = {}, !.also_expose = {}, !.never_expose = {}] IN
  [kept EXCEPT !.page_size = PageSize(s), !.max_page_size = MaxPageSize(s), !.routes = [i \in DOMAIN s.routes |->
     [s.routes[i] EXCEPT !.public = ApiName(s, s.routes[i]),
                         !.exposed = s.routes[i].doctype \in ComputeExposed(kept)]]]

-----------------------------------------------------------------------------
(* merge_excluded_fields.py: a row once had one field, and now has many.   *)

\* The rows of the table in their order: the first of each DocType keeps the
\* fields of all of them, without repeats; the others are deleted.
MergeExcludedFields(rows) ==
  LET first == {i \in DOMAIN rows : \A j \in 1..(i - 1) : rows[j].doctype # rows[i].doctype}
      names(d) == FoldLeft(LAMBDA seen, row : IF row.doctype = d THEN seen \o row.fieldnames \o row.fieldname ELSE seen,
                           <<>>, rows)
      once(q)  == FoldLeft(LAMBDA seen, f : IF f \in ToSet(seen) THEN seen ELSE Append(seen, f), <<>>, q)
      kept     == SelectSeq([i \in DOMAIN rows |-> i], LAMBDA i : i \in first) IN
  [i \in DOMAIN kept |-> [doctype |-> rows[kept[i]].doctype, fieldnames |-> once(names(rows[kept[i]].doctype))]]

-----------------------------------------------------------------------------
(* config.routes and router.resolve.                                       *)

\* The rows of a path are one route; the first of them decides the DocType.
RouteSpec(s, path) ==
  LET rows  == {i \in DOMAIN s.routes : Segments(s.routes[i]) = path}
      first == s.routes[Least(rows)] IN
  [segments |-> path, doctype |-> first.doctype,
   verbs |-> {s.routes[i].verb : i \in {j \in rows : s.routes[j].doctype = first.doctype}}]

Routes(s) == {RouteSpec(s, path) : path \in {Segments(row) : row \in ToSet(s.routes)}}

STATIC == {<<"auth", "token">>, <<"auth", "refresh">>, <<"auth", "revoke">>, <<"docs">>, <<"openapi.json">>}
CollectionVerbs == {"GET", "POST"}
ItemVerbs       == {"GET", "PATCH", "DELETE"}

\* Mutant of Resolve: the longest route wins before it is asked whether its
\* DocType is exposed.
ResolveLongest(s, exposed, parts, verb) ==
  LET longest == {r \in Routes(s) : IsPrefix(r.segments, parts)}
      spec    == CHOOSE r \in longest : \A t \in longest : Len(t.segments) <= Len(r.segments)
      name    == SubSeq(parts, Len(spec.segments) + 1, Len(parts))
      allowed == spec.verbs \cap (IF name = <<>> THEN CollectionVerbs ELSE ItemVerbs) IN
  IF parts \in STATIC THEN [kind |-> "static"]
  ELSE IF longest = {} \/ spec.doctype \notin exposed \/ allowed = {} THEN [kind |-> "error", status |-> 404]
  ELSE IF verb \notin allowed THEN [kind |-> "error", status |-> 405]
  ELSE [kind |-> "data", doctype |-> spec.doctype, name |-> name]

\* The longest exposed route that prefixes the path wins; what is left of the
\* path is the name of the document.
Resolve(s, exposed, parts, verb) ==
  LET matching == {r \in Routes(s) : IsPrefix(r.segments, parts) /\ r.doctype \in exposed}
      spec     == CHOOSE r \in matching : \A t \in matching : Len(t.segments) <= Len(r.segments)
      name     == SubSeq(parts, Len(spec.segments) + 1, Len(parts))
      allowed  == spec.verbs \cap (IF name = <<>> THEN CollectionVerbs ELSE ItemVerbs) IN
  IF parts \in STATIC THEN [kind |-> "static"]
  ELSE IF matching = {} \/ allowed = {} THEN [kind |-> "error", status |-> 404]
  ELSE IF verb \notin allowed THEN [kind |-> "error", status |-> 405]
  ELSE [kind |-> "data", doctype |-> spec.doctype, name |-> name]

-----------------------------------------------------------------------------
(* Properties of settings that were saved.                                 *)

\* Clients tell the fields of a DocType apart by their public names, those of
\* bodies and answers included: each name leads back to its field.
Unambiguous(s) ==
  ValidSettings(s) =>
    \A d \in DocType :
      LET e == Entity(Validated(s), d) IN
      \A p \in e.props \cup e.collections : Fieldname(e, Public(e, p.field)) = p.field

\* The routes as the form shows them, the method and the path of each row with
\* {name} for a document: a row marked as exposed is served there, from its
\* own DocType, whatever longer and shorter routes there are; a row that is
\* not marked is served nowhere.  (Names that are the rest of a longer route
\* which is exposed belong to that one.)
ServesWhatItShows(s, names) ==
  ValidSettings(s) =>
    LET saved == Validated(s)  exposed == ComputeExposed(saved) IN
    \A row \in ToSet(saved.routes) :
      \A name \in (IF row.verb \in CollectionVerbs THEN {<<>>} ELSE {}) \cup
                  (IF row.verb \in ItemVerbs THEN names ELSE {}) :
        LET path  == Segments(row) \o name
            found == Resolve(saved, exposed, path, row.verb) IN
        \/ \E other \in Routes(saved) :
             other.doctype \in exposed /\ Len(other.segments) > Len(Segments(row)) /\ IsPrefix(other.segments, path)
        \/ IF row.exposed THEN found = [kind |-> "data", doctype |-> row.doctype, name |-> name]
           ELSE found.kind = "data" => found.doctype # row.doctype

=============================================================================
