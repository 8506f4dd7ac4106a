------------------------------ MODULE GatewayCalls ------------------------------
(***************************************************************************)
(* One call of the gateway at a time, with all that it depends on: a form  *)
(* of settings that is saved, or a request with the settings, the rows and *)
(* the profile that it finds.  The functions of GatewaySettings and        *)
(* GatewayData answer it; the properties are about what they answer.       *)
(***************************************************************************)
EXTENDS GatewayData

CONSTANTS
  NameForm, RouteForm, Form,  \* forms that exclude and map fields, that publish routes, and that serve requests
  Rest,                       \* what paths have behind a route
  World, Profile,             \* rows of the DocTypes, Extra Params
  Served, Id,                 \* the DocTypes and the names that requests are about
  Query, Body, Blank,         \* query strings, bodies, and the row that Frappe makes of an empty body
  Value                       \* values of hidden fields

VARIABLE call

NoOptions ==
  [select |-> <<>>, filter |-> [status |-> 200, filters |-> <<>>, or_filters |-> <<>>], params |-> <<>>,
   orderby |-> <<>>, top |-> <<>>, skip |-> 0]

-----------------------------------------------------------------------------
(* What the calls are made of.                                             *)

ASSUME FormAssumption ==
  /\ NameForm \subseteq SettingsForm /\ RouteForm \subseteq SettingsForm /\ Form \subseteq SettingsForm
  /\ Rest \subseteq Seq(STRING) \ {<<>>}

\* A row has the columns of its DocType, and its owner.  A table has finitely
\* many rows, whose names are its primary key, each stored at its own place.
RowOf(d, row) ==
  /\ row = [f \in DOMAIN row |-> row[f]] /\ {c.name : c \in ToSet(Columns[d])} \cup {"owner"} \subseteq DOMAIN row
  /\ row["name"] \in Nat /\ Stored[row["name"]] \in Nat

ASSUME WorldAssumption ==
  \A w \in World :
    /\ w = [rows |-> w.rows, readable |-> w.readable] /\ w.rows = [d \in DocType |-> w.rows[d]]
    /\ \A d \in DocType :
         /\ IsFiniteSet(w.rows[d]) /\ \A row \in w.rows[d] : RowOf(d, row)
         /\ \A row, other \in w.rows[d] : row["name"] = other["name"] => row = other
         /\ \A row, other \in w.rows[d] : Stored[row["name"]] = Stored[other["name"]] => row = other

\* Requests are about DocTypes that have rows of their own.  A new row is empty
\* but for what Frappe itself sets.
ASSUME ServedAssumption ==
  \A d \in Served :
    /\ d \in DocType /\ Meta[d].kind = "plain"
    /\ RowOf(d, Blank[d])
    /\ \A f \in ToSet(Meta[d].fields) : f.type \notin TableTypes \cup SkipTypes => Blank[d][f.name] = 0

\* What a client may ask of the order of a list.
ASSUME QueryAssumption == \A q \in Query : q.orderby \in Seq([name : STRING, desc : BOOLEAN])

Calls ==
  [about : {"names"}, form : NameForm] \cup [about : {"routes"}, form : RouteForm] \cup
  [about : {"list", "hide"}, form : Form, w : World, profile : Profile, doctype : Served, name : Id, query : Query] \cup
  [about : {"write"}, form : Form, w : World, profile : Profile, doctype : Served, name : Id, body : Body]

CallsSpec == call \in Calls /\ [][UNCHANGED call]_call

-----------------------------------------------------------------------------
(* The properties.                                                         *)

\* Settings that validate accepts give every field a public name of its own.
PublicNamesAreUnambiguous == call.about = "names" => Unambiguous(call.form)

\* The routes that the form shows as exposed are those that are served.
RoutesServeWhatTheyShow == call.about = "routes" => ServesWhatItShows(call.form, Rest)

\* A list shows the documents that its caller can read.
ListsAgreeWithReads ==
  call.about = "list" =>
    ListAgreesWithReads(call.w, call.profile, call.form, call.doctype, call.query, NoOptions)

\* What a caller creates or updates stays within the caller's scope.
WritesStayInScope ==
  call.about = "write" =>
    WriteStaysInScope(call.w, call.profile, call.form, call.doctype, call.name, call.body, Blank[call.doctype])

\* Hidden fields cannot be read, and "cannot be probed either".
HiddenFieldsAreUnobservable ==
  call.about = "hide" =>
    \A f \in HiddenFields(call.form, call.profile, call.doctype), v \in Value :
      HidesField(call.w, call.profile, call.form, call.doctype, call.name, call.query, f, v)

=============================================================================
