-------------------------- MODULE GatewayCallsProofs --------------------------
(***************************************************************************)
(* The theorems of GatewayCalls, for any DocTypes and settings, any rows,  *)
(* profiles and requests: what holds of each call is proved of the         *)
(* functions of GatewaySettings and GatewayData.                           *)
(***************************************************************************)
EXTENDS GatewayCalls, ODataConditions, FiniteSetTheorems, TLAPS

\* A call stays what it is.
LEMMA CallsAreTyped == CallsSpec => [](call \in Calls)
<1>1. call \in Calls /\ [UNCHANGED call]_call => (call \in Calls)'
  OBVIOUS
<1> QED
  BY <1>1, PTL DEF CallsSpec

-----------------------------------------------------------------------------
(* Numbers.                                                                *)

\* Least finds the least of any natural numbers: of the sets 0..n, one has no
\* proper subset among them.
LEMMA LeastIsLeast ==
  ASSUME NEW T, T \subseteq Nat, T # {}
  PROVE  Least(T) \in T /\ \A y \in T : Least(T) <= y
<1> DEFINE U == {0..n : n \in T}
<1> DEFINE R == StrictSubsetOrdering(Nat)
<1>1. IsWellFoundedOn(R, FiniteSubsetsOf(Nat))
  BY FS_StrictSubsetOrderingWellFounded
<1>2. U \subseteq FiniteSubsetsOf(Nat) /\ U # {}
  <2>1. ASSUME NEW n \in T PROVE 0..n \in FiniteSubsetsOf(Nat)
    BY n \in Nat, FS_Interval DEF FiniteSubsetsOf
  <2> QED BY <2>1
<1> HIDE DEF R
<1>3. \E x \in U : \A y \in U : ~ (<<y, x>> \in R)
  BY <1>1, <1>2, WFMin
<1>4. PICK n \in T : \A m \in T : ~ (<<0..m, 0..n>> \in R)
  BY <1>3
<1>5. ASSUME NEW m \in T, m < n PROVE FALSE
  <2>1. 0..m \in SUBSET Nat /\ 0..n \in SUBSET Nat /\ 0..m \subseteq 0..n /\ 0..m # 0..n
    BY <1>5
  <2>2. <<0..m, 0..n>> \in R
    BY <2>1 DEF R, StrictSubsetOrdering
  <2> QED BY <1>4, <2>2
<1>6. \A m \in T : n <= m
  BY <1>5
<1> QED BY <1>6 DEF Least

-----------------------------------------------------------------------------
(* The columns of a DocType, their mappings and their properties.          *)

\* The columns are the standard ones, the first of them the name, and then the
\* fields of the DocType, each at its place and with a name.
LEMMA ColumnsAreNamed ==
  ASSUME NEW d \in DocType
  PROVE  /\ DOMAIN Columns[d] \subseteq Nat \ {0} /\ \E n \in Nat : DOMAIN Columns[d] = 1..n
         /\ \A i \in DOMAIN Columns[d] : Columns[d][i].name # None
         /\ 1 \in DOMAIN Columns[d] /\ Columns[d][1].name = "name" /\ Columns[d][1].type = "Data"
         /\ Len(Standard(d)) \in Nat /\ Len(Standard(d)) >= 1
         /\ \A i \in 1..Len(Standard(d)) : i \in DOMAIN Columns[d] /\ Columns[d][i] = Standard(d)[i]
         /\ \A i \in DOMAIN Meta[d].fields : /\ i + Len(Standard(d)) \in DOMAIN Columns[d]
                                             /\ Columns[d][i + Len(Standard(d))] = Meta[d].fields[i]
         /\ \A i \in DOMAIN Columns[d] : i > Len(Standard(d)) =>
              /\ i - Len(Standard(d)) \in DOMAIN Meta[d].fields
              /\ Columns[d][i] = Meta[d].fields[i - Len(Standard(d))]
<1> DEFINE Own == [name : STRING, type : STRING, read_only : BOOLEAN, options : DocType \cup {None}]
<1> DEFINE Column == {ReadOnly("name", "Data"), ReadOnly("idx", "Int"), ReadOnly("creation", "Datetime"),
                      ReadOnly("modified", "Datetime"), ReadOnly("docstatus", "Int")}
<1>1. /\ ReadOnly("name", "Data") \in Column /\ ReadOnly("idx", "Int") \in Column /\ ReadOnly("docstatus", "Int") \in Column
      /\ ReadOnly("creation", "Datetime") \in Column /\ ReadOnly("modified", "Datetime") \in Column
  OBVIOUS
<1>2. PICK after \in Seq(Column) : Standard(d) = <<ReadOnly("name", "Data")>> \o after
  <2> HIDE DEF Column
  <2>1. CASE Meta[d].kind = "table"
    <3>1. Standard(d) = <<ReadOnly("name", "Data")>> \o <<ReadOnly("idx", "Int")>>
      BY <2>1 DEF Standard
    <3>2. <<ReadOnly("idx", "Int")>> \in Seq(Column)
      BY <1>1
    <3> QED BY <3>1, <3>2
  <2>2. CASE Meta[d].kind # "table" /\ Meta[d].submittable
    <3>1. Standard(d) = <<ReadOnly("name", "Data")>> \o (<<ReadOnly("creation", "Datetime"), ReadOnly("modified", "Datetime")>>
                                                        \o <<ReadOnly("docstatus", "Int")>>)
      BY <2>2 DEF Standard
    <3>2. /\ <<ReadOnly("creation", "Datetime"), ReadOnly("modified", "Datetime")>> \in Seq(Column)
          /\ <<ReadOnly("docstatus", "Int")>> \in Seq(Column)
      BY <1>1
    <3>3. <<ReadOnly("creation", "Datetime"), ReadOnly("modified", "Datetime")>> \o <<ReadOnly("docstatus", "Int")>> \in Seq(Column)
      BY <3>2
    <3> QED BY <3>1, <3>3
  <2>3. CASE Meta[d].kind # "table" /\ ~ Meta[d].submittable
    <3>1. Standard(d) = <<ReadOnly("name", "Data")>> \o (<<ReadOnly("creation", "Datetime"), ReadOnly("modified", "Datetime")>>
                                                        \o <<>>)
      BY <2>3 DEF Standard
    <3>2. <<ReadOnly("creation", "Datetime"), ReadOnly("modified", "Datetime")>> \in Seq(Column) /\ <<>> \in Seq(Column)
      BY <1>1
    <3>3. <<ReadOnly("creation", "Datetime"), ReadOnly("modified", "Datetime")>> \o <<>> \in Seq(Column)
      BY <3>2
    <3> QED BY <3>1, <3>3
  <2> QED BY <2>1, <2>2, <2>3
<1>4. /\ Standard(d) \in Seq(Column) /\ Len(Standard(d)) >= 1
      /\ Standard(d)[1] = ReadOnly("name", "Data")
  <2> HIDE DEF Column
  <2>1. <<ReadOnly("name", "Data")>> \in Seq(Column)
    BY <1>1
  <2> QED BY <1>2, <2>1
<1>5. Meta[d].fields \in Seq(Own)
  BY MetaAssumption
<1> HIDE DEF Own, Column
<1>6. /\ \A i \in DOMAIN Standard(d) : Standard(d)[i] \in Column
      /\ \A i \in DOMAIN Meta[d].fields : Meta[d].fields[i] \in Own
  BY <1>4, <1>5
<1> DEFINE m == Meta[d].fields
<1> DEFINE t == Standard(d)
<1> HIDE DEF m, t
<1>7. /\ DOMAIN (t \o m) = 1..(Len(t) + Len(m)) /\ DOMAIN m = 1..Len(m) /\ DOMAIN t = 1..Len(t)
      /\ Len(t) \in Nat /\ Len(m) \in Nat
      /\ \A i \in 1..Len(t) : (t \o m)[i] = t[i]
      /\ \A i \in (Len(t) + 1)..(Len(t) + Len(m)) : (t \o m)[i] = m[i - Len(t)]
  <2>1. t \in Seq(Column) /\ m \in Seq(Own)
    BY <1>4, <1>5 DEF t, m
  <2>2. t \in Seq(Column \cup Own) /\ m \in Seq(Column \cup Own)
    BY <2>1
  <2> QED BY <2>2
<1>8. Columns[d] = t \o m
  BY DEF Columns, t, m
<1>9. \A i \in DOMAIN Columns[d] : Columns[d][i].name # None
  BY MetaAssumption
<1>10. 1 \in DOMAIN Columns[d] /\ Columns[d][1].name = "name" /\ Columns[d][1].type = "Data"
  <2>1. 1 \in 1..Len(t) /\ t[1] = ReadOnly("name", "Data")
    BY <1>4, <1>7 DEF t
  <2> QED BY <2>1, <1>7, <1>8 DEF ReadOnly
<1>11. ASSUME NEW i \in DOMAIN m PROVE i + Len(t) \in DOMAIN (t \o m) /\ (t \o m)[i + Len(t)] = m[i]
  BY <1>7
<1>12. ASSUME NEW i \in DOMAIN (t \o m), i > Len(t) PROVE i - Len(t) \in DOMAIN m /\ (t \o m)[i] = m[i - Len(t)]
  <2>1. Len(t) \in Nat /\ Len(m) \in Nat /\ i \in 1..(Len(t) + Len(m))
    BY <1>7
  <2>2. i \in (Len(t) + 1)..(Len(t) + Len(m)) /\ i - Len(t) \in 1..Len(m)
    BY <2>1, <1>12
  <2> QED BY <2>2, <1>7
<1>13. DOMAIN Columns[d] \subseteq Nat \ {0} /\ Len(t) \in Nat /\ Len(t) >= 1
  BY <1>7, <1>8, <1>4 DEF t
<1>14. \A i \in 1..Len(t) : i \in DOMAIN Columns[d] /\ Columns[d][i] = t[i]
  BY <1>7, <1>8
<1>15. \E n \in Nat : DOMAIN Columns[d] = 1..n
  <2>1. Len(t) + Len(m) \in Nat
    BY <1>7
  <2> QED BY <2>1, <1>7, <1>8
<1> QED
  BY <1>8, <1>9, <1>10, <1>11, <1>12, <1>13, <1>14, <1>15 DEF m, t

\* No two columns have the same name.
LEMMA ColumnOfName ==
  ASSUME NEW d \in DocType, NEW i \in DOMAIN Columns[d], NEW j \in DOMAIN Columns[d],
         Columns[d][i].name = Columns[d][j].name
  PROVE  i = j
BY MetaAssumption

\* Where properties and tables come from: each from a shown column.
ItemsOf(s, d) == Props(s, d) \cup Collections(s, d)

\* A property stands at a column that is seen, and has its name and mapping.
LEMMA PropIsColumn ==
  ASSUME NEW s, NEW d \in DocType, NEW p \in Props(s, d)
  PROVE  /\ p.at \in Seen(s, d) /\ Columns[d][p.at].type \notin TableTypes \cup SkipTypes
         /\ p = Prop(s, d, p.at)
         /\ p.field = Columns[d][p.at].name /\ p.public = FieldMapping(s, d, p.field).public
<1>1. PICK i \in Seen(s, d) : Columns[d][i].type \notin TableTypes \cup SkipTypes /\ p = Prop(s, d, i)
  BY DEF Props
<1>2. CASE i <= Len(Standard(d))
  <2>1. p = StandardProp(s, d, i)
    BY <1>1, <1>2 DEF Prop
  <2>2. p.at = i /\ p.field = Columns[d][i].name
    BY <2>1 DEF StandardProp
  <2>3. p.public = FieldMapping(s, d, p.field).public
    BY <2>1 DEF StandardProp
  <2> QED BY <1>1, <2>2, <2>3
<1>3. CASE ~ (i <= Len(Standard(d)))
  <2>1. p = OwnProp(s, d, i)
    BY <1>1, <1>3 DEF Prop
  <2>2. p.at = i /\ p.field = Columns[d][i].name
    BY <2>1 DEF OwnProp
  <2>3. p.public = FieldMapping(s, d, p.field).public
    BY <2>1 DEF OwnProp
  <2> QED BY <1>1, <2>2, <2>3
<1> QED BY <1>2, <1>3

\* So does a child table.
LEMMA TableIsColumn ==
  ASSUME NEW s, NEW d \in DocType, NEW c \in Collections(s, d)
  PROVE  /\ c.at \in Seen(s, d) /\ Columns[d][c.at].type \in TableTypes
         /\ c.field = Columns[d][c.at].name /\ c.public = FieldMapping(s, d, c.field).public
         /\ c = [at |-> c.at, field |-> Columns[d][c.at].name, child |-> Columns[d][c.at].options,
                 public |-> FieldMapping(s, d, Columns[d][c.at].name).public]
BY DEF Collections

\* The properties and tables of an entity have one column each.
LEMMA ItemOfField ==
  ASSUME NEW s, NEW d \in DocType, NEW p \in ItemsOf(s, d), NEW q \in ItemsOf(s, d), p.field = q.field
  PROVE  p = q
<1>1. p.at \in DOMAIN Columns[d] /\ q.at \in DOMAIN Columns[d] /\ p.field = Columns[d][p.at].name /\ q.field = Columns[d][q.at].name
  BY PropIsColumn, TableIsColumn DEF ItemsOf, Seen
<1>2. p.at = q.at
  BY <1>1, ColumnOfName
<1>3. CASE p \in Props(s, d) /\ q \in Props(s, d)
  BY <1>2, <1>3, PropIsColumn
<1>4. CASE p \in Collections(s, d) /\ q \in Collections(s, d)
  BY <1>2, <1>4, TableIsColumn
<1>5. CASE p \in Props(s, d) /\ q \in Collections(s, d)
  BY <1>2, <1>5, PropIsColumn, TableIsColumn
<1>6. CASE p \in Collections(s, d) /\ q \in Props(s, d)
  BY <1>2, <1>6, PropIsColumn, TableIsColumn
<1> QED BY <1>3, <1>4, <1>5, <1>6 DEF ItemsOf

-----------------------------------------------------------------------------
(* Public names.                                                           *)

\* The public names of the columns that an entity has tell them apart, once
\* validate has accepted the settings.
LEMMA PublicNamesDiffer ==
  ASSUME NEW s, ValidFieldMappings(s), NEW d \in DocType, NEW p \in ItemsOf(s, d), NEW q \in ItemsOf(s, d),
         p.public = q.public
  PROVE  p = q
<1>1. /\ p.field \in PublishableFields(d) \ ExcludedFields(s, d) /\ p.public = FieldMapping(s, d, p.field).public
      /\ q.field \in PublishableFields(d) \ ExcludedFields(s, d) /\ q.public = FieldMapping(s, d, q.field).public
  <2>1. ASSUME NEW r \in ItemsOf(s, d)
        PROVE  r.field \in PublishableFields(d) \ ExcludedFields(s, d) /\ r.public = FieldMapping(s, d, r.field).public
    <3>1. /\ r.at \in Seen(s, d) /\ r.field = Columns[d][r.at].name /\ r.public = FieldMapping(s, d, r.field).public
          /\ Columns[d][r.at].type \notin SkipTypes
      <4>1. CASE r \in Props(s, d)
        BY <4>1, PropIsColumn
      <4>2. CASE r \in Collections(s, d)
        <5>1. Columns[d][r.at].type \in TableTypes
          BY <4>2, TableIsColumn
        <5>2. TableTypes \cap SkipTypes = {}
          BY DEF TableTypes, SkipTypes
        <5> QED BY <4>2, <5>1, <5>2, TableIsColumn
      <4> QED BY <4>1, <4>2 DEF ItemsOf
    <3>2. r.at \in DOMAIN Columns[d] /\ r.field \notin ExcludedFields(s, d)
      BY <3>1 DEF Seen
    <3>3. r.field \in PublishableFields(d)
      BY <3>1, <3>2 DEF PublishableFields, ToSet
    <3> QED BY <3>1, <3>2, <3>3
  <2> QED BY <2>1
<1>2. p.field = q.field
  <2>1. CASE d \in {row.doctype : row \in ToSet(s.field_mappings)}
    BY <1>1, <2>1 DEF ValidFieldMappings
  <2>2. CASE d \notin {row.doctype : row \in ToSet(s.field_mappings)}
    <3>1. \A i \in DOMAIN s.field_mappings : s.field_mappings[i].doctype # d
      BY <2>2 DEF ToSet
    <3>2. FieldMapping(s, d, p.field) = Unmapped(p.field) /\ FieldMapping(s, d, q.field) = Unmapped(q.field)
      BY <3>1 DEF FieldMapping
    <3>3. Unmapped(p.field).public = p.field /\ Unmapped(q.field).public = q.field
      BY DEF Unmapped
    <3> QED BY <1>1, <3>2, <3>3
  <2> QED BY <2>1, <2>2
<1> QED
  BY <1>2, ItemOfField

\* The first of one item is that item.
LEMMA FirstOfOne ==
  ASSUME NEW p, p.at \in Nat
  PROVE  First({p}) = p
BY DEF First

\* The public name of a column is that of its item, and leads back to it.
LEMMA NamesLeadBack ==
  ASSUME NEW s, ValidFieldMappings(s), NEW d \in DocType, NEW p \in ItemsOf(s, d)
  PROVE  Public(Entity(s, d), p.field) = p.public /\ Fieldname(Entity(s, d), p.public) = p.field
<1> DEFINE e == Entity(s, d)
<1>1. e.props = Props(s, d) /\ e.collections = Collections(s, d)
  BY DEF Entity
<1>2. p.at \in Nat
  <2>1. p.at \in Seen(s, d)
    BY PropIsColumn, TableIsColumn DEF ItemsOf
  <2> QED BY <2>1, ColumnsAreNamed DEF Seen
<1> HIDE DEF e
<1>3. {q \in e.props \cup e.collections : q.field = p.field} = {p}
  BY <1>1, ItemOfField DEF ItemsOf
<1>4. Public(e, p.field) = p.public
  BY <1>2, <1>3, FirstOfOne DEF Public
<1>5. \A q \in e.props \cup e.collections : q.public = p.public => q = p
  BY <1>1, PublicNamesDiffer DEF ItemsOf
<1>6. CASE p \in e.props
  <2>1. {q \in e.props : q.public = p.public} = {p}
    BY <1>5, <1>6
  <2> QED BY <2>1, <1>2, <1>4, FirstOfOne DEF Fieldname, e
<1>7. CASE p \in e.collections /\ p \notin e.props
  <2>1. {q \in e.collections : q.public = p.public} = {p} /\ {q \in e.props : q.public = p.public} = {}
    BY <1>5, <1>7
  <2>2. Fieldname(e, p.public) = p.field
    BY <2>1, <1>2, FirstOfOne DEF Fieldname
  <2> QED BY <2>2, <1>4 DEF e
<1> QED
  BY <1>1, <1>6, <1>7 DEF ItemsOf

\* What validate leaves of the settings is about the same fields.
LEMMA ValidatedKeepsFields ==
  ASSUME NEW s \in SettingsForm
  PROVE  /\ Validated(s).field_mappings = s.field_mappings
         /\ Validated(s).excluded_fields = s.excluded_fields
BY DEF Validated, SettingsForm

\* PublicNamesAreUnambiguous: whatever DocTypes there are and however their
\* fields are excluded and mapped, settings that validate accepts give every
\* field a public name that leads back to it.
THEOREM NamesLeadToTheirFields == CallsSpec => []PublicNamesAreUnambiguous
<1>1. call \in Calls => PublicNamesAreUnambiguous
  <2> SUFFICES ASSUME call \in Calls, call.about = "names" PROVE Unambiguous(call.form)
    BY DEF PublicNamesAreUnambiguous
  <2>1. call.form \in SettingsForm
    BY FormAssumption DEF Calls
  <2> DEFINE s == call.form
  <2> DEFINE t == Validated(s)
  <2>2. ASSUME ValidSettings(s) PROVE ValidFieldMappings(t)
    <3>1. /\ t.field_mappings = s.field_mappings /\ t.excluded_fields = s.excluded_fields
      BY <2>1, ValidatedKeepsFields
    <3>2. \A d : ExcludedFields(t, d) = ExcludedFields(s, d)
      BY <3>1 DEF ExcludedFields
    <3>3. \A d, f : FieldMapping(t, d, f) = FieldMapping(s, d, f)
      BY <3>1 DEF FieldMapping
    <3> HIDE DEF s, t
    <3>4. ValidFieldMappings(s)
      BY <2>2 DEF ValidSettings
    <3> DEFINE m == s.field_mappings
    <3> HIDE DEF m
    <3>5. ASSUME NEW i \in DOMAIN m
          PROVE  /\ m[i].field = "name" => m[i].returned = "Lists and Records"
                 /\ m[i].field \in PublishableFields(m[i].doctype) \ ExcludedFields(t, m[i].doctype)
                 /\ ValidLookup(m[i])
                 /\ \A j \in 1..(i - 1) : m[j].doctype # m[i].doctype \/ m[j].field # m[i].field
      BY <3>2, <3>4 DEF ValidFieldMappings, m
    <3>6. ASSUME NEW d \in {row.doctype : row \in ToSet(m)},
                 NEW f \in PublishableFields(d) \ ExcludedFields(t, d), NEW g \in PublishableFields(d) \ ExcludedFields(t, d),
                 FieldMapping(t, d, f).public = FieldMapping(t, d, g).public
          PROVE  f = g
      <4>1. d \in {row.doctype : row \in ToSet(s.field_mappings)}
        BY DEF m
      <4>2. f \in PublishableFields(d) \ ExcludedFields(s, d) /\ g \in PublishableFields(d) \ ExcludedFields(s, d)
        BY <3>2
      <4>3. FieldMapping(s, d, f).public = FieldMapping(s, d, g).public
        BY <3>3, <3>6
      <4> QED BY <3>4, <4>1, <4>2, <4>3 DEF ValidFieldMappings
    <3>7. t.field_mappings = m
      BY <3>1 DEF m
    <3> QED BY <3>5, <3>6, <3>7 DEF ValidFieldMappings
  <2> HIDE DEF t
  <2>3. ASSUME ValidSettings(s), NEW d \in DocType, NEW p \in Entity(t, d).props \cup Entity(t, d).collections
        PROVE  Fieldname(Entity(t, d), Public(Entity(t, d), p.field)) = p.field
    <3>1. p \in ItemsOf(t, d)
      BY <2>3 DEF ItemsOf, Entity
    <3> QED BY <3>1, <2>2, <2>3, NamesLeadBack
  <2> QED BY <2>3 DEF Unambiguous, t
<1> QED
  BY <1>1, CallsAreTyped, PTL

-----------------------------------------------------------------------------
(* Routes.                                                                 *)

Segment == STRING \cup SUB_ROUTES

\* A path is prefixed by its beginning, and what is left is its end.
LEMMA PrefixAndRest ==
  ASSUME NEW a \in Seq(Segment), NEW b \in Seq(Segment)
  PROVE  IsPrefix(a, a \o b) /\ SubSeq(a \o b, Len(a) + 1, Len(a \o b)) = b
<1> HIDE DEF Segment
<1>1. a \o b \in Seq(Segment) /\ Len(a \o b) = Len(a) + Len(b) /\ Len(a) \in Nat /\ Len(b) \in Nat
  OBVIOUS
<1>2. SubSeq(a, 1, Len(a)) = SubSeq(a \o b, 1, Len(a))
  <2>1. SubSeq(a, 1, Len(a)) \in Seq(Segment) /\ SubSeq(a \o b, 1, Len(a)) \in Seq(Segment)
    BY <1>1
  <2> QED BY <1>1, <2>1
<1>3. SubSeq(a \o b, Len(a) + 1, Len(a \o b)) = b
  BY <1>1
<1> QED
  BY <1>1, <1>2, <1>3 DEF IsPrefix

\* A path has one prefix of a length.
LEMMA OnePrefix ==
  ASSUME NEW u \in Seq(Segment), NEW v \in Seq(Segment), NEW path \in Seq(Segment),
         IsPrefix(u, path), IsPrefix(v, path), Len(u) = Len(v)
  PROVE  u = v
<1> HIDE DEF Segment
<1>1. SubSeq(u, 1, Len(u)) = SubSeq(v, 1, Len(v))
  BY DEF IsPrefix
<1>2. SubSeq(u, 1, Len(u)) = u /\ SubSeq(v, 1, Len(v)) = v
  OBVIOUS
<1> QED
  BY <1>1, <1>2

\* The path of a row begins with its sub route.
LEMMA SegmentsBegin ==
  ASSUME NEW row, row.sub_route \in SUB_ROUTES, row.sub_category \in STRING, row.path \in Seq(STRING)
  PROVE  Segments(row) \in Seq(Segment) /\ Len(Segments(row)) >= 1 /\ Segments(row)[1] = row.sub_route
<1>1. row.path \in Seq(Segment) /\ row.sub_route \in Segment /\ row.sub_category \in Segment
  BY DEF Segment
<1> DEFINE middle == IF row.sub_category = "" THEN <<>> ELSE <<row.sub_category>>
<1>2. Segments(row) = <<row.sub_route>> \o middle \o row.path
  BY DEF Segments
<1>3. middle \in Seq(Segment)
  <2> HIDE DEF Segment
  <2>1. <<>> \in Seq(Segment) /\ <<row.sub_category>> \in Seq(Segment)
    BY <1>1
  <2> QED BY <2>1
<1> HIDE DEF middle, Segment
<1>4. <<row.sub_route>> \in Seq(Segment) /\ Len(<<row.sub_route>>) = 1 /\ <<row.sub_route>>[1] = row.sub_route
  BY <1>1
<1>5. (<<row.sub_route>> \o middle) \o row.path \in Seq(Segment)
  BY <1>1, <1>3, <1>4
<1>6. Segments(row) \in Seq(Segment)
  BY <1>2, <1>5
<1>7. <<row.sub_route>> \o middle \in Seq(Segment) /\ Len(<<row.sub_route>> \o middle) >= 1
      /\ (<<row.sub_route>> \o middle)[1] = row.sub_route
  BY <1>3, <1>4
<1>8. Len(Segments(row)) >= 1 /\ Segments(row)[1] = row.sub_route
  <2> DEFINE x == <<row.sub_route>> \o middle
  <2>1. x \in Seq(Segment) /\ 1 \in 1..Len(x) /\ Len(x) \in Nat /\ x[1] = row.sub_route /\ Segments(row) = x \o row.path
    BY <1>2, <1>7
  <2> HIDE DEF x
  <2>2. (x \o row.path)[1] = x[1] /\ Len(x \o row.path) >= 1
    BY <1>1, <2>1
  <2> QED BY <2>1, <2>2
<1> QED
  BY <1>6, <1>8

\* What validate makes of the rows of the routes.
LEMMA ValidatedRows ==
  ASSUME NEW s \in SettingsForm, NEW i \in DOMAIN Validated(s).routes
  PROVE  LET t == Validated(s)  row == t.routes[i]  old == s.routes[i] IN
         /\ DOMAIN t.routes = DOMAIN s.routes /\ DOMAIN s.routes \subseteq Nat
         /\ row.doctype = old.doctype /\ row.verb = old.verb /\ Segments(row) = Segments(old)
         /\ Segments(row) \in Seq(Segment) /\ Len(Segments(row)) >= 1 /\ Segments(row)[1] \in SUB_ROUTES
         /\ row.exposed = (row.doctype \in ComputeExposed(t))
<1> DEFINE t == Validated(s)
<1> DEFINE kept == IF s.only_expose = {} THEN s
                   ELSE [s EXCEPT !.exposed_apps = {}, !.also_expose = {}, !.never_expose = {}]
<1> DEFINE old == s.routes[i]
<1>1. /\ t.routes = [k \in DOMAIN s.routes |-> [s.routes[k] EXCEPT !.public = ApiName(s, s.routes[k]),
                                                 !.exposed = s.routes[k].doctype \in ComputeExposed(kept)]]
      /\ t.exposed_apps = kept.exposed_apps /\ t.only_expose = kept.only_expose
      /\ t.also_expose = kept.also_expose /\ t.never_expose = kept.never_expose
  <2> DEFINE new == [k \in DOMAIN s.routes |-> [s.routes[k] EXCEPT !.public = ApiName(s, s.routes[k]),
                                                 !.exposed = s.routes[k].doctype \in ComputeExposed(kept)]]
  <2>1. t = [kept EXCEPT !.page_size = PageSize(s), !.max_page_size = MaxPageSize(s), !.routes = new]
    BY DEF Validated
  <2>2. DOMAIN kept = {"exposed_apps", "only_expose", "also_expose", "never_expose", "excluded_fields", "field_mappings",
                       "routes", "page_size", "max_page_size"}
    BY DEF SettingsForm
  <2> HIDE DEF kept, new, t
  <2>3. t.routes = new /\ t.exposed_apps = kept.exposed_apps /\ t.only_expose = kept.only_expose
        /\ t.also_expose = kept.also_expose /\ t.never_expose = kept.never_expose
    BY <2>1, <2>2
  <2> QED BY <2>3 DEF new
<1>2. ComputeExposed(t) = ComputeExposed(kept)
  BY <1>1 DEF ComputeExposed
<1> DEFINE Row == [sub_route : SUB_ROUTES, sub_category : STRING, path : Seq(STRING), doctype : DocType,
                   verb : Verbs, public : STRING, exposed : BOOLEAN]
<1>3. DOMAIN s.routes \subseteq Nat /\ i \in DOMAIN s.routes /\ old \in Row
  <2>1. s.routes \in Seq(Row)
    BY DEF SettingsForm
  <2>2. i \in DOMAIN s.routes
    BY <1>1
  <2> HIDE DEF Row
  <2> QED BY <2>1, <2>2
<1> HIDE DEF kept
<1>4. t.routes[i] = [old EXCEPT !.public = ApiName(s, old), !.exposed = old.doctype \in ComputeExposed(kept)]
  BY <1>1, <1>3
<1> HIDE DEF old, t
<1>5. /\ t.routes[i].doctype = old.doctype /\ t.routes[i].verb = old.verb
      /\ t.routes[i].sub_route = old.sub_route /\ t.routes[i].sub_category = old.sub_category
      /\ t.routes[i].path = old.path
      /\ t.routes[i].exposed = (old.doctype \in ComputeExposed(kept))
  BY <1>3, <1>4
<1>6. Segments(t.routes[i]) = Segments(old)
  BY <1>5 DEF Segments
<1>7. Segments(old) \in Seq(Segment) /\ Len(Segments(old)) >= 1 /\ Segments(old)[1] = old.sub_route /\ old.sub_route \in SUB_ROUTES
  BY <1>3, SegmentsBegin
<1> QED
  BY <1>1, <1>2, <1>3, <1>5, <1>6, <1>7 DEF old, t

\* The route at the path of a row serves the DocType and the method of the row.
LEMMA RouteOfRow ==
  ASSUME NEW s \in SettingsForm, ValidRoutes(s), NEW i \in DOMAIN Validated(s).routes
  PROVE  LET t == Validated(s)  row == t.routes[i]  r == RouteSpec(t, Segments(row)) IN
         /\ r \in Routes(t) /\ r.segments = Segments(row)
         /\ r.doctype = row.doctype /\ row.verb \in r.verbs
<1> DEFINE t == Validated(s)
<1> DEFINE row == t.routes[i]
<1> DEFINE rows == {j \in DOMAIN t.routes : Segments(t.routes[j]) = Segments(row)}
<1> DEFINE first == t.routes[Least(rows)]
<1>1. \A j \in DOMAIN t.routes : /\ j \in DOMAIN s.routes /\ j \in Nat
                                 /\ t.routes[j].doctype = s.routes[j].doctype
                                 /\ Segments(t.routes[j]) = Segments(s.routes[j])
  BY ValidatedRows
<1>2. Least(rows) \in rows
  <2>1. i \in rows /\ rows \subseteq Nat
    BY <1>1
  <2> QED BY <2>1, LeastIsLeast
<1>3. ASSUME NEW j \in rows PROVE t.routes[j].doctype = row.doctype
  <2>1. /\ j \in DOMAIN s.routes /\ j \in Nat /\ i \in DOMAIN s.routes /\ i \in Nat
        /\ Segments(s.routes[j]) = Segments(s.routes[i])
    BY <1>1
  <2>2. s.routes \in Seq([sub_route : SUB_ROUTES, sub_category : STRING, path : Seq(STRING), doctype : DocType,
                          verb : Verbs, public : STRING, exposed : BOOLEAN])
    BY DEF SettingsForm
  <2>3. j >= 1 /\ i >= 1
    BY <2>1, <2>2
  <2>4. s.routes[j].doctype = s.routes[i].doctype
    <3>1. CASE j < i
      <4>1. j \in 1..(i - 1)
        BY <2>1, <2>3, <3>1
      <4> QED BY <2>1, <4>1 DEF ValidRoutes
    <3>2. CASE i < j
      <4>1. i \in 1..(j - 1)
        BY <2>1, <2>3, <3>2
      <4> QED BY <2>1, <4>1 DEF ValidRoutes
    <3> QED BY <2>1, <3>1, <3>2
  <2> QED BY <1>1, <2>4
<1>4. first.doctype = row.doctype
  BY <1>2, <1>3
<1>5. RouteSpec(t, Segments(row)) =
        [segments |-> Segments(row), doctype |-> first.doctype,
         verbs |-> {t.routes[j].verb : j \in {k \in rows : t.routes[k].doctype = first.doctype}}]
  BY DEF RouteSpec
<1>6. RouteSpec(t, Segments(row)) \in Routes(t)
  BY DEF Routes, ToSet
<1>7. i \in {k \in rows : t.routes[k].doctype = first.doctype}
  BY <1>4
<1> HIDE DEF first
<1> QED
  BY <1>4, <1>5, <1>6, <1>7

\* A route is the one at the path of some row.
LEMMA RoutesAreOfRows ==
  ASSUME NEW s \in SettingsForm, NEW r \in Routes(Validated(s))
  PROVE  r.segments \in Seq(Segment) /\ r = RouteSpec(Validated(s), r.segments)
<1>1. PICK i \in DOMAIN Validated(s).routes : r = RouteSpec(Validated(s), Segments(Validated(s).routes[i]))
  BY DEF Routes, ToSet
<1>2. r.segments = Segments(Validated(s).routes[i])
  BY <1>1 DEF RouteSpec
<1> QED
  BY <1>1, <1>2, ValidatedRows

\* The longest of the routes that match a path.
LEMMA LongestRoute ==
  ASSUME NEW M, M # {}, NEW parts \in Seq(Segment),
         \A r \in M : r.segments \in Seq(Segment) /\ IsPrefix(r.segments, parts)
  PROVE  \E r \in M : \A t \in M : Len(t.segments) <= Len(r.segments)
<1> DEFINE left == {Len(parts) - Len(r.segments) : r \in M}
<1>1. \A r \in M : Len(r.segments) \in Nat /\ Len(r.segments) <= Len(parts)
  BY DEF IsPrefix
<1>2. left \subseteq Nat /\ left # {} /\ Len(parts) \in Nat
  BY <1>1
<1>3. Least(left) \in left /\ \A n \in left : Least(left) <= n
  BY <1>2, LeastIsLeast
<1>4. PICK r \in M : Least(left) = Len(parts) - Len(r.segments)
  BY <1>3
<1>5. ASSUME NEW t \in M PROVE Len(t.segments) <= Len(r.segments)
  <2>1. Len(parts) - Len(r.segments) <= Len(parts) - Len(t.segments)
    BY <1>3, <1>4
  <2> QED BY <2>1, <1>1, <1>2
<1> QED
  BY <1>5

\* The routes that a path may lead to, and the one it does.
Matches(t, exposed, parts) == {r \in Routes(t) : IsPrefix(r.segments, parts) /\ r.doctype \in exposed}
Winner(t, exposed, parts) ==
  CHOOSE r \in Matches(t, exposed, parts) : \A u \in Matches(t, exposed, parts) : Len(u.segments) <= Len(r.segments)

\* Paths that are not static are resolved by the longest route that matches.
LEMMA ResolveBy ==
  ASSUME NEW t, NEW exposed, NEW parts, NEW verb, parts \notin STATIC
  PROVE  LET found    == Resolve(t, exposed, parts, verb)
             spec     == Winner(t, exposed, parts)
             name     == SubSeq(parts, Len(spec.segments) + 1, Len(parts))
             allowed  == spec.verbs \cap (IF name = <<>> THEN CollectionVerbs ELSE ItemVerbs)
             matching == Matches(t, exposed, parts) IN
         /\ matching # {} /\ verb \in allowed => found = [kind |-> "data", doctype |-> spec.doctype, name |-> name]
         /\ found.kind = "data" => matching # {} /\ found.doctype = spec.doctype
<1> DEFINE spec == Winner(t, exposed, parts)
<1> DEFINE matching == Matches(t, exposed, parts)
<1> DEFINE name == SubSeq(parts, Len(spec.segments) + 1, Len(parts))
<1> DEFINE allowed == spec.verbs \cap (IF name = <<>> THEN CollectionVerbs ELSE ItemVerbs)
<1> DEFINE found == Resolve(t, exposed, parts, verb)
<1>1. found = IF parts \in STATIC THEN [kind |-> "static"]
              ELSE IF matching = {} \/ allowed = {} THEN [kind |-> "error", status |-> 404]
              ELSE IF verb \notin allowed THEN [kind |-> "error", status |-> 405]
              ELSE [kind |-> "data", doctype |-> spec.doctype, name |-> name]
  BY DEF Resolve, Matches, Winner
<1> HIDE DEF spec, matching, name, allowed, found
<1> SUFFICES /\ matching # {} /\ verb \in allowed => found = [kind |-> "data", doctype |-> spec.doctype, name |-> name]
             /\ found.kind = "data" => matching # {} /\ found.doctype = spec.doctype
  BY DEF spec, matching, name, allowed, found
<1>2. CASE matching = {} \/ allowed = {}
  <2>1. matching = {} \/ verb \notin allowed
    BY <1>2
  <2>2. found.kind = "error"
    <3>1. CASE matching = {}
      BY <1>1, <3>1
    <3>2. CASE allowed = {}
      BY <1>1, <3>2
    <3> QED BY <1>2, <3>1, <3>2
  <2> QED BY <2>1, <2>2
<1>3. CASE matching # {} /\ allowed # {} /\ verb \notin allowed
  <2>1. found = [kind |-> "error", status |-> 405]
    BY <1>1, <1>3
  <2> QED BY <1>3, <2>1
<1>4. CASE matching # {} /\ verb \in allowed
  <2>1. found = [kind |-> "data", doctype |-> spec.doctype, name |-> name]
    BY <1>1, <1>4
  <2> QED BY <1>4, <2>1
<1> QED
  BY <1>2, <1>3, <1>4

\* A row marked as exposed is served at its path, unless a longer exposed route
\* takes the path; a row that is not marked is not served.
LEMMA RowsAreServedAsShown ==
  ASSUME NEW s \in SettingsForm, ValidRoutes(s), NEW i \in DOMAIN Validated(s).routes, NEW name \in Seq(Segment),
         LET row == Validated(s).routes[i] IN
         row.verb \in (IF name = <<>> THEN CollectionVerbs ELSE ItemVerbs)
  PROVE  LET t == Validated(s)  row == t.routes[i]  exposed == ComputeExposed(t)
             path == Segments(row) \o name
             found == Resolve(t, exposed, path, row.verb) IN
         \/ \E other \in Routes(t) :
              other.doctype \in exposed /\ Len(other.segments) > Len(Segments(row)) /\ IsPrefix(other.segments, path)
         \/ IF row.exposed THEN found = [kind |-> "data", doctype |-> row.doctype, name |-> name]
            ELSE found.kind = "data" => found.doctype # row.doctype
<1> DEFINE t == Validated(s)
<1> DEFINE row == t.routes[i]
<1> DEFINE exposed == ComputeExposed(t)
<1> DEFINE path == Segments(row) \o name
<1> DEFINE found == Resolve(t, exposed, path, row.verb)
<1> DEFINE matching == Matches(t, exposed, path)
<1> DEFINE spec == Winner(t, exposed, path)
<1> DEFINE mine == RouteSpec(t, Segments(row))
<1>1. /\ Segments(row) \in Seq(Segment) /\ Len(Segments(row)) >= 1 /\ Segments(row)[1] \in SUB_ROUTES
      /\ row.exposed = (row.doctype \in exposed)
  BY ValidatedRows
<1>2. mine \in Routes(t) /\ mine.segments = Segments(row) /\ mine.doctype = row.doctype /\ row.verb \in mine.verbs
  BY RouteOfRow
<1>3. \A r \in Routes(t) : r.segments \in Seq(Segment) /\ r = RouteSpec(t, r.segments)
  BY RoutesAreOfRows
<1> HIDE DEF t, row, exposed, path, found, matching, spec, mine
<1>4. path \in Seq(Segment) /\ path[1] \in SUB_ROUTES
  <2> HIDE DEF Segment
  <2>1. 1 \in 1..Len(Segments(row)) /\ (Segments(row) \o name)[1] = Segments(row)[1]
    BY <1>1
  <2> QED BY <1>1, <2>1 DEF path
<1>5. path \notin STATIC
  BY <1>4 DEF STATIC, SUB_ROUTES
<1>6. IsPrefix(Segments(row), path) /\ SubSeq(path, Len(Segments(row)) + 1, Len(path)) = name
  BY <1>1, PrefixAndRest DEF path
<1>7. SUFFICES ASSUME \A other \in Routes(t) : other.doctype \in exposed /\ IsPrefix(other.segments, path) =>
                        ~ (Len(other.segments) > Len(Segments(row)))
               PROVE  IF row.exposed THEN found = [kind |-> "data", doctype |-> row.doctype, name |-> name]
                      ELSE found.kind = "data" => found.doctype # row.doctype
  BY DEF t, row, exposed, path, found
<1>8. \A r \in matching : r \in Routes(t) /\ IsPrefix(r.segments, path) /\ r.doctype \in exposed
  BY DEF matching, Matches
<1>9. ASSUME matching # {} PROVE spec \in matching /\ \A u \in matching : Len(u.segments) <= Len(spec.segments)
  <2>1. \E r \in matching : \A u \in matching : Len(u.segments) <= Len(r.segments)
    BY <1>3, <1>4, <1>8, <1>9, LongestRoute
  <2> QED BY <2>1 DEF Winner, spec, matching
<1>10. CASE row.exposed
  <2>1. mine \in matching
    BY <1>1, <1>2, <1>6, <1>10 DEF matching, Matches
  <2>2. spec \in matching /\ Len(mine.segments) <= Len(spec.segments)
    BY <1>9, <2>1
  <2>3. Len(spec.segments) = Len(mine.segments)
    <3>1. ~ (Len(spec.segments) > Len(Segments(row)))
      BY <1>7, <1>8, <2>2
    <3>2. Len(spec.segments) \in Nat /\ Len(Segments(row)) \in Nat
      BY <1>1, <1>3, <1>8, <2>2
    <3> QED BY <1>2, <2>2, <3>1, <3>2
  <2>4. spec.segments = Segments(row)
    BY <1>1, <1>2, <1>3, <1>4, <1>6, <1>8, <2>2, <2>3, OnePrefix
  <2>5. spec = mine
    BY <1>3, <1>8, <2>2, <2>4 DEF mine
  <2>6. row.verb \in spec.verbs \cap (IF name = <<>> THEN CollectionVerbs ELSE ItemVerbs)
    BY <1>2, <2>5 DEF row, t
  <2>7. found = [kind |-> "data", doctype |-> spec.doctype, name |-> name]
    BY <1>5, <1>6, <2>1, <2>4, <2>6, ResolveBy DEF found, spec, matching
  <2> QED BY <1>2, <1>10, <2>5, <2>7
<1>11. CASE ~ row.exposed
  <2>1. ASSUME found.kind = "data" PROVE found.doctype # row.doctype
    <3>1. matching # {} /\ found.doctype = spec.doctype
      BY <1>5, <2>1, ResolveBy DEF found, spec, matching
    <3>2. spec.doctype \in exposed
      BY <1>8, <1>9, <3>1
    <3> QED BY <1>1, <1>11, <3>1, <3>2
  <2> QED BY <1>11, <2>1
<1>12. row.exposed \in BOOLEAN
  BY <1>1
<1> QED
  BY <1>10, <1>11, <1>12

\* RoutesServeWhatTheyShow: for any routes, however long and however many, and
\* any names of documents.
THEOREM ShownRoutesAreServed == CallsSpec => []RoutesServeWhatTheyShow
<1>1. call \in Calls => RoutesServeWhatTheyShow
  <2> SUFFICES ASSUME call \in Calls, call.about = "routes" PROVE ServesWhatItShows(call.form, Rest)
    BY DEF RoutesServeWhatTheyShow
  <2> DEFINE s == call.form
  <2>1. s \in SettingsForm
    BY FormAssumption DEF Calls
  <2> HIDE DEF s
  <2>2. ASSUME ValidSettings(s), NEW row \in ToSet(Validated(s).routes),
               NEW name \in (IF row.verb \in CollectionVerbs THEN {<<>>} ELSE {}) \cup
                            (IF row.verb \in ItemVerbs THEN Rest ELSE {})
        PROVE  LET found == Resolve(Validated(s), ComputeExposed(Validated(s)), Segments(row) \o name, row.verb) IN
               \/ \E other \in Routes(Validated(s)) :
                    /\ other.doctype \in ComputeExposed(Validated(s))
                    /\ Len(other.segments) > Len(Segments(row))
                    /\ IsPrefix(other.segments, Segments(row) \o name)
               \/ IF row.exposed THEN found = [kind |-> "data", doctype |-> row.doctype, name |-> name]
                  ELSE found.kind = "data" => found.doctype # row.doctype
    <3>1. PICK i \in DOMAIN Validated(s).routes : row = Validated(s).routes[i]
      BY DEF ToSet
    <3>2. ValidRoutes(s)
      BY <2>2 DEF ValidSettings
    <3>3. name \in Seq(Segment) /\ row.verb \in (IF name = <<>> THEN CollectionVerbs ELSE ItemVerbs)
      <4>1. \A r \in Rest : r \in Seq(STRING) /\ r # <<>>
        BY FormAssumption
      <4>2. CASE name = <<>> /\ row.verb \in CollectionVerbs
        BY <4>2
      <4>3. CASE name \in Rest /\ row.verb \in ItemVerbs
        BY <4>1, <4>3 DEF Segment
      <4> QED BY <2>2, <4>2, <4>3
    <3> QED BY <2>1, <3>1, <3>2, <3>3, RowsAreServedAsShown
  <2> QED BY <2>2 DEF ServesWhatItShows, s
<1> QED
  BY <1>1, CallsAreTyped, PTL

-----------------------------------------------------------------------------
(* Extra Params, lookups and bodies.                                       *)

\* The values of a param are allowed by it, once the params load; it has some;
\* and a DocType and field have one param.
LEMMA ParamValues ==
  ASSUME NEW profile, NEW d, NEW p \in ForDoctype(profile, d)
  PROVE  /\ p.values # {}
         /\ ParamsLoad(profile) => \A v \in p.values : Allowed(p, v)
         /\ \A q \in ForDoctype(profile, d) : q.field = p.field => q = p
<1>1. PICK f \in {row.field : row \in {r \in ToSet(profile) : r.doctype = d}} :
        p = [field |-> f, type |-> ParamType(profile, d, f), rows |-> Cardinality(ParamRows(profile, d, f)),
             values |-> {profile[i].value : i \in ParamRows(profile, d, f)}]
  BY DEF ForDoctype
<1>2. p.field = f /\ p.type = ParamType(profile, d, f) /\ p.values = {profile[i].value : i \in ParamRows(profile, d, f)}
  BY <1>1
<1>3. p.values # {}
  <2>1. PICK i \in DOMAIN profile : profile[i].doctype = d /\ profile[i].field = f
    BY DEF ToSet
  <2>2. i \in ParamRows(profile, d, f)
    BY <2>1 DEF ParamRows
  <2>3. profile[i].value \in p.values
    BY <1>2, <2>2
  <2> QED BY <2>3
<1>4. ASSUME ParamsLoad(profile), NEW v \in p.values PROVE Allowed(p, v)
  <2>1. PICK i \in ParamRows(profile, d, f) : v = profile[i].value
    BY <1>2
  <2>2. i \in DOMAIN profile /\ profile[i].doctype = d /\ profile[i].field = f
    BY DEF ParamRows
  <2>3. Casts(v, ParamType(profile, d, f))
    BY <1>4, <2>1, <2>2 DEF ParamsLoad
  <2> QED BY <1>2, <2>3 DEF Allowed
<1>5. ASSUME NEW q \in ForDoctype(profile, d), q.field = p.field PROVE q = p
  <2>1. PICK g : q = [field |-> g, type |-> ParamType(profile, d, g), rows |-> Cardinality(ParamRows(profile, d, g)),
                      values |-> {profile[i].value : i \in ParamRows(profile, d, g)}]
    BY DEF ForDoctype
  <2>2. g = f
    BY <1>2, <1>5, <2>1
  <2> QED BY <1>1, <2>1, <2>2
<1> QED
  BY <1>3, <1>4, <1>5

\* A property is the one of its field.
LEMMA PropOfField ==
  ASSUME NEW s, NEW d \in DocType, NEW p \in Props(s, d)
  PROVE  PropOf(Entity(s, d), p.field) = p
<1>1. Entity(s, d).props = Props(s, d)
  BY DEF Entity
<1>2. \A q \in Props(s, d) : q.field = p.field => q = p
  BY ItemOfField DEF ItemsOf
<1> QED
  BY <1>1, <1>2 DEF PropOf

\* What a body says of a lookup field is nothing, or leads to visible records.
LEMMA BodiesMeanVisibleRecords ==
  ASSUME NEW w, NEW profile, NEW s, NEW d \in DocType, NEW body,
         NEW a \in ParseBody(w, profile, Entity(s, d), body), a.status = 200,
         NEW p \in Props(s, d), p.lookup # None, p.field \in DOMAIN a.data
  PROVE  a.data[p.field] = 0 \/ Matched(w, profile, p, a.data[p.field]) # {}
<1> DEFINE e == Entity(s, d)
<1> DEFINE of(public) == {q \in e.props : q.public = public}
<1> DEFINE known == {pair \in body : \E q \in of(pair[1]) : ~ q.read_only}
<1> DEFINE prop(f) == PropOf(e, f)
<1> DEFINE sent(f) == CHOOSE pair \in known : pair[1] = prop(f).public
<1> DEFINE inside(f) == IF prop(f).lookup = None \/ sent(f)[2] = 0 THEN {sent(f)[2]}
                        ELSE ToInternal(w, profile, prop(f), {sent(f)[2]})
<1> DEFINE fields == {q.field : q \in UNION {of(pair[1]) : pair \in known}}
<1>1. ParseBody(w, profile, e, body) =
        IF known # body \/ \E f \in fields : inside(f) = {} THEN {Error(400)}
        ELSE {[status |-> 200, data |-> data]
                : data \in {g \in [fields -> UNION {inside(f) : f \in fields}] : \A f \in fields : g[f] \in inside(f)}}
  BY DEF ParseBody
<1>2. PropOf(e, p.field) = p
  BY PropOfField
<1> DEFINE v == a.data[p.field]
<1> HIDE DEF e, known, fields
<1>3. v \in inside(p.field)
  <2> HIDE DEF inside
  <2>1. a # Error(400)
    BY DEF Error
  <2>2. PICK data \in {g \in [fields -> UNION {inside(f) : f \in fields}] : \A f \in fields : g[f] \in inside(f)} :
          a = [status |-> 200, data |-> data]
    BY <1>1, <2>1 DEF e
  <2> QED BY <2>2
<1> HIDE DEF sent, v
<1>4. CASE sent(p.field)[2] = 0
  BY <1>2, <1>3, <1>4 DEF v
<1>5. CASE v \in ToInternal(w, profile, p, {sent(p.field)[2]})
  <2>1. PICK r \in LookupRows(w, profile, p, {<<"cond", p.lookup.value, "in", {sent(p.field)[2]}>>}) :
          v = r[p.lookup.match] /\ v # 0
    BY <1>5 DEF ToInternal
  <2> DEFINE rows == LookupRows(w, profile, p, {<<"cond", p.lookup.match, "=", v>>})
  <2>2. r \in rows
    <3>1. Holds(<<"cond", p.lookup.match, "=", v>>, r)
      BY <2>1 DEF Holds
    <3> QED BY <2>1, <3>1 DEF LookupRows, GetList
  <2>3. Matched(w, profile, p, v) = {x[p.lookup.value] : x \in rows}
    BY Zenon, <2>1 DEF Matched
  <2> HIDE DEF rows
  <2>4. r[p.lookup.value] \in {x[p.lookup.value] : x \in rows}
    BY <2>2
  <2>5. Matched(w, profile, p, v) # {}
    BY <2>3, <2>4
  <2> QED BY <2>5 DEF v
<1> QED
  BY <1>2, <1>3, <1>4, <1>5

\* The names of the columns: those of properties and tables, and of what Extra
\* Params and lookups are about.
LEMMA PropNamesColumn ==
  ASSUME NEW s, NEW d \in DocType, NEW p \in ItemsOf(s, d)
  PROVE  p.field \in {c.name : c \in ToSet(Columns[d])}
<1>1. p.at \in DOMAIN Columns[d] /\ p.field = Columns[d][p.at].name
  BY PropIsColumn, TableIsColumn DEF ItemsOf, Seen
<1> QED
  BY <1>1 DEF ToSet

\* What HasField accepts is a column.
LEMMA FieldNamesColumn ==
  ASSUME NEW d \in DocType, NEW f, HasField(d, f)
  PROVE  f \in {c.name : c \in ToSet(Columns[d])}
<1>1. CASE f = "name"
  <2>1. 1 \in DOMAIN Columns[d] /\ Columns[d][1].name = f
    BY <1>1, ColumnsAreNamed
  <2> QED BY <2>1 DEF ToSet
<1>2. CASE f # "name"
  <2>1. PICK i \in DOMAIN Meta[d].fields : Meta[d].fields[i].name = f
    BY <1>2 DEF HasField, ToSet
  <2>2. i + Len(Standard(d)) \in DOMAIN Columns[d] /\ Columns[d][i + Len(Standard(d))].name = f
    BY <2>1, ColumnsAreNamed
  <2> QED BY <2>2 DEF ToSet
<1> QED
  BY <1>1, <1>2

\* The field of a param is a column, or the owner.
LEMMA ParamNamesColumn ==
  ASSUME NEW profile, ValidProfile(profile), NEW d \in DocType, NEW p \in ForDoctype(profile, d)
  PROVE  p.field \in {c.name : c \in ToSet(Columns[d])} \cup {"owner"}
<1>1. PICK row \in ToSet(profile) : row.doctype = d /\ p.field = row.field
  BY DEF ForDoctype
<1>2. row.field = "owner" \/ HasField(d, row.field)
  BY <1>1 DEF ValidProfile
<1> QED
  BY <1>1, <1>2, FieldNamesColumn

\* A lookup field is one of the DocType's own, which a new row leaves empty.
LEMMA LookupFieldsAreOwn ==
  ASSUME NEW s, NEW d \in DocType, NEW p \in Props(s, d), p.lookup # None
  PROVE  \E g \in ToSet(Meta[d].fields) : g.name = p.field /\ g.type \notin TableTypes \cup SkipTypes
<1>1. /\ p.at \in DOMAIN Columns[d] /\ Columns[d][p.at].type \notin TableTypes \cup SkipTypes
      /\ p = Prop(s, d, p.at) /\ p.field = Columns[d][p.at].name
  BY PropIsColumn DEF Seen
<1>2. ~ (p.at <= Len(Standard(d)))
  <2>1. ASSUME p.at <= Len(Standard(d)) PROVE p.lookup = None
    <3>1. p = StandardProp(s, d, p.at)
      BY <1>1, <2>1 DEF Prop
    <3> QED BY <3>1 DEF StandardProp
  <2> QED BY <2>1
<1>3. p.at - Len(Standard(d)) \in DOMAIN Meta[d].fields /\ Columns[d][p.at] = Meta[d].fields[p.at - Len(Standard(d))]
  BY <1>1, <1>2, ColumnsAreNamed
<1> QED
  BY <1>1, <1>3 DEF ToSet

\* A new row leaves lookup fields empty.
LEMMA LookupFieldsAreBlank ==
  ASSUME NEW s, NEW d \in Served, NEW p \in Props(s, d), p.lookup # None
  PROVE  p.field \in DOMAIN Blank[d] /\ Blank[d][p.field] = 0
<1>1. d \in DocType
  BY ServedAssumption
<1>2. PICK g \in ToSet(Meta[d].fields) : g.name = p.field /\ g.type \notin TableTypes \cup SkipTypes
  BY <1>1, LookupFieldsAreOwn
<1>3. Blank[d][p.field] = 0
  BY <1>2, ServedAssumption
<1>4. p.field \in DOMAIN Blank[d]
  BY <1>1, PropNamesColumn, ServedAssumption DEF RowOf, ItemsOf
<1> QED
  BY <1>3, <1>4

\* A document that was created or updated is within the params, and every lookup
\* field that restricts rows is empty, set by a param, or visible.
LEMMA WritesAreInScope ==
  ASSUME NEW w \in World, NEW profile, NEW s, NEW d \in Served, NEW name, NEW body
  PROVE  WriteStaysInScope(w, profile, s, d, name, body, Blank[d])
<1> DEFINE e == Entity(s, d)
<1> DEFINE GoodRow(row) ==
      /\ InScope(profile, d, row)
      /\ \A p \in Restricting(profile, e) :
           \/ row[p.field] = 0 \/ \E q \in ForDoctype(profile, d) : q.field = p.field
           \/ Matched(w, profile, p, row[p.field]) # {}
<1> SUFFICES ASSUME ParamsLoad(profile), ValidProfile(profile),
                    NEW row \in Created(w, profile, s, d, body, Blank[d]) \cup Updated(w, profile, s, d, name, body)
             PROVE  GoodRow(row)
  BY DEF WriteStaysInScope, Answerable
<1>1. d \in DocType /\ e.props = Props(s, d)
  BY ServedAssumption DEF Entity
<1>2. \A p \in Restricting(profile, e) : p \in Props(s, d) /\ p.lookup # None
  BY <1>1 DEF Restricting
<1> HIDE DEF e
<1>3. ASSUME row \in Created(w, profile, s, d, body, Blank[d])
      PROVE  GoodRow(row)
  <2>1. PICK a \in ParseBody(w, profile, e, body) :
          /\ a.status = 200 /\ ApplyToNew(profile, d, a.data).status = 200
          /\ row = Over(ApplyToNew(profile, d, a.data).data, Blank[d])
    BY <1>3 DEF Created, e
  <2> DEFINE b == ApplyToNew(profile, d, a.data)
  <2> DEFINE missing == Missing(profile, d, a.data)
  <2> DEFINE fill == [f \in {p.field : p \in missing} |-> CHOOSE v \in (CHOOSE p \in missing : p.field = f).values : TRUE]
  <2>2. b = [status |-> 200, data |-> Over(a.data, fill)] /\ \A p \in ForDoctype(profile, d) \ missing : Allowed(p, a.data[p.field])
    <3>1. Error(400).status = 400 /\ Error(403).status = 403
      BY DEF Error
    <3>2. /\ \A p \in ForDoctype(profile, d) \ missing : Allowed(p, a.data[p.field])
          /\ b = Filled(a.data, missing)
      BY <2>1, <3>1 DEF ApplyToNew
    <3>3. b = [status |-> 200, data |-> Over(a.data, fill)]
      BY <2>1, <3>1, <3>2 DEF Filled
    <3> QED BY <3>2, <3>3
  <2>3. \A p \in ForDoctype(profile, d) : p \in missing <=> p.field \notin DOMAIN a.data
    BY DEF Missing
  <2>4. missing \subseteq ForDoctype(profile, d)
    BY DEF Missing
  <2> HIDE DEF missing
  <2>5. \A x : /\ x \in DOMAIN a.data => row[x] = a.data[x]
               /\ x \in DOMAIN fill \ DOMAIN a.data => row[x] = fill[x]
               /\ x \in DOMAIN Blank[d] /\ x \notin DOMAIN a.data \cup DOMAIN fill => row[x] = Blank[d][x]
    <3> HIDE DEF fill
    <3> QED BY <2>1, <2>2 DEF Over
  <2>6. ASSUME NEW p \in missing PROVE p.field \in DOMAIN fill /\ fill[p.field] \in p.values
    <3>1. (CHOOSE q \in missing : q.field = p.field) = p
      BY <2>4, ParamValues
    <3>2. p.values # {}
      BY <2>4, ParamValues
    <3> QED BY <3>1, <3>2
  <2>7. DOMAIN fill = {p.field : p \in missing}
    OBVIOUS
  <2> HIDE DEF fill
  <2>8. InScope(profile, d, row)
    <3>1. ASSUME NEW p \in ForDoctype(profile, d) PROVE Allowed(p, row[p.field])
      <4>1. CASE p \in missing
        BY <2>3, <2>5, <2>6, <4>1, ParamValues
      <4>2. CASE p \notin missing
        BY <2>2, <2>3, <2>5, <4>2
      <4> QED BY <4>1, <4>2
    <3> QED BY <3>1 DEF InScope
  <2>9. ASSUME NEW p \in Restricting(profile, e)
        PROVE  \/ row[p.field] = 0 \/ \E q \in ForDoctype(profile, d) : q.field = p.field
               \/ Matched(w, profile, p, row[p.field]) # {}
    <3>1. CASE p.field \in DOMAIN a.data
      BY <1>1, <1>2, <2>1, <2>5, <3>1, BodiesMeanVisibleRecords DEF e
    <3>2. CASE p.field \in DOMAIN fill
      BY <2>4, <2>7, <3>2
    <3>3. CASE p.field \notin DOMAIN a.data \cup DOMAIN fill
      <4>1. p.field \in DOMAIN Blank[d] /\ Blank[d][p.field] = 0
        BY <1>1, <1>2, LookupFieldsAreBlank
      <4> QED BY <2>5, <3>3, <4>1
    <3> QED BY <3>1, <3>2, <3>3
  <2> QED BY <2>8, <2>9
<1>4. ASSUME row \in Updated(w, profile, s, d, name, body)
      PROVE  GoodRow(row)
  <2>1. PICK a \in ParseBody(w, profile, e, body), old \in GetInScope(w, profile, s, d, name) :
          a.status = 200 /\ UpdateAllowed(profile, d, a.data) /\ row = Over(a.data, old)
    BY <1>4 DEF Updated, e
  <2>2. old \in w.rows[d] /\ InScope(profile, d, old) /\ LookupsAllowed(w, profile, e, old)
    BY DEF GetInScope, e
  <2>3. \A x : /\ x \in DOMAIN a.data => row[x] = a.data[x]
               /\ x \in DOMAIN old \ DOMAIN a.data => row[x] = old[x]
    BY <2>1 DEF Over
  <2>4. {c.name : c \in ToSet(Columns[d])} \cup {"owner"} \subseteq DOMAIN old
    BY <1>1, <2>2, WorldAssumption DEF RowOf
  <2>5. InScope(profile, d, row)
    <3>1. ASSUME NEW p \in ForDoctype(profile, d) PROVE Allowed(p, row[p.field])
      <4>1. CASE p.field \in DOMAIN a.data
        BY <2>1, <2>3, <4>1 DEF UpdateAllowed
      <4>2. CASE p.field \notin DOMAIN a.data
        <5>1. p.field \in DOMAIN old
          BY <1>1, <2>4, ParamNamesColumn
        <5> QED BY <2>2, <2>3, <4>2, <5>1 DEF InScope
      <4> QED BY <4>1, <4>2
    <3> QED BY <3>1 DEF InScope
  <2>6. ASSUME NEW p \in Restricting(profile, e)
        PROVE  row[p.field] = 0 \/ Matched(w, profile, p, row[p.field]) # {}
    <3>1. CASE p.field \in DOMAIN a.data
      BY <1>1, <1>2, <2>1, <2>3, <3>1, BodiesMeanVisibleRecords DEF e
    <3>2. CASE p.field \notin DOMAIN a.data
      <4>1. p.field \in DOMAIN old
        BY <1>1, <1>2, <2>4, PropNamesColumn DEF ItemsOf
      <4> QED BY <2>2, <2>3, <3>2, <4>1 DEF LookupsAllowed
    <3> QED BY <3>1, <3>2
  <2> QED BY <2>5, <2>6
<1> QED
  BY <1>3, <1>4

\* WritesStayInScope: for any params, lookups, rows and bodies.
THEOREM WritesAreKeptInScope == CallsSpec => []WritesStayInScope
<1>1. call \in Calls => WritesStayInScope
  <2> SUFFICES ASSUME call \in Calls, call.about = "write"
               PROVE  WriteStaysInScope(call.w, call.profile, call.form, call.doctype, call.name, call.body, Blank[call.doctype])
    BY DEF WritesStayInScope
  <2>1. call.w \in World /\ call.doctype \in Served
    BY DEF Calls
  <2> QED BY <2>1, WritesAreInScope
<1> QED
  BY <1>1, CallsAreTyped, PTL

-----------------------------------------------------------------------------
(* Lists and reads.                                                        *)

\* The filters of a list that stand for params hold of the rows in scope.
LEMMA FiltersAreScope ==
  ASSUME NEW profile, ParamsLoad(profile), NEW d, NEW row
  PROVE  InScope(profile, d, row) <=> \A c \in ListFilters(profile, d) : Holds(c, row)
<1>1. ASSUME NEW p \in ForDoctype(profile, d)
      PROVE  Allowed(p, row[p.field]) <=> Holds(<<"cond", p.field, "in", p.values>>, row)
  <2>1. Holds(<<"cond", p.field, "in", p.values>>, row) <=> row[p.field] \in p.values
    BY DEF Holds
  <2>2. Allowed(p, row[p.field]) => row[p.field] \in p.values
    BY DEF Allowed
  <2> QED BY <2>1, <2>2, ParamValues
<1> QED
  BY <1>1 DEF InScope, ListFilters

\* A value is matched if a visible record has it.
LEMMA MatchedByRecord ==
  ASSUME NEW w, NEW profile, NEW p, NEW v
  PROVE  Matched(w, profile, p, v) # {} <=> v \in {r[p.lookup.match] : r \in LookupRows(w, profile, p, {})} \ {0}
<1> DEFINE c == <<"cond", p.lookup.match, "=", v>>
<1> DEFINE rows == LookupRows(w, profile, p, {c})
<1>1. \A r : Holds(c, r) <=> r[p.lookup.match] = v
  BY DEF Holds
<1> HIDE DEF c
<1>2. \A r : r \in rows <=> r \in LookupRows(w, profile, p, {}) /\ Holds(c, r)
  BY DEF LookupRows, GetList
<1>3. v # 0 => Matched(w, profile, p, v) = {r[p.lookup.value] : r \in rows}
  BY Zenon DEF Matched, c
<1>4. v = 0 => Matched(w, profile, p, v) = {}
  BY Zenon DEF Matched
<1> HIDE DEF rows
<1>5. v # 0 => (Matched(w, profile, p, v) # {} <=> rows # {})
  BY <1>3
<1> QED
  BY <1>1, <1>2, <1>4, <1>5

\* The filters of a list that stand for lookups hold of the rows whose lookup
\* fields are visible.
LEMMA RestrictionsAreLookups ==
  ASSUME NEW w, NEW profile, NEW e, NEW row
  PROVE  LookupsAllowed(w, profile, e, row) <=> \A c \in Restrictions(w, profile, e) : Holds(c, row)
<1> DEFINE visible(p) == {r[p.lookup.match] : r \in LookupRows(w, profile, p, {})} \ {0}
<1>1. Restrictions(w, profile, e) = {InFilter(p.field, visible(p), FALSE) : p \in Restricting(profile, e)}
  BY DEF Restrictions
<1>2. \A p : Matched(w, profile, p, row[p.field]) # {} <=> row[p.field] \in visible(p)
  BY MatchedByRecord
<1> HIDE DEF visible
<1>3. \A p : Holds(InFilter(p.field, visible(p), FALSE), row) <=> row[p.field] \in visible(p)
  BY DEF Holds, InFilter
<1> QED
  BY <1>1, <1>2, <1>3 DEF LookupsAllowed

\* A document can be read by whom it is readable and in whose scope it is.
LEMMA ReadableDocuments ==
  ASSUME NEW w \in World, NEW profile, ParamsLoad(profile), NEW s, NEW d \in DocType, NEW row \in w.rows[d]
  PROVE  ReadDocument(w, profile, s, d, row["name"], <<>>).status = 200
           <=> row["name"] \in w.readable[d] /\ InScope(profile, d, row) /\ LookupsAllowed(w, profile, Entity(s, d), row)
<1> DEFINE e == Entity(s, d)
<1> DEFINE chosen == ToSet(Select(e, <<>>, TRUE))
<1> DEFINE found == GetInScope(w, profile, s, d, row["name"])
<1> DEFINE answer == [status |-> 200, value |-> SerializeDocument(w, profile, s, e, CHOOSE r \in found : TRUE, chosen)]
<1>1. chosen = {}
  BY DEF Select, ToSet
<1>2. ReadDocument(w, profile, s, d, row["name"], <<>>) =
        IF None \in chosen THEN Error(400)
        ELSE IF \A r \in w.rows[d] : r["name"] # row["name"] THEN Error(404)
        ELSE IF ~ ParamsLoad(profile) THEN Error(500)
        ELSE IF found = {} THEN Error(404)
        ELSE IF row["name"] \notin w.readable[d] THEN Error(403)
        ELSE answer
  BY DEF ReadDocument
<1>3. found # {} <=> InScope(profile, d, row) /\ LookupsAllowed(w, profile, e, row)
  <2>1. \A r \in w.rows[d] : r["name"] = row["name"] => r = row
    BY WorldAssumption
  <2> QED BY <2>1 DEF GetInScope
<1>4. Error(403).status # 200 /\ Error(404).status # 200 /\ answer.status = 200
  BY DEF Error
<1> HIDE DEF answer, found, chosen, e
<1> QED
  BY <1>1, <1>2, <1>3, <1>4 DEF e

\* The name of a document is always one of its properties, and no lookup.
LEMMA NameIsProp ==
  ASSUME NEW s, ValidExcludedFields(s), NEW d \in DocType
  PROVE  \E p \in Props(s, d) : p.field = "name" /\ p.lookup = None
<1>1. 1 \in DOMAIN Columns[d] /\ Columns[d][1].name = "name" /\ Columns[d][1].type = "Data" /\ 1 <= Len(Standard(d))
  BY ColumnsAreNamed
<1>2. "name" \notin ExcludedFields(s, d)
  <2>1. ASSUME NEW row \in ToSet(s.excluded_fields) PROVE "name" \notin ToSet(row.fieldnames)
    <3>1. PICK i \in DOMAIN s.excluded_fields : row = s.excluded_fields[i]
      BY DEF ToSet
    <3> QED BY <3>1 DEF ValidExcludedFields
  <2> QED BY <2>1 DEF ExcludedFields
<1>3. 1 \in Seen(s, d) /\ Columns[d][1].type \notin TableTypes \cup SkipTypes
  BY <1>1, <1>2 DEF Seen, TableTypes, SkipTypes
<1>4. Prop(s, d, 1) \in Props(s, d)
  BY <1>3 DEF Props
<1>5. Prop(s, d, 1) = StandardProp(s, d, 1)
  BY <1>1 DEF Prop
<1>6. StandardProp(s, d, 1).field = "name" /\ StandardProp(s, d, 1).lookup = None
  BY <1>1 DEF StandardProp
<1> QED
  BY <1>4, <1>5, <1>6

\* In a row for clients the public name of "name" has the name of the row.
LEMMA NameIsShown ==
  ASSUME NEW s, ValidSettings(s), NEW d \in DocType, NEW w, NEW profile, NEW row, "name" \in DOMAIN row,
         NEW props \in SUBSET Props(s, d), NEW n \in props, n.field = "name"
  PROVE  /\ <<Public(Entity(s, d), "name"), row["name"]>> \in SerializeRow(w, profile, props, row)
         /\ \A x \in SerializeRow(w, profile, props, row) : x[1] = Public(Entity(s, d), "name") => x[2] = row["name"]
<1> DEFINE id == Public(Entity(s, d), "name")
<1> DEFINE shown == SerializeRow(w, profile, props, row)
<1> DEFINE val(p) == IF p.lookup = None THEN row[p.field] ELSE ToPublic(w, profile, p, row[p.field])
<1>1. ValidExcludedFields(s) /\ ValidFieldMappings(s)
  BY DEF ValidSettings
<1>2. n.lookup = None
  BY <1>1, NameIsProp, ItemOfField DEF ItemsOf
<1>3. n \in Props(s, d) /\ id = n.public
  BY <1>1, <1>2, NamesLeadBack DEF ItemsOf
<1>4. \A p \in props : p.public = id => p = n
  BY <1>1, <1>3, PublicNamesDiffer DEF ItemsOf
<1>5. shown = {<<p.public, val(p)>> : p \in {q \in props : q.field \in DOMAIN row}}
  BY DEF SerializeRow
<1>6. val(n) = row["name"]
  BY <1>2
<1> HIDE DEF id, shown, val
<1>7. <<id, row["name"]>> \in shown
  BY <1>3, <1>5, <1>6
<1>8. ASSUME NEW x \in shown, x[1] = id PROVE x[2] = row["name"]
  <2>1. PICK p \in props : x = <<p.public, val(p)>>
    BY <1>5
  <2> QED BY <1>4, <1>6, <1>8, <2>1
<1> QED
  BY <1>7, <1>8 DEF id, shown

\* The pieces of a query, and what is known of them once it is accepted.
ListedFields(e)          == {p.field : p \in {q \in e.props : q.in_lists}}
ChosenFields(e, args)    == IF args.select = <<>> THEN ListedFields(e) ELSE ToSet(Select(e, args.select, FALSE))
SoughtRows(w, profile, e, args) ==
  ToSet(FilterConditions(w, profile, e, args.filter.filters)) \cup
  UNION {ParamConditions(w, profile, ParamNamed(e, args.params[i].name), args.params[i].values) : i \in DOMAIN args.params}
EitherRows(w, profile, e, args) == ToSet(FilterConditions(w, profile, e, args.filter.or_filters))
PageTop(s, args) ==
  LET wanted == IF args.top = <<>> THEN PageSize(s) ELSE args.top[1] IN
  IF wanted <= MaxPageSize(s) THEN wanted ELSE MaxPageSize(s)

\* A query that is accepted names known parameters, fields that lists show, and
\* conditions and an order on fields that clients may name.
LEMMA AcceptedQuery ==
  ASSUME NEW w, NEW profile, NEW s, NEW e, NEW args, ParseList(w, profile, s, e, args).status = 200
  PROVE  /\ \A i \in DOMAIN args.params : args.params[i].name \in {p.name : p \in FieldParameters(e)}
         /\ ChosenFields(e, args) \subseteq ListedFields(e)
         /\ None \notin ToSet(FilterConditions(w, profile, e, args.filter.filters)) \cup EitherRows(w, profile, e, args)
         /\ \A i \in DOMAIN OrderBy(e, args.orderby) : OrderBy(e, args.orderby)[i].field # None
         /\ ParseList(w, profile, s, e, args) =
              [status |-> 200, fields |-> ChosenFields(e, args) \cup {"name"}, order_by |-> OrderBy(e, args.orderby),
               top |-> PageTop(s, args), filters |-> SoughtRows(w, profile, e, args),
               or_filters |-> EitherRows(w, profile, e, args)]
<1> DEFINE known == \A i \in DOMAIN args.params : args.params[i].name \in {p.name : p \in FieldParameters(e)}
<1> DEFINE chosen == ChosenFields(e, args)
<1> DEFINE listed == ListedFields(e)
<1> DEFINE filters == ToSet(FilterConditions(w, profile, e, args.filter.filters))
<1> DEFINE groups == EitherRows(w, profile, e, args)
<1> DEFINE order == OrderBy(e, args.orderby)
<1> DEFINE top == PageTop(s, args)
<1> DEFINE sought == SoughtRows(w, profile, e, args)
<1> DEFINE ordered == \A i \in DOMAIN order : order[i].field # None
<1> DEFINE q == [status |-> 200, fields |-> chosen \cup {"name"}, order_by |-> order, top |-> top,
                 filters |-> sought, or_filters |-> groups]
<1> DEFINE parsed == ParseList(w, profile, s, e, args)
<1>1. parsed =
        IF (\E i \in DOMAIN args.params : args.params[i].name \notin {p.name : p \in FieldParameters(e)}) \/ ~ chosen \subseteq listed
        THEN Error(400)
        ELSE IF args.filter.status # 200 THEN Error(args.filter.status)
        ELSE IF None \in filters \cup groups \/ top = 0 \/ \E i \in DOMAIN order : order[i].field = None THEN Error(400)
        ELSE q
  BY DEF ParseList, ChosenFields, ListedFields, SoughtRows, EitherRows, PageTop
<1>2. parsed.status = 200
  OBVIOUS
<1>3. \A status : Error(status).status = status
  BY DEF Error
<1> HIDE DEF chosen, listed, filters, groups, order, top, sought, q, parsed
<1>4. /\ \A i \in DOMAIN args.params : args.params[i].name \in {p.name : p \in FieldParameters(e)}
      /\ chosen \subseteq listed
  BY <1>1, <1>2, <1>3
<1>5. args.filter.status = 200
  BY <1>1, <1>2, <1>3, <1>4
<1>6. None \notin filters \cup groups /\ \A i \in DOMAIN order : order[i].field # None
  BY <1>1, <1>2, <1>3, <1>4, <1>5
<1>7. parsed = q
  BY <1>1, <1>2, <1>3, <1>4, <1>5
<1> QED
  BY <1>4, <1>6, <1>7 DEF chosen, listed, filters, groups, order, top, sought, q, parsed

\* As many as there were before, where a function tells them apart.
LEMMA ImagesAreAsMany ==
  ASSUME NEW S, IsFiniteSet(S), NEW f, f = [x \in S |-> f[x]], \A x, y \in S : f[x] = f[y] => x = y
  PROVE  IsFiniteSet({f[x] : x \in S}) /\ Cardinality({f[x] : x \in S}) = Cardinality(S)
<1> DEFINE T == {f[x] : x \in S}
<1>1. f \in [S -> T]
  OBVIOUS
<1>2. f \in Injection(S, T)
  BY <1>1 DEF Injection, IsInjective
<1>3. f \in Surjection(S, T)
  BY <1>1 DEF Surjection
<1>4. ExistsBijection(S, T)
  BY <1>2, <1>3 DEF ExistsBijection, Bijection
<1> HIDE DEF T
<1>5. IsFiniteSet(T) /\ Cardinality(T) = Cardinality(S)
  BY <1>4, FS_Bijection
<1> QED
  BY <1>5 DEF T

\* A query without options asks for all rows, newest first.
LEMMA QueryOfNoOptions ==
  ASSUME NEW w, NEW profile, NEW s, ValidSettings(s), NEW e, ParseList(w, profile, s, e, NoOptions).status = 200
  PROVE  LET q == ParseList(w, profile, s, e, NoOptions) IN
         /\ q.filters = {} /\ q.or_filters = {} /\ q.top = PageSize(s)
         /\ q.order_by = <<[field |-> "creation", desc |-> TRUE]>>
<1>1. /\ NoOptions.select = <<>> /\ NoOptions.params = <<>> /\ NoOptions.orderby = <<>> /\ NoOptions.top = <<>>
      /\ NoOptions.filter.filters = <<>> /\ NoOptions.filter.or_filters = <<>>
  BY DEF NoOptions
<1>2. ToSet(FilterConditions(w, profile, e, <<>>)) = {}
  BY DEF FilterConditions, ToSet
<1>3. SoughtRows(w, profile, e, NoOptions) = {} /\ EitherRows(w, profile, e, NoOptions) = {}
  BY <1>1, <1>2 DEF SoughtRows, EitherRows
<1>4. PageTop(s, NoOptions) = PageSize(s)
  BY <1>1 DEF PageTop, ValidSettings
<1>5. OrderBy(e, NoOptions.orderby) = <<[field |-> "creation", desc |-> TRUE]>>
  BY <1>1 DEF OrderBy
<1> QED
  BY <1>3, <1>4, <1>5, AcceptedQuery

\* Every row of a list has a place among the rows found, the last one at most.
LEMMA PlacesAreInList ==
  ASSUME NEW rows, IsFiniteSet(rows), NEW row \in rows, Stored[row["name"]] \in Nat,
         NEW order, order = <<[field |-> "creation", desc |-> TRUE]>>
  PROVE  PlaceOf(order, rows, row) \in Nat /\ PlaceOf(order, rows, row) < Cardinality(rows)
<1> DEFINE ahead == {r \in rows : Before(order, r, row)}
<1>1. ~ Before(order, row, row)
  <2>1. {i \in DOMAIN order : row[order[i].field] # row[order[i].field]} = {}
    OBVIOUS
  <2> QED BY <2>1 DEF Before
<1>2. ahead \in SUBSET rows /\ row \notin ahead
  BY <1>1
<1> HIDE DEF ahead
<1>3. IsFiniteSet(ahead) /\ Cardinality(ahead) <= Cardinality(rows) /\ Cardinality(ahead) # Cardinality(rows)
  BY <1>2, FS_Subset
<1>4. Cardinality(ahead) \in Nat /\ Cardinality(rows) \in Nat
  BY <1>3, FS_CardinalityType
<1> QED
  BY <1>3, <1>4 DEF PlaceOf, ahead

\* The names of rows; the rows of a page at their places; and what such a page
\* has under a public name.
RowNames(rows) == {row["name"] : row \in rows}
PageOf(w, profile, props, place, page) == {<<place[row], SerializeRow(w, profile, props, row)>> : row \in page}
ValuesUnder(value, id) == {pair[2] : pair \in {x \in UNION {item[2] : item \in value} : x[1] = id}}

\* The names in a list are those of the rows of its page.
LEMMA NamesOfPage ==
  ASSUME NEW s, ValidSettings(s), NEW d \in DocType, NEW w, NEW profile, NEW page,
         \A row \in page : "name" \in DOMAIN row,
         NEW props \in SUBSET Props(s, d), NEW n \in props, n.field = "name",
         NEW place
  PROVE  ValuesUnder(PageOf(w, profile, props, place, page), Public(Entity(s, d), "name")) = RowNames(page)
<1> DEFINE id == Public(Entity(s, d), "name")
<1> DEFINE shown(row) == SerializeRow(w, profile, props, row)
<1> DEFINE value == PageOf(w, profile, props, place, page)
<1>1. ASSUME NEW row \in page
      PROVE  <<id, row["name"]>> \in shown(row) /\ \A x \in shown(row) : x[1] = id => x[2] = row["name"]
  <2>1. "name" \in DOMAIN row
    OBVIOUS
  <2> QED BY <2>1, NameIsShown
<1>2. value = {<<place[row], shown(row)>> : row \in page}
  BY DEF PageOf
<1> HIDE DEF shown, id, value
<1>21. UNION {item[2] : item \in value} = UNION {shown(row) : row \in page}
  <2>1. \A row : <<place[row], shown(row)>>[2] = shown(row)
    OBVIOUS
  <2> QED BY <1>2, <2>1
<1>3. {pair[2] : pair \in {x \in UNION {shown(row) : row \in page} : x[1] = id}} = {row["name"] : row \in page}
  <2>1. ASSUME NEW row \in page, NEW x \in shown(row), x[1] = id PROVE x[2] = row["name"]
    BY <1>1, <2>1
  <2>2. ASSUME NEW row \in page PROVE \E x \in shown(row) : x[1] = id /\ x[2] = row["name"]
    <3>1. <<id, row["name"]>>[1] = id /\ <<id, row["name"]>>[2] = row["name"]
      OBVIOUS
    <3> QED BY <1>1, <3>1
  <2> QED BY <2>1, <2>2
<1> QED
  BY <1>21, <1>3 DEF id, value, ValuesUnder, RowNames

\* The rows of a DocType are finitely many, have its columns, and differ by name.
LEMMA RowsOfWorld ==
  ASSUME NEW w \in World, NEW d \in DocType
  PROVE  /\ IsFiniteSet(w.rows[d]) /\ \A row \in w.rows[d] : RowOf(d, row)
         /\ \A row, other \in w.rows[d] : row["name"] = other["name"] => row = other
BY WorldAssumption

\* What a caller can read of a DocType; and what a query finds.
Readable(w, profile, s, d) == {row \in w.rows[d] : ReadDocument(w, profile, s, d, row["name"], <<>>).status = 200}

\* A query finds, of what its caller can read, the rows that meet its conditions.
LEMMA FoundAreReadable ==
  ASSUME NEW w \in World, NEW profile, ParamsLoad(profile), NEW s, NEW d \in DocType, NEW q
  PROVE  \A row : row \in Matching(w, profile, Entity(s, d), q) <=>
           /\ row \in Readable(w, profile, s, d)
           /\ \A c \in q.filters : Holds(c, row)
           /\ q.or_filters = {} \/ \E c \in q.or_filters : Holds(c, row)
<1> DEFINE e == Entity(s, d)
<1>1. e.doctype = d
  BY DEF Entity
<1>2. \A row \in w.rows[d] : row \in Readable(w, profile, s, d)
        <=> row["name"] \in w.readable[d] /\ InScope(profile, d, row) /\ LookupsAllowed(w, profile, e, row)
  BY ReadableDocuments DEF Readable
<1> HIDE DEF e
<1>3. \A row \in w.rows[d] : /\ InScope(profile, d, row) <=> \A c \in ListFilters(profile, d) : Holds(c, row)
                             /\ LookupsAllowed(w, profile, e, row) <=> \A c \in Restrictions(w, profile, e) : Holds(c, row)
  BY FiltersAreScope, RestrictionsAreLookups
<1>4. \A row : row \in GetList(w, d, q.filters \cup ListFilters(profile, d) \cup Restrictions(w, profile, e))
              <=> row \in Readable(w, profile, s, d) /\ \A c \in q.filters : Holds(c, row)
  <2>1. Readable(w, profile, s, d) \subseteq w.rows[d]
    BY DEF Readable
  <2> QED BY <1>2, <1>3, <2>1 DEF GetList
<1>5. Matching(w, profile, e, q) =
        Chosen(q, GetList(w, d, q.filters \cup ListFilters(profile, d) \cup Restrictions(w, profile, e)))
  BY <1>1 DEF Matching
<1> QED
  BY <1>4, <1>5 DEF Chosen, e

\* A list agrees with what can be read one by one.
LEMMA ListsAgree ==
  ASSUME NEW w \in World, NEW profile, NEW s \in SettingsForm, NEW d \in Served, NEW args
  PROVE  ListAgreesWithReads(w, profile, s, d, args, NoOptions)
<1> DEFINE e == Entity(s, d)
<1> DEFINE q == ParseList(w, profile, s, e, args)
<1> DEFINE found == Matching(w, profile, e, q)
<1> DEFINE page == {row \in found : PlaceOf(q.order_by, found, row) \in args.skip..(args.skip + q.top - 1)}
<1> DEFINE props == {p \in e.props : p.field \in q.fields}
<1> DEFINE list == ListDocuments(w, profile, s, d, args)
<1> DEFINE value == {<<PlaceOf(q.order_by, found, row), SerializeRow(w, profile, props, row)>> : row \in page}
<1> DEFINE full == [status |-> 200, count |-> Cardinality(found), next |-> Cardinality(page) = q.top, value |-> value]
<1> DEFINE can == Readable(w, profile, s, d)
<1> DEFINE id == Public(e, "name")
<1> DEFINE shown == ValuesUnder(list.value, id)
<1> SUFFICES ASSUME Answerable(s, profile), list.status = 200
             PROVE  /\ shown \subseteq RowNames(can)
                    /\ args = NoOptions => /\ list.count = Cardinality(RowNames(can))
                                           /\ list.count <= PageSize(s) => shown = RowNames(can)
  BY DEF ListAgreesWithReads, Agree, ValuesUnder, RowNames, Readable
<1>1. d \in DocType /\ ParamsLoad(profile) /\ ValidSettings(s)
  BY ServedAssumption DEF Answerable
<1>2. list = IF q.status # 200 THEN q ELSE IF ~ ParamsLoad(profile) THEN Error(500) ELSE full
  BY DEF ListDocuments, Listed
<1> HIDE DEF full, list, q
<1>3. q.status = 200 /\ list = full
  BY <1>1, <1>2
<1>4. list.count = Cardinality(found) /\ list.value = value
  BY <1>3 DEF full
<1>5. /\ found \subseteq can
      /\ q.filters = {} /\ q.or_filters = {} => found = can
  <2>1. \A row : row \in found <=>
          /\ row \in can
          /\ \A c \in q.filters : Holds(c, row)
          /\ q.or_filters = {} \/ \E c \in q.or_filters : Holds(c, row)
    BY <1>1, FoundAreReadable
  <2> HIDE DEF found, can
  <2>2. found \subseteq can
    BY <2>1
  <2>3. ASSUME q.filters = {}, q.or_filters = {} PROVE found = can
    BY <2>1, <2>3
  <2> QED BY <2>2, <2>3
<1>6. page \subseteq found
  OBVIOUS
<1>7. \A row \in can : RowOf(d, row) /\ row \in w.rows[d]
  BY <1>1, RowsOfWorld DEF Readable
<1>8. PICK n \in Props(s, d) : n.field = "name" /\ n.lookup = None
  BY <1>1, NameIsProp DEF ValidSettings
<1>9. props \in SUBSET Props(s, d) /\ n \in props
  <2>1. "name" \in q.fields
    BY <1>3, AcceptedQuery DEF q
  <2>2. e.props = Props(s, d)
    BY DEF Entity
  <2> QED BY <1>8, <2>1, <2>2
<1>10. \A row \in page : "name" \in DOMAIN row
  <2>1. \A row \in can : n.field \in DOMAIN row
    BY <1>1, <1>7, PropNamesColumn DEF RowOf, ItemsOf
  <2> QED BY <1>5, <1>6, <1>8, <2>1
<1>11. shown = RowNames(page)
  <2> DEFINE place == [row \in page |-> PlaceOf(q.order_by, found, row)]
  <2> HIDE DEF found, page, props
  <2>1. value = PageOf(w, profile, props, place, page)
    BY DEF PageOf
  <2> HIDE DEF place, value
  <2>2. ValuesUnder(value, id) = RowNames(page)
    BY <1>1, <1>8, <1>9, <1>10, <2>1, NamesOfPage
  <2> QED BY <1>4, <2>2
<1> HIDE DEF found, can, shown, page, props, value, id
<1>12. shown \subseteq RowNames(can)
  BY <1>5, <1>6, <1>11 DEF RowNames
<1>13. ASSUME args = NoOptions
       PROVE  /\ list.count = Cardinality(RowNames(can))
              /\ list.count <= PageSize(s) => shown = RowNames(can)
  <2>1. /\ q.filters = {} /\ q.or_filters = {} /\ q.top = PageSize(s)
        /\ q.order_by = <<[field |-> "creation", desc |-> TRUE]>>
    BY <1>1, <1>3, <1>13, QueryOfNoOptions DEF q
  <2>2. found = can
    BY <1>5, <2>1
  <2>3. IsFiniteSet(can)
    <3>1. IsFiniteSet(w.rows[d]) /\ can \in SUBSET w.rows[d]
      BY <1>1, <1>7, RowsOfWorld
    <3> QED BY <3>1, FS_Subset
  <2>4. Cardinality(RowNames(can)) = Cardinality(can)
    <3> DEFINE name == [row \in can |-> row["name"]]
    <3>1. \A x, y \in can : name[x] = name[y] => x = y
      BY <1>1, <1>7, RowsOfWorld
    <3>2. name = [x \in can |-> name[x]] /\ {name[x] : x \in can} = RowNames(can)
      BY DEF RowNames
    <3> HIDE DEF name
    <3>3. Cardinality({name[x] : x \in can}) = Cardinality(can)
      BY <2>3, <3>1, <3>2, ImagesAreAsMany
    <3> QED BY <3>2, <3>3
  <2>5. ASSUME Cardinality(can) <= PageSize(s) PROVE page = can
    <3>1. args.skip = 0
      BY <1>13 DEF NoOptions
    <3>2. PageSize(s) \in Nat
      BY PageSizeAssumption DEF PageSize, SettingsForm
    <3>3. Cardinality(can) \in Nat
      BY <2>3, FS_CardinalityType
    <3>4. ASSUME NEW row \in can PROVE PlaceOf(q.order_by, can, row) \in 0..(0 + PageSize(s) - 1)
      <4>1. PlaceOf(q.order_by, can, row) \in Nat /\ PlaceOf(q.order_by, can, row) < Cardinality(can)
        BY <1>7, <2>1, <2>3, PlacesAreInList DEF RowOf
      <4> QED BY <2>5, <3>2, <3>3, <4>1
    <3> QED BY <2>1, <2>2, <3>1, <3>4 DEF page
  <2> QED BY <1>4, <1>11, <2>2, <2>4, <2>5
<1> QED
  BY <1>12, <1>13

\* ListsAgreeWithReads: for any rows, permissions, params, lookups and queries.
THEOREM ListsShowWhatIsReadable == CallsSpec => []ListsAgreeWithReads
<1>1. call \in Calls => ListsAgreeWithReads
  <2> SUFFICES ASSUME call \in Calls, call.about = "list"
               PROVE  ListAgreesWithReads(call.w, call.profile, call.form, call.doctype, call.query, NoOptions)
    BY DEF ListsAgreeWithReads
  <2>1. call.w \in World /\ call.doctype \in Served /\ call.form \in SettingsForm
    BY FormAssumption DEF Calls
  <2> QED BY <2>1, ListsAgree
<1> QED
  BY <1>1, CallsAreTyped, PTL

-----------------------------------------------------------------------------
(* Hidden fields.  Two worlds that differ in a field of the rows of one     *)
(* DocType are alike to whoever does not look at that field.                *)

\* What the rows of a DocType have but for the field f.
Kept(d, f) == ({c.name : c \in ToSet(Columns[d])} \cup {"owner"}) \ {f}

\* Conditions ask for some fields only; rows lead to rows.
Asks(conds, fields)  == \A c \in conds : c[2] \in fields
Leads(h, rows, twins) == \A r : r \in twins <=> \E row \in rows : r = h[row]

\* The world t is w but for the field f of the rows of d: h leads from the rows
\* of the one to those of the other.
Twins(w, t, d, f, h) ==
  /\ f # "name" /\ Leads(h, w.rows[d], t.rows[d])
  /\ \A x \in DocType \ {d} : t.rows[x] = w.rows[x]
  /\ t.readable = w.readable
  /\ \A row \in w.rows[d] : /\ DOMAIN h[row] = DOMAIN row
                            /\ \A x \in Kept(d, f) : x \in DOMAIN row /\ h[row][x] = row[x]

\* A world with another value of a hidden field is a twin.
LEMMA TwinsOfWorld ==
  ASSUME NEW w \in World, NEW d \in DocType, NEW name, NEW f, f # "name", NEW v
  PROVE  \E h : Twins(w, Twin(w, d, name, f, v), d, f, h)
<1> DEFINE h == [row \in w.rows[d] |-> IF row["name"] = name THEN [row EXCEPT ![f] = v] ELSE row]
<1> DEFINE t == Twin(w, d, name, f, v)
<1> DEFINE rows == {IF row["name"] = name THEN [row EXCEPT ![f] = v] ELSE row : row \in w.rows[d]}
<1>1. w = [rows |-> w.rows, readable |-> w.readable] /\ w.rows = [x \in DocType |-> w.rows[x]]
  BY WorldAssumption
<1>2. t.rows = [w.rows EXCEPT ![d] = rows] /\ t.readable = w.readable
  BY <1>1 DEF Twin
<1>3. t.rows[d] = rows /\ \A x \in DocType \ {d} : t.rows[x] = w.rows[x]
  BY <1>1, <1>2
<1>4. Leads(h, w.rows[d], t.rows[d])
  BY <1>3 DEF Leads
<1>5. ASSUME NEW row \in w.rows[d]
      PROVE  /\ DOMAIN h[row] = DOMAIN row
             /\ \A x \in Kept(d, f) : x \in DOMAIN row /\ h[row][x] = row[x]
  <2>1. row = [x \in DOMAIN row |-> row[x]] /\ Kept(d, f) \subseteq DOMAIN row
    BY <1>5, RowsOfWorld DEF RowOf, Kept
  <2>2. h[row] = IF row["name"] = name THEN [row EXCEPT ![f] = v] ELSE row
    BY <1>5
  <2>3. f \notin Kept(d, f)
    BY DEF Kept
  <2> QED BY <2>1, <2>2, <2>3
<1> HIDE DEF h, t
<1>6. Twins(w, t, d, f, h)
  BY <1>2, <1>3, <1>4, <1>5 DEF Twins
<1> QED
  BY <1>6 DEF t

\* A condition asks for one field of a row.
LEMMA HoldsOfField ==
  ASSUME NEW cond, NEW a, NEW b, a[cond[2]] = b[cond[2]]
  PROVE  Holds(cond, a) <=> Holds(cond, b)
BY DEF Holds

\* What is found in the one world leads to what is found in the other.
LEMMA GetListOfTwin ==
  ASSUME NEW w \in World, NEW t, NEW d \in DocType, NEW f, NEW h, Twins(w, t, d, f, h),
         NEW conds, Asks(conds, Kept(d, f))
  PROVE  Leads(h, GetList(w, d, conds), GetList(t, d, conds))
<1>1. "name" \in Kept(d, f)
  BY ColumnsAreNamed DEF Kept, ToSet, Twins
<1>2. ASSUME NEW row \in w.rows[d] PROVE h[row] \in GetList(t, d, conds) <=> row \in GetList(w, d, conds)
  <2>1. \A c \in conds : Holds(c, h[row]) <=> Holds(c, row)
    BY HoldsOfField DEF Twins, Asks
  <2>2. h[row]["name"] = row["name"] /\ h[row] \in t.rows[d] /\ t.readable = w.readable
    BY <1>1 DEF Twins, Leads
  <2> QED BY <2>1, <2>2 DEF GetList
<1>3. \A r : r \in t.rows[d] <=> \E row \in w.rows[d] : r = h[row]
  BY DEF Twins, Leads
<1>4. GetList(t, d, conds) \subseteq t.rows[d] /\ GetList(w, d, conds) \subseteq w.rows[d]
  BY DEF GetList
<1> QED
  BY <1>2, <1>3, <1>4 DEF Leads

-----------------------------------------------------------------------------
(* What is not hidden.                                                     *)

\* The columns that every DocType with rows of its own has at first.
LEMMA StandardColumns ==
  ASSUME NEW d \in DocType, Meta[d].kind = "plain"
  PROVE  /\ Len(Standard(d)) >= 3
         /\ Columns[d][1].name = "name" /\ Columns[d][2].name = "creation" /\ Columns[d][3].name = "modified"
<1> DEFINE a == ReadOnly("name", "Data")
<1> DEFINE b == ReadOnly("creation", "Datetime")
<1> DEFINE c == ReadOnly("modified", "Datetime")
<1> DEFINE x == ReadOnly("docstatus", "Int")
<1> DEFINE rest == IF Meta[d].submittable THEN <<x>> ELSE <<>>
<1> DEFINE S == {a, b, c, x}
<1>1. Standard(d) = <<a>> \o (<<b, c>> \o rest)
  BY Zenon DEF Standard
<1>2. a.name = "name" /\ b.name = "creation" /\ c.name = "modified"
  BY DEF ReadOnly
<1>3. a \in S /\ b \in S /\ c \in S /\ x \in S
  OBVIOUS
<1> HIDE DEF a, b, c, x, S
<1>4. rest \in Seq(S) /\ <<a>> \in Seq(S) /\ <<b, c>> \in Seq(S)
  BY <1>3
<1> HIDE DEF rest
<1>5. /\ Len(<<b, c>> \o rest) \in Nat /\ Len(<<b, c>> \o rest) >= 2 /\ <<b, c>> \o rest \in Seq(S)
      /\ (<<b, c>> \o rest)[1] = b /\ (<<b, c>> \o rest)[2] = c
  BY <1>4
<1> DEFINE last == <<b, c>> \o rest
<1> HIDE DEF last
<1>6. last \in Seq(S) /\ Len(last) \in Nat /\ Len(last) >= 2 /\ last[1] = b /\ last[2] = c
  BY <1>5 DEF last
<1>7. LET q == <<a>> \o last IN Len(q) >= 3 /\ q[1] = a /\ q[2] = b /\ q[3] = c
  BY <1>4, <1>6
<1>8. Len(Standard(d)) >= 3 /\ Standard(d)[1] = a /\ Standard(d)[2] = b /\ Standard(d)[3] = c
  BY <1>1, <1>7 DEF last
<1>9. Len(Standard(d)) \in Nat /\ \A i \in 1..Len(Standard(d)) : Columns[d][i] = Standard(d)[i]
  BY ColumnsAreNamed
<1> QED
  BY <1>2, <1>8, <1>9

\* The properties that are shown, child tables and the standard columns.
LEMMA ShownAreKept ==
  ASSUME NEW s, NEW profile, NEW d \in Served, NEW f \in HiddenFields(s, profile, d)
  PROVE  /\ d \in DocType /\ {"name", "creation", "modified"} \subseteq Kept(d, f)
         /\ \A p \in Props(s, d) : ~ p.write_only => p.field \in Kept(d, f)
         /\ \A c \in Collections(s, d) : c.field \in Kept(d, f)
         /\ \A p \in Restricting(profile, Entity(s, d)) : p.field \in Kept(d, f)
         /\ ValidProfile(profile) => \A p \in ForDoctype(profile, d) : p.field \in Kept(d, f)
<1> DEFINE names == {c.name : c \in ToSet(Columns[d])}
<1>1. d \in DocType /\ Meta[d].kind = "plain"
  BY ServedAssumption
<1>2. PICK k \in DOMAIN Meta[d].fields : f = Meta[d].fields[k].name
  BY DEF HiddenFields, ToSet
<1>3. /\ k + Len(Standard(d)) \in DOMAIN Columns[d] /\ Columns[d][k + Len(Standard(d))].name = f
      /\ k \in Nat \ {0} /\ Len(Standard(d)) \in Nat
  BY <1>1, <1>2, ColumnsAreNamed, MetaAssumption
<1>4. /\ Len(Standard(d)) >= 3 /\ \A i \in 1..3 : i \in DOMAIN Columns[d]
      /\ Columns[d][1].name = "name" /\ Columns[d][2].name = "creation" /\ Columns[d][3].name = "modified"
  BY <1>1, <1>3, StandardColumns, ColumnsAreNamed
<1>5. \A i \in 1..3 : Columns[d][i].name # f
  BY <1>1, <1>3, <1>4, ColumnOfName
<1>6. \A i \in 1..3 : Columns[d][i].name \in names
  BY <1>4 DEF ToSet
<1>7. {"name", "creation", "modified"} \subseteq Kept(d, f)
  BY <1>4, <1>5, <1>6 DEF Kept
<1>8. /\ \A p \in Props(s, d) : ~ p.write_only => p.field # f
      /\ \A c \in Collections(s, d) : c.field # f
      /\ \A p \in Restricting(profile, Entity(s, d)) : p.field # f
      /\ \A p \in ForDoctype(profile, d) : p.field # f
  BY DEF HiddenFields
<1>9. /\ \A p \in Props(s, d) \cup Collections(s, d) : p.field \in names
      /\ Restricting(profile, Entity(s, d)) \subseteq Props(s, d)
  BY <1>1, PropNamesColumn DEF ItemsOf, Restricting, Entity
<1>10. ValidProfile(profile) => \A p \in ForDoctype(profile, d) : p.field \in names \cup {"owner"}
  BY <1>1, ParamNamesColumn
<1> QED
  BY <1>1, <1>7, <1>8, <1>9, <1>10 DEF Kept

\* A lookup of a property leads to columns of its DocType, which are not hidden.
Sees(d, f, p) ==
  /\ p.lookup.doctype \in DocType
  /\ p.lookup.doctype = d => {p.lookup.match, p.lookup.value} \subseteq Kept(d, f)

\* A mapping that validate accepts looks up columns, which are not hidden.
LEMMA LookupsAreKept ==
  ASSUME NEW s \in SettingsForm, ValidSettings(s), NEW profile, NEW d \in Served,
         NEW f \in HiddenFields(s, profile, d), NEW p \in Props(s, d), p.lookup # None
  PROVE  Sees(d, f, p)
<1>1. d \in DocType
  BY ServedAssumption
<1>2. p.lookup = FieldMapping(s, d, p.field).lookup
  <2>1. p = Prop(s, d, p.at) /\ p.field = Columns[d][p.at].name
    BY <1>1, PropIsColumn
  <2>2. StandardProp(s, d, p.at).lookup = None
    BY DEF StandardProp
  <2>3. OwnProp(s, d, p.at).lookup = FieldMapping(s, d, Columns[d][p.at].name).lookup
    BY DEF OwnProp
  <2> QED BY <2>1, <2>2, <2>3 DEF Prop
<1> DEFINE rows == {i \in DOMAIN s.field_mappings : s.field_mappings[i].doctype = d /\ s.field_mappings[i].field = p.field}
<1>3. rows # {} /\ p.lookup = s.field_mappings[Greatest(rows)].lookup
  <2>1. Unmapped(p.field).lookup = None
    BY DEF Unmapped
  <2> QED BY <1>2, <2>1 DEF FieldMapping
<1>4. PICK i \in rows : TRUE
  BY <1>3
<1> DEFINE Link == [doctype : DocType, match : STRING, value : STRING]
<1> DEFINE Maps == [doctype : DocType, field : STRING, public : STRING, lookup : Link \cup {None}, restrict : BOOLEAN,
                    returned : {"Lists and Records", "Records Only", "Never"}]
<1>5. s.field_mappings \in Seq(Maps)
  BY DEF SettingsForm
<1>6. \A m \in Maps : m.lookup \in Link \cup {None}
  OBVIOUS
<1>7. \A l \in Link : l.doctype \in DocType
  OBVIOUS
<1> HIDE DEF Link, Maps
<1>8. DOMAIN s.field_mappings = 1..Len(s.field_mappings) /\ Len(s.field_mappings) \in Nat
  BY <1>5
<1>9. \A j \in rows : \A k \in rows : ~ (k < j)
  <2>1. \A j \in DOMAIN s.field_mappings : \A k \in 1..(j - 1) :
          s.field_mappings[k].doctype # s.field_mappings[j].doctype \/ s.field_mappings[k].field # s.field_mappings[j].field
    BY DEF ValidSettings, ValidFieldMappings
  <2>2. SUFFICES ASSUME NEW j \in rows, NEW k \in rows, k < j PROVE FALSE
    OBVIOUS
  <2>3. k \in 1..(j - 1) /\ j \in DOMAIN s.field_mappings
    BY <1>8, <2>2
  <2> QED BY <2>1, <2>2, <2>3
<1>10. i \in Nat /\ rows = {i}
  <2>1. \A j \in rows : j \in Nat
    BY <1>8
  <2>2. \A j \in rows : j = i
    BY <1>4, <1>9, <2>1
  <2> HIDE DEF rows
  <2> QED BY <1>4, <2>1, <2>2
<1>11. Greatest(rows) = i
  <2>2. \A k \in {i} : (\A j \in {i} : j <= k) <=> k = i
    BY <1>10
  <2> HIDE DEF rows
  <2> QED BY <1>10, <2>2 DEF Greatest
<1> DEFINE row == s.field_mappings[i]
<1>12. i \in DOMAIN s.field_mappings /\ row.doctype = d /\ p.lookup = row.lookup
  BY <1>3, <1>4, <1>11
<1>13. ValidLookup(row)
  BY <1>12 DEF ValidSettings, ValidFieldMappings
<1>14. row.lookup \in Link
  BY <1>5, <1>6, <1>12
<1>15. row.lookup.doctype \in DocType /\ HasField(row.lookup.doctype, row.lookup.match) /\ HasField(row.lookup.doctype, row.lookup.value)
  BY <1>7, <1>12, <1>13, <1>14 DEF ValidLookup
<1>16. row.lookup.doctype = d => f \notin {row.lookup.match, row.lookup.value}
  BY <1>12 DEF HiddenFields
<1> HIDE DEF row
<1>17. row.lookup.doctype = d => {row.lookup.match, row.lookup.value} \subseteq Kept(d, f)
  BY <1>15, <1>16, FieldNamesColumn DEF Kept
<1> QED
  BY <1>12, <1>15, <1>17 DEF Sees

-----------------------------------------------------------------------------
(* Lookups and queries in the two worlds.                                   *)

\* The values of a field of the records that a lookup finds.
Values(w, profile, p, conds, x) == {r[x] : r \in LookupRows(w, profile, p, conds)}

\* Nothing hidden is asked for by the params of a profile.
Discreet(profile, d, f) == \A q \in ForDoctype(profile, d) : q.field \in Kept(d, f)

\* What a lookup finds by fields that are not hidden is the same.
LEMMA ValuesOfTwin ==
  ASSUME NEW w \in World, NEW t, NEW d \in DocType, NEW f, NEW h, Twins(w, t, d, f, h),
         NEW profile, Discreet(profile, d, f), NEW p, Sees(d, f, p), NEW x \in {p.lookup.match, p.lookup.value},
         NEW conds, Asks(conds, {p.lookup.match, p.lookup.value})
  PROVE  Values(t, profile, p, conds, x) = Values(w, profile, p, conds, x)
<1> DEFINE all == conds \cup ListFilters(profile, p.lookup.doctype)
<1>1. \A u : Values(u, profile, p, conds, x) = {r[x] : r \in GetList(u, p.lookup.doctype, all)}
  BY DEF Values, LookupRows
<1>2. CASE p.lookup.doctype # d
  <2>1. GetList(t, p.lookup.doctype, all) = GetList(w, p.lookup.doctype, all)
    BY <1>2 DEF GetList, Twins, Sees
  <2> QED BY <1>1, <2>1
<1>3. CASE p.lookup.doctype = d
  <2>1. x \in Kept(d, f) /\ \A c \in conds : c[2] \in Kept(d, f)
    BY <1>3 DEF Sees, Asks
  <2>2. \A c \in ListFilters(profile, d) : c[2] \in Kept(d, f)
    BY DEF ListFilters, Discreet
  <2>3. Asks(all, Kept(d, f))
    BY <1>3, <2>1, <2>2 DEF Asks
  <2> HIDE DEF all
  <2>4. Leads(h, GetList(w, d, all), GetList(t, d, all))
    BY <2>3, GetListOfTwin
  <2>5. \A row \in GetList(w, d, all) : h[row][x] = row[x]
    BY <2>1 DEF Twins, GetList
  <2>6. {r[x] : r \in GetList(t, d, all)} = {r[x] : r \in GetList(w, d, all)}
    BY <2>4, <2>5 DEF Leads
  <2> QED BY <1>1, <1>3, <2>6
<1> QED
  BY <1>2, <1>3

\* A lookup turns values into the same values in both worlds.
Alike(w, t, profile, p) ==
  /\ \A v : Matched(t, profile, p, v) = Matched(w, profile, p, v)
  /\ \A v : ToPublic(t, profile, p, v) = ToPublic(w, profile, p, v)
  /\ \A values : ToInternal(t, profile, p, values) = ToInternal(w, profile, p, values)
  /\ Values(t, profile, p, {}, p.lookup.match) = Values(w, profile, p, {}, p.lookup.match)

\* So is what it makes of any value, in either direction.
LEMMA LookupsOfTwin ==
  ASSUME NEW w \in World, NEW t, NEW d \in DocType, NEW f, NEW h, Twins(w, t, d, f, h),
         NEW profile, Discreet(profile, d, f), NEW p, Sees(d, f, p)
  PROVE  Alike(w, t, profile, p)
<1>1. ASSUME NEW v PROVE Matched(t, profile, p, v) = Matched(w, profile, p, v)
  <2> DEFINE conds == {<<"cond", p.lookup.match, "=", v>>}
  <2>1. \A u : Matched(u, profile, p, v) = IF v = 0 THEN {} ELSE Values(u, profile, p, conds, p.lookup.value)
    BY DEF Matched, Values
  <2>2. Asks(conds, {p.lookup.match, p.lookup.value})
    BY DEF Asks
  <2> HIDE DEF conds
  <2>3. Values(t, profile, p, conds, p.lookup.value) = Values(w, profile, p, conds, p.lookup.value)
    BY <2>2, ValuesOfTwin
  <2> QED BY <2>1, <2>3
<1>2. \A v : ToPublic(t, profile, p, v) = ToPublic(w, profile, p, v)
  BY <1>1 DEF ToPublic
<1>3. ASSUME NEW values PROVE ToInternal(t, profile, p, values) = ToInternal(w, profile, p, values)
  <2> DEFINE conds == {<<"cond", p.lookup.value, "in", values>>}
  <2>1. \A u : ToInternal(u, profile, p, values) = Values(u, profile, p, conds, p.lookup.match) \ {0}
    BY DEF ToInternal, Values
  <2>2. Asks(conds, {p.lookup.match, p.lookup.value})
    BY DEF Asks
  <2> HIDE DEF conds
  <2>3. Values(t, profile, p, conds, p.lookup.match) = Values(w, profile, p, conds, p.lookup.match)
    BY <2>2, ValuesOfTwin
  <2> QED BY <2>1, <2>3
<1>4. Values(t, profile, p, {}, p.lookup.match) = Values(w, profile, p, {}, p.lookup.match)
  <2> DEFINE none == {}
  <2>1. Asks(none, {p.lookup.match, p.lookup.value})
    BY DEF Asks
  <2> HIDE DEF none
  <2>2. Values(t, profile, p, none, p.lookup.match) = Values(w, profile, p, none, p.lookup.match)
    BY <2>1, ValuesOfTwin
  <2> QED BY <2>2 DEF none
<1> QED
  BY <1>1, <1>2, <1>3, <1>4 DEF Alike

\* The lookups of an entity restrict rows alike, by conditions on its fields.
LEMMA RestrictionsOfTwin ==
  ASSUME NEW w \in World, NEW t, NEW d \in DocType, NEW f, NEW h, Twins(w, t, d, f, h),
         NEW profile, Discreet(profile, d, f), NEW e, \A p \in Restricting(profile, e) : Sees(d, f, p)
  PROVE  /\ Restrictions(t, profile, e) = Restrictions(w, profile, e)
         /\ \A row : LookupsAllowed(t, profile, e, row) <=> LookupsAllowed(w, profile, e, row)
         /\ \A c \in Restrictions(w, profile, e) : \E p \in Restricting(profile, e) : c[2] = p.field
<1> DEFINE cond(u, p) == InFilter(p.field, Values(u, profile, p, {}, p.lookup.match) \ {0}, FALSE)
<1>1. \A u : Restrictions(u, profile, e) = {cond(u, p) : p \in Restricting(profile, e)}
  BY DEF Restrictions, Values
<1>0. \A p \in Restricting(profile, e) : Alike(w, t, profile, p)
  BY LookupsOfTwin
<1>2. \A p \in Restricting(profile, e) : cond(t, p) = cond(w, p)
  BY <1>0 DEF Alike
<1>3. \A u, p : cond(u, p)[2] = p.field
  BY DEF InFilter
<1> HIDE DEF cond
<1>4. Restrictions(t, profile, e) = Restrictions(w, profile, e)
  BY <1>1, <1>2
<1>5. \A row : LookupsAllowed(t, profile, e, row) <=> LookupsAllowed(w, profile, e, row)
  BY <1>0 DEF LookupsAllowed, Alike
<1>6. \A c \in Restrictions(w, profile, e) : \E p \in Restricting(profile, e) : c[2] = p.field
  BY <1>1, <1>3
<1> QED
  BY <1>4, <1>5, <1>6

\* A parameter that is known is one of a property that clients see.
LEMMA ParamOfName ==
  ASSUME NEW s, NEW d \in DocType, NEW name, name \in {q.name : q \in FieldParameters(Entity(s, d))}
  PROVE  LET q == ParamNamed(Entity(s, d), name) IN q.prop \in Props(s, d) /\ ~ q.prop.write_only
<1> DEFINE e == Entity(s, d)
<1> DEFINE named == {q \in FieldParameters(e) : q.name = name}
<1>1. e.props = Props(s, d)
  BY DEF Entity
<1>2. PICK n \in Nat : DOMAIN Columns[d] = 1..n
  BY ColumnsAreNamed
<1>3. ASSUME NEW q \in FieldParameters(e)
      PROVE  q.prop \in Props(s, d) /\ ~ q.prop.write_only /\ q.at \in Nat /\ q.at <= 3 * n + 2
  <2>1. PICK p \in e.props : ~ p.write_only /\ q.prop = p /\ \E k \in {0, 1, 2} : q.at = 3 * p.at + k
    BY <1>3 DEF FieldParameters
  <2>2. p.at \in 1..n
    BY <1>1, <1>2, PropIsColumn DEF Seen
  <2> QED BY <1>1, <1>2, <2>1, <2>2
<1> DEFINE T == {3 * n + 2 - q.at : q \in named}
<1>4. T \subseteq Nat /\ T # {}
  BY <1>3
<1>5. PICK q \in named : \A x \in named : 3 * n + 2 - q.at <= 3 * n + 2 - x.at
  <2> HIDE DEF named
  <2>1. Least(T) \in T /\ \A y \in T : Least(T) <= y
    BY <1>4, LeastIsLeast
  <2> QED BY <2>1
<1>6. \A x \in named : x.at <= q.at
  BY <1>2, <1>3, <1>5
<1>7. ParamNamed(e, name) \in named
  BY <1>6 DEF ParamNamed
<1> QED
  BY <1>3, <1>7

\* What is known of a world when a query is parsed is what lookups find.
LEMMA ParsingOfTwin ==
  ASSUME NEW w \in World, NEW t, NEW d \in DocType, NEW f, NEW h, Twins(w, t, d, f, h),
         NEW profile, Discreet(profile, d, f), NEW s, \A p \in Props(s, d) : p.lookup # None => Sees(d, f, p), NEW args
  PROVE  ParseList(t, profile, s, Entity(s, d), args) = ParseList(w, profile, s, Entity(s, d), args)
<1> DEFINE e == Entity(s, d)
<1>1. e.props = Props(s, d)
  BY DEF Entity
<1>2. \A p \in e.props : p.lookup # None => Alike(w, t, profile, p)
  BY <1>1, LookupsOfTwin
<1>3. ASSUME NEW cond PROVE FilterCondition(t, profile, e, cond) = FilterCondition(w, profile, e, cond)
  <2> DEFINE field == Named(e, cond[2], FALSE)
  <2> DEFINE p == PropOf(e, field)
  <2>1. CASE field = None
    BY <2>1 DEF FilterCondition
  <2>2. CASE field # None
    <3>1. PICK r \in e.props : r.field = field
      BY <2>2 DEF Named
    <3>2. p \in e.props
      BY <1>1, <3>1, PropOfField
    <3>3. p.lookup # None => \A values : ToInternal(t, profile, p, values) = ToInternal(w, profile, p, values)
      BY <1>2, <3>2 DEF Alike
    <3> DEFINE values == IF cond[3] \in {"in", "not in"} THEN cond[4] ELSE {cond[4]}
    <3>4. \A u : FilterCondition(u, profile, e, cond) =
            IF field = None THEN None
            ELSE IF p.lookup = None \/ cond[3] = "is" THEN <<"cond", field, cond[3], cond[4]>>
            ELSE IF cond[3] \in {"=", "!=", "in", "not in"}
                 THEN InFilter(field, ToInternal(u, profile, p, values), cond[3] \in {"!=", "not in"})
            ELSE None
      BY DEF FilterCondition
    <3> HIDE DEF field, p, values
    <3>5. p.lookup # None => ToInternal(t, profile, p, values) = ToInternal(w, profile, p, values)
      BY <3>3
    <3>6. CASE p.lookup = None \/ cond[3] = "is"
      BY <3>4, <3>6
    <3>7. CASE p.lookup # None /\ cond[3] # "is"
      BY <3>4, <3>5, <3>7
    <3> QED BY <3>6, <3>7
  <2> QED BY <2>1, <2>2
<1>4. \A conds : FilterConditions(t, profile, e, conds) = FilterConditions(w, profile, e, conds)
  BY <1>3 DEF FilterConditions
<1>5. ASSUME NEW param, param.prop \in e.props, NEW values
      PROVE  ParamConditions(t, profile, param, values) = ParamConditions(w, profile, param, values)
  <2> DEFINE p == param.prop
  <2>1. p.lookup # None => \A vs : ToInternal(t, profile, p, vs) = ToInternal(w, profile, p, vs)
    BY <1>2, <1>5 DEF Alike
  <2> HIDE DEF e
  <2> QED BY <2>1 DEF ParamConditions
<1> DEFINE unknown == \E i \in DOMAIN args.params : args.params[i].name \notin {q.name : q \in FieldParameters(e)}
<1> DEFINE order == OrderBy(e, args.orderby)
<1> DEFINE chosen == ChosenFields(e, args)
<1> DEFINE filters(u) == ToSet(FilterConditions(u, profile, e, args.filter.filters))
<1> DEFINE either(u) == EitherRows(u, profile, e, args)
<1> DEFINE sought(u) == SoughtRows(u, profile, e, args)
<1> DEFINE full(u) == [status |-> 200, fields |-> chosen \cup {"name"}, order_by |-> order, top |-> PageTop(s, args),
                       filters |-> sought(u), or_filters |-> either(u)]
<1>6. ASSUME NEW u
      PROVE  ParseList(u, profile, s, e, args) =
        IF unknown \/ ~ chosen \subseteq ListedFields(e)
        THEN Error(400)
        ELSE IF args.filter.status # 200 THEN Error(args.filter.status)
        ELSE IF None \in filters(u) \cup either(u) \/ PageTop(s, args) = 0 \/ \E i \in DOMAIN order : order[i].field = None THEN Error(400)
        ELSE full(u)
  <2> HIDE DEF e
  <2> QED BY DEF ParseList, ChosenFields, ListedFields, SoughtRows, EitherRows, PageTop
<1>7. filters(t) = filters(w) /\ either(t) = either(w)
  BY <1>4 DEF EitherRows
<1>8. ASSUME ~ unknown PROVE sought(t) = sought(w)
  <2> DEFINE conds(u, i) == ParamConditions(u, profile, ParamNamed(e, args.params[i].name), args.params[i].values)
  <2>1. \A i \in DOMAIN args.params : conds(t, i) = conds(w, i)
    BY <1>1, <1>5, <1>8, ParamOfName
  <2>2. \A u : sought(u) = filters(u) \cup UNION {conds(u, i) : i \in DOMAIN args.params}
    BY DEF SoughtRows
  <2> HIDE DEF conds, sought, filters
  <2> QED BY <1>7, <2>1, <2>2
<1> HIDE DEF unknown, order, chosen, filters, either, sought, e
<1>9. ASSUME ~ unknown PROVE full(t) = full(w)
  BY <1>7, <1>8, <1>9
<1> HIDE DEF full
<1>10. ParseList(t, profile, s, e, args) = ParseList(w, profile, s, e, args)
  <2>1. CASE unknown
    BY <1>6, <2>1
  <2>2. CASE ~ unknown
    BY <1>6, <1>7, <1>9, <2>2
  <2> QED BY <2>1, <2>2
<1> QED
  BY <1>10 DEF e


\* What clients name in an option is a property that they see.
LEMMA NamedIsShown ==
  ASSUME NEW s, NEW d \in DocType, NEW name, Named(Entity(s, d), name, FALSE) # None
  PROVE  \E p \in Props(s, d) : ~ p.write_only /\ p.field = Named(Entity(s, d), name, FALSE)
<1> DEFINE e == Entity(s, d)
<1>1. e.props = Props(s, d)
  BY DEF Entity
<1> HIDE DEF e
<1>2. Named(e, name, FALSE) # None => \E p \in e.props : ~ p.write_only /\ p.field = Named(e, name, FALSE)
  BY DEF Named
<1> QED
  BY <1>1, <1>2 DEF e

\* Conditions and orders that are accepted ask for what is not hidden.
Seemly(e, fields) ==
  /\ \A name : Named(e, name, FALSE) # None => Named(e, name, FALSE) \in fields
  /\ \A name \in {q.name : q \in FieldParameters(e)} : ParamNamed(e, name).prop.field \in fields

\* The names and parameters that clients may use are of fields that are not hidden.
LEMMA EntityIsSeemly ==
  ASSUME NEW s, NEW profile, NEW d \in Served, NEW f \in HiddenFields(s, profile, d)
  PROVE  Seemly(Entity(s, d), Kept(d, f))
<1>1. d \in DocType /\ \A p \in Props(s, d) : ~ p.write_only => p.field \in Kept(d, f)
  BY ShownAreKept
<1>2. \A name : Named(Entity(s, d), name, FALSE) # None => Named(Entity(s, d), name, FALSE) \in Kept(d, f)
  BY <1>1, NamedIsShown
<1>3. \A name \in {q.name : q \in FieldParameters(Entity(s, d))} : ParamNamed(Entity(s, d), name).prop.field \in Kept(d, f)
  BY <1>1, ParamOfName
<1> QED
  BY <1>2, <1>3 DEF Seemly

\* The conditions made of them ask for those fields.
LEMMA ConditionsAskForFields ==
  ASSUME NEW w, NEW profile, NEW e, NEW fields, Seemly(e, fields)
  PROVE  /\ \A cond : FilterCondition(w, profile, e, cond) # None => FilterCondition(w, profile, e, cond)[2] \in fields
         /\ \A param, values : param.prop.field \in fields => Asks(ParamConditions(w, profile, param, values), fields)
<1>1. \A field, values, negate : InFilter(field, values, negate)[2] = field
  BY DEF InFilter
<1>2. ASSUME NEW cond, FilterCondition(w, profile, e, cond) # None
      PROVE  FilterCondition(w, profile, e, cond)[2] \in fields
  <2> DEFINE field == Named(e, cond[2], FALSE)
  <2>1. field # None
    BY <1>2 DEF FilterCondition
  <2>2. field \in fields
    BY <2>1 DEF Seemly
  <2>3. FilterCondition(w, profile, e, cond)[2] = field
    BY <1>1, <1>2, <2>1 DEF FilterCondition
  <2> QED BY <2>2, <2>3
<1>3. ASSUME NEW param, NEW values
      PROVE  \A c \in ParamConditions(w, profile, param, values) : c[2] = param.prop.field
  <2> DEFINE p == param.prop
  <2> DEFINE plain == {v.is : v \in {x \in ToSet(values) : "is" \in DOMAIN x}}
  <2> DEFINE first == values[1]
  <2> DEFINE day == IF "day" \in DOMAIN first THEN first.day ELSE first.is \div 2
  <2> DEFINE bound == IF "is" \in DOMAIN first THEN first.is
                      ELSE IF param.op = ">=" THEN StartOf(first.day) ELSE EndOf(first.day)
  <2> DEFINE conds == ParamConditions(w, profile, param, values)
  <2> DEFINE from == StartOf(day)
  <2> DEFINE to == EndOf(day)
  <2> DEFINE inside == ToInternal(w, profile, p, plain)
  <2>1. conds = CASE param.op = "day" -> {<<"cond", p.field, ">=", from>>, <<"cond", p.field, "<=", to>>}
                  [] param.op \in {">=", "<="} -> {<<"cond", p.field, param.op, bound>>}
                  [] param.op = "=" /\ p.lookup # None -> {InFilter(p.field, inside, FALSE)}
                  [] OTHER -> {<<"cond", p.field, "in", plain>>}
    BY DEF ParamConditions
  <2> HIDE DEF conds, p, plain, from, to, bound, inside
  <2>2. ASSUME param.op = "day" PROVE \A c \in conds : c[2] = p.field
    <3>1. conds = {<<"cond", p.field, ">=", from>>, <<"cond", p.field, "<=", to>>}
      BY <2>1, <2>2
    <3>2. ASSUME NEW c \in conds PROVE c[2] = p.field
      <4>1. c = <<"cond", p.field, ">=", from>> \/ c = <<"cond", p.field, "<=", to>>
        BY <3>1
      <4> HIDE DEF p
      <4>2. CASE c = <<"cond", p.field, ">=", from>>
        BY <4>2
      <4>3. CASE c = <<"cond", p.field, "<=", to>>
        BY <4>3
      <4> QED BY <4>1, <4>2, <4>3
    <3> QED BY <3>2
  <2>3. ASSUME param.op \in {">=", "<="} PROVE \A c \in conds : c[2] = p.field
    <3>1. conds = {<<"cond", p.field, param.op, bound>>}
      BY <2>1, <2>3
    <3> QED BY <3>1
  <2>4. ASSUME param.op = "=" /\ p.lookup # None PROVE \A c \in conds : c[2] = p.field
    <3>1. conds = {InFilter(p.field, inside, FALSE)}
      BY <2>1, <2>4
    <3>2. \A c \in conds : c = InFilter(p.field, inside, FALSE)
      BY <3>1
    <3>3. InFilter(p.field, inside, FALSE)[2] = p.field
      BY <1>1
    <3> QED BY <3>2, <3>3
  <2>5. ASSUME param.op # "day" /\ param.op \notin {">=", "<="} /\ ~ (param.op = "=" /\ p.lookup # None) PROVE \A c \in conds : c[2] = p.field
    <3>1. conds = {<<"cond", p.field, "in", plain>>}
      BY <2>1, <2>5
    <3> QED BY <3>1
  <2>6. \A c \in conds : c[2] = p.field
    BY <2>2, <2>3, <2>4, <2>5
  <2> QED BY <2>6 DEF conds, p
<1> QED
  BY <1>2, <1>3 DEF Asks

\* Whatever name a client gives leads to one of the fields, if to any.
LEMMA NamesAreSeemly ==
  ASSUME NEW e, NEW fields, Seemly(e, fields), NEW name, Named(e, name, FALSE) # None
  PROVE  Named(e, name, FALSE) \in fields
BY DEF Seemly

\* So do the conditions and the order of a query that is accepted.
LEMMA QueriesAreSeemly ==
  ASSUME NEW w, NEW profile, NEW s, NEW e, NEW fields, Seemly(e, fields), "creation" \in fields, NEW args,
         ParseList(w, profile, s, e, args).status = 200
  PROVE  LET q == ParseList(w, profile, s, e, args) IN
         /\ Asks(q.filters, fields) /\ Asks(q.or_filters, fields)
         /\ \A i \in DOMAIN q.order_by : q.order_by[i].field \in fields
<1> DEFINE filters == FilterConditions(w, profile, e, args.filter.filters)
<1> DEFINE either == FilterConditions(w, profile, e, args.filter.or_filters)
<1> DEFINE order == OrderBy(e, args.orderby)
<1> DEFINE q == ParseList(w, profile, s, e, args)
<1>1. /\ \A i \in DOMAIN args.params : args.params[i].name \in {p.name : p \in FieldParameters(e)}
      /\ None \notin ToSet(filters) \cup ToSet(either)
      /\ \A i \in DOMAIN order : order[i].field # None
      /\ q.order_by = order /\ q.filters = SoughtRows(w, profile, e, args) /\ q.or_filters = ToSet(either)
  BY AcceptedQuery DEF EitherRows
<1>2. ASSUME NEW conds, None \notin ToSet(FilterConditions(w, profile, e, conds))
      PROVE  Asks(ToSet(FilterConditions(w, profile, e, conds)), fields)
  <2>1. \A i \in DOMAIN conds : FilterCondition(w, profile, e, conds[i])[2] \in fields
    <3> SUFFICES ASSUME NEW i \in DOMAIN conds PROVE FilterCondition(w, profile, e, conds[i])[2] \in fields
      OBVIOUS
    <3>1. FilterCondition(w, profile, e, conds[i]) # None
      BY <1>2 DEF FilterConditions, ToSet
    <3> QED BY <3>1, ConditionsAskForFields
  <2> QED BY <2>1 DEF FilterConditions, ToSet, Asks
<1>3. \A i \in DOMAIN args.params :
        Asks(ParamConditions(w, profile, ParamNamed(e, args.params[i].name), args.params[i].values), fields)
  <2> SUFFICES ASSUME NEW i \in DOMAIN args.params
               PROVE  Asks(ParamConditions(w, profile, ParamNamed(e, args.params[i].name), args.params[i].values), fields)
    OBVIOUS
  <2>1. ParamNamed(e, args.params[i].name).prop.field \in fields
    BY <1>1 DEF Seemly
  <2> QED BY <2>1, ConditionsAskForFields
<1>4. Asks(ToSet(filters), fields) /\ Asks(ToSet(either), fields)
  BY <1>1, <1>2
<1>5. Asks(SoughtRows(w, profile, e, args), fields)
  BY <1>3, <1>4 DEF SoughtRows, Asks
<1>6. ASSUME NEW i \in DOMAIN order PROVE order[i].field \in fields
  <2>1. CASE args.orderby = <<>>
    BY <2>1 DEF OrderBy
  <2>2. CASE args.orderby # <<>>
    <3> DEFINE item(k) == [field |-> Named(e, args.orderby[k].name, FALSE), desc |-> args.orderby[k].desc]
    <3>1. order = [k \in DOMAIN args.orderby |-> item(k)]
      BY <2>2 DEF OrderBy
    <3>2. item(i).field = Named(e, args.orderby[i].name, FALSE)
      OBVIOUS
    <3> HIDE DEF order, item
    <3>3. order[i] = item(i)
      BY <1>6, <3>1
    <3>4. order[i].field = Named(e, args.orderby[i].name, FALSE) /\ order[i].field # None
      BY <1>1, <1>6, <3>2, <3>3
    <3>5. Named(e, args.orderby[i].name, FALSE) # None
      BY <3>4
    <3>6. Named(e, args.orderby[i].name, FALSE) \in fields
      BY <3>5, NamesAreSeemly
    <3> QED BY <3>4, <3>6
  <2> QED BY <2>1, <2>2
<1> QED
  BY <1>1, <1>4, <1>5, <1>6


\* All that makes a field of a DocType hidden.
Hidden(s, profile, d, f) ==
  /\ Discreet(profile, d, f) /\ Seemly(Entity(s, d), Kept(d, f))
  /\ {"name", "creation", "modified"} \subseteq Kept(d, f)
  /\ \A p \in Props(s, d) : /\ p.lookup # None => Sees(d, f, p)
                            /\ ~ p.write_only => p.field \in Kept(d, f)
  /\ \A c \in Collections(s, d) : c.field \in Kept(d, f)
  /\ \A p \in Restricting(profile, Entity(s, d)) : Sees(d, f, p) /\ p.field \in Kept(d, f)

\* The hidden fields are so, once the form and the profile were accepted.
LEMMA HiddenFieldsAreHidden ==
  ASSUME NEW s \in SettingsForm, NEW profile, Answerable(s, profile), NEW d \in Served,
         NEW f \in HiddenFields(s, profile, d)
  PROVE  Hidden(s, profile, d, f)
<1>1. ValidSettings(s) /\ ValidProfile(profile)
  BY DEF Answerable
<1>2. \A p \in Props(s, d) : p.lookup # None => Sees(d, f, p)
  BY <1>1, LookupsAreKept
<1>3. \A p \in Restricting(profile, Entity(s, d)) : p \in Props(s, d) /\ p.lookup # None
  BY DEF Restricting, Entity
<1>4. Discreet(profile, d, f)
  BY <1>1, ShownAreKept DEF Discreet
<1> QED
  BY <1>2, <1>3, <1>4, ShownAreKept, EntityIsSeemly DEF Hidden

\* The rows of a list are found in both worlds.
LEMMA MatchingOfTwin ==
  ASSUME NEW w \in World, NEW t, NEW d \in DocType, NEW f, NEW h, Twins(w, t, d, f, h),
         NEW s, NEW profile, Hidden(s, profile, d, f),
         NEW q, Asks(q.filters, Kept(d, f)), Asks(q.or_filters, Kept(d, f))
  PROVE  /\ Leads(h, Matching(w, profile, Entity(s, d), q), Matching(t, profile, Entity(s, d), q))
         /\ Matching(w, profile, Entity(s, d), q) \subseteq w.rows[d]
<1> DEFINE e == Entity(s, d)
<1> DEFINE all == q.filters \cup ListFilters(profile, d) \cup Restrictions(w, profile, e)
<1> DEFINE rows == GetList(w, d, all)
<1> DEFINE twins == GetList(t, d, all)
<1>1. e.doctype = d /\ \A p \in Restricting(profile, e) : Sees(d, f, p)
  BY DEF Entity, Hidden
<1>2. /\ Restrictions(t, profile, e) = Restrictions(w, profile, e)
      /\ \A c \in Restrictions(w, profile, e) : \E p \in Restricting(profile, e) : c[2] = p.field
  BY <1>1, RestrictionsOfTwin DEF Hidden
<1>3. Matching(w, profile, e, q) = Chosen(q, rows) /\ Matching(t, profile, e, q) = Chosen(q, twins)
  BY <1>1, <1>2 DEF Matching
<1>4. Asks(all, Kept(d, f))
  <2>1. \A c \in ListFilters(profile, d) : c[2] \in Kept(d, f)
    BY DEF ListFilters, Discreet, Hidden
  <2>2. \A c \in Restrictions(w, profile, e) : c[2] \in Kept(d, f)
    BY <1>2 DEF Hidden
  <2> QED BY <2>1, <2>2 DEF Asks
<1>5. rows \subseteq w.rows[d]
  BY DEF GetList
<1> HIDE DEF all, e
<1>6. Leads(h, rows, twins)
  BY <1>4, GetListOfTwin
<1>7. ASSUME NEW row \in rows PROVE h[row] \in Chosen(q, twins) <=> row \in Chosen(q, rows)
  <2>1. \A c \in q.or_filters : Holds(c, h[row]) <=> Holds(c, row)
    BY <1>5, HoldsOfField DEF Twins, Asks
  <2>2. h[row] \in twins
    BY <1>6 DEF Leads
  <2> QED BY <2>1, <2>2 DEF Chosen
<1> HIDE DEF rows, twins
<1>8. Chosen(q, rows) \subseteq rows /\ Chosen(q, twins) \subseteq twins
  BY DEF Chosen
<1>9. Leads(h, Chosen(q, rows), Chosen(q, twins))
  BY <1>6, <1>7, <1>8 DEF Leads
<1> QED
  BY <1>3, <1>5, <1>8, <1>9 DEF e

\* An order is by the given fields.
Orders(order, fields) == DOMAIN order \subseteq Nat /\ \A i \in DOMAIN order : order[i].field \in fields

\* An order by fields that are the same in two pairs of rows ranks them alike.
LEMMA BeforeOfTwin ==
  ASSUME NEW order, NEW fields, Orders(order, fields), "name" \in fields, NEW a, NEW b, NEW x, NEW y,
         \A g \in fields : x[g] = a[g] /\ y[g] = b[g]
  PROVE  Before(order, x, y) <=> Before(order, a, b)
<1> DEFINE differs(r, l) == {i \in DOMAIN order : r[order[i].field] # l[order[i].field]}
<1>1. differs(x, y) = differs(a, b) /\ differs(a, b) \subseteq DOMAIN order
  BY DEF Orders
<1> DEFINE D == differs(a, b)
<1> DEFINE key == order[Least(D)]
<1>2. Before(order, x, y) <=> IF D = {} THEN Stored[x["name"]] < Stored[y["name"]]
                              ELSE IF key.desc THEN y[key.field] < x[key.field] ELSE x[key.field] < y[key.field]
  BY <1>1 DEF Before
<1>3. Before(order, a, b) <=> IF D = {} THEN Stored[a["name"]] < Stored[b["name"]]
                              ELSE IF key.desc THEN b[key.field] < a[key.field] ELSE a[key.field] < b[key.field]
  BY DEF Before
<1> HIDE DEF D
<1>4. D # {} => key.field \in fields
  <2>1. D \subseteq Nat
    BY <1>1 DEF Orders, D
  <2>2. D # {} => Least(D) \in D
    BY <2>1, LeastIsLeast
  <2> QED BY <1>1, <2>2 DEF Orders, D
<1> QED
  BY <1>2, <1>3, <1>4

\* A row has the place that it had.
LEMMA PlacesOfTwin ==
  ASSUME NEW w \in World, NEW t, NEW d \in DocType, NEW f, NEW h, Twins(w, t, d, f, h), "name" \in Kept(d, f),
         NEW rows \in SUBSET w.rows[d], NEW twins, Leads(h, rows, twins),
         NEW order, Orders(order, Kept(d, f))
  PROVE  /\ Cardinality(twins) = Cardinality(rows)
         /\ \A row \in rows : PlaceOf(order, twins, h[row]) = PlaceOf(order, rows, row)
<1>1. IsFiniteSet(rows)
  BY RowsOfWorld, FS_Subset
<1>2. \A row, other \in rows : h[row] = h[other] => row = other
  <2>1. \A row \in rows : h[row]["name"] = row["name"]
    BY DEF Twins
  <2> QED BY <2>1, RowsOfWorld
<1>3. ASSUME NEW S \in SUBSET rows PROVE Cardinality({h[row] : row \in S}) = Cardinality(S)
  <2> DEFINE g == [row \in S |-> h[row]]
  <2>1. IsFiniteSet(S)
    BY <1>1, FS_Subset
  <2>2. g = [row \in S |-> g[row]] /\ \A x, y \in S : g[x] = g[y] => x = y
    BY <1>2
  <2>3. {g[row] : row \in S} = {h[row] : row \in S}
    OBVIOUS
  <2> HIDE DEF g
  <2>4. Cardinality({g[row] : row \in S}) = Cardinality(S)
    BY <2>1, <2>2, ImagesAreAsMany
  <2> QED BY <2>3, <2>4
<1>4. twins = {h[row] : row \in rows}
  BY DEF Leads
<1>5. ASSUME NEW row \in rows PROVE PlaceOf(order, twins, h[row]) = PlaceOf(order, rows, row)
  <2> DEFINE ahead == {r \in rows : Before(order, r, row)}
  <2>1. ASSUME NEW r \in rows PROVE Before(order, h[r], h[row]) <=> Before(order, r, row)
    <3>1. \A g \in Kept(d, f) : h[r][g] = r[g] /\ h[row][g] = row[g]
      BY DEF Twins
    <3> QED BY <3>1, BeforeOfTwin
  <2>2. {r \in twins : Before(order, r, h[row])} = {h[r] : r \in ahead}
    BY <1>4, <2>1
  <2>3. ahead \in SUBSET rows
    OBVIOUS
  <2> HIDE DEF ahead
  <2>4. Cardinality({h[r] : r \in ahead}) = Cardinality(ahead)
    BY <1>3, <2>3
  <2> QED BY <2>2, <2>4 DEF PlaceOf, ahead
<1>6. Cardinality(twins) = Cardinality(rows)
  BY <1>3, <1>4
<1> QED
  BY <1>5, <1>6


\* A row is shown alike.
LEMMA RowsOfTwin ==
  ASSUME NEW w \in World, NEW t, NEW d \in DocType, NEW f, NEW h, Twins(w, t, d, f, h),
         NEW s, NEW profile, Hidden(s, profile, d, f),
         NEW props \in SUBSET Props(s, d), \A p \in props : ~ p.write_only, NEW row \in w.rows[d]
  PROVE  SerializeRow(t, profile, props, h[row]) = SerializeRow(w, profile, props, row)
<1> DEFINE val(u, r, p) == IF p.lookup = None THEN r[p.field] ELSE ToPublic(u, profile, p, r[p.field])
<1>1. \A u, r : SerializeRow(u, profile, props, r) = {<<p.public, val(u, r, p)>> : p \in {q \in props : q.field \in DOMAIN r}}
  BY DEF SerializeRow
<1>2. DOMAIN h[row] = DOMAIN row /\ \A p \in props : h[row][p.field] = row[p.field]
  BY DEF Hidden, Twins
<1>3. ASSUME NEW p \in props PROVE val(t, h[row], p) = val(w, row, p)
  <2>1. CASE p.lookup = None
    BY <1>2, <2>1
  <2>2. CASE p.lookup # None
    <3>1. Sees(d, f, p) /\ Discreet(profile, d, f)
      BY <2>2 DEF Hidden
    <3>2. Alike(w, t, profile, p)
      BY <3>1, LookupsOfTwin
    <3>3. \A v : ToPublic(t, profile, p, v) = ToPublic(w, profile, p, v)
      BY <3>2 DEF Alike
    <3> QED BY <1>2, <2>2, <3>3
  <2> QED BY <2>1, <2>2
<1> DEFINE S == {q \in props : q.field \in DOMAIN row}
<1>4. /\ SerializeRow(t, profile, props, h[row]) = {<<p.public, val(t, h[row], p)>> : p \in S}
      /\ SerializeRow(w, profile, props, row) = {<<p.public, val(w, row, p)>> : p \in S}
  BY <1>1, <1>2
<1> HIDE DEF val
<1>5. {<<p.public, val(t, h[row], p)>> : p \in S} = {<<p.public, val(w, row, p)>> : p \in S}
  BY <1>3
<1> QED
  BY <1>4, <1>5

\* The properties of a list are not write-only.
LEMMA ListedAreShown ==
  ASSUME NEW s, NEW d \in DocType, NEW p \in Props(s, d)
  PROVE  /\ p.in_lists => ~ p.write_only
         /\ p.field = "name" => ~ p.write_only
<1>1. p.at \in DOMAIN Columns[d] /\ p = Prop(s, d, p.at) /\ p.field = Columns[d][p.at].name
  BY PropIsColumn DEF Seen
<1>2. CASE p.at <= Len(Standard(d))
  <2>1. p = StandardProp(s, d, p.at)
    BY <1>1, <1>2 DEF Prop
  <2>2. StandardProp(s, d, p.at).write_only = FALSE
    BY DEF StandardProp
  <2> QED BY <2>1, <2>2
<1>3. CASE ~ (p.at <= Len(Standard(d)))
  <2>1. p = OwnProp(s, d, p.at)
    BY <1>1, <1>3 DEF Prop
  <2>2. OwnProp(s, d, p.at).in_lists => ~ OwnProp(s, d, p.at).write_only
    BY DEF OwnProp
  <2>3. p.field # "name"
    <3>1. 1 \in DOMAIN Columns[d] /\ Columns[d][1].name = "name" /\ Len(Standard(d)) \in Nat /\ Len(Standard(d)) >= 1
      BY ColumnsAreNamed
    <3>2. p.at # 1
      BY <1>3, <3>1
    <3> QED BY <1>1, <3>1, <3>2, ColumnOfName
  <2> QED BY <2>1, <2>2, <2>3
<1> QED
  BY <1>2, <1>3

\* What a query selects is not write-only.
LEMMA SelectedAreShown ==
  ASSUME NEW s, NEW d \in DocType, NEW w, NEW profile, NEW args,
         ParseList(w, profile, s, Entity(s, d), args).status = 200,
         NEW p \in Props(s, d), p.field \in ParseList(w, profile, s, Entity(s, d), args).fields
  PROVE  ~ p.write_only
<1>1. p.field \in ListedFields(Entity(s, d)) \cup {"name"}
  BY AcceptedQuery
<1>2. CASE p.field = "name"
  BY <1>2, ListedAreShown
<1>3. CASE p.field # "name"
  <2>1. PICK q \in Props(s, d) : q.in_lists /\ q.field = p.field
    BY <1>1, <1>3 DEF ListedFields, Entity
  <2>2. q = p
    BY <2>1, ItemOfField DEF ItemsOf
  <2> QED BY <2>1, <2>2, ListedAreShown
<1> QED
  BY <1>2, <1>3

\* The order of a query has places, and asks for what is not hidden.
LEMMA OrdersAreSeemly ==
  ASSUME NEW w, NEW profile, NEW s, NEW e, NEW fields, Seemly(e, fields), "creation" \in fields, NEW args \in Query,
         ParseList(w, profile, s, e, args).status = 200
  PROVE  Orders(ParseList(w, profile, s, e, args).order_by, fields)
<1> DEFINE q == ParseList(w, profile, s, e, args)
<1>1. q.order_by = OrderBy(e, args.orderby)
  BY AcceptedQuery
<1>2. \A i \in DOMAIN q.order_by : q.order_by[i].field \in fields
  BY QueriesAreSeemly
<1>3. DOMAIN args.orderby \subseteq Nat
  <2> DEFINE Item == [name : STRING, desc : BOOLEAN]
  <2>1. args.orderby \in Seq(Item)
    BY QueryAssumption
  <2> HIDE DEF Item
  <2> QED BY <2>1
<1>4. DOMAIN OrderBy(e, args.orderby) \subseteq Nat
  <2>1. CASE args.orderby = <<>>
    BY <2>1 DEF OrderBy
  <2>2. CASE args.orderby # <<>>
    <3>1. OrderBy(e, args.orderby) = [k \in DOMAIN args.orderby |->
            [field |-> Named(e, args.orderby[k].name, FALSE), desc |-> args.orderby[k].desc]]
      BY <2>2 DEF OrderBy
    <3> QED BY <1>3, <3>1
  <2> QED BY <2>1, <2>2
<1> QED
  BY <1>1, <1>2, <1>4 DEF Orders

\* A list is the same.
LEMMA ListsOfTwin ==
  ASSUME NEW w \in World, NEW t, NEW d \in DocType, NEW f, NEW h, Twins(w, t, d, f, h),
         NEW s, NEW profile, Hidden(s, profile, d, f), NEW args \in Query
  PROVE  ListDocuments(t, profile, s, d, args) = ListDocuments(w, profile, s, d, args)
<1> DEFINE e == Entity(s, d)
<1> DEFINE q == ParseList(w, profile, s, e, args)
<1> DEFINE order == q.order_by
<1> DEFINE found(u) == Matching(u, profile, e, q)
<1> DEFINE places == args.skip..(args.skip + q.top - 1)
<1> DEFINE page(u) == {row \in found(u) : PlaceOf(order, found(u), row) \in places}
<1> DEFINE props == {p \in e.props : p.field \in q.fields}
<1> DEFINE value(u) == {<<PlaceOf(order, found(u), row), SerializeRow(u, profile, props, row)>> : row \in page(u)}
<1> DEFINE full(u) == [status |-> 200, count |-> Cardinality(found(u)), next |-> Cardinality(page(u)) = q.top, value |-> value(u)]
<1>1. e.props = Props(s, d)
  BY DEF Entity
<1>2. ParseList(t, profile, s, e, args) = q
  BY ParsingOfTwin DEF Hidden
<1>3. ASSUME NEW u, ParseList(u, profile, s, e, args) = q
      PROVE  ListDocuments(u, profile, s, d, args) = IF q.status # 200 THEN q ELSE IF ~ ParamsLoad(profile) THEN Error(500) ELSE full(u)
  BY <1>3 DEF ListDocuments, Listed
<1>4. ASSUME q.status = 200 PROVE full(t) = full(w)
  <2>1. {"name", "creation"} \subseteq Kept(d, f) /\ Seemly(e, Kept(d, f))
    BY DEF Hidden
  <2>2. Asks(q.filters, Kept(d, f)) /\ Asks(q.or_filters, Kept(d, f))
    BY <1>4, <2>1, QueriesAreSeemly
  <2>3. Orders(order, Kept(d, f))
    BY <1>4, <2>1, OrdersAreSeemly
  <2>4. Leads(h, found(w), found(t)) /\ found(w) \subseteq w.rows[d]
    BY <2>2, MatchingOfTwin
  <2>5. props \in SUBSET Props(s, d) /\ \A p \in props : ~ p.write_only
    BY <1>1, <1>4, SelectedAreShown
  <2> HIDE DEF e, q, order, found, props, places
  <2>6. /\ Cardinality(found(t)) = Cardinality(found(w))
        /\ \A row \in found(w) : PlaceOf(order, found(t), h[row]) = PlaceOf(order, found(w), row)
    BY <2>1, <2>3, <2>4, PlacesOfTwin
  <2>7. Leads(h, page(w), page(t)) /\ page(w) \in SUBSET w.rows[d]
    BY <2>4, <2>6 DEF Leads
  <2>8. Cardinality(page(t)) = Cardinality(page(w))
    <3> DEFINE here == page(w)
    <3> DEFINE there == page(t)
    <3>1. Leads(h, here, there) /\ here \in SUBSET w.rows[d]
      BY <2>7
    <3> HIDE DEF here, there
    <3>2. Cardinality(there) = Cardinality(here)
      BY <2>1, <2>3, <3>1, PlacesOfTwin
    <3> QED BY <3>2 DEF here, there
  <2>9. \A row \in page(w) : SerializeRow(t, profile, props, h[row]) = SerializeRow(w, profile, props, row)
    BY <2>5, <2>7, RowsOfTwin
  <2>10. value(t) = value(w)
    <3> DEFINE shown(u, row) == <<PlaceOf(order, found(u), row), SerializeRow(u, profile, props, row)>>
    <3>1. \A row \in page(w) : shown(t, h[row]) = shown(w, row)
      BY <2>6, <2>9
    <3>2. \A u : value(u) = {shown(u, row) : row \in page(u)}
      OBVIOUS
    <3> HIDE DEF shown, page, value
    <3>3. {shown(t, r) : r \in page(t)} = {shown(t, h[row]) : row \in page(w)}
      BY <2>7 DEF Leads
    <3>4. {shown(t, h[row]) : row \in page(w)} = {shown(w, row) : row \in page(w)}
      BY <3>1
    <3> QED BY <3>2, <3>3, <3>4
  <2> HIDE DEF value, page
  <2> QED BY <2>6, <2>8, <2>10
<1>5. ParseList(w, profile, s, e, args) = q
  OBVIOUS
<1> HIDE DEF full, q, e
<1>6. CASE q.status = 200
  BY <1>2, <1>3, <1>4, <1>5, <1>6
<1>7. CASE q.status # 200
  BY <1>2, <1>3, <1>5, <1>7
<1> QED
  BY <1>6, <1>7


\* The rows of child tables are shown without lookups, from whatever world.
ChildProps(s, d) == {[p EXCEPT !.lookup = None] : p \in Props(s, d)}

\* A child row is shown alike.
LEMMA ChildRowsOfTwin ==
  ASSUME NEW w, NEW t, NEW s, NEW profile, NEW d, NEW row
  PROVE  SerializeRow(t, profile, ChildProps(s, d), row) = SerializeRow(w, profile, ChildProps(s, d), row)
<1> DEFINE props == ChildProps(s, d)
<1>1. ASSUME NEW p \in Props(s, d) PROVE [p EXCEPT !.lookup = None].lookup = None
  <2>1. PICK i : p = StandardProp(s, d, i) \/ p = OwnProp(s, d, i)
    BY DEF Props, Prop
  <2>2. CASE p = StandardProp(s, d, i)
    BY <2>2 DEF StandardProp
  <2>3. CASE p = OwnProp(s, d, i)
    BY <2>3 DEF OwnProp
  <2> QED BY <2>1, <2>2, <2>3
<1>2. \A p \in props : p.lookup = None
  BY <1>1 DEF ChildProps
<1> HIDE DEF props
<1>3. \A u : SerializeRow(u, profile, props, row) = {<<p.public, row[p.field]>> : p \in {q \in props : q.field \in DOMAIN row}}
  BY <1>2 DEF SerializeRow
<1> QED
  BY <1>3 DEF props

\* A document is shown alike.
LEMMA DocumentsOfTwin ==
  ASSUME NEW w \in World, NEW t, NEW d \in DocType, NEW f, NEW h, Twins(w, t, d, f, h),
         NEW s, NEW profile, Hidden(s, profile, d, f), NEW row \in w.rows[d], NEW chosen
  PROVE  SerializeDocument(t, profile, s, Entity(s, d), h[row], chosen)
           = SerializeDocument(w, profile, s, Entity(s, d), row, chosen)
<1> DEFINE e == Entity(s, d)
<1> DEFINE props == {p \in e.props : ~ p.write_only /\ (chosen = {} \/ p.field \in chosen \cup {"name"})}
<1> DEFINE tables == {c \in e.collections : chosen = {} \/ c.field \in chosen}
<1> DEFINE shown(u, c, x) == SerializeRow(u, profile, ChildProps(s, c.child), x)
<1> DEFINE rows(u, r, c) == {shown(u, c, x) : x \in r[c.field]}
<1>1. \A u, r : SerializeDocument(u, profile, s, e, r, chosen) =
        SerializeRow(u, profile, props, r) \cup {<<c.public, rows(u, r, c)>> : c \in tables} \cup {<<"@odata.etag", r["modified"]>>}
  BY DEF SerializeDocument, ChildProps
<1>2. e.props = Props(s, d) /\ e.collections = Collections(s, d)
  BY DEF Entity
<1>3. h[row]["modified"] = row["modified"] /\ \A c \in tables : h[row][c.field] = row[c.field]
  BY <1>2 DEF Hidden, Twins
<1>4. SerializeRow(t, profile, props, h[row]) = SerializeRow(w, profile, props, row)
  <2>1. props \in SUBSET Props(s, d) /\ \A p \in props : ~ p.write_only
    BY <1>2
  <2> HIDE DEF props
  <2> QED BY <2>1, RowsOfTwin
<1>5. ASSUME NEW c \in tables PROVE rows(t, h[row], c) = rows(w, row, c)
  <2>1. \A x : shown(t, c, x) = shown(w, c, x)
    BY ChildRowsOfTwin
  <2>2. h[row][c.field] = row[c.field]
    BY <1>3
  <2> HIDE DEF shown
  <2>3. {shown(t, c, x) : x \in row[c.field]} = {shown(w, c, x) : x \in row[c.field]}
    BY <2>1
  <2> QED BY <2>2, <2>3
<1> HIDE DEF e, props, tables, rows
<1>6. {<<c.public, rows(t, h[row], c)>> : c \in tables} = {<<c.public, rows(w, row, c)>> : c \in tables}
  BY <1>5
<1>7. SerializeDocument(t, profile, s, e, h[row], chosen) = SerializeDocument(w, profile, s, e, row, chosen)
  BY <1>1, <1>3, <1>4, <1>6
<1> QED
  BY <1>7 DEF e

\* What is in scope is so in both worlds.
LEMMA ScopeOfTwin ==
  ASSUME NEW w \in World, NEW t, NEW d \in DocType, NEW f, NEW h, Twins(w, t, d, f, h),
         NEW s, NEW profile, Hidden(s, profile, d, f), NEW name
  PROVE  Leads(h, GetInScope(w, profile, s, d, name), GetInScope(t, profile, s, d, name))
<1> DEFINE e == Entity(s, d)
<1> DEFINE rows == GetInScope(w, profile, s, d, name)
<1> DEFINE twins == GetInScope(t, profile, s, d, name)
<1>1. /\ \A row : LookupsAllowed(t, profile, e, row) <=> LookupsAllowed(w, profile, e, row)
      /\ \A p \in Restricting(profile, e) : p.field \in Kept(d, f)
  <2>1. \A p \in Restricting(profile, e) : Sees(d, f, p)
    BY DEF Hidden
  <2>2. Discreet(profile, d, f)
    BY DEF Hidden
  <2> QED BY <2>1, <2>2, RestrictionsOfTwin DEF Hidden
<1>2. ASSUME NEW row \in w.rows[d] PROVE h[row] \in twins <=> row \in rows
  <2>1. \A g \in Kept(d, f) : h[row][g] = row[g]
    BY DEF Twins
  <2>2. LookupsAllowed(w, profile, e, h[row]) <=> LookupsAllowed(w, profile, e, row)
    BY <1>1, <2>1 DEF LookupsAllowed
  <2>3. InScope(profile, d, h[row]) <=> InScope(profile, d, row)
    BY <2>1 DEF InScope, Hidden, Discreet
  <2>4. h[row]["name"] = row["name"] /\ h[row] \in t.rows[d]
    BY <2>1 DEF Hidden, Twins, Leads
  <2> QED BY <1>1, <2>2, <2>3, <2>4 DEF GetInScope
<1>3. Leads(h, w.rows[d], t.rows[d])
  BY DEF Twins
<1>4. rows \subseteq w.rows[d] /\ twins \subseteq t.rows[d]
  BY DEF GetInScope
<1> HIDE DEF rows, twins
<1>5. Leads(h, rows, twins)
  BY <1>2, <1>3, <1>4 DEF Leads
<1> QED
  BY <1>5 DEF rows, twins

\* A read is the same.
LEMMA ReadsOfTwin ==
  ASSUME NEW w \in World, NEW t, NEW d \in DocType, NEW f, NEW h, Twins(w, t, d, f, h),
         NEW s, NEW profile, Hidden(s, profile, d, f), NEW name, NEW names
  PROVE  ReadDocument(t, profile, s, d, name, names) = ReadDocument(w, profile, s, d, name, names)
<1> DEFINE e == Entity(s, d)
<1> DEFINE chosen == ToSet(Select(e, names, TRUE))
<1> DEFINE found(u) == GetInScope(u, profile, s, d, name)
<1> DEFINE first(u) == CHOOSE row \in found(u) : TRUE
<1> DEFINE document(u) == SerializeDocument(u, profile, s, e, first(u), chosen)
<1> DEFINE none(u) == \A row \in u.rows[d] : row["name"] # name
<1>1. \A u : ReadDocument(u, profile, s, d, name, names) =
        IF None \in chosen THEN Error(400)
        ELSE IF none(u) THEN Error(404)
        ELSE IF ~ ParamsLoad(profile) THEN Error(500)
        ELSE IF found(u) = {} THEN Error(404)
        ELSE IF name \notin u.readable[d] THEN Error(403)
        ELSE [status |-> 200, value |-> document(u)]
  BY DEF ReadDocument
<1>2. none(t) <=> none(w)
  <2>1. \A row \in w.rows[d] : h[row]["name"] = row["name"]
    BY DEF Hidden, Twins
  <2>2. \A r : r \in t.rows[d] <=> \E row \in w.rows[d] : r = h[row]
    BY DEF Twins, Leads
  <2> QED BY <2>1, <2>2
<1>3. t.readable = w.readable
  BY DEF Twins
<1>4. \A r : r \in found(t) <=> \E row \in found(w) : r = h[row]
  BY ScopeOfTwin DEF Leads
<1>5. ASSUME found(w) # {} PROVE document(t) = document(w)
  <2>1. PICK row \in found(w) : TRUE
    BY <1>5
  <2>2. row \in w.rows[d] /\ \A r \in found(w) : r = row
    BY <2>1, RowsOfWorld DEF GetInScope
  <2>3. found(w) = {row}
    BY <2>1, <2>2
  <2>4. found(t) = {h[row]}
    BY <1>4, <2>3
  <2>5. \A x : (CHOOSE r \in {x} : TRUE) = x
    OBVIOUS
  <2> HIDE DEF chosen
  <2>6. SerializeDocument(t, profile, s, e, h[row], chosen) = SerializeDocument(w, profile, s, e, row, chosen)
    BY <2>2, DocumentsOfTwin
  <2> HIDE DEF found, e
  <2>7. first(w) = row /\ first(t) = h[row]
    BY <2>3, <2>4, <2>5
  <2> HIDE DEF first
  <2> QED BY <2>6, <2>7
<1>6. found(t) = {} <=> found(w) = {}
  BY <1>4
<1> HIDE DEF e, chosen, found, first, document, none
<1>7. CASE found(w) = {}
  BY <1>1, <1>2, <1>3, <1>6, <1>7
<1>8. CASE found(w) # {}
  BY <1>1, <1>2, <1>3, <1>5, <1>6, <1>8
<1> QED
  BY <1>7, <1>8

\* A field that is hidden is not seen in lists or reads, whatever value it has.
LEMMA FieldsHide ==
  ASSUME NEW w \in World, NEW profile, NEW s \in SettingsForm, NEW d \in Served, NEW name, NEW args \in Query,
         NEW f \in HiddenFields(s, profile, d), NEW v
  PROVE  HidesField(w, profile, s, d, name, args, f, v)
<1> DEFINE t == Twin(w, d, name, f, v)
<1> SUFFICES ASSUME Answerable(s, profile)
             PROVE  /\ ListDocuments(w, profile, s, d, args) = ListDocuments(t, profile, s, d, args)
                    /\ ReadDocument(w, profile, s, d, name, args.select) = ReadDocument(t, profile, s, d, name, args.select)
  BY DEF HidesField
<1>1. Hidden(s, profile, d, f) /\ d \in DocType
  BY HiddenFieldsAreHidden, ServedAssumption
<1>2. f # "name"
  BY <1>1 DEF Hidden, Kept
<1>3. PICK h : Twins(w, t, d, f, h)
  BY <1>1, <1>2, TwinsOfWorld
<1> HIDE DEF t
<1>4. ListDocuments(t, profile, s, d, args) = ListDocuments(w, profile, s, d, args)
  BY <1>1, <1>3, ListsOfTwin
<1>5. ReadDocument(t, profile, s, d, name, args.select) = ReadDocument(w, profile, s, d, name, args.select)
  BY <1>1, <1>3, ReadsOfTwin
<1> QED
  BY <1>4, <1>5

\* HiddenFieldsAreUnobservable: whatever the settings, the rows, the profile and
\* the query, whichever field is hidden and whatever value it has.
THEOREM HiddenFieldsStayHidden == CallsSpec => []HiddenFieldsAreUnobservable
<1>1. call \in Calls => HiddenFieldsAreUnobservable
  <2> SUFFICES ASSUME call \in Calls, call.about = "hide",
                      NEW f \in HiddenFields(call.form, call.profile, call.doctype), NEW v \in Value
               PROVE  HidesField(call.w, call.profile, call.form, call.doctype, call.name, call.query, f, v)
    BY DEF HiddenFieldsAreUnobservable
  <2>1. call.w \in World /\ call.doctype \in Served /\ call.form \in SettingsForm /\ call.query \in Query
    BY FormAssumption DEF Calls
  <2> QED BY <2>1, FieldsHide
<1> QED
  BY <1>1, CallsAreTyped, PTL

-----------------------------------------------------------------------------
(* Negated conditions.                                                     *)

Ordering  == {">", ">=", "<", "<="}
Operators == Ordering \cup {"=", "!=", "in", "not in", "like", "not like", "is"}

\* A condition that the parser makes, on a field and with an argument; only
\* numbers (and dates, which are numbers here) are compared by order.
Made(op, field, arg, row) ==
  /\ op \in Operators
  /\ op = "is" => arg \in {"set", "not set"}
  /\ op \in Ordering => row[field] \in Int /\ arg \in Int

\* The negation of a condition is one that holds of the rows of which the
\* condition does not: with each operator, at the boundary, and for rows
\* without a value.
THEOREM NegationNegates ==
  ASSUME NEW op, NEW field, NEW arg, NEW row, Made(op, field, arg, row)
  PROVE  LET cond == <<"cond", field, op, arg>> IN
         Holds(NegateCond(cond), row) <=> ~ Holds(cond, row)
<1> DEFINE cond == <<"cond", field, op, arg>>
<1>1. CASE op \in {"=", "!="}
  BY <1>1 DEF NegateCond, NEGATED, Holds
<1>2. CASE op \in Ordering
  <2>1. row[field] \in Int /\ arg \in Int BY <1>2 DEF Made
  <2>2. CASE op = ">"  BY <2>1, <2>2 DEF NegateCond, NEGATED, Holds
  <2>3. CASE op = ">=" BY <2>1, <2>3 DEF NegateCond, NEGATED, Holds
  <2>4. CASE op = "<"  BY <2>1, <2>4 DEF NegateCond, NEGATED, Holds
  <2>5. CASE op = "<=" BY <2>1, <2>5 DEF NegateCond, NEGATED, Holds
  <2>6. QED BY <1>2, <2>2, <2>3, <2>4, <2>5 DEF Ordering
<1>3. CASE op \in {"in", "not in"}
  BY <1>3 DEF NegateCond, NEGATED, Holds
<1>4. CASE op \in {"like", "not like"}
  BY <1>4 DEF NegateCond, NEGATED, Holds
<1>5. CASE op = "is"
  BY <1>5 DEF NegateCond, Holds, Made
<1>6. QED BY <1>1, <1>2, <1>3, <1>4, <1>5 DEF Made, Operators

=============================================================================
