------------------------- MODULE PermittedBroadcast -------------------------
(***************************************************************************)
(* FraxisNamespace.emit_to_permitted on one server process: how a change   *)
(* event reaches the members of a room.  A broadcast reads the room and    *)
(* the sessions in one go, then awaits one permission check per distinct   *)
(* user in the executor, then awaits one emit per sid.  Between its steps  *)
(* members leave, disconnect and re-subscribe with other filters, an       *)
(* administrator grants and revokes read permission, and other broadcasts  *)
(* of the same room run: those of CRUD handlers, which pass no data and so *)
(* are not filtered, and those of the doc-event relay, which are.          *)
(***************************************************************************)
EXTENDS Naturals

CONSTANTS
  Sid,        \* connections that may be members of the room
  User,       \* users bound to them
  UserOf,     \* UserOf[c]: the authenticated user of c (never Guest: only
              \* a handler behind require_user enters a room)
  Data,       \* projected fields of a changed document, as far as filters
              \* can tell them apart
  Clauses,    \* filters, each the set of the data it lets through; no
              \* filter lets through everything
  NoData,     \* filter_data of an in-process broadcast: None
  Broadcast,  \* slots for emit_to_permitted calls, used again and again
  MaxChanges  \* bound: changes of the room and the permissions after Init

ASSUME UserAssumption == UserOf \in [Sid -> User]
ASSUME DataAssumption ==
  /\ NoData \notin Data
  /\ Clauses \in SUBSET SUBSET Data
  /\ Data \in Clauses
ASSUME ChangesAssumption == MaxChanges \in Nat

VARIABLES
  member,     \* the sids in the room
  clauses,    \* clauses[c]: the filter in the session of c for this room
  reader,     \* users that have read permission on the doctype
  changes,    \* changes of the three above so far
  stage,      \* stage[b]: "checking", "emitting" or "done" (or not begun)
  data,       \* data[b]: the filter_data of broadcast b
  audience,   \* audience[b]: participants found when b started
  captured,   \* captured[b][c]: the filter of c as read when b started
  verdict,    \* verdict[b]: the users that were found permitted
  unchecked,  \* unchecked[b]: users whose check has not returned
  todo,       \* todo[b]: sids an emit is still to be awaited for
  delivered,  \* delivered[b]: sids the event of b was emitted to
  \* History since b started, for the properties.
  eligible,   \* eligible[b]: sids that were at some time members with a
              \* filter matching the data of b
  steadfast,  \* steadfast[b]: sids that have been so all the time
  reading,    \* reading[b]: users that had read permission at some time
  trusted     \* trusted[b]: users that have had it all the time and whose
              \* check did not fail

room  == <<member, clauses, reader, changes>>
tasks == <<stage, data, audience, captured, verdict, unchecked, todo,
           delivered>>
past  == <<eligible, steadfast, reading, trusted>>
vars  == <<member, clauses, reader, changes, stage, data, audience, captured,
           verdict, unchecked, todo, delivered, eligible, steadfast, reading,
           trusted>>

\* matches(): clauses let the data through; without filter_data nothing is
\* filtered.
Matches(f, d) == d = NoData \/ d \in f

\* The sids a broadcast of d is for, given the members and their filters.
Entitled(sids, filter, d) == {c \in sids : Matches(filter[c], d)}

Running(b) == stage[b] \in {"checking", "emitting"}

\* What any change of the room or the permissions comes with: it counts, and
\* the history of the running broadcasts goes on.
Change ==
  LET now(b) == Entitled(member', clauses', data[b]) IN
  /\ changes < MaxChanges /\ changes' = changes + 1
  /\ eligible'  = [b \in Broadcast |-> IF Running(b) THEN eligible[b] \cup now(b)
                                                    ELSE eligible[b]]
  /\ steadfast' = [b \in Broadcast |-> IF Running(b) THEN steadfast[b] \cap now(b)
                                                    ELSE steadfast[b]]
  /\ reading'   = [b \in Broadcast |-> IF Running(b) THEN reading[b] \cup reader'
                                                    ELSE reading[b]]
  /\ trusted'   = [b \in Broadcast |-> IF Running(b) THEN trusted[b] \cap reader'
                                                    ELSE trusted[b]]

-----------------------------------------------------------------------------
\* Any room that subscribing can have produced, any permissions, no broadcast.
Init ==
  /\ member    \in SUBSET Sid
  /\ clauses   \in {f \in [Sid -> Clauses] : \A c \in Sid \ member : f[c] = Data}
  /\ reader    \in SUBSET User
  /\ changes   = 0
  /\ stage     = [b \in Broadcast |-> "done"]
  /\ data      = [b \in Broadcast |-> NoData]
  /\ audience  = [b \in Broadcast |-> {}]
  /\ captured  = [b \in Broadcast |-> [c \in Sid |-> Data]]
  /\ verdict   = [b \in Broadcast |-> {}]
  /\ unchecked = [b \in Broadcast |-> {}]
  /\ todo      = [b \in Broadcast |-> {}]
  /\ delivered = [b \in Broadcast |-> {}]
  /\ eligible  = [b \in Broadcast |-> {}]
  /\ steadfast = [b \in Broadcast |-> {}]
  /\ reading   = [b \in Broadcast |-> {}]
  /\ trusted   = [b \in Broadcast |-> {}]

-----------------------------------------------------------------------------
(* The room and the permissions.                                           *)

\* A subscribe handler whose permission check has passed: enter_room and
\* _track_subscription, for a new member or to replace a member's filter.
Subscribe(c, f) ==
  /\ member'  = member \cup {c}
  /\ clauses' = [clauses EXCEPT ![c] = f]
  /\ UNCHANGED <<reader, tasks>>
  /\ Change

\* unsubscribe or disconnect: the filter goes with the membership.
Leave(c) ==
  /\ c \in member
  /\ member'  = member \ {c}
  /\ clauses' = [clauses EXCEPT ![c] = Data]
  /\ UNCHANGED <<reader, tasks>>
  /\ Change

\* An administrator changes who may read the doctype.
Grant(u) ==
  /\ u \notin reader
  /\ reader' = reader \cup {u}
  /\ UNCHANGED <<member, clauses, tasks>>
  /\ Change

Revoke(u) ==
  /\ u \in reader
  /\ reader' = reader \ {u}
  /\ UNCHANGED <<member, clauses, tasks>>
  /\ Change

-----------------------------------------------------------------------------
(* emit_to_permitted.                                                      *)

\* Participants, their users and, when there is data, their filters are read
\* without an await in between; an empty room ends the call.
Start(b, d) ==
  /\ stage[b] = "done"
  /\ stage'     = [stage EXCEPT ![b] = IF member = {} THEN "done" ELSE "checking"]
  /\ data'      = [data EXCEPT ![b] = d]
  /\ audience'  = [audience EXCEPT ![b] = member]
  /\ captured'  = [captured EXCEPT ![b] =
                     [c \in Sid |-> IF d # NoData /\ c \in member
                                      THEN clauses[c] ELSE Data]]
  /\ unchecked' = [unchecked EXCEPT ![b] = {UserOf[c] : c \in member}]
  /\ eligible'  = [eligible EXCEPT ![b] = Entitled(member, clauses, d)]
  /\ steadfast' = [steadfast EXCEPT ![b] = Entitled(member, clauses, d)]
  /\ reading'   = [reading EXCEPT ![b] = reader]
  /\ trusted'   = [trusted EXCEPT ![b] = reader]
  /\ verdict'   = [verdict EXCEPT ![b] = {}]
  /\ delivered' = [delivered EXCEPT ![b] = {}]
  /\ UNCHANGED <<room, todo>>

\* frappe.has_permission runs for one distinct user, with that user's
\* permissions at that moment.
Check(b, u) ==
  /\ stage[b] = "checking" /\ u \in unchecked[b]
  /\ unchecked' = [unchecked EXCEPT ![b] = @ \ {u}]
  /\ verdict'   = [verdict EXCEPT ![b] = IF u \in reader THEN @ \cup {u} ELSE @]
  /\ UNCHANGED <<room, stage, data, audience, captured, todo,
                 delivered, past>>

\* The check raises: its exception is gathered as a result that is not True.
CheckFails(b, u) ==
  /\ stage[b] = "checking" /\ u \in unchecked[b]
  /\ unchecked' = [unchecked EXCEPT ![b] = @ \ {u}]
  /\ trusted'   = [trusted EXCEPT ![b] = @ \ {u}]
  /\ UNCHANGED <<room, stage, data, audience, captured, verdict, todo,
                 delivered, eligible, steadfast, reading>>

\* Mutant of Recipients: only the filter decides, the verdicts are ignored.
RecipientsUnchecked(b) ==
  {c \in audience[b] : Matches(captured[b][c], data[b])}

\* Mutant of Recipients: the filters are ignored.
RecipientsUnfiltered(b) == {c \in audience[b] : UserOf[c] \in verdict[b]}

\* Who of the captured audience gets the event, once all verdicts are in.
Recipients(b) ==
  {c \in audience[b] : /\ UserOf[c] \in verdict[b]
                       /\ Matches(captured[b][c], data[b])}

\* Mutant of Gathered: the first verdict ends the gathering.
GatheredEarly(b) ==
  /\ stage[b] = "checking" /\ verdict[b] # {}
  /\ stage' = [stage EXCEPT ![b] = "emitting"]
  /\ todo'  = [todo EXCEPT ![b] = Recipients(b)]
  /\ UNCHANGED <<room, data, audience, captured, verdict, unchecked,
                 delivered, past>>

\* Mutant of Gathered: it waits for every user to be found permitted.
GatheredUnanimous(b) ==
  /\ stage[b] = "checking" /\ verdict[b] = {UserOf[c] : c \in audience[b]}
  /\ stage' = [stage EXCEPT ![b] = "emitting"]
  /\ todo'  = [todo EXCEPT ![b] = Recipients(b)]
  /\ UNCHANGED <<room, data, audience, captured, verdict, unchecked,
                 delivered, past>>

Gathered(b) ==
  /\ stage[b] = "checking" /\ unchecked[b] = {}
  /\ stage' = [stage EXCEPT ![b] = "emitting"]
  /\ todo'  = [todo EXCEPT ![b] = Recipients(b)]
  /\ UNCHANGED <<room, data, audience, captured, verdict, unchecked,
                 delivered, past>>

\* One awaited emit to one sid; it does nothing for a sid that has gone.
Deliver(b, c) ==
  /\ stage[b] = "emitting" /\ c \in todo[b]
  /\ todo'      = [todo EXCEPT ![b] = @ \ {c}]
  /\ delivered' = [delivered EXCEPT ![b] = @ \cup {c}]
  /\ UNCHANGED <<room, stage, data, audience, captured, verdict,
                 unchecked, past>>

Finish(b) ==
  /\ stage[b] = "emitting" /\ todo[b] = {}
  /\ stage' = [stage EXCEPT ![b] = "done"]
  /\ UNCHANGED <<room, data, audience, captured, verdict, unchecked,
                 todo, delivered, past>>

-----------------------------------------------------------------------------
Environment ==
  \/ \E c \in Sid, f \in Clauses : Subscribe(c, f)
  \/ \E c \in Sid : Leave(c)
  \/ \E u \in User : Grant(u) \/ Revoke(u)

Progress(b) ==
  \/ \E u \in User : Check(b, u) \/ CheckFails(b, u)
  \/ Gathered(b)
  \/ \E c \in Sid : Deliver(b, c)
  \/ Finish(b)

Next ==
  \/ Environment
  \/ \E b \in Broadcast : \/ \E d \in Data \cup {NoData} : Start(b, d)
                          \/ Progress(b)

Spec == Init /\ [][Next]_vars

\* The event loop runs every task that can go on, and the executor answers
\* every call; nobody has to subscribe, leave or change permissions.
FairSpec == Spec /\ \A b \in Broadcast : WF_vars(Progress(b))

-----------------------------------------------------------------------------
(* Properties.                                                             *)

TypeOK ==
  /\ member    \in SUBSET Sid
  /\ clauses   \in [Sid -> Clauses]
  /\ reader    \in SUBSET User
  /\ changes   \in 0..MaxChanges
  /\ stage     \in [Broadcast -> {"checking", "emitting", "done"}]
  /\ data      \in [Broadcast -> Data \cup {NoData}]
  /\ audience  \in [Broadcast -> SUBSET Sid]
  /\ captured  \in [Broadcast -> [Sid -> Clauses]]
  /\ verdict   \in [Broadcast -> SUBSET User]
  /\ unchecked \in [Broadcast -> SUBSET User]
  /\ todo      \in [Broadcast -> SUBSET Sid]
  /\ delivered \in [Broadcast -> SUBSET Sid]
  /\ eligible  \in [Broadcast -> SUBSET Sid]
  /\ steadfast \in [Broadcast -> SUBSET Sid]
  /\ reading   \in [Broadcast -> SUBSET User]
  /\ trusted   \in [Broadcast -> SUBSET User]

\* "A revoked user stops receiving change events on the very next broadcast":
\* an event goes only to sids whose user had read permission at some moment
\* since this broadcast started, whatever was granted before.
RevokedReceivesNothing ==
  \A b \in Broadcast : \A c \in delivered[b] : UserOf[c] \in reading[b]

\* The audience and its filters are read before the permission checks are
\* awaited and used after them.  Stale as they may be by then, an event goes
\* only to a sid that was, at some moment of this broadcast, a member of the
\* room with a filter that lets the document through.
OnlyMatchingMembersReceive ==
  \A b \in Broadcast : delivered[b] \subseteq eligible[b]

\* No member is forgotten: when the broadcast is over, the event has gone to
\* every sid that was all the time a member with a filter that lets the
\* document through and whose user could read all the time and was checked
\* without an error, whatever happened to the other members and users.
SteadyMembersReceive ==
  \A b \in Broadcast : stage[b] = "done" =>
    \A c \in steadfast[b] : UserOf[c] \in trusted[b] => c \in delivered[b]

\* A broadcast that has started comes to its end, although single permission
\* checks fail: gather keeps an exception as the verdict of one user.
BroadcastsFinish ==
  \A b \in Broadcast : stage[b] = "checking" ~> stage[b] = "done"

=============================================================================
