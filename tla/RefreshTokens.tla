---------------------------- MODULE RefreshTokens ----------------------------
(***************************************************************************)
(* gateway/auth.py and gateway/tokens.py: the access and refresh tokens of *)
(* one user.  A key pair buys the first pair of tokens of a family;        *)
(* refreshing exchanges the refresh token for the next pair; a refresh     *)
(* token that comes back, a change of the keys or a revocation ends the    *)
(* family.  Each request is one database transaction, which commits when   *)
(* the request answers (an error answer too) and rolls back when it dies;  *)
(* rows are read FOR UPDATE.  The deny list is in Redis, outside of the    *)
(* transaction, and its entries expire.  A request reads the settings when *)
(* it is routed, and works with what it has read until it ends.            *)
(*                                                                         *)
(* A pair is the refresh row and the access token that _issue_pair makes   *)
(* together; the number of the pair stands for the hash of the one and the *)
(* jti of the other, and a family bears the number of its first pair.      *)
(***************************************************************************)
EXTENDS Integers

CONSTANTS
  Request,     \* requests of clients that run at the same time
  NoRequest,   \* holder of the lock of a row that nobody holds
  MaxPair,     \* bound: pairs of tokens minted
  AccessTTL,   \* the values that access_token_ttl may take
  RefreshTTL,  \* refresh_token_ttl
  Leeway,      \* of jwt.decode
  Margin,      \* what deny adds to the seconds it is given
  PurgeAge,    \* how long purge_expired keeps an expired row
  MaxChange,   \* bound: changes of the settings and of the user
  MaxClock     \* bound: ticks

ASSUME RequestAssumption == NoRequest \notin Request
ASSUME BoundAssumption == MaxPair \in Nat /\ MaxChange \in Nat /\ MaxClock \in Nat
ASSUME TTLAssumption == AccessTTL \subseteq Nat \ {0} /\ RefreshTTL \in Nat \ {0}
ASSUME MarginAssumption == {Leeway, Margin, PurgeAge} \subseteq Nat /\ Leeway <= Margin

Pair   == 1..MaxPair
NoPair == 0

\* The column status; "free" before the row is there, "deleted" after it was.
Status == {"free", "Active", "Rotated", "Expired", "Revoked", "deleted"}

\* What a request asks for.  One of the tokens comes with all but "issue",
\* which comes with the keys of the user.
Call == {"issue", "refresh", "revoke", "revoke_access"}

\* Where a request is: it has begun one of the calls; it holds the Active row
\* of its token; it mints a pair; it revokes the family in the database and
\* in Redis; it has done so, or whatever else it does, and is to commit.
Place == Call \cup {"idle", "active", "mint", "update", "deny", "revoked", "commit"}

Idle  == [at |-> "idle", pair |-> NoPair, keys |-> 0, ttl |-> 0, spent |-> FALSE]
Blank == [family |-> NoPair, parent |-> NoPair, keys |-> 0, life |-> 0, expires |-> 0, exp |-> 0]

VARIABLES
  clock,      \* the time, of the rows and of the JWTs
  ttl,        \* access_token_ttl, as a request that is routed now reads it
  user,       \* "allowed", "barred" (disabled, or api_enabled unticked) or "gone"
  keys,       \* which of its keys the user has now
  changes,    \* how many changes of the settings and the user there were
  token,      \* token[p]: what pair p was minted with
  row,        \* row[p]: the status in the latest version of its row
  committed,  \* committed[p]: the status that is committed
  lock,       \* lock[p]: the request whose transaction holds the row
  denied,     \* denied.jti, denied.fam: until when Redis keeps the entry
  req,        \* req[r]: where request r is, the token and the keys it has, the
              \* access_token_ttl it read, and whether the token was spent
  \* History, for the properties.
  ended,      \* families whose end was answered: revoked, or their token spent
  deniedFor   \* deniedFor[f]: every access_token_ttl that family f was denied for

database == <<token, row, committed, lock>>
account  == <<user, keys, changes>>
vars     == <<clock, ttl, user, keys, changes, token, row, committed, lock, denied, req, ended, deniedFor>>

Family(p) == token[p].family

\* The rows that are there, and those that WHERE family = f finds.
Present   == {p \in Pair : row[p] \notin {"free", "deleted"}}
RowsOf(f) == {p \in Present : Family(p) = f}

\* What a client may hold: the tokens of pairs that were committed.
Issued == {p \in Pair : committed[p] # "free"}

\* The rows a transaction holds, which it lets go when it ends.
Held(r)    == {p \in Pair : lock[p] = r}
Release(r) == lock' = [p \in Pair |-> IF p \in Held(r) THEN NoRequest ELSE lock[p]]

Goto(r, place) == req' = [req EXCEPT ![r].at = place]

Init ==
  /\ clock     = 0
  /\ ttl       \in AccessTTL
  /\ user      = "allowed"
  /\ keys      = 1
  /\ changes   = 0
  /\ token     = [p \in Pair |-> Blank]
  /\ row       = [p \in Pair |-> "free"]
  /\ committed = [p \in Pair |-> "free"]
  /\ lock      = [p \in Pair |-> NoRequest]
  /\ denied    = [jti |-> [p \in Pair |-> 0], fam |-> [p \in Pair |-> 0]]
  /\ req       = [r \in Request |-> Idle]
  /\ ended     = {}
  /\ deniedFor = [p \in Pair |-> {}]

-----------------------------------------------------------------------------
(* The environment: time, the administrator, the daily job.                *)

\* Time goes by, and Redis drops the entries that have expired.
Tick ==
  /\ clock < MaxClock
  /\ clock' = clock + 1
  /\ denied' = [kind \in {"jti", "fam"} |->
       [p \in Pair |-> IF denied[kind][p] <= clock + 1 THEN 0 ELSE denied[kind][p]]]
  /\ UNCHANGED <<ttl, account, database, req, ended, deniedFor>>

Change == changes < MaxChange /\ changes' = changes + 1

\* Fraxis Settings is saved with another access_token_ttl.
SetTTL(seconds) ==
  /\ Change
  /\ seconds # ttl
  /\ ttl' = seconds
  /\ UNCHANGED <<clock, user, keys, database, denied, req, ended, deniedFor>>

\* The user is disabled or enabled, or its profile is.
SetAllowed ==
  /\ Change
  /\ user # "gone"
  /\ user' \in {"allowed", "barred"} \ {user}
  /\ UNCHANGED <<clock, ttl, keys, database, denied, req, ended, deniedFor>>

GenerateKeys ==
  /\ Change
  /\ user # "gone"
  /\ keys' = keys + 1
  /\ UNCHANGED <<clock, ttl, user, database, denied, req, ended, deniedFor>>

\* A DELETE waits for the transactions that hold a row it looks at, and it
\* commits by itself.
Delete(gone) ==
  /\ \A p \in Pair : lock[p] = NoRequest
  /\ row'       = [p \in Pair |-> IF p \in gone THEN "deleted" ELSE row[p]]
  /\ committed' = [p \in Pair |-> IF p \in gone THEN "deleted" ELSE committed[p]]
  /\ UNCHANGED <<token, lock>>

\* on_trash of the User takes its refresh tokens along.
DeleteUserTokens ==
  /\ Change
  /\ user # "gone"
  /\ Delete(Present)
  /\ user' = "gone"
  /\ UNCHANGED <<clock, ttl, keys, denied, req, ended, deniedFor>>

\* The daily job forgets the rows that expired long ago.
PurgeExpired ==
  LET old == {p \in Present : token[p].expires + PurgeAge < clock} IN
  /\ old # {}
  /\ Delete(old)
  /\ UNCHANGED <<clock, ttl, account, denied, req, ended, deniedFor>>

-----------------------------------------------------------------------------
(* A request begins, dies, or answers.                                     *)

\* A client presents one of its tokens, or the keys that are valid now.  To
\* route the request is to read the settings, which are kept in frappe.local.
Begin(r, call, p) ==
  /\ req[r].at = "idle"
  /\ IF call = "issue" THEN p = NoPair ELSE p \in Issued
  /\ req' = [req EXCEPT ![r] =
       [at |-> call, pair |-> p, keys |-> IF call = "issue" THEN keys ELSE 0,
        ttl |-> ttl, spent |-> FALSE]]
  /\ UNCHANGED <<clock, ttl, account, database, denied, ended, deniedFor>>

\* The process dies, a lock is waited for too long, or the database chooses
\* this transaction to resolve a deadlock.  What Redis was told stays.
Fail(r) ==
  /\ req[r].at # "idle"
  /\ row'   = [p \in Pair |-> IF p \in Held(r) THEN committed[p] ELSE row[p]]
  /\ token' = [p \in Pair |-> IF p \in Held(r) \ Issued THEN Blank ELSE token[p]]
  /\ Release(r)
  /\ req'   = [req EXCEPT ![r] = Idle]
  /\ UNCHANGED <<clock, ttl, account, committed, denied, ended, deniedFor>>

\* Mutant of Commit: an error answer rolls the transaction back.
CommitUnlessSpent(r) ==
  /\ req[r].at \in {"commit", "revoked"}
  /\ committed' = [p \in Pair |-> IF p \in Held(r) /\ ~ req[r].spent THEN row[p] ELSE committed[p]]
  /\ row'       = [p \in Pair |-> IF p \in Held(r) /\ req[r].spent THEN committed[p] ELSE row[p]]
  /\ ended'     = IF req[r].at = "revoked" THEN ended \cup {Family(req[r].pair)} ELSE ended
  /\ Release(r)
  /\ req'       = [req EXCEPT ![r] = Idle]
  /\ UNCHANGED <<clock, ttl, account, token, denied, deniedFor>>

\* The request answers, with an error or without, and Frappe commits.
Commit(r) ==
  /\ req[r].at \in {"commit", "revoked"}
  /\ committed' = [p \in Pair |-> IF p \in Held(r) THEN row[p] ELSE committed[p]]
  /\ ended'     = IF req[r].at = "revoked" \/ req[r].spent
                  THEN ended \cup {Family(req[r].pair)} ELSE ended
  /\ Release(r)
  /\ req'       = [req EXCEPT ![r] = Idle]
  /\ UNCHANGED <<clock, ttl, account, token, row, denied, deniedFor>>

-----------------------------------------------------------------------------
(* _issue_pair: a new access token and its refresh row.                    *)

\* What the pair q of request r is minted with: that of a login starts a
\* family, that of a refresh joins the family of the token that was sent.
NewToken(r, q) ==
  [family  |-> IF req[r].pair = NoPair THEN q ELSE Family(req[r].pair),
   parent  |-> req[r].pair,
   keys    |-> req[r].keys,
   life    |-> req[r].ttl,
   expires |-> clock + RefreshTTL,
   exp     |-> clock + req[r].ttl]

\* The next number for a pair.
IsNext(q) == row[q] = "free" /\ \A p \in 1..(q - 1) : row[p] # "free"

\* Mutant of Mint: the refresh token that was sent stays Active.
MintBeside(r) ==
  /\ req[r].at = "mint"
  /\ \E q \in Pair :
       /\ IsNext(q)
       /\ token' = [token EXCEPT ![q] = NewToken(r, q)]
       /\ row'   = [row EXCEPT ![q] = "Active"]
       /\ lock'  = [lock EXCEPT ![q] = r]
  /\ Goto(r, "commit")
  /\ UNCHANGED <<clock, ttl, account, committed, denied, ended, deniedFor>>

\* The row of the new pair is inserted; the token that was sent, if one was,
\* is marked Rotated.
Mint(r) ==
  /\ req[r].at = "mint"
  /\ \E q \in Pair :
       /\ IsNext(q)
       /\ token' = [token EXCEPT ![q] = NewToken(r, q)]
       /\ row'   = [p \in Pair |-> IF p = q THEN "Active"
                                   ELSE IF p = req[r].pair THEN "Rotated" ELSE row[p]]
       /\ lock'  = [lock EXCEPT ![q] = r]
  /\ Goto(r, "commit")
  /\ UNCHANGED <<clock, ttl, account, committed, denied, ended, deniedFor>>

\* issue_token: the keys are those of the user, who is allowed.
CheckKeys(r) ==
  /\ req[r].at = "issue"
  /\ Goto(r, IF user = "allowed" /\ req[r].keys = keys THEN "mint" ELSE "commit")
  /\ UNCHANGED <<clock, ttl, account, database, denied, ended, deniedFor>>

-----------------------------------------------------------------------------
(* refresh_token.                                                          *)

\* Mutant of Find: the row is read without FOR UPDATE.
FindUnlocked(r) ==
  LET p == req[r].pair IN
  /\ req[r].at \in {"refresh", "revoke"}
  /\ \/ /\ committed[p] = "deleted"
        /\ Goto(r, "commit")
     \/ /\ committed[p] # "deleted" /\ req[r].at = "revoke"
        /\ Goto(r, "update")
     \/ /\ committed[p] \notin {"deleted", "Active"} /\ req[r].at = "refresh"
        /\ req' = [req EXCEPT ![r].at = "update", ![r].spent = TRUE]
     \/ /\ committed[p] = "Active" /\ req[r].at = "refresh"
        /\ Goto(r, "active")
  /\ UNCHANGED <<clock, ttl, account, database, denied, ended, deniedFor>>

\* tokens.find: SELECT ... FOR UPDATE waits for the transaction that holds
\* the row, and then reads its latest version.  A row that is not there is
\* an error of a refresh and none of a revocation, which goes on to decode
\* the refresh token as an access token, in vain.  To refresh with a row that
\* is not Active revokes the family, as a revocation does.
Find(r) ==
  LET p == req[r].pair IN
  /\ req[r].at \in {"refresh", "revoke"}
  /\ lock[p] = NoRequest
  /\ \/ /\ row[p] = "deleted"
        /\ Goto(r, "commit")
        /\ UNCHANGED lock
     \/ /\ row[p] # "deleted" /\ req[r].at = "revoke"
        /\ lock' = [lock EXCEPT ![p] = r]
        /\ Goto(r, "update")
     \/ /\ row[p] \notin {"deleted", "Active"} /\ req[r].at = "refresh"
        /\ lock' = [lock EXCEPT ![p] = r]
        /\ req' = [req EXCEPT ![r].at = "update", ![r].spent = TRUE]
     \/ /\ row[p] = "Active" /\ req[r].at = "refresh"
        /\ lock' = [lock EXCEPT ![p] = r]
        /\ Goto(r, "active")
  /\ UNCHANGED <<clock, ttl, account, token, row, committed, denied, ended, deniedFor>>

\* Mutant of CheckRefresh: the fingerprints of the keys are not compared.
CheckRefreshOnly(r) ==
  LET p == req[r].pair IN
  /\ req[r].at = "active"
  /\ \/ /\ token[p].expires <= clock
        /\ row' = [row EXCEPT ![p] = "Expired"]
        /\ Goto(r, "commit")
     \/ /\ token[p].expires > clock /\ user # "allowed"
        /\ Goto(r, "commit")
        /\ UNCHANGED row
     \/ /\ token[p].expires > clock /\ user = "allowed"
        /\ req' = [req EXCEPT ![r].at = "mint", ![r].keys = keys]
        /\ UNCHANGED row
  /\ UNCHANGED <<clock, ttl, account, token, committed, lock, denied, ended, deniedFor>>

\* The row is Active and ours.  It may have expired; the user may not be
\* allowed, which leaves the row as it is; the keys may have changed, which
\* ends the family; else it is exchanged.
CheckRefresh(r) ==
  LET p == req[r].pair IN
  /\ req[r].at = "active"
  /\ \/ /\ token[p].expires <= clock
        /\ row' = [row EXCEPT ![p] = "Expired"]
        /\ Goto(r, "commit")
     \/ /\ token[p].expires > clock /\ user # "allowed"
        /\ Goto(r, "commit")
        /\ UNCHANGED row
     \/ /\ token[p].expires > clock /\ user = "allowed" /\ token[p].keys # keys
        /\ Goto(r, "update")
        /\ UNCHANGED row
     \/ /\ token[p].expires > clock /\ user = "allowed" /\ token[p].keys = keys
        /\ req' = [req EXCEPT ![r].at = "mint", ![r].keys = keys]
        /\ UNCHANGED row
  /\ UNCHANGED <<clock, ttl, account, token, committed, lock, denied, ended, deniedFor>>

-----------------------------------------------------------------------------
(* tokens.revoke_family, and revoke of an access token.                    *)

\* tokens.deny("jti", ...) for the seconds the access token has left, if any.
DenyToken(r) ==
  LET p == req[r].pair IN
  /\ req[r].at = "revoke_access"
  /\ denied' = IF token[p].exp > clock
               THEN [denied EXCEPT !.jti[p] = token[p].exp + Margin]
               ELSE denied
  /\ Goto(r, "update")
  /\ UNCHANGED <<clock, ttl, account, database, ended, deniedFor>>

\* The UPDATE waits for the transactions that hold a row of the family, and
\* holds all of them from then on.
RevokeFamily(r) ==
  LET rows == RowsOf(Family(req[r].pair)) IN
  /\ req[r].at = "update"
  /\ \A p \in rows : lock[p] \in {NoRequest, r}
  /\ row'  = [p \in Pair |-> IF p \in rows /\ row[p] = "Active" THEN "Revoked" ELSE row[p]]
  /\ lock' = [p \in Pair |-> IF p \in rows THEN r ELSE lock[p]]
  /\ Goto(r, "deny")
  /\ UNCHANGED <<clock, ttl, account, token, committed, denied, ended, deniedFor>>

\* Mutant of DenyFamily: no margin for the leeway of the JWT.
DenyFamilyExactly(r) ==
  /\ req[r].at = "deny"
  /\ denied' = [denied EXCEPT !.fam[Family(req[r].pair)] = clock + req[r].ttl]
  /\ deniedFor' = [deniedFor EXCEPT ![Family(req[r].pair)] = @ \cup {req[r].ttl}]
  /\ Goto(r, "revoked")
  /\ UNCHANGED <<clock, ttl, account, database, ended>>

\* tokens.deny("fam", ...) for the access_token_ttl of the request, in place
\* of the entry of an earlier revocation.
DenyFamily(r) ==
  /\ req[r].at = "deny"
  /\ denied' = [denied EXCEPT !.fam[Family(req[r].pair)] = clock + req[r].ttl + Margin]
  /\ deniedFor' = [deniedFor EXCEPT ![Family(req[r].pair)] = @ \cup {req[r].ttl}]
  /\ Goto(r, "revoked")
  /\ UNCHANGED <<clock, ttl, account, database, ended>>

-----------------------------------------------------------------------------
(* user_for_access_token.                                                  *)

Denied(p) == clock < denied.jti[p] \/ clock < denied.fam[Family(p)]

\* Whether a request that brings the access token of pair p is served now.
\* A real one decodes the token, asks Redis and then the database; that less
\* than Margin - Leeway goes by between the first two is assumed.
Accepts(p) ==
  /\ p \in Issued
  /\ clock < token[p].exp + Leeway
  /\ ~ Denied(p)
  /\ user = "allowed" /\ token[p].keys = keys

-----------------------------------------------------------------------------
Environment ==
  \/ Tick \/ (\E seconds \in AccessTTL : SetTTL(seconds))
  \/ SetAllowed \/ GenerateKeys \/ DeleteUserTokens \/ PurgeExpired

Step(r) ==
  \/ CheckKeys(r) \/ Mint(r)
  \/ Find(r) \/ CheckRefresh(r)
  \/ DenyToken(r) \/ RevokeFamily(r) \/ DenyFamily(r)
  \/ Commit(r)

Next ==
  \/ Environment
  \/ \E r \in Request :
       \/ \E call \in Call, p \in Pair \cup {NoPair} : Begin(r, call, p)
       \/ Step(r)
       \/ Fail(r)

Spec == Init /\ [][Next]_vars

-----------------------------------------------------------------------------
(* What clients see of it: the sessions of module Sessions.                *)

\* The refresh tokens of family f that are Active for everybody.
ActiveOf(f) == {p \in Pair : committed[p] = "Active" /\ Family(p) = f}

Session == INSTANCE Sessions WITH
  Token   <- Pair,
  NoToken <- NoPair,
  current <- [f \in Pair |-> IF ActiveOf(f) = {} THEN NoPair ELSE CHOOSE p \in ActiveOf(f) : TRUE],
  origin  <- [p \in Pair |-> IF p \in Issued THEN token[p].parent ELSE NoPair],
  used    <- Issued,
  over    <- ended

-----------------------------------------------------------------------------
(* Properties.                                                             *)

TokenType   == [family : Pair \cup {NoPair}, parent : Pair \cup {NoPair},
                keys : 0..(MaxChange + 1), life : Nat, expires : Nat, exp : Nat]
RequestType == [at : Place, pair : Pair \cup {NoPair}, keys : 0..(MaxChange + 1),
                ttl : AccessTTL \cup {0}, spent : BOOLEAN]

TypeOK ==
  /\ clock     \in 0..MaxClock
  /\ ttl       \in AccessTTL
  /\ user      \in {"allowed", "barred", "gone"}
  /\ keys      \in 1..(changes + 1)
  /\ changes   \in 0..MaxChange
  /\ token     \in [Pair -> TokenType]
  /\ row       \in [Pair -> Status]
  /\ committed \in [Pair -> Status]
  /\ lock      \in [Pair -> Request \cup {NoRequest}]
  /\ denied    \in [jti : [Pair -> Nat], fam : [Pair -> Nat]]
  /\ \A p \in Pair : \E seconds \in AccessTTL :
       denied.jti[p] <= clock + seconds + Margin /\ denied.fam[p] <= clock + seconds + Margin
  /\ req       \in [Request -> RequestType]
  /\ ended     \subseteq Pair
  /\ deniedFor \in [Pair -> SUBSET AccessTTL]

\* Rotation: whatever requests present the tokens of a family at the same
\* time and whichever of them die, one of its refresh tokens is Active at
\* most.
OneActivePerFamily ==
  \A p, q \in Pair : p # q /\ committed[p] = "Active" /\ committed[q] = "Active" =>
    Family(p) # Family(q)

\* "The one sent stops working": a refresh token is exchanged once, so that
\* the pairs of a family are a chain.
TokenIsSpentOnce ==
  \A p, q \in Issued : p # q /\ token[p].parent = token[q].parent =>
    token[p].parent = NoPair

\* Whoever is told that the session is revoked, or that the refresh token it
\* sent is no longer valid (an error, "treated as theft"), may count on it:
\* no refresh token of the family is Active from then on, not even one that
\* another request was minting meanwhile.
EndedFamilyStaysEnded ==
  \A p \in Pair : committed[p] = "Active" => Family(p) \notin ended

\* Requests, locks and transactions implement the sessions: a token buys its
\* successor only while it is the current one of a session that is not over,
\* a rotation that dies leaves the old token in force, and nothing but a
\* login opens a session.
SessionSpec == Session!Spec

\* "Kills its tokens at once": no access token is accepted of a family that
\* began with keys that are no longer those of the user, however many
\* refreshes the family went through since, nor of a user who is gone.
OldKeysAreRefused ==
  \A p \in Pair : Accepts(p) => token[Family(p)].keys = keys /\ user # "gone"

\* No access token of a family is accepted after the end of the family, the
\* ones minted just before it included, unless a request that revoked the
\* family worked with a shorter access_token_ttl than the one the token was
\* minted with: the setting has changed between the two, in either order.
RevokedAccessIsRefused ==
  \A p \in Pair : Accepts(p) /\ Family(p) \in ended =>
    \E seconds \in deniedFor[Family(p)] : seconds < token[p].life

\* "Revoking a family or a single access token puts it on a Redis deny list
\* for as long as an access token can live" (gateway/tokens.py:14): no access
\* token of a family is accepted after its revocation.
DeniedAsLongAsTokensLive ==
  \A p \in Pair : Accepts(p) => Family(p) \notin ended

=============================================================================
