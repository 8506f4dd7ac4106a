------------------------- MODULE RefreshTokensProofs -------------------------
(***************************************************************************)
(* The theorems of RefreshTokens, for any number of requests and of pairs, *)
(* any set of TTLs and any leeway within the margin of the deny list.      *)
(***************************************************************************)
EXTENDS RefreshTokens, TLAPS

LEMMA NoPairIsNone == NoPair \notin Pair
BY DEF NoPair, Pair

USE RequestAssumption, BoundAssumption, TTLAssumption, MarginAssumption, NoPairIsNone

\* A refresh token that is Active, or that was until its transaction.
Live(p) == row[p] = "Active" \/ committed[p] = "Active"

\* The latest version of a row differs from the committed one only while a
\* transaction holds it.
RowsOK ==
  \A p \in Pair :
    /\ lock[p] = NoRequest => row[p] = committed[p]
    /\ row[p] = "free" => committed[p] = "free"
    /\ row[p] = "deleted" => committed[p] = "deleted"

\* The first pair of a family is itself or a committed one, with the same keys.
FamiliesOK ==
  \A p \in Pair : row[p] # "free" =>
    /\ Family(p) \in Pair
    /\ Family(p) = p \/ committed[Family(p)] # "free"
    /\ token[p].keys = token[Family(p)].keys

\* What a request has and holds, place by place.
RequestOK(r) ==
  /\ req[r].pair # NoPair => committed[req[r].pair] # "free"
  /\ req[r].at \in {"refresh", "revoke", "revoke_access", "active", "update", "deny", "revoked"}
       => req[r].pair # NoPair
  /\ req[r].at = "issue" => req[r].pair = NoPair
  /\ req[r].at \in Call \cup {"idle"} => \A p \in Pair : lock[p] # r
  /\ req[r].at \in {"active", "mint", "update"} => \A p \in Pair : lock[p] = r => p = req[r].pair
  /\ req[r].at \in {"active", "mint"} /\ req[r].pair # NoPair =>
       lock[req[r].pair] = r /\ row[req[r].pair] = "Active"
  /\ req[r].at = "mint" /\ req[r].pair # NoPair => req[r].keys = token[req[r].pair].keys
  /\ req[r].at \in {"deny", "revoked"} =>
       \A p \in Pair : row[p] \notin {"free", "deleted"} /\ Family(p) = Family(req[r].pair) =>
         lock[p] = r /\ row[p] # "Active"
  /\ req[r].spent => req[r].at \in {"update", "deny", "revoked"}

RequestsOK == \A r \in Request : RequestOK(r)

\* Two live tokens of one family are the one that a transaction spends and
\* the one that it mints.
LiveOK ==
  \A p, q \in Pair : p # q /\ Family(p) = Family(q) /\ Live(p) /\ Live(q) =>
    /\ lock[p] = lock[q] /\ lock[p] # NoRequest
    /\ ~ (row[p] = "Active" /\ row[q] = "Active")
    /\ ~ (committed[p] = "Active" /\ committed[q] = "Active")

EndedOK ==
  /\ ended \subseteq Issued
  /\ \A p \in Pair : Live(p) => Family(p) \notin ended

\* A token that was exchanged is not Active, in the version of the row that
\* its successor is in.
ChainOK ==
  \A q \in Pair : row[q] # "free" /\ token[q].parent # NoPair =>
    /\ row[token[q].parent] \notin {"free", "Active"}
    /\ committed[q] # "free" => committed[token[q].parent] \notin {"free", "Active"}
    /\ committed[q] = "free" => lock[q] = lock[token[q].parent] /\ lock[q] # NoRequest
    /\ \A p \in Pair : row[p] # "free" /\ token[p].parent = token[q].parent => p = q

\* What a request has read of the settings.
SettingsOK == \A r \in Request : req[r].at # "idle" => req[r].ttl \in AccessTTL

\* How long an access token has to live.
LifeOK ==
  /\ \A p \in Pair : row[p] # "free" => token[p].exp <= clock + token[p].life
  /\ \A p \in Pair : \E seconds \in AccessTTL : token[p].exp <= clock + seconds

\* The family was denied for less than the access token of p could live.
Shorter(p) == \E seconds \in deniedFor[Family(p)] : seconds < token[p].life

\* The access token of p is not accepted for what the clock or Redis says.
Covered(p) ==
  \/ Shorter(p)
  \/ token[p].exp + Margin <= clock
  \/ token[p].exp + Margin <= denied.fam[Family(p)]

CoverOK ==
  \A p \in Pair : row[p] # "free" =>
    /\ Family(p) \in ended => Covered(p)
    /\ \A r \in Request : req[r].at = "revoked" /\ Family(req[r].pair) = Family(p) => Covered(p)

IInv ==
  /\ TypeOK /\ RowsOK /\ FamiliesOK /\ RequestsOK /\ LiveOK
  /\ EndedOK /\ ChainOK /\ SettingsOK /\ LifeOK /\ CoverOK

-----------------------------------------------------------------------------
(* Types.                                                                  *)

\* What a request says of itself, whatever it does next.
LEMMA RequestTypes ==
  ASSUME TypeOK, NEW r \in Request
  PROVE  /\ req[r] \in RequestType
         /\ req[r].at \in Place /\ req[r].pair \in Pair \cup {NoPair}
         /\ req[r].keys \in 0..(MaxChange + 1) /\ req[r].spent \in BOOLEAN
         /\ req[r].ttl \in AccessTTL \cup {0}
  BY DEF TypeOK, RequestType

LEMMA SecondsAreNat == \A seconds \in AccessTTL \cup {0} : seconds \in Nat
OBVIOUS

LEMMA GotoTypes ==
  ASSUME TypeOK, NEW r \in Request, NEW place \in Place, Goto(r, place)
  PROVE  req' \in [Request -> RequestType]
<1>1. [req[r] EXCEPT !.at = place] \in RequestType
  BY RequestTypes DEF TypeOK, RequestType
<1> QED BY <1>1 DEF TypeOK, Goto

LEMMA TypeStep ==
  TypeOK /\ RowsOK /\ FamiliesOK /\ RequestsOK /\ SettingsOK /\ LifeOK /\ [Next]_vars => TypeOK'
<1> SUFFICES ASSUME TypeOK, RowsOK, FamiliesOK, RequestsOK, SettingsOK, LifeOK, [Next]_vars PROVE TypeOK'
  OBVIOUS
<1> USE DEF TypeOK, account, database
<1>1. CASE Tick
  <2>1. denied' \in [jti : [Pair -> Nat], fam : [Pair -> Nat]]
    BY <1>1 DEF Tick
  <2>2. \A p \in Pair : \E seconds \in AccessTTL :
          denied'.jti[p] <= clock' + seconds + Margin /\ denied'.fam[p] <= clock' + seconds + Margin
    BY <1>1 DEF Tick
  <2> QED BY <1>1, <2>1, <2>2 DEF Tick
<1>2. ASSUME NEW seconds \in AccessTTL, SetTTL(seconds) PROVE TypeOK'
  BY <1>2 DEF SetTTL, Change
<1>3. CASE SetAllowed
  BY <1>3 DEF SetAllowed, Change
<1>4. CASE GenerateKeys
  BY <1>4 DEF GenerateKeys, Change
<1>5. CASE DeleteUserTokens
  <2>1. row' \in [Pair -> Status] /\ committed' \in [Pair -> Status]
    BY <1>5 DEF DeleteUserTokens, Delete, Status
  <2> QED BY <1>5, <2>1 DEF DeleteUserTokens, Delete, Change
<1>6. CASE PurgeExpired
  BY <1>6 DEF PurgeExpired, Delete, Status
<1>7. ASSUME NEW r \in Request, NEW call \in Call, NEW p \in Pair \cup {NoPair}, Begin(r, call, p)
      PROVE  TypeOK'
  <2>1. req' \in [Request -> RequestType]
    <3> DEFINE k == IF call = "issue" THEN keys ELSE 0
    <3>1. k \in 0..(MaxChange + 1)
      OBVIOUS
    <3>2. req' = [req EXCEPT ![r] = [at |-> call, pair |-> p, keys |-> k, ttl |-> ttl, spent |-> FALSE]]
      BY <1>7 DEF Begin, Idle
    <3> HIDE DEF k
    <3>3. [at |-> call, pair |-> p, keys |-> k, ttl |-> ttl, spent |-> FALSE] \in RequestType
      BY <3>1 DEF RequestType, Place
    <3> QED BY <3>2, <3>3
  <2> QED BY <1>7, <2>1 DEF Begin
<1>8. ASSUME NEW r \in Request, Fail(r) PROVE TypeOK'
  <2>1. req' \in [Request -> RequestType]
    BY <1>8 DEF Fail, RequestType, Idle, Place
  <2>2. token' \in [Pair -> TokenType]
    BY <1>8 DEF Fail, TokenType, Blank
  <2> QED BY <1>8, <2>1, <2>2 DEF Fail, Release
<1>9. ASSUME NEW r \in Request, CheckKeys(r) PROVE TypeOK'
  BY <1>9 DEF CheckKeys, Goto, RequestType, Place
<1>10. ASSUME NEW r \in Request, Mint(r) PROVE TypeOK'
  <2>1. PICK q \in Pair :
          /\ token' = [token EXCEPT ![q] = NewToken(r, q)]
          /\ row'   = [p \in Pair |-> IF p = q THEN "Active"
                                      ELSE IF p = req[r].pair THEN "Rotated" ELSE row[p]]
          /\ lock'  = [lock EXCEPT ![q] = r]
    BY <1>10 DEF Mint
  <2>2. NewToken(r, q) \in TokenType
    <3>1. (IF req[r].pair = NoPair THEN q ELSE Family(req[r].pair)) \in Pair \cup {NoPair}
      <4>1. \A p \in Pair : Family(p) \in Pair \cup {NoPair}
        BY DEF Family, TokenType
      <4> QED BY <4>1, RequestTypes
    <3>2. req[r].ttl \in Nat
      <4>1. req[r].ttl \in AccessTTL \cup {0}
        BY DEF RequestType
      <4> QED BY <4>1, SecondsAreNat
    <3>3. clock + RefreshTTL \in Nat /\ clock + req[r].ttl \in Nat
      BY <3>2
    <3> QED BY <3>1, <3>2, <3>3, RequestTypes DEF NewToken, TokenType
  <2>3. token' \in [Pair -> TokenType]
    BY <2>1, <2>2
  <2>4. req' \in [Request -> RequestType]
    BY <1>10 DEF Mint, Goto, RequestType, Place
  <2> QED BY <1>10, <2>1, <2>3, <2>4 DEF Mint, Status
<1>11. ASSUME NEW r \in Request, Find(r) PROVE TypeOK'
  <2>0. \/ Goto(r, "commit") \/ Goto(r, "update") \/ Goto(r, "active")
        \/ req' = [req EXCEPT ![r].at = "update", ![r].spent = TRUE]
    BY <1>11 DEF Find
  <2>1. req' \in [Request -> RequestType]
    <3>1. CASE req' = [req EXCEPT ![r].at = "update", ![r].spent = TRUE]
      <4>1. "update" \in Place /\ req[r] \in RequestType
        BY DEF Place
      <4>2. [[req[r] EXCEPT !.at = "update"] EXCEPT !.spent = TRUE] \in RequestType
        BY <4>1 DEF RequestType
      <4>3. req' = [req EXCEPT ![r] = [[req[r] EXCEPT !.at = "update"] EXCEPT !.spent = TRUE]]
        BY <3>1
      <4> QED BY <4>2, <4>3
    <3>2. ASSUME NEW place \in {"commit", "update", "active"}, Goto(r, place)
          PROVE  req' \in [Request -> RequestType]
      <4>1. place \in Place
        BY DEF Place
      <4> QED BY <3>2, <4>1, GotoTypes
    <3> QED BY <2>0, <3>1, <3>2
  <2>2. lock' \in [Pair -> Request \cup {NoRequest}]
    BY <1>11 DEF Find
  <2> QED BY <1>11, <2>1, <2>2 DEF Find
<1>12. ASSUME NEW r \in Request, CheckRefresh(r) PROVE TypeOK'
  <2>1. req' \in [Request -> RequestType]
    BY <1>12 DEF CheckRefresh, Goto, RequestType, Place
  <2>2. row' \in [Pair -> Status]
    BY <1>12 DEF CheckRefresh, Status
  <2> QED BY <1>12, <2>1, <2>2 DEF CheckRefresh
<1>13. ASSUME NEW r \in Request, DenyToken(r) PROVE TypeOK'
  <2>1. req[r].pair \in Pair
    BY <1>13, RequestTypes DEF DenyToken, RequestsOK, RequestOK
  <2>2. denied' \in [jti : [Pair -> Nat], fam : [Pair -> Nat]]
    <3>1. token[req[r].pair].exp + Margin \in Nat
      BY <2>1 DEF TokenType
    <3> QED BY <1>13, <2>1, <3>1 DEF DenyToken
  <2>3. \A p \in Pair : \E seconds \in AccessTTL :
          denied'.jti[p] <= clock + seconds + Margin /\ denied'.fam[p] <= clock + seconds + Margin
    BY <1>13, <2>1 DEF DenyToken, LifeOK, TokenType
  <2>4. req' \in [Request -> RequestType]
    BY <1>13 DEF DenyToken, Goto, RequestType, Place
  <2> QED BY <1>13, <2>2, <2>3, <2>4 DEF DenyToken
<1>14. ASSUME NEW r \in Request, RevokeFamily(r) PROVE TypeOK'
  <2>1. req' \in [Request -> RequestType]
    BY <1>14, GotoTypes DEF RevokeFamily, Place
  <2> QED BY <1>14, <2>1 DEF RevokeFamily, Status
<1>15. ASSUME NEW r \in Request, DenyFamily(r) PROVE TypeOK'
  <2>1. req' \in [Request -> RequestType]
    BY <1>15 DEF DenyFamily, Goto, RequestType, Place
  <2>0. req[r].ttl \in AccessTTL
    BY <1>15 DEF DenyFamily, SettingsOK
  <2>2. denied' \in [jti : [Pair -> Nat], fam : [Pair -> Nat]]
    BY <1>15, <2>0 DEF DenyFamily
  <2>3. \A p \in Pair : \E seconds \in AccessTTL :
          denied'.jti[p] <= clock + seconds + Margin /\ denied'.fam[p] <= clock + seconds + Margin
    BY <1>15, <2>0 DEF DenyFamily
  <2>4. deniedFor' \in [Pair -> SUBSET AccessTTL]
    BY <1>15, <2>0 DEF DenyFamily
  <2> QED BY <1>15, <2>1, <2>2, <2>3, <2>4 DEF DenyFamily
<1>16. ASSUME NEW r \in Request, Commit(r) PROVE TypeOK'
  <2>1. req' \in [Request -> RequestType]
    BY <1>16 DEF Commit, RequestType, Idle, Place
  <2>2. ended' \subseteq Pair
    <3>1. CASE req[r].at = "revoked" \/ req[r].spent
      <4>1. req[r].pair \in Pair
        BY <3>1, RequestTypes DEF RequestsOK, RequestOK
      <4>2. Family(req[r].pair) \in Pair
        BY <4>1 DEF RequestsOK, RequestOK, RowsOK, FamiliesOK
      <4>3. ended' \subseteq ended \cup {Family(req[r].pair)}
        BY <1>16 DEF Commit
      <4> QED BY <4>2, <4>3
    <3>2. CASE ~ (req[r].at = "revoked" \/ req[r].spent)
      BY <1>16, <3>2 DEF Commit
    <3> QED BY <3>1, <3>2
  <2> QED BY <1>16, <2>1, <2>2 DEF Commit, Release
<1>17. CASE UNCHANGED vars
  BY <1>17 DEF vars
<1> QED BY <1>1, <1>2, <1>3, <1>4, <1>5, <1>6, <1>7, <1>8, <1>9, <1>10, <1>11, <1>12,
           <1>13, <1>14, <1>15, <1>16, <1>17 DEF Next, Environment, Step

-----------------------------------------------------------------------------
(* The steps that change the database, and the invariants about it.        *)

\* A job deletes rows that no transaction holds.
DeleteStep == (\E gone \in SUBSET Present : Delete(gone)) /\ UNCHANGED <<req, ended>>

RequestStep(r) ==
  Fail(r) \/ Commit(r) \/ Mint(r) \/ Find(r) \/ CheckRefresh(r) \/ RevokeFamily(r)

LEMMA Steps ==
  ASSUME [Next]_vars
  PROVE  \/ UNCHANGED <<database, ended>>
         \/ DeleteStep
         \/ \E r \in Request : RequestStep(r)
<1>1. CASE DeleteUserTokens
  BY <1>1 DEF DeleteUserTokens, DeleteStep
<1>2. CASE PurgeExpired
  <2>1. {p \in Present : token[p].expires + PurgeAge < clock} \in SUBSET Present
    OBVIOUS
  <2> QED BY <1>2, <2>1 DEF PurgeExpired, DeleteStep
<1>3. CASE \/ Tick \/ (\E seconds \in AccessTTL : SetTTL(seconds)) \/ SetAllowed \/ GenerateKeys
  BY <1>3 DEF Tick, SetTTL, SetAllowed, GenerateKeys
<1>4. ASSUME NEW r \in Request, NEW call \in Call, NEW p \in Pair \cup {NoPair}, Begin(r, call, p)
      PROVE  UNCHANGED <<database, ended>>
  BY <1>4 DEF Begin
<1>5. ASSUME NEW r \in Request, CheckKeys(r) \/ DenyToken(r) \/ DenyFamily(r)
      PROVE  UNCHANGED <<database, ended>>
  BY <1>5 DEF CheckKeys, DenyToken, DenyFamily
<1>6. CASE UNCHANGED vars
  BY <1>6 DEF vars, database
<1> QED BY <1>1, <1>2, <1>3, <1>4, <1>5, <1>6 DEF Next, Environment, Step, RequestStep

\* What the steps of a request do to the database, for the provers.
LEMMA MintStep ==
  ASSUME TypeOK, RowsOK, RequestsOK, NEW r \in Request, Mint(r)
  PROVE  \E q \in Pair :
           /\ row[q] = "free" /\ committed[q] = "free" /\ q # req[r].pair
           /\ token' = [token EXCEPT ![q] = NewToken(r, q)]
           /\ row' = [p \in Pair |-> IF p = q THEN "Active"
                                     ELSE IF p = req[r].pair THEN "Rotated" ELSE row[p]]
           /\ lock' = [lock EXCEPT ![q] = r]
           /\ NewToken(r, q).family = (IF req[r].pair = NoPair THEN q ELSE Family(req[r].pair))
           /\ NewToken(r, q).parent = req[r].pair
           /\ NewToken(r, q).keys = req[r].keys
           /\ NewToken(r, q).life = req[r].ttl
           /\ NewToken(r, q).exp = clock + req[r].ttl
<1>1. PICK q \in Pair :
        /\ row[q] = "free"
        /\ token' = [token EXCEPT ![q] = NewToken(r, q)]
        /\ row' = [p \in Pair |-> IF p = q THEN "Active"
                                  ELSE IF p = req[r].pair THEN "Rotated" ELSE row[p]]
        /\ lock' = [lock EXCEPT ![q] = r]
  BY DEF Mint, IsNext
<1>2. committed[q] = "free" /\ q # req[r].pair
  BY <1>1 DEF RowsOK, RequestsOK, RequestOK
<1> QED BY <1>1, <1>2 DEF NewToken

LEMMA RowsStep == TypeOK /\ RowsOK /\ RequestsOK /\ [Next]_vars => RowsOK'
<1> SUFFICES ASSUME TypeOK, RowsOK, RequestsOK, [Next]_vars PROVE RowsOK'
  OBVIOUS
<1>1. CASE UNCHANGED <<database, ended>>
  BY <1>1 DEF RowsOK, database
<1>2. CASE DeleteStep
  BY <1>2 DEF DeleteStep, Delete, RowsOK
<1>3. ASSUME NEW r \in Request, Fail(r) PROVE RowsOK'
  BY <1>3 DEF Fail, Release, Held, RowsOK
<1>4. ASSUME NEW r \in Request, Commit(r) PROVE RowsOK'
  BY <1>4 DEF Commit, Release, Held, RowsOK
<1>5. ASSUME NEW r \in Request, Mint(r) PROVE RowsOK'
  <2>1. PICK q \in Pair :
          /\ row' = [p \in Pair |-> IF p = q THEN "Active"
                                    ELSE IF p = req[r].pair THEN "Rotated" ELSE row[p]]
          /\ lock' = [lock EXCEPT ![q] = r]
    BY <1>5, MintStep
  <2>2. req[r].pair # NoPair => lock[req[r].pair] = r
    BY <1>5 DEF Mint, RequestsOK, RequestOK
  <2>3. committed' = committed
    BY <1>5 DEF Mint
  <2> QED BY <2>1, <2>2, <2>3 DEF RowsOK, TypeOK
<1>6. ASSUME NEW r \in Request, Find(r) PROVE RowsOK'
  BY <1>6 DEF Find, RowsOK, TypeOK
<1>7. ASSUME NEW r \in Request, CheckRefresh(r) PROVE RowsOK'
  <2>1. req[r].pair # NoPair => lock[req[r].pair] = r
    BY <1>7 DEF CheckRefresh, RequestsOK, RequestOK
  <2> QED BY <1>7, <2>1 DEF CheckRefresh, RowsOK, RequestsOK, RequestOK, TypeOK
<1>8. ASSUME NEW r \in Request, RevokeFamily(r) PROVE RowsOK'
  BY <1>8 DEF RevokeFamily, RowsOf, Present, RowsOK, TypeOK
<1> QED BY <1>1, <1>2, <1>3, <1>4, <1>5, <1>6, <1>7, <1>8, Steps DEF RequestStep

LEMMA FamiliesStep == TypeOK /\ RowsOK /\ FamiliesOK /\ RequestsOK /\ [Next]_vars => FamiliesOK'
<1> SUFFICES ASSUME TypeOK, RowsOK, FamiliesOK, RequestsOK, [Next]_vars PROVE FamiliesOK'
  OBVIOUS
<1>1. CASE UNCHANGED <<database, ended>>
  BY <1>1 DEF FamiliesOK, Family, database
<1>2. CASE DeleteStep
  <2>1. PICK gone \in SUBSET Present : Delete(gone)
    BY <1>2 DEF DeleteStep
  <2>2. \A p \in Pair : row'[p] # "free" => row[p] # "free"
    BY <2>1 DEF Delete, Present
  <2>3. \A p \in Pair : committed[p] # "free" => committed'[p] # "free"
    BY <2>1 DEF Delete
  <2> QED BY <2>1, <2>2, <2>3 DEF Delete, FamiliesOK, Family
<1>3. ASSUME NEW r \in Request, Fail(r) PROVE FamiliesOK'
  <2> SUFFICES ASSUME NEW p \in Pair, row'[p] # "free"
               PROVE  /\ Family(p)' \in Pair
                      /\ Family(p)' = p \/ committed'[Family(p)'] # "free"
                      /\ token'[p].keys = token'[Family(p)'].keys
    BY DEF FamiliesOK
  <2>1. row[p] # "free" /\ token'[p] = token[p] /\ committed' = committed
    BY <1>3 DEF Fail, Held, Issued, RowsOK, TypeOK
  <2>2. token'[Family(p)] = token[Family(p)]
    BY <1>3, <2>1 DEF Fail, Issued, FamiliesOK, Family
  <2> QED BY <2>1, <2>2 DEF FamiliesOK, Family
<1>4. ASSUME NEW r \in Request, Commit(r) PROVE FamiliesOK'
  BY <1>4 DEF Commit, Held, FamiliesOK, Family, RowsOK, TypeOK
<1>5. ASSUME NEW r \in Request, Mint(r) PROVE FamiliesOK'
  <2>1. PICK q \in Pair :
          /\ row[q] = "free" /\ committed[q] = "free" /\ q # req[r].pair
          /\ token' = [token EXCEPT ![q] = NewToken(r, q)]
          /\ row' = [p \in Pair |-> IF p = q THEN "Active"
                                    ELSE IF p = req[r].pair THEN "Rotated" ELSE row[p]]
          /\ NewToken(r, q).family = (IF req[r].pair = NoPair THEN q ELSE Family(req[r].pair))
          /\ NewToken(r, q).keys = req[r].keys
    BY <1>5, MintStep
  <2>2. committed' = committed
    BY <1>5 DEF Mint
  <2>3. token'[q] = NewToken(r, q) /\ \A p \in Pair : p # q => token'[p] = token[p]
    BY <2>1 DEF TypeOK
  <2>4. ASSUME NEW p \in Pair, p # q, row'[p] # "free"
        PROVE  /\ Family(p)' \in Pair
               /\ Family(p)' = p \/ committed'[Family(p)'] # "free"
               /\ token'[p].keys = token'[Family(p)'].keys
    <3>1. row[p] # "free"
      BY <2>1, <2>4 DEF RowsOK, RequestsOK, RequestOK, TypeOK
    <3>2. Family(p)' = Family(p) /\ Family(p) # q
      BY <2>1, <2>3, <2>4, <3>1 DEF FamiliesOK, Family
    <3> QED BY <2>2, <2>3, <2>4, <3>1, <3>2 DEF FamiliesOK
  <2>5. CASE req[r].pair = NoPair
    BY <2>1, <2>2, <2>3, <2>4, <2>5 DEF FamiliesOK, Family
  <2>6. CASE req[r].pair # NoPair
    <3>1. req[r].pair \in Pair
      BY <2>6, RequestTypes
    <3>2. /\ committed[req[r].pair] # "free" /\ row[req[r].pair] # "free"
          /\ req[r].keys = token[req[r].pair].keys
      BY <1>5, <2>6, <3>1 DEF Mint, RequestsOK, RequestOK, RowsOK
    <3>3. /\ Family(req[r].pair) \in Pair /\ committed[Family(req[r].pair)] # "free"
          /\ req[r].keys = token[Family(req[r].pair)].keys
      BY <3>1, <3>2 DEF FamiliesOK
    <3>4. Family(q)' = Family(req[r].pair)
      BY <2>1, <2>3, <2>6 DEF Family
    <3> QED BY <2>1, <2>2, <2>3, <2>4, <3>3, <3>4 DEF FamiliesOK
  <2> QED BY <2>5, <2>6
<1>6. ASSUME NEW r \in Request, Find(r) PROVE FamiliesOK'
  BY <1>6 DEF Find, FamiliesOK, Family
<1>7. ASSUME NEW r \in Request, CheckRefresh(r) PROVE FamiliesOK'
  <2>1. req[r].pair \in Pair /\ row[req[r].pair] = "Active"
    BY <1>7, RequestTypes DEF CheckRefresh, RequestsOK, RequestOK
  <2> QED BY <1>7, <2>1 DEF CheckRefresh, FamiliesOK, Family, TypeOK
<1>8. ASSUME NEW r \in Request, RevokeFamily(r) PROVE FamiliesOK'
  BY <1>8 DEF RevokeFamily, FamiliesOK, Family, TypeOK
<1> QED BY <1>1, <1>2, <1>3, <1>4, <1>5, <1>6, <1>7, <1>8, Steps DEF RequestStep

LEMMA LiveStep ==
  TypeOK /\ RowsOK /\ FamiliesOK /\ RequestsOK /\ LiveOK /\ [Next]_vars => LiveOK'
<1> SUFFICES ASSUME TypeOK, RowsOK, FamiliesOK, RequestsOK, LiveOK, [Next]_vars PROVE LiveOK'
  OBVIOUS
<1>1. CASE UNCHANGED <<database, ended>>
  BY <1>1 DEF LiveOK, Live, Family, database
<1>2. CASE DeleteStep
  BY <1>2 DEF DeleteStep, Delete, LiveOK, Live, Family, TypeOK
<1>3. ASSUME NEW r \in Request, Fail(r) PROVE LiveOK'
  <2>1. \A p \in Pair : Live(p)' => Live(p) /\ token'[p] = token[p]
    BY <1>3 DEF Fail, Held, Issued, Live, RowsOK, TypeOK
  <2> QED BY <1>3, <2>1 DEF Fail, Release, Held, LiveOK, Live, Family, TypeOK
<1>4. ASSUME NEW r \in Request, Commit(r) PROVE LiveOK'
  BY <1>4 DEF Commit, Release, Held, LiveOK, Live, Family, TypeOK
<1>5. ASSUME NEW r \in Request, Mint(r) PROVE LiveOK'
  <2>1. PICK q \in Pair :
          /\ row[q] = "free" /\ committed[q] = "free" /\ q # req[r].pair
          /\ token' = [token EXCEPT ![q] = NewToken(r, q)]
          /\ row' = [p \in Pair |-> IF p = q THEN "Active"
                                    ELSE IF p = req[r].pair THEN "Rotated" ELSE row[p]]
          /\ lock' = [lock EXCEPT ![q] = r]
          /\ NewToken(r, q).family = (IF req[r].pair = NoPair THEN q ELSE Family(req[r].pair))
    BY <1>5, MintStep
  <2>2. committed' = committed
    BY <1>5 DEF Mint
  <2>3. token'[q] = NewToken(r, q) /\ \A p \in Pair : p # q => token'[p] = token[p]
    BY <2>1 DEF TypeOK
  <2>4. \A p \in Pair : p # q => (Live(p)' => Live(p)) /\ Family(p)' = Family(p) /\ lock'[p] = lock[p]
    BY <2>1, <2>2, <2>3 DEF Live, Family, TypeOK
  <2>5. ASSUME NEW p \in Pair, p # q, Live(p)', Family(p)' = Family(q)'
        PROVE  p = req[r].pair /\ lock[p] = r
    <3>1. Live(p) /\ row[p] # "free"
      BY <2>4, <2>5 DEF Live, RowsOK
    <3>2. req[r].pair # NoPair
      BY <2>1, <2>3, <2>5, <3>1 DEF FamiliesOK, Family
    <3>3. req[r].pair \in Pair /\ Live(req[r].pair) /\ lock[req[r].pair] = r
      BY <1>5, <3>2, RequestTypes DEF Mint, RequestsOK, RequestOK, Live
    <3>4. Family(p) = Family(req[r].pair)
      BY <2>1, <2>3, <2>5, <3>2 DEF Family
    <3>5. p # req[r].pair => lock[p] = r
      BY <3>1, <3>3, <3>4 DEF LiveOK
    <3> QED BY <1>5, <3>3, <3>5 DEF Mint, RequestsOK, RequestOK
  <2>6. ASSUME NEW p \in Pair, p # q, Live(p)', Family(p)' = Family(q)'
        PROVE  /\ lock'[p] = r /\ lock'[q] = r /\ r # NoRequest
               /\ row'[p] # "Active" /\ committed'[q] # "Active"
    BY <2>1, <2>2, <2>5, <2>6 DEF TypeOK
  <2>7. ASSUME NEW p \in Pair, NEW x \in Pair, p # x, p # q, x # q,
               Family(p)' = Family(x)', Live(p)', Live(x)'
        PROVE  /\ lock'[p] = lock'[x] /\ lock'[p] # NoRequest
               /\ ~ (row'[p] = "Active" /\ row'[x] = "Active")
               /\ ~ (committed'[p] = "Active" /\ committed'[x] = "Active")
    <3>1. row'[p] = "Active" => row[p] = "Active"
      BY <2>1, <2>7
    <3>2. row'[x] = "Active" => row[x] = "Active"
      BY <2>1, <2>7
    <3> QED BY <2>2, <2>4, <2>7, <3>1, <3>2 DEF LiveOK
  <2> QED BY <2>6, <2>7 DEF LiveOK
<1>6. ASSUME NEW r \in Request, Find(r) PROVE LiveOK'
  BY <1>6 DEF Find, LiveOK, Live, Family, TypeOK
<1>7. ASSUME NEW r \in Request, CheckRefresh(r) PROVE LiveOK'
  <2>1. req[r].pair \in Pair /\ lock[req[r].pair] = r /\ row[req[r].pair] = "Active"
    BY <1>7, RequestTypes DEF CheckRefresh, RequestsOK, RequestOK
  <2> QED BY <1>7, <2>1 DEF CheckRefresh, LiveOK, Live, Family, TypeOK
<1>8. ASSUME NEW r \in Request, RevokeFamily(r) PROVE LiveOK'
  <2>1. \A p \in Pair : lock[p] = r => p = req[r].pair
    BY <1>8 DEF RevokeFamily, RequestsOK, RequestOK
  <2>2. \A p \in Pair : Live(p)' => Live(p)
    BY <1>8 DEF RevokeFamily, Live
  <2>3. \A p \in Pair : lock'[p] = (IF p \in RowsOf(Family(req[r].pair)) THEN r ELSE lock[p])
    BY <1>8 DEF RevokeFamily
  <2>4. ASSUME NEW p \in Pair, NEW q \in Pair, p # q, Family(p) = Family(q), Live(p), Live(q)
        PROVE  p \notin RowsOf(Family(req[r].pair)) /\ q \notin RowsOf(Family(req[r].pair))
    <3>1. lock[p] = lock[q] /\ lock[p] # NoRequest
      BY <2>4 DEF LiveOK
    <3>2. \A x \in RowsOf(Family(req[r].pair)) : lock[x] \in {NoRequest, r}
      BY <1>8 DEF RevokeFamily
    <3> QED BY <2>1, <2>4, <3>1, <3>2
  <2>5. \A p \in Pair : row'[p] = "Active" => row[p] = "Active"
    BY <1>8 DEF RevokeFamily
  <2>6. token' = token /\ committed' = committed
    BY <1>8 DEF RevokeFamily
  <2> QED BY <2>2, <2>3, <2>4, <2>5, <2>6 DEF LiveOK, Family
<1> QED BY <1>1, <1>2, <1>3, <1>4, <1>5, <1>6, <1>7, <1>8, Steps DEF RequestStep

LEMMA EndedStep ==
  TypeOK /\ RowsOK /\ FamiliesOK /\ RequestsOK /\ EndedOK /\ [Next]_vars => EndedOK'
<1> SUFFICES ASSUME TypeOK, RowsOK, FamiliesOK, RequestsOK, EndedOK, [Next]_vars PROVE EndedOK'
  OBVIOUS
<1>1. CASE UNCHANGED <<database, ended>>
  BY <1>1 DEF EndedOK, Live, Issued, Family, database
<1>2. CASE DeleteStep
  BY <1>2 DEF DeleteStep, Delete, EndedOK, Live, Issued, Family, TypeOK
<1>3. ASSUME NEW r \in Request, Fail(r) PROVE EndedOK'
  <2>1. \A p \in Pair : Live(p)' => Live(p) /\ token'[p] = token[p]
    BY <1>3 DEF Fail, Held, Issued, Live, RowsOK, TypeOK
  <2> QED BY <1>3, <2>1 DEF Fail, EndedOK, Issued, Family
<1>4. ASSUME NEW r \in Request, Commit(r) PROVE EndedOK'
  <2>1. \A p \in Pair : Live(p)' => Live(p)
    BY <1>4 DEF Commit, Held, Live
  <2>2. \A p \in Pair : committed[p] # "free" => committed'[p] # "free"
    BY <1>4 DEF Commit, Held, RowsOK
  <2>3. CASE ended' = ended
    BY <1>4, <2>1, <2>2, <2>3 DEF Commit, EndedOK, Issued, Family
  <2>4. CASE ended' # ended
    <3>1. /\ req[r].at = "revoked" /\ ended' = ended \cup {Family(req[r].pair)}
          /\ req[r].pair \in Pair /\ committed[req[r].pair] # "free"
      BY <1>4, <2>4, RequestTypes DEF Commit, RequestsOK, RequestOK
    <3>2. Family(req[r].pair) \in Pair /\ committed[Family(req[r].pair)] # "free"
      BY <3>1 DEF FamiliesOK, RowsOK
    <3>3. ASSUME NEW p \in Pair, Live(p)', Family(p) = Family(req[r].pair) PROVE FALSE
      <4>1. row[p] \notin {"free", "deleted"}
        BY <2>1, <3>3 DEF Live, RowsOK
      <4>2. lock[p] = r /\ row[p] # "Active"
        BY <3>1, <3>3, <4>1 DEF RequestsOK, RequestOK
      <4> QED BY <1>4, <3>3, <4>2 DEF Commit, Held, Live
    <3>4. ended' \subseteq Issued'
      BY <2>2, <3>1, <3>2 DEF EndedOK, Issued
    <3>5. token' = token
      BY <1>4 DEF Commit
    <3> QED BY <2>1, <3>1, <3>3, <3>4, <3>5 DEF EndedOK, Family
  <2> QED BY <2>3, <2>4
<1>5. ASSUME NEW r \in Request, Mint(r) PROVE EndedOK'
  <2>1. PICK q \in Pair :
          /\ row[q] = "free" /\ committed[q] = "free" /\ q # req[r].pair
          /\ token' = [token EXCEPT ![q] = NewToken(r, q)]
          /\ row' = [p \in Pair |-> IF p = q THEN "Active"
                                    ELSE IF p = req[r].pair THEN "Rotated" ELSE row[p]]
          /\ NewToken(r, q).family = (IF req[r].pair = NoPair THEN q ELSE Family(req[r].pair))
    BY <1>5, MintStep
  <2>2. committed' = committed /\ ended' = ended
    BY <1>5 DEF Mint
  <2>3. token'[q] = NewToken(r, q) /\ \A p \in Pair : p # q => token'[p] = token[p]
    BY <2>1 DEF TypeOK
  <2>4. \A p \in Pair : p # q /\ Live(p)' => Live(p) /\ Family(p)' = Family(p)
    BY <2>1, <2>2, <2>3 DEF Live, Family
  <2>5. Family(q)' \notin ended
    <3>1. CASE req[r].pair = NoPair
      BY <2>1, <2>3, <3>1 DEF EndedOK, Issued, Family
    <3>2. CASE req[r].pair # NoPair
      <4>1. req[r].pair \in Pair /\ Live(req[r].pair)
        BY <1>5, <3>2, RequestTypes DEF Mint, RequestsOK, RequestOK, Live
      <4> QED BY <2>1, <2>3, <3>2, <4>1 DEF EndedOK, Family
    <3> QED BY <3>1, <3>2
  <2> QED BY <2>2, <2>4, <2>5 DEF EndedOK, Issued
<1>6. ASSUME NEW r \in Request, Find(r) PROVE EndedOK'
  BY <1>6 DEF Find, EndedOK, Live, Issued, Family
<1>7. ASSUME NEW r \in Request, CheckRefresh(r) PROVE EndedOK'
  BY <1>7 DEF CheckRefresh, EndedOK, Live, Issued, Family, TypeOK
<1>8. ASSUME NEW r \in Request, RevokeFamily(r) PROVE EndedOK'
  BY <1>8 DEF RevokeFamily, EndedOK, Live, Issued, Family
<1> QED BY <1>1, <1>2, <1>3, <1>4, <1>5, <1>6, <1>7, <1>8, Steps DEF RequestStep

LEMMA ChainStep == TypeOK /\ RowsOK /\ RequestsOK /\ ChainOK /\ [Next]_vars => ChainOK'
<1> SUFFICES ASSUME TypeOK, RowsOK, RequestsOK, ChainOK, [Next]_vars PROVE ChainOK'
  OBVIOUS
<1>1. CASE UNCHANGED <<database, ended>>
  BY <1>1 DEF ChainOK, database
<1>2. \A q \in Pair : token[q].parent # NoPair => token[q].parent \in Pair
  BY DEF TypeOK, TokenType
<1>3. CASE DeleteStep
  <2>1. PICK gone \in SUBSET Present : Delete(gone)
    BY <1>3 DEF DeleteStep
  <2>2. /\ token' = token /\ lock' = lock /\ \A p \in Pair : lock[p] = NoRequest
        /\ \A p \in Pair : row'[p] = (IF p \in gone THEN "deleted" ELSE row[p])
        /\ \A p \in Pair : committed'[p] = (IF p \in gone THEN "deleted" ELSE committed[p])
        /\ \A p \in gone : row[p] # "free"
    BY <2>1 DEF Delete, Present
  <2>3. \A p \in Pair : row[p] = committed[p]
    BY <2>2 DEF RowsOK
  <2> QED BY <1>2, <2>2, <2>3 DEF ChainOK
<1>4. ASSUME NEW r \in Request, Fail(r) PROVE ChainOK'
  <2>1. /\ \A p \in Pair : row'[p] = (IF lock[p] = r THEN committed[p] ELSE row[p])
        /\ committed' = committed
        /\ \A p \in Pair : lock'[p] = (IF lock[p] = r THEN NoRequest ELSE lock[p])
    BY <1>4 DEF Fail, Held, Release
  <2>2. \A p \in Pair : row'[p] # "free" => row[p] # "free" /\ token'[p] = token[p]
    BY <1>4, <2>1 DEF Fail, Held, Issued, RowsOK
  <2>3. ASSUME NEW q \in Pair, row'[q] # "free", token'[q].parent # NoPair
        PROVE  /\ row'[token'[q].parent] \notin {"free", "Active"}
               /\ committed'[q] # "free" => committed'[token'[q].parent] \notin {"free", "Active"}
               /\ committed'[q] = "free" =>
                    lock'[q] = lock'[token'[q].parent] /\ lock'[q] # NoRequest
               /\ \A p \in Pair : row'[p] # "free" /\ token'[p].parent = token'[q].parent => p = q
    <3>1. row[q] # "free" /\ token'[q] = token[q] /\ token[q].parent \in Pair
      BY <1>2, <2>2, <2>3
    <3>2. committed[q] = "free" => lock[q] # r
      BY <2>1, <2>3
    <3> QED BY <2>1, <2>2, <2>3, <3>1, <3>2 DEF ChainOK
  <2> QED BY <2>3 DEF ChainOK
<1>5. ASSUME NEW r \in Request, Commit(r) PROVE ChainOK'
  <2>1. /\ \A p \in Pair : committed'[p] = (IF lock[p] = r THEN row[p] ELSE committed[p])
        /\ \A p \in Pair : lock'[p] = (IF lock[p] = r THEN NoRequest ELSE lock[p])
        /\ row' = row /\ token' = token
    BY <1>5 DEF Commit, Held, Release
  <2> QED BY <1>2, <2>1 DEF ChainOK
<1>6. ASSUME NEW r \in Request, Mint(r) PROVE ChainOK'
  <2>1. PICK q \in Pair :
          /\ row[q] = "free" /\ committed[q] = "free" /\ q # req[r].pair
          /\ token' = [token EXCEPT ![q] = NewToken(r, q)]
          /\ row' = [p \in Pair |-> IF p = q THEN "Active"
                                    ELSE IF p = req[r].pair THEN "Rotated" ELSE row[p]]
          /\ lock' = [lock EXCEPT ![q] = r]
          /\ NewToken(r, q).parent = req[r].pair
    BY <1>6, MintStep
  <2>2. committed' = committed /\ r # NoRequest
    BY <1>6 DEF Mint
  <2>3. /\ token'[q] = NewToken(r, q) /\ \A p \in Pair : p # q => token'[p] = token[p]
        /\ lock'[q] = r /\ \A p \in Pair : p # q => lock'[p] = lock[p]
    BY <2>1 DEF TypeOK
  <2>4. req[r].pair # NoPair =>
          /\ req[r].pair \in Pair /\ lock[req[r].pair] = r /\ row[req[r].pair] = "Active"
    BY <1>6, RequestTypes DEF Mint, RequestsOK, RequestOK
  <2>5. \A p \in Pair : p # q /\ row'[p] # "free" => row[p] # "free"
    BY <2>1, <2>4
  <2>6. \A p \in Pair : row[p] # "free" /\ token[p].parent # NoPair =>
          token[p].parent # req[r].pair /\ token[p].parent # q
    BY <2>1, <2>4 DEF ChainOK
  <2>7. ASSUME NEW x \in Pair, x # q, row'[x] # "free", token'[x].parent # NoPair
        PROVE  /\ row'[token'[x].parent] \notin {"free", "Active"}
               /\ committed'[x] # "free" => committed'[token'[x].parent] \notin {"free", "Active"}
               /\ committed'[x] = "free" =>
                    lock'[x] = lock'[token'[x].parent] /\ lock'[x] # NoRequest
               /\ \A p \in Pair : row'[p] # "free" /\ token'[p].parent = token'[x].parent => p = x
    <3>1. row[x] # "free" /\ token'[x] = token[x] /\ token[x].parent \in Pair
      BY <1>2, <2>3, <2>5, <2>7
    <3>2. token[x].parent # req[r].pair /\ token[x].parent # q
      BY <2>6, <2>7, <3>1
    <3>3. row'[token[x].parent] = row[token[x].parent]
      BY <2>1, <3>1, <3>2
    <3>4. \A p \in Pair : row'[p] # "free" /\ token'[p].parent = token[x].parent => p = x
      BY <2>1, <2>3, <2>5, <2>7, <3>1, <3>2 DEF ChainOK
    <3> QED BY <2>2, <2>3, <2>7, <3>1, <3>2, <3>3, <3>4 DEF ChainOK
  <2>8. ASSUME token'[q].parent # NoPair
        PROVE  /\ row'[token'[q].parent] \notin {"free", "Active"}
               /\ committed'[q] = "free"
               /\ lock'[q] = lock'[token'[q].parent] /\ lock'[q] # NoRequest
               /\ \A p \in Pair : row'[p] # "free" /\ token'[p].parent = token'[q].parent => p = q
    BY <2>1, <2>2, <2>3, <2>4, <2>5, <2>6, <2>8
  <2> QED BY <2>7, <2>8 DEF ChainOK
<1>7. ASSUME NEW r \in Request, Find(r) PROVE ChainOK'
  <2>1. row' = row /\ committed' = committed /\ token' = token
    BY <1>7 DEF Find
  <2>2. \A p \in Pair : lock[p] # NoRequest => lock'[p] = lock[p]
    BY <1>7 DEF Find, TypeOK
  <2> QED BY <1>2, <2>1, <2>2 DEF ChainOK
<1>8. ASSUME NEW r \in Request, CheckRefresh(r) PROVE ChainOK'
  <2>1. req[r].pair \in Pair /\ row[req[r].pair] = "Active"
    BY <1>8, RequestTypes DEF CheckRefresh, RequestsOK, RequestOK
  <2>2. /\ committed' = committed /\ token' = token /\ lock' = lock
        /\ row' = row \/ row' = [row EXCEPT ![req[r].pair] = "Expired"]
    BY <1>8 DEF CheckRefresh
  <2> QED BY <1>2, <2>1, <2>2 DEF ChainOK, TypeOK
<1>9. ASSUME NEW r \in Request, RevokeFamily(r) PROVE ChainOK'
  <2>1. committed' = committed /\ token' = token
    BY <1>9 DEF RevokeFamily
  <2>2. \A p \in Pair : lock[p] # NoRequest => lock'[p] = lock[p]
    BY <1>9 DEF RevokeFamily
  <2>3. \A p \in Pair : row'[p] = row[p] \/ (row[p] = "Active" /\ row'[p] = "Revoked")
    BY <1>9 DEF RevokeFamily
  <2> QED BY <1>2, <2>1, <2>2, <2>3 DEF ChainOK
<1> QED BY <1>1, <1>3, <1>4, <1>5, <1>6, <1>7, <1>8, <1>9, Steps DEF RequestStep

\* A request keeps what it has while another one takes a step.
LEMMA OtherRequest ==
  ASSUME TypeOK, RowsOK, FamiliesOK, RequestsOK,
         NEW s \in Request, RequestStep(s), NEW r \in Request, r # s
  PROVE  RequestOK(r)'
<1>1. RequestOK(r) /\ RequestOK(s)
  BY DEF RequestsOK
<1>2. req'[r] = req[r]
  BY DEF RequestStep, Fail, Commit, Mint, Find, CheckRefresh, RevokeFamily, Goto, TypeOK
<1>3. CASE Fail(s)
  <2>1. /\ \A p \in Pair : row'[p] = (IF lock[p] = s THEN committed[p] ELSE row[p])
        /\ committed' = committed
        /\ \A p \in Pair : lock'[p] = (IF lock[p] = s THEN NoRequest ELSE lock[p])
        /\ \A p \in Pair : committed[p] # "free" => token'[p] = token[p]
    BY <1>3 DEF Fail, Held, Release, Issued
  <2>2. \A p \in Pair : row'[p] \notin {"free", "deleted"} =>
          row[p] \notin {"free", "deleted"} /\ token'[p] = token[p]
    BY <1>3, <2>1 DEF Fail, Held, Issued, RowsOK
  <2> QED BY <1>1, <1>2, <2>1, <2>2, RequestTypes DEF RequestOK, Family
<1>4. CASE Commit(s)
  <2>1. /\ \A p \in Pair : committed'[p] = (IF lock[p] = s THEN row[p] ELSE committed[p])
        /\ \A p \in Pair : lock'[p] = (IF lock[p] = s THEN NoRequest ELSE lock[p])
        /\ row' = row /\ token' = token
    BY <1>4 DEF Commit, Held, Release
  <2>2. \A p \in Pair : committed[p] # "free" => committed'[p] # "free"
    BY <2>1 DEF RowsOK
  <2> QED BY <1>1, <1>2, <2>1, <2>2, RequestTypes DEF RequestOK, Family
<1>5. CASE Mint(s)
  <2>1. PICK q \in Pair :
          /\ row[q] = "free" /\ committed[q] = "free" /\ q # req[s].pair
          /\ token' = [token EXCEPT ![q] = NewToken(s, q)]
          /\ row' = [p \in Pair |-> IF p = q THEN "Active"
                                    ELSE IF p = req[s].pair THEN "Rotated" ELSE row[p]]
          /\ lock' = [lock EXCEPT ![q] = s]
          /\ NewToken(s, q).family = (IF req[s].pair = NoPair THEN q ELSE Family(req[s].pair))
    BY <1>5, MintStep
  <2>2. committed' = committed
    BY <1>5 DEF Mint
  <2>3. /\ token'[q] = NewToken(s, q) /\ \A p \in Pair : p # q => token'[p] = token[p]
        /\ lock'[q] = s /\ \A p \in Pair : p # q => lock'[p] = lock[p]
    BY <2>1 DEF TypeOK
  <2>4. req[s].pair # NoPair =>
          /\ req[s].pair \in Pair /\ lock[req[s].pair] = s /\ row[req[s].pair] = "Active"
    BY <1>1, <1>5, RequestTypes DEF Mint, RequestOK
  <2>5. req[r].pair # NoPair =>
          /\ req[r].pair \in Pair /\ committed[req[r].pair] # "free"
          /\ req[r].pair # q /\ Family(req[r].pair) # q /\ Family(req[r].pair)' = Family(req[r].pair)
    <3> SUFFICES ASSUME req[r].pair # NoPair
                 PROVE  /\ req[r].pair \in Pair /\ committed[req[r].pair] # "free"
                        /\ req[r].pair # q /\ Family(req[r].pair) # q
                        /\ Family(req[r].pair)' = Family(req[r].pair)
      OBVIOUS
    <3>1. req[r].pair \in Pair /\ committed[req[r].pair] # "free" /\ row[req[r].pair] # "free"
      BY <1>1, RequestTypes DEF RequestOK, RowsOK
    <3>2. Family(req[r].pair) = req[r].pair \/ committed[Family(req[r].pair)] # "free"
      BY <3>1 DEF FamiliesOK
    <3> QED BY <1>2, <2>1, <2>3, <3>1, <3>2 DEF Family
  <2>6. req[r].at \in {"active", "mint"} /\ req[r].pair # NoPair =>
          lock'[req[r].pair] = r /\ row'[req[r].pair] = "Active"
    BY <1>1, <2>1, <2>3, <2>4, <2>5 DEF RequestOK
  <2>7. ASSUME req[r].at \in {"deny", "revoked"}, NEW p \in Pair,
               row'[p] \notin {"free", "deleted"}, Family(p)' = Family(req[r].pair)'
        PROVE  lock'[p] = r /\ row'[p] # "Active"
    <3>1. req[r].pair # NoPair
      BY <1>1, <2>7 DEF RequestOK
    <3>2. CASE p = q
      <4>1. req[s].pair # NoPair /\ Family(req[s].pair) = Family(req[r].pair)
        BY <2>1, <2>3, <2>5, <2>7, <3>1, <3>2 DEF Family
      <4> QED BY <1>1, <2>4, <2>7, <4>1 DEF RequestOK
    <3>3. CASE p # q
      <4>1. row[p] \notin {"free", "deleted"} /\ Family(p) = Family(req[r].pair)
        BY <2>1, <2>3, <2>4, <2>5, <2>7, <3>1, <3>3 DEF Family
      <4> QED BY <1>1, <2>1, <2>3, <2>7, <3>3, <4>1 DEF RequestOK
    <3> QED BY <3>2, <3>3
  <2>8. \A p \in Pair : lock'[p] = r => lock[p] = r
    BY <2>3
  <2> QED BY <1>1, <1>2, <2>2, <2>3, <2>5, <2>6, <2>7, <2>8 DEF RequestOK
<1>6. CASE Find(s)
  <2>1. row' = row /\ committed' = committed /\ token' = token
    BY <1>6 DEF Find
  <2>2. \A p \in Pair : lock'[p] = lock[p] \/ (lock[p] = NoRequest /\ lock'[p] = s)
    BY <1>6 DEF Find, TypeOK
  <2> QED BY <1>1, <1>2, <2>1, <2>2, RequestTypes DEF RequestOK, Family
<1>7. CASE CheckRefresh(s)
  <2>1. req[s].pair \in Pair /\ row[req[s].pair] = "Active" /\ lock[req[s].pair] = s
    BY <1>1, <1>7, RequestTypes DEF CheckRefresh, RequestOK
  <2>2. /\ committed' = committed /\ token' = token /\ lock' = lock
        /\ row' = row \/ row' = [row EXCEPT ![req[s].pair] = "Expired"]
    BY <1>7 DEF CheckRefresh
  <2>3. \A p \in Pair : row'[p] = row[p] \/ (lock[p] = s /\ row[p] = "Active" /\ row'[p] = "Expired")
    BY <2>1, <2>2 DEF TypeOK
  <2> QED BY <1>1, <1>2, <2>2, <2>3, RequestTypes DEF RequestOK, Family
<1>8. CASE RevokeFamily(s)
  <2>1. committed' = committed /\ token' = token
    BY <1>8 DEF RevokeFamily
  <2>2. \A p \in Pair : lock'[p] = lock[p] \/ (lock[p] = NoRequest /\ lock'[p] = s)
    BY <1>8 DEF RevokeFamily
  <2>3. \A p \in Pair : row'[p] = row[p] \/
          (lock[p] \in {NoRequest, s} /\ row[p] = "Active" /\ row'[p] = "Revoked")
    BY <1>8 DEF RevokeFamily
  <2> QED BY <1>1, <1>2, <2>1, <2>2, <2>3, RequestTypes DEF RequestOK, Family
<1> QED BY <1>3, <1>4, <1>5, <1>6, <1>7, <1>8 DEF RequestStep

\* What a request has after its own step.
LEMMA OwnRequest ==
  ASSUME TypeOK, RowsOK, FamiliesOK, RequestsOK, NEW r \in Request, RequestStep(r)
  PROVE  RequestOK(r)'
<1>1. RequestOK(r) /\ req[r].at \in Place /\ req[r].pair \in Pair \cup {NoPair}
  BY RequestTypes DEF RequestsOK
<1>2. CASE Fail(r) \/ Commit(r)
  <2>1. req'[r] = Idle
    BY <1>2 DEF Fail, Commit, TypeOK
  <2>2. \A p \in Pair : lock'[p] # r
    BY <1>2 DEF Fail, Commit, Release, Held
  <2> QED BY <2>1, <2>2 DEF RequestOK, Idle
<1>3. CASE Mint(r)
  <2>1. req'[r] = [req[r] EXCEPT !.at = "commit"] /\ committed' = committed
    BY <1>3 DEF Mint, Goto, TypeOK
  <2>2. req'[r].at = "commit" /\ req'[r].pair = req[r].pair /\ req'[r].spent = req[r].spent
    BY <2>1, RequestTypes DEF RequestType
  <2>3. ~ req[r].spent
    BY <1>1, <1>3 DEF Mint, RequestOK
  <2> QED BY <1>1, <2>1, <2>2, <2>3 DEF RequestOK, Call
<1>4. CASE Find(r)
  <2>1. /\ row' = row /\ committed' = committed /\ token' = token
        /\ req[r].at \in {"refresh", "revoke"} /\ req[r].pair # NoPair /\ req[r].pair \in Pair
        /\ req'[r].pair = req[r].pair
        /\ \A p \in Pair : lock[p] # r
    BY <1>1, <1>4 DEF Find, Goto, RequestOK, TypeOK, RequestType, Call
  <2>2. ~ req[r].spent
    BY <1>1, <2>1 DEF RequestOK
  <2>3. CASE lock' = lock
    <3>1. req'[r].at = "commit" /\ req'[r].spent = req[r].spent
      BY <1>4, <2>1, <2>3 DEF Find, Goto, TypeOK, RequestType
    <3> QED BY <1>1, <2>1, <2>2, <3>1 DEF RequestOK, Call
  <2>4. CASE lock' # lock
    <3>1. /\ lock' = [lock EXCEPT ![req[r].pair] = r]
          /\ \/ req'[r].at = "update"
             \/ req'[r].at = "active" /\ row[req[r].pair] = "Active" /\ req'[r].spent = req[r].spent
      BY <1>4, <2>4 DEF Find, Goto, TypeOK, RequestType
    <3>2. lock'[req[r].pair] = r /\ \A p \in Pair : lock'[p] = r => p = req[r].pair
      BY <2>1, <3>1 DEF TypeOK
    <3> QED BY <1>1, <2>1, <2>2, <3>1, <3>2 DEF RequestOK, Call
  <2> QED BY <2>3, <2>4
<1>5. CASE CheckRefresh(r)
  <2>1. /\ req[r].at = "active" /\ committed' = committed /\ token' = token /\ lock' = lock
        /\ req'[r].pair = req[r].pair /\ req'[r].spent = req[r].spent
    BY <1>5 DEF CheckRefresh, Goto, TypeOK, RequestType
  <2>2. /\ req[r].pair # NoPair /\ lock[req[r].pair] = r /\ row[req[r].pair] = "Active"
        /\ ~ req[r].spent /\ \A p \in Pair : lock[p] = r => p = req[r].pair
    BY <1>1, <2>1 DEF RequestOK
  <2>3. \/ req'[r].at = "commit"
        \/ req'[r].at = "update"
        \/ req'[r].at = "mint" /\ row' = row /\ req'[r].keys = token[req[r].pair].keys
    BY <1>5 DEF CheckRefresh, Goto, TypeOK, RequestType
  <2> QED BY <1>1, <2>1, <2>2, <2>3 DEF RequestOK, Call
<1>6. CASE RevokeFamily(r)
  <2>1. /\ req[r].at = "update" /\ committed' = committed /\ token' = token
        /\ req'[r].at = "deny" /\ req'[r].pair = req[r].pair /\ req'[r].spent = req[r].spent
    BY <1>6 DEF RevokeFamily, Goto, TypeOK, RequestType
  <2>2. ASSUME NEW p \in Pair, row'[p] \notin {"free", "deleted"},
               Family(p) = Family(req[r].pair)
        PROVE  lock'[p] = r /\ row'[p] # "Active"
    BY <1>6, <2>2 DEF RevokeFamily, RowsOf, Present
  <2> QED BY <1>1, <2>1, <2>2 DEF RequestOK, Call, Family
<1> QED BY <1>2, <1>3, <1>4, <1>5, <1>6 DEF RequestStep

LEMMA RequestsStep == TypeOK /\ RowsOK /\ FamiliesOK /\ RequestsOK /\ [Next]_vars => RequestsOK'
<1> SUFFICES ASSUME TypeOK, RowsOK, FamiliesOK, RequestsOK, [Next]_vars PROVE RequestsOK'
  OBVIOUS
<1>1. ASSUME UNCHANGED <<database, ended, req>> PROVE RequestsOK'
  BY <1>1 DEF RequestsOK, RequestOK, Family, database
<1>2. CASE DeleteStep
  <2>1. PICK gone \in SUBSET Present : Delete(gone)
    BY <1>2 DEF DeleteStep
  <2>2. /\ token' = token /\ lock' = lock /\ \A p \in Pair : lock[p] = NoRequest
        /\ \A p \in Pair : committed[p] # "free" => committed'[p] # "free"
        /\ \A p \in Pair : row'[p] \notin {"free", "deleted"} => row[p] \notin {"free", "deleted"}
    BY <2>1 DEF Delete
  <2>3. req' = req
    BY <1>2 DEF DeleteStep
  <2> QED BY <2>2, <2>3, RequestTypes DEF RequestsOK, RequestOK, Family
<1>3. ASSUME NEW r \in Request, RequestStep(r) PROVE RequestsOK'
  BY <1>3, OtherRequest, OwnRequest DEF RequestsOK
<1>4. ASSUME NEW s \in Request, NEW call \in Call, NEW p \in Pair \cup {NoPair}, Begin(s, call, p)
      PROVE  RequestsOK'
  <2>1. /\ req[s].at = "idle" /\ UNCHANGED database
        /\ req'[s].at = call /\ req'[s].pair = p /\ req'[s].spent = FALSE
        /\ \A r \in Request : r # s => req'[r] = req[r]
        /\ call # "issue" => p \in Issued
        /\ call = "issue" => p = NoPair
    BY <1>4 DEF Begin, TypeOK
  <2>2. RequestOK(s)'
    BY <2>1 DEF RequestsOK, RequestOK, Call, Issued, database
  <2>3. ASSUME NEW r \in Request, r # s PROVE RequestOK(r)'
    BY <2>1, <2>3 DEF RequestsOK, RequestOK, Family, database
  <2> QED BY <2>2, <2>3 DEF RequestsOK
<1>5. ASSUME NEW s \in Request, CheckKeys(s) \/ DenyToken(s) \/ DenyFamily(s) PROVE RequestsOK'
  <2>1. /\ UNCHANGED database
        /\ req'[s].pair = req[s].pair /\ req'[s].spent = req[s].spent /\ req'[s].keys = req[s].keys
        /\ \A r \in Request : r # s => req'[r] = req[r]
        /\ \/ req[s].at = "issue" /\ req'[s].at \in {"mint", "commit"}
           \/ req[s].at = "revoke_access" /\ req'[s].at = "update"
           \/ req[s].at = "deny" /\ req'[s].at = "revoked"
    BY <1>5 DEF CheckKeys, DenyToken, DenyFamily, Goto, TypeOK, RequestType
  <2>2. RequestOK(s)'
    BY <2>1 DEF RequestsOK, RequestOK, Call, Family, database
  <2>3. ASSUME NEW r \in Request, r # s PROVE RequestOK(r)'
    BY <2>1, <2>3 DEF RequestsOK, RequestOK, Family, database
  <2> QED BY <2>2, <2>3 DEF RequestsOK
<1>6. CASE \/ Tick \/ (\E seconds \in AccessTTL : SetTTL(seconds)) \/ SetAllowed \/ GenerateKeys
           \/ UNCHANGED vars
  BY <1>1, <1>6 DEF Tick, SetTTL, SetAllowed, GenerateKeys, vars, database
<1>7. CASE DeleteUserTokens \/ PurgeExpired
  BY <1>2, <1>7 DEF DeleteUserTokens, PurgeExpired, DeleteStep
<1> QED BY <1>3, <1>4, <1>5, <1>6, <1>7 DEF Next, Environment, Step, RequestStep

-----------------------------------------------------------------------------
(* The access tokens and the deny list.                                    *)

\* The steps that leave what CoverOK and LifeOK speak of alone.
Aside ==
  /\ UNCHANGED <<clock, denied, token, deniedFor, ended>>
  /\ \A p \in Pair : row'[p] # "free" => row[p] # "free"
  /\ \A r \in Request : req'[r].at = "revoked" => req'[r] = req[r]

LEMMA OtherSteps ==
  ASSUME TypeOK, RowsOK, RequestsOK, [Next]_vars
  PROVE  \/ Aside
         \/ Tick
         \/ \E r \in Request : Fail(r) \/ Commit(r) \/ Mint(r) \/ DenyToken(r) \/ DenyFamily(r)
<1>1. CASE SetAllowed \/ GenerateKeys
  BY <1>1 DEF SetAllowed, GenerateKeys, Aside, database
<1>1a. ASSUME NEW seconds \in AccessTTL, SetTTL(seconds) PROVE Aside
  BY <1>1a DEF SetTTL, Aside, database
<1>2. CASE DeleteUserTokens \/ PurgeExpired
  BY <1>2 DEF DeleteUserTokens, PurgeExpired, Delete, Present, Aside
<1>3. ASSUME NEW s \in Request, NEW call \in Call, NEW p \in Pair \cup {NoPair}, Begin(s, call, p)
      PROVE  Aside
  BY <1>3 DEF Begin, Aside, database, Call, TypeOK
<1>4. ASSUME NEW s \in Request, CheckKeys(s) PROVE Aside
  BY <1>4 DEF CheckKeys, Goto, Aside, database, TypeOK, RequestType
<1>5. ASSUME NEW s \in Request, Find(s) PROVE Aside
  BY <1>5 DEF Find, Goto, Aside, TypeOK, RequestType
<1>6. ASSUME NEW s \in Request, CheckRefresh(s) PROVE Aside
  <2>1. req[s].pair \in Pair /\ row[req[s].pair] = "Active"
    BY <1>6, RequestTypes DEF CheckRefresh, RequestsOK, RequestOK
  <2> QED BY <1>6, <2>1 DEF CheckRefresh, Goto, Aside, TypeOK, RequestType
<1>7. ASSUME NEW s \in Request, RevokeFamily(s) PROVE Aside
  BY <1>7 DEF RevokeFamily, Goto, Aside, TypeOK, RequestType
<1>8. CASE UNCHANGED vars
  BY <1>8 DEF vars, Aside
<1> QED BY <1>1, <1>1a, <1>2, <1>3, <1>4, <1>5, <1>6, <1>7, <1>8 DEF Next, Environment, Step

\* A request keeps what it has read of the settings until it ends.
LEMMA SettingsStep == TypeOK /\ SettingsOK /\ [Next]_vars => SettingsOK'
<1> SUFFICES ASSUME TypeOK, SettingsOK, [Next]_vars, NEW r \in Request, req'[r].at # "idle"
             PROVE  req'[r].ttl \in AccessTTL
  BY DEF SettingsOK
<1>1. CASE Environment \/ UNCHANGED vars
  BY <1>1 DEF Environment, Tick, SetTTL, SetAllowed, GenerateKeys, DeleteUserTokens, PurgeExpired, vars, SettingsOK
<1>2. ASSUME NEW s \in Request, NEW call \in Call, NEW p \in Pair \cup {NoPair}, Begin(s, call, p)
      PROVE  req'[r].ttl \in AccessTTL
  BY <1>2 DEF Begin, TypeOK, SettingsOK
<1>3. ASSUME NEW s \in Request, Fail(s) \/ Commit(s) PROVE req'[r].ttl \in AccessTTL
  BY <1>3 DEF Fail, Commit, Idle, TypeOK, SettingsOK
<1>4. ASSUME NEW s \in Request, Step(s), ~ Commit(s) PROVE req'[r].ttl \in AccessTTL
  <2>1. req[s].at # "idle" /\ req'[r].ttl = req[r].ttl /\ (r # s => req'[r] = req[r])
    BY <1>4 DEF Step, CheckKeys, Mint, Find, CheckRefresh, DenyToken, RevokeFamily, DenyFamily, Goto, TypeOK, RequestType
  <2> QED BY <2>1 DEF SettingsOK
<1> QED BY <1>1, <1>2, <1>3, <1>4 DEF Next

LEMMA LifeStep == TypeOK /\ RowsOK /\ RequestsOK /\ SettingsOK /\ LifeOK /\ [Next]_vars => LifeOK'
<1> SUFFICES ASSUME TypeOK, RowsOK, RequestsOK, SettingsOK, LifeOK, [Next]_vars PROVE LifeOK'
  OBVIOUS
<1>1. \A p \in Pair : token[p].exp \in Nat /\ token[p].life \in Nat
  BY DEF TypeOK, TokenType
<1>2. CASE Aside
  BY <1>2 DEF Aside, LifeOK
<1>3. CASE Tick
  BY <1>1, <1>3 DEF Tick, LifeOK, TypeOK, database
<1>5. ASSUME NEW r \in Request, Fail(r) PROVE LifeOK'
  <2>1. \A p \in Pair : row'[p] # "free" => row[p] # "free" /\ token'[p] = token[p]
    BY <1>5 DEF Fail, Held, Issued, RowsOK
  <2>2. \A p \in Pair : token'[p].exp = token[p].exp \/ token'[p].exp = 0
    BY <1>5 DEF Fail, Blank
  <2>3. clock' = clock /\ ttl \in AccessTTL /\ clock \in Nat
    BY <1>5 DEF Fail, TypeOK
  <2>4. \A p \in Pair : \E seconds \in AccessTTL : token'[p].exp <= clock + seconds
    BY <2>2, <2>3 DEF LifeOK
  <2> QED BY <2>1, <2>3, <2>4 DEF LifeOK
<1>6. ASSUME NEW r \in Request, Commit(r) PROVE LifeOK'
  BY <1>6 DEF Commit, LifeOK
<1>7. ASSUME NEW r \in Request, Mint(r) PROVE LifeOK'
  <2>1. PICK q \in Pair :
          /\ token' = [token EXCEPT ![q] = NewToken(r, q)]
          /\ row' = [p \in Pair |-> IF p = q THEN "Active"
                                    ELSE IF p = req[r].pair THEN "Rotated" ELSE row[p]]
          /\ NewToken(r, q).life = req[r].ttl
          /\ NewToken(r, q).exp = clock + req[r].ttl
    BY <1>7, MintStep
  <2>1a. req[r].ttl \in AccessTTL
    BY <1>7 DEF Mint, SettingsOK
  <2>2. clock' = clock /\ req[r].ttl \in AccessTTL /\ clock + req[r].ttl \in Nat
    <3>1. clock' = clock
      BY <1>7 DEF Mint
    <3>2. clock \in Nat
      BY DEF TypeOK
    <3>3. req[r].ttl \in Nat
      BY <2>1a, SecondsAreNat
    <3> QED BY <2>1a, <3>1, <3>2, <3>3
  <2>3. req[r].pair # NoPair => row[req[r].pair] = "Active"
    BY <1>7 DEF Mint, RequestsOK, RequestOK
  <2>4. \A p \in Pair : p # q => token'[p] = token[p] /\ (row'[p] # "free" => row[p] # "free")
    BY <2>1, <2>3 DEF TypeOK
  <2>5. token'[q].exp = clock + req[r].ttl /\ token'[q].life = req[r].ttl
    BY <2>1 DEF TypeOK
  <2>6. /\ token'[q].exp <= clock' + token'[q].life
        /\ \A p \in Pair : p # q /\ row'[p] # "free" => token'[p].exp <= clock' + token'[p].life
    BY <2>2, <2>4, <2>5 DEF LifeOK, TypeOK
  <2>7. \A p \in Pair : \E seconds \in AccessTTL : token'[p].exp <= clock' + seconds
    BY <2>2, <2>4, <2>5 DEF LifeOK
  <2> QED BY <2>6, <2>7 DEF LifeOK
<1>8. ASSUME NEW r \in Request, DenyToken(r) \/ DenyFamily(r) PROVE LifeOK'
  BY <1>8 DEF DenyToken, DenyFamily, LifeOK, database
<1> QED BY <1>2, <1>3, <1>5, <1>6, <1>7, <1>8, OtherSteps

LEMMA CoverStep ==
  TypeOK /\ RowsOK /\ FamiliesOK /\ RequestsOK /\ EndedOK /\ LifeOK /\ CoverOK /\ [Next]_vars => CoverOK'
<1> SUFFICES ASSUME TypeOK, RowsOK, FamiliesOK, RequestsOK, EndedOK, LifeOK, CoverOK, [Next]_vars
             PROVE  CoverOK'
  OBVIOUS
<1>1. /\ \A p \in Pair : token[p].exp \in Nat
      /\ \A p \in Pair : denied.fam[p] \in Nat
      /\ \A p \in Pair : token[p].life \in Nat
      /\ Margin \in Nat /\ clock \in Nat
  BY DEF TypeOK, TokenType
<1>2. CASE Aside
  <2>1. \A p \in Pair : Covered(p)' = Covered(p) /\ Family(p)' = Family(p)
    BY <1>2 DEF Aside, Covered, Shorter, Family
  <2>2. \A r \in Request : req'[r].at = "revoked" => Family(req[r].pair)' = Family(req[r].pair)
    BY <1>2 DEF Aside, Family
  <2> QED BY <1>2, <2>1, <2>2 DEF Aside, CoverOK
<1>3. CASE Tick
  <2>1. clock' = clock + 1 /\ UNCHANGED <<database, req, ended, deniedFor>>
    BY <1>3 DEF Tick
  <2>2. \A p \in Pair : denied'.fam[p] = (IF denied.fam[p] <= clock + 1 THEN 0 ELSE denied.fam[p])
    BY <1>3 DEF Tick
  <2>3. ASSUME NEW p \in Pair, row[p] # "free", Covered(p) PROVE Covered(p)'
    <3>1. Family(p) \in Pair
      BY <2>3 DEF FamiliesOK
    <3> QED BY <1>1, <2>1, <2>2, <2>3, <3>1 DEF Covered, Shorter, Family, database
  <2> QED BY <2>1, <2>3 DEF CoverOK, Family, database
<1>5. ASSUME NEW r \in Request, Fail(r) PROVE CoverOK'
  <2>1. \A p \in Pair : row'[p] # "free" => row[p] # "free" /\ token'[p] = token[p]
    BY <1>5 DEF Fail, Held, Issued, RowsOK
  <2>2. clock' = clock /\ denied' = denied /\ ended' = ended /\ deniedFor' = deniedFor
    BY <1>5 DEF Fail
  <2>3. \A s \in Request : req'[s].at = "revoked" => req'[s] = req[s]
    BY <1>5 DEF Fail, Idle, TypeOK
  <2>4. \A s \in Request : req'[s].at = "revoked" => Family(req[s].pair)' = Family(req[s].pair)
    <3> SUFFICES ASSUME NEW s \in Request, req'[s].at = "revoked"
                 PROVE  token'[req[s].pair] = token[req[s].pair]
      BY <2>3 DEF Family
    <3>1. req[s].pair \in Pair /\ committed[req[s].pair] # "free"
      BY <2>3, RequestTypes DEF RequestsOK, RequestOK
    <3> QED BY <1>5, <3>1 DEF Fail, Issued
  <2>5. \A p \in Pair : row'[p] # "free" /\ Covered(p) => Covered(p)'
    BY <2>1, <2>2 DEF Covered, Shorter, Family
  <2> QED BY <2>1, <2>2, <2>3, <2>4, <2>5 DEF CoverOK, Family
<1>6. ASSUME NEW r \in Request, Commit(r) PROVE CoverOK'
  <2>1. UNCHANGED <<clock, denied, token, deniedFor, row>>
    BY <1>6 DEF Commit
  <2>2. \A s \in Request : req'[s].at = "revoked" => req'[s] = req[s]
    BY <1>6 DEF Commit, Idle, TypeOK
  <2>3. ended' = ended \/ (req[r].at = "revoked" /\ ended' = ended \cup {Family(req[r].pair)})
    BY <1>6 DEF Commit, RequestsOK, RequestOK
  <2>4. \A p \in Pair : Covered(p)' = Covered(p)
    BY <2>1 DEF Covered, Shorter, Family
  <2> QED BY <2>1, <2>2, <2>3, <2>4 DEF CoverOK, Family
<1>7. ASSUME NEW r \in Request, Mint(r) PROVE CoverOK'
  <2>1. PICK q \in Pair :
          /\ row[q] = "free" /\ committed[q] = "free" /\ q # req[r].pair
          /\ token' = [token EXCEPT ![q] = NewToken(r, q)]
          /\ row' = [p \in Pair |-> IF p = q THEN "Active"
                                    ELSE IF p = req[r].pair THEN "Rotated" ELSE row[p]]
          /\ NewToken(r, q).family = (IF req[r].pair = NoPair THEN q ELSE Family(req[r].pair))
    BY <1>7, MintStep
  <2>2. UNCHANGED <<clock, denied, deniedFor, ended>>
    BY <1>7 DEF Mint
  <2>3. token'[q] = NewToken(r, q) /\ \A p \in Pair : p # q => token'[p] = token[p]
    BY <2>1 DEF TypeOK
  <2>4. req[r].pair # NoPair =>
          /\ req[r].pair \in Pair /\ row[req[r].pair] = "Active"
    BY <1>7, RequestTypes DEF Mint, RequestsOK, RequestOK
  <2>5. \A p \in Pair : p # q =>
          /\ Covered(p)' = Covered(p) /\ Family(p)' = Family(p)
          /\ row'[p] # "free" => row[p] # "free"
    BY <2>1, <2>2, <2>3, <2>4 DEF Covered, Shorter, Family
  <2>6. \A s \in Request : req'[s].at = "revoked" => req'[s] = req[s]
    BY <1>7 DEF Mint, Goto, TypeOK, RequestType
  <2>7. ASSUME NEW s \in Request, req[s].at = "revoked"
        PROVE  /\ req[s].pair \in Pair /\ req[s].pair # q
               /\ Family(req[s].pair) # Family(q)'
    <3>1. req[s].pair \in Pair /\ committed[req[s].pair] # "free" /\ row[req[s].pair] # "free"
      BY <2>7, RequestTypes DEF RequestsOK, RequestOK, RowsOK
    <3>2. committed[Family(req[s].pair)] # "free"
      BY <3>1 DEF FamiliesOK
    <3>3. req[r].pair # NoPair => Family(req[r].pair) # Family(req[s].pair)
      BY <2>4, <2>7 DEF RequestsOK, RequestOK
    <3> QED BY <2>1, <2>3, <3>1, <3>2, <3>3 DEF Family
  <2>8. Family(q)' \notin ended
    <3>1. CASE req[r].pair = NoPair
      BY <2>1, <2>3, <3>1 DEF EndedOK, Issued, Family
    <3>2. CASE req[r].pair # NoPair
      BY <2>1, <2>3, <2>4, <3>2 DEF EndedOK, Live, Family
    <3> QED BY <3>1, <3>2
  <2> QED BY <2>2, <2>5, <2>6, <2>7, <2>8 DEF CoverOK
<1>8. ASSUME NEW r \in Request, DenyToken(r) PROVE CoverOK'
  <2>1. UNCHANGED <<clock, database, deniedFor, ended>> /\ denied'.fam = denied.fam
    BY <1>8 DEF DenyToken, TypeOK
  <2>2. \A s \in Request : req'[s].at = "revoked" => req'[s] = req[s]
    BY <1>8 DEF DenyToken, Goto, TypeOK, RequestType
  <2>3. \A p \in Pair : Covered(p)' = Covered(p)
    BY <2>1 DEF Covered, Shorter, Family, database
  <2> QED BY <2>1, <2>2, <2>3 DEF CoverOK, Family, database
<1>9. ASSUME NEW r \in Request, DenyFamily(r) PROVE CoverOK'
  <2>1. req[r].pair \in Pair /\ row[req[r].pair] # "free" /\ Family(req[r].pair) \in Pair
    BY <1>9, RequestTypes DEF DenyFamily, RequestsOK, RequestOK, RowsOK, FamiliesOK
  <2>2. UNCHANGED <<clock, database, ended>>
    BY <1>9 DEF DenyFamily
  <2>3. /\ denied'.fam[Family(req[r].pair)] = clock + req[r].ttl + Margin
        /\ req[r].ttl \in deniedFor'[Family(req[r].pair)] /\ req[r].ttl \in Nat
        /\ \A f \in Pair : f # Family(req[r].pair) =>
             denied'.fam[f] = denied.fam[f] /\ deniedFor'[f] = deniedFor[f]
    BY <1>9, <2>1, RequestTypes DEF DenyFamily, TypeOK
  <2>4. /\ req'[r].pair = req[r].pair
        /\ \A s \in Request : s # r => req'[s] = req[s]
    BY <1>9 DEF DenyFamily, Goto, TypeOK, RequestType
  <2>5. ASSUME NEW p \in Pair, row[p] # "free", Family(p) = Family(req[r].pair) PROVE Covered(p)'
    <3>1. CASE req[r].ttl < token[p].life
      BY <2>2, <2>3, <2>5, <3>1 DEF Covered, Shorter, Family, database
    <3>2. CASE token[p].life <= req[r].ttl
      <4>1. token[p].exp + Margin <= clock + req[r].ttl + Margin
        BY <1>1, <2>3, <2>5, <3>2 DEF LifeOK
      <4> QED BY <2>2, <2>3, <2>5, <4>1 DEF Covered, Family, database
    <3> QED BY <1>1, <2>3, <3>1, <3>2
  <2>6. ASSUME NEW p \in Pair, row[p] # "free", Family(p) # Family(req[r].pair), Covered(p)
        PROVE  Covered(p)'
    <3>1. Family(p) \in Pair
      BY <2>6 DEF FamiliesOK
    <3> QED BY <2>2, <2>3, <2>6, <3>1 DEF Covered, Shorter, Family, database
  <2> QED BY <2>2, <2>4, <2>5, <2>6 DEF CoverOK, Family, database
<1> QED BY <1>2, <1>3, <1>5, <1>6, <1>7, <1>8, <1>9, OtherSteps

-----------------------------------------------------------------------------
(* The theorems.                                                           *)

LEMMA Inductive == Spec => []IInv
<1>1. Init => IInv
  <2> SUFFICES ASSUME Init PROVE IInv
    OBVIOUS
  <2>1. TypeOK
    BY DEF Init, TypeOK, TokenType, Blank, Status, RequestType, Idle, Place
  <2>2. RowsOK /\ FamiliesOK /\ LiveOK /\ ChainOK /\ CoverOK
    BY DEF Init, RowsOK, FamiliesOK, LiveOK, Live, ChainOK, CoverOK
  <2>3. EndedOK
    BY DEF Init, EndedOK
  <2>4. RequestsOK
    BY DEF Init, RequestsOK, RequestOK, Idle, Call
  <2>5. LifeOK
    BY DEF Init, LifeOK, Blank
  <2>6. SettingsOK
    BY DEF Init, SettingsOK, Idle
  <2> QED BY <2>1, <2>2, <2>3, <2>4, <2>5, <2>6 DEF IInv
<1>2. IInv /\ [Next]_vars => IInv'
  BY TypeStep, RowsStep, FamiliesStep, RequestsStep, LiveStep, EndedStep, ChainStep, SettingsStep, LifeStep,
     CoverStep
     DEF IInv
<1> QED BY <1>1, <1>2, PTL DEF Spec

\* The types of the tokens, the rows, the requests and the deny list.
THEOREM TokenTypes == Spec => []TypeOK
<1>1. IInv => TypeOK
  BY DEF IInv
<1> QED BY <1>1, Inductive, PTL

\* Rotation leaves one Active refresh token in a family at most, whatever
\* requests run at the same time and die (tokens.find, _issue_pair).
THEOREM OneActive == Spec => []OneActivePerFamily
<1>1. IInv => OneActivePerFamily
  BY DEF IInv, LiveOK, Live, OneActivePerFamily
<1> QED BY <1>1, Inductive, PTL

\* A refresh token is exchanged for one pair only (refresh_token).
THEOREM SpentOnce == Spec => []TokenIsSpentOnce
<1>1. IInv => TokenIsSpentOnce
  <2> SUFFICES ASSUME IInv, NEW p \in Issued, NEW q \in Issued, p # q,
                      token[p].parent = token[q].parent, token[p].parent # NoPair
               PROVE  FALSE
    BY DEF TokenIsSpentOnce
  <2>1. p \in Pair /\ q \in Pair /\ row[p] # "free" /\ row[q] # "free"
    BY DEF IInv, RowsOK, Issued
  <2> QED BY <2>1 DEF IInv, ChainOK
<1> QED BY <1>1, Inductive, PTL

\* The end of a family that a client was told of is final (revoke_family).
THEOREM EndIsFinal == Spec => []EndedFamilyStaysEnded
<1>1. IInv => EndedFamilyStaysEnded
  BY DEF IInv, EndedOK, Live, EndedFamilyStaysEnded
<1> QED BY <1>1, Inductive, PTL

\* New keys end the sessions that began with the old ones (refresh_token,
\* user_for_access_token).
THEOREM NewKeysEndSessions == Spec => []OldKeysAreRefused
<1>1. IInv => OldKeysAreRefused
  <2> SUFFICES ASSUME IInv, NEW p \in Pair, Accepts(p)
               PROVE  token[Family(p)].keys = keys /\ user # "gone"
    BY DEF OldKeysAreRefused
  <2>1. row[p] # "free"
    BY DEF IInv, RowsOK, Accepts, Issued
  <2> QED BY <2>1 DEF IInv, FamiliesOK, Accepts
<1> QED BY <1>1, Inductive, PTL

\* The deny list outlasts the access tokens it is about, but for those that
\* were minted with a longer TTL than a request that denied their family had
\* read, in whatever order the setting was changed, tokens were minted and
\* families denied (_issue_pair, deny, is_denied).
THEOREM DenyListOutlasts == Spec => []RevokedAccessIsRefused
<1>1. IInv => RevokedAccessIsRefused
  <2> SUFFICES ASSUME IInv, NEW p \in Pair, Accepts(p), Family(p) \in ended PROVE Shorter(p)
    BY DEF RevokedAccessIsRefused, Shorter
  <2>1. row[p] # "free"
    BY DEF IInv, RowsOK, Accepts, Issued
  <2>2. Covered(p) /\ Family(p) \in Pair
    BY <2>1 DEF IInv, CoverOK, FamiliesOK
  <2>3. token[p].exp \in Nat /\ denied.fam[Family(p)] \in Nat /\ clock \in Nat
        /\ Leeway \in Nat /\ Margin \in Nat
    BY <2>2 DEF IInv, TypeOK, TokenType
  <2> QED BY <2>2, <2>3 DEF Covered, Accepts, Denied
<1> QED BY <1>1, Inductive, PTL

-----------------------------------------------------------------------------
(* RefreshTokens implements Sessions, for any number of requests and of    *)
(* pairs.  Only a commit and a deletion of rows change what clients see: a *)
(* commit makes visible what the request has done to the rows it holds,    *)
(* which is nothing, an expiry, a new pair, or the end of a family.        *)

-----------------------------------------------------------------------------
(* What a request holds.                                                   *)

\* It has changed nothing; it has marked its token Expired; it has minted the
\* first pair of a family, or the next.
Nothing(r) == \A p \in Pair : lock[p] = r => row[p] = committed[p]
Lapsed(r) ==
  /\ req[r].pair \in Pair /\ row[req[r].pair] = "Expired" /\ committed[req[r].pair] = "Active"
  /\ lock[req[r].pair] = r /\ \A p \in Pair : lock[p] = r => p = req[r].pair
Minted(r, q) ==
  /\ lock[q] = r /\ row[q] = "Active" /\ committed[q] = "free" /\ token[q].parent = req[r].pair
  /\ \A p \in Pair : lock[p] = r => p \in {q, req[r].pair}
  /\ IF req[r].pair = NoPair THEN Family(q) = q
     ELSE /\ req[r].pair \in Pair /\ lock[req[r].pair] = r /\ Family(q) = Family(req[r].pair)
          /\ row[req[r].pair] = "Rotated" /\ committed[req[r].pair] = "Active"

HeldOK(r) ==
  /\ \A p \in Pair : lock[p] = r => row[p] # "free"
  /\ req[r].at \in {"active", "mint"} /\ req[r].pair # NoPair => committed[req[r].pair] = "Active"
  /\ req[r].at = "commit" => Nothing(r) \/ Lapsed(r) \/ \E q \in Pair : Minted(r, q)
  /\ req[r].at \in {"deny", "revoked"} =>
       \A p \in Pair : lock[p] = r => committed[p] # "free" /\ Family(p) = Family(req[r].pair)

AllHeldOK == \A r \in Request : HeldOK(r)

\* The step of another leaves the rows of r as they are.
Untouched(r) ==
  /\ req'[r].pair = req[r].pair
  /\ \A p \in Pair : lock'[p] = r <=> lock[p] = r
  /\ \A p \in Pair : lock[p] = r => row'[p] = row[p] /\ committed'[p] = committed[p] /\ token'[p] = token[p]
  /\ \A p \in Pair : committed[p] # "free" => token'[p] = token[p]

LEMMA HeldUntouched ==
  ASSUME TypeOK, NEW r \in Request, RequestOK(r), HeldOK(r), Untouched(r),
         req'[r].at = req[r].at \/ (req[r].at = "deny" /\ req'[r].at = "revoked")
  PROVE  HeldOK(r)'
<1>0. req[r].pair \in Pair \cup {NoPair} /\ req'[r].pair = req[r].pair
  BY RequestTypes DEF Untouched
<1>1. req[r].pair # NoPair => req[r].pair \in Pair /\ token'[req[r].pair] = token[req[r].pair]
  BY <1>0 DEF RequestOK, Untouched
<1>2. \A p \in Pair : lock'[p] = r => row'[p] # "free"
  BY DEF HeldOK, Untouched
<1>3. req'[r].at \in {"active", "mint"} /\ req[r].pair # NoPair => committed'[req[r].pair] = "Active"
  BY <1>1 DEF HeldOK, RequestOK, Untouched
<1>4. ASSUME req'[r].at = "commit" PROVE (Nothing(r) \/ Lapsed(r) \/ \E q \in Pair : Minted(r, q))'
  <2>1. CASE Nothing(r)
    BY <2>1 DEF Nothing, Untouched
  <2>2. CASE Lapsed(r)
    BY <1>0, <2>2 DEF Lapsed, Untouched
  <2>3. ASSUME NEW q \in Pair, Minted(r, q) PROVE Minted(r, q)'
    BY <1>0, <1>1, <2>3 DEF Minted, Untouched, Family
  <2> QED BY <1>4, <2>1, <2>2, <2>3 DEF HeldOK
<1>5. ASSUME req'[r].at \in {"deny", "revoked"}, NEW p \in Pair, lock'[p] = r
      PROVE  committed'[p] # "free" /\ Family(p)' = Family(req[r].pair)'
  <2>1. /\ lock[p] = r /\ req[r].pair # NoPair /\ token'[p] = token[p] /\ committed'[p] = committed[p]
        /\ req[r].at \in {"deny", "revoked"}
    BY <1>5 DEF RequestOK, Untouched
  <2> QED BY <1>0, <1>1, <2>1 DEF HeldOK, Family
<1> QED BY <1>0, <1>2, <1>3, <1>4, <1>5 DEF HeldOK

\* Who leaves the rows of a request as they are.
LEMMA OthersLeave ==
  ASSUME TypeOK, RowsOK, FamiliesOK, RequestsOK, AllHeldOK, NEW s \in Request, RequestStep(s),
         NEW r \in Request, r # s
  PROVE  Untouched(r) /\ req'[r] = req[r]
<1>0. req'[r] = req[r] /\ r # NoRequest
  BY DEF RequestStep, Fail, Commit, Mint, Find, CheckRefresh, RevokeFamily, Goto, TypeOK
<1>1. CASE Fail(s) \/ Commit(s)
  BY <1>0, <1>1 DEF Fail, Commit, Held, Release, Issued, Untouched
<1>2. CASE Mint(s)
  <2>1. PICK q \in Pair :
          /\ row[q] = "free" /\ committed[q] = "free" /\ q # req[s].pair
          /\ token' = [token EXCEPT ![q] = NewToken(s, q)]
          /\ row' = [p \in Pair |-> IF p = q THEN "Active"
                                    ELSE IF p = req[s].pair THEN "Rotated" ELSE row[p]]
          /\ lock' = [lock EXCEPT ![q] = s]
    BY <1>2, MintStep
  <2>2. lock[q] # r /\ (req[s].pair # NoPair => lock[req[s].pair] = s)
    BY <1>2, <2>1 DEF Mint, AllHeldOK, HeldOK, RequestsOK, RequestOK
  <2>3. committed' = committed
    BY <1>2 DEF Mint
  <2>4. \A p \in Pair : p # q => token'[p] = token[p] /\ lock'[p] = lock[p]
    BY <2>1 DEF TypeOK
  <2>5. lock'[q] = s /\ \A p \in Pair : lock[p] = r => row'[p] = row[p]
    BY <2>1, <2>2 DEF TypeOK
  <2> QED BY <1>0, <2>1, <2>2, <2>3, <2>4, <2>5 DEF Untouched
<1>3. CASE Find(s)
  BY <1>0, <1>3 DEF Find, Untouched, TypeOK
<1>4. CASE CheckRefresh(s)
  <2>1. lock[req[s].pair] = s
    BY <1>4 DEF CheckRefresh, RequestsOK, RequestOK
  <2>2. /\ committed' = committed /\ token' = token /\ lock' = lock
        /\ row' = row \/ row' = [row EXCEPT ![req[s].pair] = "Expired"]
    BY <1>4 DEF CheckRefresh
  <2> QED BY <1>0, <2>1, <2>2 DEF Untouched, TypeOK
<1>5. CASE RevokeFamily(s)
  BY <1>0, <1>5 DEF RevokeFamily, Untouched
<1> QED BY <1>1, <1>2, <1>3, <1>4, <1>5 DEF RequestStep

\* What a request holds after its own step.
LEMMA OwnHeld ==
  ASSUME TypeOK, RowsOK, FamiliesOK, RequestsOK, AllHeldOK, NEW r \in Request, RequestStep(r)
  PROVE  HeldOK(r)'
<1>0. /\ RequestOK(r) /\ HeldOK(r) /\ req[r].pair \in Pair \cup {NoPair} /\ req[r].at \in Place
      /\ r # NoRequest
  BY RequestTypes DEF RequestsOK, AllHeldOK
<1>1. CASE Fail(r) \/ Commit(r)
  <2>1. req'[r] = Idle
    BY <1>1 DEF Fail, Commit, TypeOK
  <2>2. \A p \in Pair : lock'[p] # r
    BY <1>0, <1>1 DEF Fail, Commit, Release, Held
  <2> QED BY <2>1, <2>2 DEF HeldOK, Idle
<1>2. CASE Mint(r)
  <2>1. req'[r].at = "commit" /\ req'[r].pair = req[r].pair /\ committed' = committed /\ req[r].at = "mint"
    BY <1>2 DEF Mint, Goto, TypeOK, RequestType
  <2>2. PICK q \in Pair :
          /\ row[q] = "free" /\ committed[q] = "free" /\ q # req[r].pair
          /\ token' = [token EXCEPT ![q] = NewToken(r, q)]
          /\ row' = [p \in Pair |-> IF p = q THEN "Active"
                                    ELSE IF p = req[r].pair THEN "Rotated" ELSE row[p]]
          /\ lock' = [lock EXCEPT ![q] = r]
          /\ NewToken(r, q).family = (IF req[r].pair = NoPair THEN q ELSE Family(req[r].pair))
          /\ NewToken(r, q).parent = req[r].pair
    BY <1>2, MintStep
  <2>3. /\ token'[q] = NewToken(r, q) /\ \A p \in Pair : p # q => token'[p] = token[p]
        /\ lock'[q] = r /\ \A p \in Pair : p # q => lock'[p] = lock[p]
    BY <2>2 DEF TypeOK
  <2>4. \A p \in Pair : lock[p] = r => p = req[r].pair
    BY <1>0, <2>1 DEF RequestOK
  <2>5. req[r].pair # NoPair =>
          req[r].pair \in Pair /\ lock[req[r].pair] = r /\ committed[req[r].pair] = "Active"
    BY <1>0, <2>1 DEF RequestOK, HeldOK
  <2>6. Minted(r, q)'
    BY <2>1, <2>2, <2>3, <2>4, <2>5 DEF Minted, Family
  <2>7. \A p \in Pair : lock'[p] = r => row'[p] # "free"
    BY <1>0, <2>2, <2>3 DEF HeldOK
  <2> QED BY <2>1, <2>6, <2>7 DEF HeldOK
<1>3. CASE Find(r)
  <2>1. /\ row' = row /\ committed' = committed /\ token' = token
        /\ req[r].at \in {"refresh", "revoke"} /\ req[r].pair # NoPair /\ req[r].pair \in Pair
        /\ req'[r].pair = req[r].pair /\ lock[req[r].pair] = NoRequest
        /\ \A p \in Pair : lock[p] # r
    BY <1>0, <1>3 DEF Find, Goto, RequestOK, TypeOK, RequestType, Call
  <2>2. row[req[r].pair] = committed[req[r].pair] /\ committed[req[r].pair] # "free"
    BY <1>0, <2>1 DEF RowsOK, RequestOK
  <2>3. CASE lock' = lock
    <3>1. req'[r].at = "commit"
      BY <1>3, <2>1, <2>3 DEF Find, Goto, TypeOK, RequestType
    <3> QED BY <2>1, <2>3, <3>1 DEF HeldOK, Nothing
  <2>4. CASE lock' # lock
    <3>1. /\ lock' = [lock EXCEPT ![req[r].pair] = r]
          /\ req'[r].at = "update" \/ (req'[r].at = "active" /\ row[req[r].pair] = "Active")
      BY <1>3, <2>4 DEF Find, Goto, TypeOK, RequestType
    <3>2. \A p \in Pair : lock'[p] = r => p = req[r].pair
      BY <2>1, <3>1 DEF TypeOK
    <3> QED BY <2>1, <2>2, <3>1, <3>2 DEF HeldOK
  <2> QED BY <2>3, <2>4
<1>4. CASE CheckRefresh(r)
  <2>1. /\ req[r].at = "active" /\ committed' = committed /\ token' = token /\ lock' = lock
        /\ req'[r].pair = req[r].pair
    BY <1>4 DEF CheckRefresh, Goto, TypeOK, RequestType
  <2>2. /\ req[r].pair # NoPair /\ lock[req[r].pair] = r /\ row[req[r].pair] = "Active"
        /\ req[r].pair \in Pair /\ committed[req[r].pair] = "Active"
        /\ \A p \in Pair : lock[p] = r => p = req[r].pair
    BY <1>0, <2>1 DEF RequestOK, HeldOK
  <2>3. \/ req'[r].at = "commit" /\ row' = [row EXCEPT ![req[r].pair] = "Expired"]
        \/ req'[r].at \in {"commit", "update", "mint"} /\ row' = row
    BY <1>4 DEF CheckRefresh, Goto, TypeOK, RequestType
  <2>4. CASE req'[r].at = "commit" /\ row' = [row EXCEPT ![req[r].pair] = "Expired"]
    <3>1. row'[req[r].pair] = "Expired"
      BY <2>2, <2>4 DEF TypeOK
    <3> QED BY <2>1, <2>2, <2>4, <3>1 DEF HeldOK, Lapsed
  <2>5. CASE req'[r].at \in {"commit", "update", "mint"} /\ row' = row
    BY <2>1, <2>2, <2>5 DEF HeldOK, Nothing
  <2> QED BY <2>3, <2>4, <2>5
<1>5. CASE RevokeFamily(r)
  <2>1. /\ req[r].at = "update" /\ committed' = committed /\ token' = token
        /\ req'[r].at = "deny" /\ req'[r].pair = req[r].pair
    BY <1>5 DEF RevokeFamily, Goto, TypeOK, RequestType
  <2>2. ASSUME NEW p \in Pair, lock'[p] = r
        PROVE  row'[p] # "free" /\ committed[p] # "free" /\ Family(p) = Family(req[r].pair)
    <3>1. CASE lock[p] = r
      <4>1. p = req[r].pair /\ row[p] # "free"
        BY <1>0, <2>1, <3>1 DEF RequestOK, HeldOK
      <4>2. committed[p] # "free" /\ row'[p] # "free"
        BY <1>0, <1>5, <4>1 DEF RevokeFamily, RequestOK
      <4> QED BY <4>1, <4>2
    <3>2. CASE lock[p] # r
      <4>1. p \in RowsOf(Family(req[r].pair)) /\ lock[p] = NoRequest
        BY <1>5, <2>2, <3>2 DEF RevokeFamily
      <4>2. row[p] # "free" /\ Family(p) = Family(req[r].pair) /\ row[p] = committed[p]
        BY <4>1 DEF RowsOf, Present, RowsOK
      <4> QED BY <1>5, <4>2 DEF RevokeFamily
    <3> QED BY <3>1, <3>2
  <2> QED BY <2>1, <2>2 DEF HeldOK, Family
<1> QED BY <1>1, <1>2, <1>3, <1>4, <1>5 DEF RequestStep

LEMMA HeldStep ==
  TypeOK /\ RowsOK /\ FamiliesOK /\ RequestsOK /\ AllHeldOK /\ [Next]_vars => AllHeldOK'
<1> SUFFICES ASSUME TypeOK, RowsOK, FamiliesOK, RequestsOK, AllHeldOK, [Next]_vars, NEW r \in Request
             PROVE  HeldOK(r)'
  BY DEF AllHeldOK
<1>0. RequestOK(r) /\ HeldOK(r) /\ r # NoRequest
  BY DEF RequestsOK, AllHeldOK
<1>1. ASSUME UNCHANGED database, req'[r] = req[r] PROVE HeldOK(r)'
  <2>1. Untouched(r)
    BY <1>1 DEF Untouched, database
  <2> QED BY <1>0, <1>1, <2>1, HeldUntouched
<1>2. CASE DeleteStep
  <2>1. Untouched(r) /\ req' = req
    BY <1>0, <1>2 DEF DeleteStep, Delete, Untouched
  <2> QED BY <1>0, <2>1, HeldUntouched
<1>3. ASSUME NEW s \in Request, RequestStep(s) PROVE HeldOK(r)'
  <2>1. CASE s = r
    BY <1>3, <2>1, OwnHeld
  <2>2. CASE s # r
    BY <1>0, <1>3, <2>2, OthersLeave, HeldUntouched
  <2> QED BY <2>1, <2>2
<1>4. ASSUME NEW s \in Request, NEW call \in Call, NEW p \in Pair \cup {NoPair}, Begin(s, call, p)
      PROVE  HeldOK(r)'
  <2>1. UNCHANGED database
    BY <1>4 DEF Begin
  <2>2. CASE s # r
    <3>1. req'[r] = req[r]
      BY <1>4, <2>2 DEF Begin, TypeOK
    <3> QED BY <1>1, <2>1, <3>1
  <2>3. CASE s = r
    <3>1. req[r].at = "idle" /\ req'[r].at = call
      BY <1>4, <2>3 DEF Begin, TypeOK
    <3>2. \A q \in Pair : lock'[q] # r
      BY <1>0, <2>1, <3>1 DEF RequestOK, database
    <3> QED BY <3>1, <3>2 DEF HeldOK, Call
  <2> QED BY <2>2, <2>3
<1>5. ASSUME NEW s \in Request, CheckKeys(s) \/ DenyToken(s) \/ DenyFamily(s) PROVE HeldOK(r)'
  <2>1. UNCHANGED database
    BY <1>5 DEF CheckKeys, DenyToken, DenyFamily
  <2>2. CASE s # r
    <3>1. req'[r] = req[r]
      BY <1>5, <2>2 DEF CheckKeys, DenyToken, DenyFamily, Goto, TypeOK
    <3> QED BY <1>1, <2>1, <3>1
  <2>3. CASE s = r /\ DenyFamily(r)
    <3>1. req[r].at = "deny" /\ req'[r].at = "revoked" /\ req'[r].pair = req[r].pair
      BY <2>3 DEF DenyFamily, Goto, TypeOK, RequestType
    <3>2. Untouched(r)
      BY <2>1, <3>1 DEF Untouched, database
    <3> QED BY <1>0, <3>1, <3>2, HeldUntouched
  <2>4. CASE s = r /\ (CheckKeys(r) \/ DenyToken(r))
    <3>1. /\ req'[r].pair = req[r].pair
          /\ \/ req[r].at = "issue" /\ req'[r].at \in {"mint", "commit"}
             \/ req[r].at = "revoke_access" /\ req'[r].at = "update"
      BY <2>4 DEF CheckKeys, DenyToken, Goto, TypeOK, RequestType
    <3>2. \A q \in Pair : lock'[q] # r
      BY <1>0, <2>1, <3>1 DEF RequestOK, database, Call
    <3>3. req'[r].at = "mint" => req'[r].pair = NoPair
      BY <1>0, <3>1 DEF RequestOK
    <3> QED BY <3>1, <3>2, <3>3 DEF HeldOK, Nothing
  <2> QED BY <1>5, <2>2, <2>3, <2>4
<1>6. CASE \/ Tick \/ (\E seconds \in AccessTTL : SetTTL(seconds)) \/ SetAllowed \/ GenerateKeys
           \/ UNCHANGED vars
  BY <1>1, <1>6 DEF Tick, SetTTL, SetAllowed, GenerateKeys, vars, database
<1>7. CASE DeleteUserTokens \/ PurgeExpired
  <2>1. ASSUME PurgeExpired PROVE DeleteStep
    <3>1. {p \in Present : token[p].expires + PurgeAge < clock} \in SUBSET Present
      OBVIOUS
    <3> QED BY <2>1, <3>1 DEF PurgeExpired, DeleteStep
  <2> QED BY <1>2, <1>7, <2>1 DEF DeleteUserTokens, DeleteStep
<1> QED BY <1>3, <1>4, <1>5, <1>6, <1>7 DEF Next, Environment, Step, RequestStep

-----------------------------------------------------------------------------
(* What clients see.                                                       *)

\* The current token of a session, as Sessions is instantiated with.
Current(f) == IF ActiveOf(f) = {} THEN NoPair ELSE CHOOSE p \in ActiveOf(f) : TRUE
Origin(p)  == IF p \in Issued THEN token[p].parent ELSE NoPair

\* A session has one current token at most.
LEMMA CurrentIs ==
  ASSUME LiveOK, NEW f
  PROVE  /\ \A p \in Pair : Current(f) = p <=> committed[p] = "Active" /\ Family(p) = f
         /\ Current(f) = NoPair <=> \A p \in Pair : ~ (committed[p] = "Active" /\ Family(p) = f)
<1>1. \A p, q \in ActiveOf(f) : p = q
  BY DEF LiveOK, Live, ActiveOf
<1>2. ActiveOf(f) \subseteq Pair /\ \A p \in Pair : p \in ActiveOf(f) <=> committed[p] = "Active" /\ Family(p) = f
  BY DEF ActiveOf
<1>3. CASE ActiveOf(f) = {}
  BY <1>2, <1>3 DEF Current
<1>4. CASE ActiveOf(f) # {}
  <2>1. Current(f) \in ActiveOf(f)
    BY <1>4 DEF Current
  <2> QED BY <1>1, <1>2, <2>1
<1> QED BY <1>3, <1>4

LEMMA CurrentIsAfter ==
  ASSUME LiveOK', NEW f
  PROVE  /\ \A p \in Pair : Current(f)' = p <=> committed'[p] = "Active" /\ Family(p)' = f
         /\ Current(f)' = NoPair <=> \A p \in Pair : ~ (committed'[p] = "Active" /\ Family(p)' = f)
<1>1. \A p, q \in ActiveOf(f)' : p = q
  BY DEF LiveOK, Live, ActiveOf
<1>2. ActiveOf(f)' \subseteq Pair /\ \A p \in Pair : p \in ActiveOf(f)' <=> committed'[p] = "Active" /\ Family(p)' = f
  BY DEF ActiveOf
<1>3. CASE ActiveOf(f)' = {}
  BY <1>2, <1>3 DEF Current
<1>4. CASE ActiveOf(f)' # {}
  <2>1. Current(f)' \in ActiveOf(f)'
    BY <1>4 DEF Current
  <2> QED BY <1>1, <1>2, <2>1
<1> QED BY <1>3, <1>4

\* The steps of Sessions, session by session and token by token.
LEMMA Stutters ==
  ASSUME \A f \in Pair : Current(f)' = Current(f), \A p \in Pair : Origin(p)' = Origin(p),
         Issued' = Issued, ended' = ended
  PROVE  UNCHANGED Session!sessions
<1>1. [f \in Pair |-> Current(f)]' = [f \in Pair |-> Current(f)]
  OBVIOUS
<1>2. [p \in Pair |-> Origin(p)]' = [p \in Pair |-> Origin(p)]
  OBVIOUS
<1> QED BY <1>1, <1>2 DEF Session!sessions, Current, Origin

LEMMA Opens ==
  ASSUME NEW q \in Pair, q \notin Issued \cup ended,
         \A f \in Pair : Current(f)' = IF f = q THEN q ELSE Current(f),
         \A p \in Pair : Origin(p)' = Origin(p), Issued' = Issued \cup {q}, ended' = ended
  PROVE  Session!Open(q)
<1>1. [f \in Pair |-> Current(f)]' = [[f \in Pair |-> Current(f)] EXCEPT ![q] = q]
  OBVIOUS
<1>2. [p \in Pair |-> Origin(p)]' = [p \in Pair |-> Origin(p)]
  OBVIOUS
<1> QED BY <1>1, <1>2 DEF Session!Open, Current, Origin

LEMMA Exchanges ==
  ASSUME NEW s \in Pair, NEW q \in Pair, Current(s) # NoPair, s \notin ended, q \notin Issued,
         \A f \in Pair : Current(f)' = IF f = s THEN q ELSE Current(f),
         \A p \in Pair : Origin(p)' = IF p = q THEN Current(s) ELSE Origin(p),
         Issued' = Issued \cup {q}, ended' = ended
  PROVE  Session!Exchange(s, q)
<1>1. [f \in Pair |-> Current(f)]' = [[f \in Pair |-> Current(f)] EXCEPT ![s] = q]
  OBVIOUS
<1>2. [p \in Pair |-> Origin(p)]' = [[p \in Pair |-> Origin(p)] EXCEPT ![q] = [f \in Pair |-> Current(f)][s]]
  OBVIOUS
<1>3. [f \in Pair |-> Current(f)][s] # NoPair
  OBVIOUS
<1> QED BY <1>1, <1>2, <1>3 DEF Session!Exchange, Current, Origin

LEMMA Ends ==
  ASSUME NEW s \in Pair, \A f \in Pair : Current(f)' = IF f = s THEN NoPair ELSE Current(f),
         \A p \in Pair : Origin(p)' = Origin(p), Issued' = Issued, ended' = ended \cup {s}
  PROVE  Session!End(s)
<1>1. [f \in Pair |-> Current(f)]' = [[f \in Pair |-> Current(f)] EXCEPT ![s] = NoPair]
  OBVIOUS
<1>2. [p \in Pair |-> Origin(p)]' = [p \in Pair |-> Origin(p)]
  OBVIOUS
<1> QED BY <1>1, <1>2 DEF Session!End, Current, Origin

LEMMA Lapses ==
  ASSUME NEW gone \in SUBSET Pair,
         \A f \in Pair : Current(f)' = IF f \in gone THEN NoPair ELSE Current(f),
         \A p \in Pair : Origin(p)' = Origin(p), Issued' = Issued, ended' = ended
  PROVE  Session!Lapse(gone)
<1>1. [f \in Pair |-> Current(f)]' =
        [s \in Pair |-> IF s \in gone THEN NoPair ELSE [f \in Pair |-> Current(f)][s]]
  OBVIOUS
<1>2. [p \in Pair |-> Origin(p)]' = [p \in Pair |-> Origin(p)]
  OBVIOUS
<1> QED BY <1>1, <1>2 DEF Session!Lapse, Current, Origin

-----------------------------------------------------------------------------
(* Every step is one of Sessions or changes nothing that clients see.      *)

HInv == IInv /\ AllHeldOK

LEMMA CurrentTypes == ASSUME LiveOK, NEW f PROVE Current(f) \in Pair \cup {NoPair}
BY CurrentIs

\* The pairs that are committed keep what they were minted with.
LEMMA IssuedKeep ==
  ASSUME \A p \in Issued : token'[p] = token[p], Issued' = Issued
  PROVE  \A p \in Pair : Origin(p)' = Origin(p)
BY DEF Origin, Issued

\* A step that commits nothing.
LEMMA NothingSeen ==
  ASSUME LiveOK, LiveOK', committed' = committed, ended' = ended, \A p \in Issued : token'[p] = token[p]
  PROVE  UNCHANGED Session!sessions
<1>1. Issued' = Issued
  BY DEF Issued
<1>2. ASSUME NEW f \in Pair PROVE Current(f)' = Current(f)
  <2>1. \A p \in Pair : committed[p] = "Active" => Family(p)' = Family(p)
    BY DEF Issued, Family
  <2>2. \A p \in Pair : Current(f)' = p <=> Current(f) = p
    BY <2>1, CurrentIs, CurrentIsAfter
  <2>3. Current(f)' = NoPair <=> Current(f) = NoPair
    BY <2>1, CurrentIs, CurrentIsAfter
  <2>4. Current(f) \in Pair \cup {NoPair}
    BY CurrentTypes
  <2> QED BY <2>2, <2>3, <2>4
<1> QED BY <1>1, <1>2, IssuedKeep, Stutters

\* Rows are deleted: the sessions whose current token is among them lapse.
LEMMA DeleteLapses ==
  ASSUME HInv, LiveOK', DeleteStep
  PROVE  \E gone \in SUBSET Pair : Session!Lapse(gone)
<1>0. LiveOK /\ RowsOK
  BY DEF HInv, IInv
<1>1. PICK rows \in SUBSET Present : Delete(rows)
  BY DEF DeleteStep
<1>2. /\ \A p \in Pair : lock[p] = NoRequest /\ row[p] = committed[p]
      /\ \A p \in Pair : committed'[p] = IF p \in rows THEN "deleted" ELSE committed[p]
      /\ token' = token /\ ended' = ended
  BY <1>0, <1>1 DEF Delete, DeleteStep, RowsOK
<1>3. Issued' = Issued
  BY <1>2 DEF Issued, Present
<1> DEFINE gone == {f \in Pair : Current(f) \in rows}
<1>4. ASSUME NEW f \in Pair PROVE Current(f)' = IF f \in gone THEN NoPair ELSE Current(f)
  <2>1. Current(f) \in Pair \cup {NoPair} /\ rows \subseteq Pair
    BY <1>0, CurrentTypes DEF Present
  <2>2. \A p \in Pair : Family(p)' = Family(p)
    BY <1>2 DEF Family
  <2>3. CASE Current(f) \in rows
    <3>1. \A p \in Pair : ~ (committed'[p] = "Active" /\ Family(p)' = f)
      BY <1>0, <1>2, <2>2, <2>3, CurrentIs
    <3> QED BY <2>3, <3>1, CurrentIsAfter
  <2>4. CASE Current(f) \in Pair \ rows
    <3>1. PICK p \in Pair \ rows : p = Current(f)
      BY <2>4
    <3>2. committed'[p] = "Active" /\ Family(p)' = f
      BY <1>0, <1>2, <2>2, <3>1, CurrentIs
    <3>3. Current(f)' = p
      BY <3>2, CurrentIsAfter
    <3> QED BY <2>4, <3>1, <3>3
  <2>5. CASE Current(f) = NoPair
    <3>1. \A p \in Pair : ~ (committed'[p] = "Active" /\ Family(p)' = f)
      BY <1>0, <1>2, <2>2, <2>5, CurrentIs
    <3>2. Current(f) \notin rows
      BY <2>1, <2>5
    <3> QED BY <2>5, <3>1, <3>2, CurrentIsAfter
  <2> QED BY <2>1, <2>3, <2>4, <2>5
<1>5. \A p \in Pair : Origin(p)' = Origin(p)
  BY <1>2, <1>3, IssuedKeep
<1>6. gone \in SUBSET Pair
  OBVIOUS
<1> HIDE DEF gone
<1> QED BY <1>2, <1>3, <1>4, <1>5, <1>6, Lapses

\* What a commit does, by what the request holds.
LEMMA Commits ==
  ASSUME TypeOK, NEW r \in Request, Commit(r)
  PROVE  /\ \A p \in Pair : committed'[p] = IF lock[p] = r THEN row[p] ELSE committed[p]
         /\ token' = token /\ \A p \in Pair : Family(p)' = Family(p)
         /\ ended' = IF req[r].at = "revoked" \/ req[r].spent THEN ended \cup {Family(req[r].pair)} ELSE ended
         /\ req[r].at \in {"commit", "revoked"}
BY DEF Commit, Held, Family

LEMMA CommitEnds ==
  ASSUME HInv, LiveOK', EndedOK', NEW r \in Request, Commit(r), req[r].at = "revoked"
  PROVE  \E s \in Pair : Session!End(s)
<1> DEFINE s == Family(req[r].pair)
<1>0. /\ TypeOK /\ RowsOK /\ LiveOK /\ RequestOK(r) /\ HeldOK(r)
      /\ req[r].pair \in Pair /\ committed[req[r].pair] # "free"
  BY RequestTypes DEF HInv, IInv, RequestsOK, RequestOK, AllHeldOK
<1>1. s \in Pair
  BY <1>0 DEF HInv, IInv, RowsOK, FamiliesOK
<1>2. /\ \A p \in Pair : committed'[p] = IF lock[p] = r THEN row[p] ELSE committed[p]
      /\ token' = token /\ \A p \in Pair : Family(p)' = Family(p)
      /\ ended' = ended \cup {s}
  BY <1>0, Commits
<1>3. \A p \in Pair : lock[p] = r => row[p] # "free" /\ committed[p] # "free" /\ Family(p) = s
  BY <1>0 DEF HeldOK
<1> HIDE DEF s
<1>4. Issued' = Issued
  BY <1>2, <1>3 DEF Issued
<1>5. ASSUME NEW f \in Pair PROVE Current(f)' = IF f = s THEN NoPair ELSE Current(f)
  <2>1. CASE f = s
    <3>1. \A p \in Pair : ~ (committed'[p] = "Active" /\ Family(p)' = s)
      BY <1>2 DEF EndedOK, Live
    <3> QED BY <2>1, <3>1, CurrentIsAfter
  <2>2. CASE f # s
    <3>1. \A p \in Pair : (committed'[p] = "Active" /\ Family(p)' = f) <=> (committed[p] = "Active" /\ Family(p) = f)
      BY <1>2, <1>3, <2>2
    <3>2. \A p \in Pair : Current(f)' = p <=> Current(f) = p
      BY <1>0, <3>1, CurrentIs, CurrentIsAfter
    <3>3. Current(f)' = NoPair <=> Current(f) = NoPair
      BY <1>0, <3>1, CurrentIs, CurrentIsAfter
    <3> QED BY <1>0, <2>2, <3>2, <3>3, CurrentTypes
  <2> QED BY <2>1, <2>2
<1>6. \A p \in Pair : Origin(p)' = Origin(p)
  BY <1>2, <1>4, IssuedKeep
<1> QED BY <1>1, <1>2, <1>4, <1>5, <1>6, Ends

LEMMA CommitLapses ==
  ASSUME HInv, LiveOK', NEW r \in Request, Commit(r), req[r].at = "commit", Lapsed(r)
  PROVE  \E gone \in SUBSET Pair : Session!Lapse(gone)
<1> DEFINE p0 == req[r].pair
           s  == Family(p0)
<1>0. TypeOK /\ RowsOK /\ LiveOK /\ p0 \in Pair /\ ~ req[r].spent
  BY DEF HInv, IInv, RequestsOK, RequestOK, Lapsed
<1>1. s \in Pair
  BY <1>0 DEF HInv, IInv, RowsOK, FamiliesOK, Lapsed
<1>2. /\ \A p \in Pair : committed'[p] = IF p = p0 THEN "Expired" ELSE committed[p]
      /\ token' = token /\ \A p \in Pair : Family(p)' = Family(p)
      /\ ended' = ended /\ committed[p0] = "Active"
  BY <1>0, Commits DEF Lapsed
<1> HIDE DEF p0
<1>3. Issued' = Issued
  BY <1>2 DEF Issued
<1>4. ASSUME NEW f \in Pair PROVE Current(f)' = IF f \in {s} THEN NoPair ELSE Current(f)
  <2>1. CASE f = s
    <3>1. \A p \in Pair : committed[p] = "Active" /\ Family(p) = s => p = p0
      BY <1>0, <1>2 DEF LiveOK, Live
    <3>2. \A p \in Pair : ~ (committed'[p] = "Active" /\ Family(p)' = s)
      BY <1>2, <3>1
    <3> QED BY <2>1, <3>2, CurrentIsAfter
  <2>2. CASE f # s
    <3>1. \A p \in Pair : (committed'[p] = "Active" /\ Family(p)' = f) <=> (committed[p] = "Active" /\ Family(p) = f)
      BY <1>2, <2>2
    <3>2. \A p \in Pair : Current(f)' = p <=> Current(f) = p
      BY <1>0, <3>1, CurrentIs, CurrentIsAfter
    <3>3. Current(f)' = NoPair <=> Current(f) = NoPair
      BY <1>0, <3>1, CurrentIs, CurrentIsAfter
    <3> QED BY <1>0, <2>2, <3>2, <3>3, CurrentTypes
  <2> QED BY <2>1, <2>2
<1>5. \A p \in Pair : Origin(p)' = Origin(p)
  BY <1>2, <1>3, IssuedKeep
<1>6. {s} \in SUBSET Pair
  BY <1>1
<1> HIDE DEF s
<1> QED BY <1>2, <1>3, <1>4, <1>5, <1>6, Lapses

\* A new pair becomes visible, and the one it was bought with ceases to be
\* the current one.
LEMMA CommitGives ==
  ASSUME HInv, LiveOK', NEW r \in Request, Commit(r), req[r].at = "commit", NEW q \in Pair, Minted(r, q)
  PROVE  (\E t \in Pair : Session!Open(t)) \/ (\E s, t \in Pair : Session!Exchange(s, t))
<1>s. PICK s : s = Family(q)
  OBVIOUS
<1>0. /\ TypeOK /\ RowsOK /\ LiveOK /\ ~ req[r].spent /\ q \notin Issued /\ q \notin ended
      /\ req[r].pair \in Pair \cup {NoPair} /\ q # req[r].pair
  BY RequestTypes DEF HInv, IInv, RequestsOK, RequestOK, Minted, EndedOK, Issued
<1>1. /\ \A p \in Pair : committed'[p] = IF p = q THEN "Active" ELSE
                                         IF p = req[r].pair THEN "Rotated" ELSE committed[p]
      /\ token' = token /\ \A p \in Pair : Family(p)' = Family(p)
      /\ ended' = ended
  BY <1>0, Commits DEF Minted
<1>2. Issued' = Issued \cup {q}
  BY <1>0, <1>1 DEF Issued, Minted
<1>3. \A p \in Pair : Origin(p)' = IF p = q THEN req[r].pair ELSE Origin(p)
  BY <1>1, <1>2 DEF Origin, Minted
<1>4. Current(s)' = q
  BY <1>s, <1>1, CurrentIsAfter
<1>5. ASSUME NEW f \in Pair, f # s PROVE Current(f)' = Current(f)
  <2>1. req[r].pair # NoPair => Family(req[r].pair) = s
    BY <1>s DEF Minted
  <2>2. \A p \in Pair : (committed'[p] = "Active" /\ Family(p)' = f) <=> (committed[p] = "Active" /\ Family(p) = f)
    BY <1>s, <1>0, <1>1, <1>5, <2>1 DEF Minted
  <2>3. \A p \in Pair : Current(f)' = p <=> Current(f) = p
    BY <1>0, <2>2, CurrentIs, CurrentIsAfter
  <2>4. Current(f)' = NoPair <=> Current(f) = NoPair
    BY <1>0, <2>2, CurrentIs, CurrentIsAfter
  <2> QED BY <1>0, <2>3, <2>4, CurrentTypes
<1>6. CASE req[r].pair = NoPair
  <2>1. s = q
    BY <1>s, <1>6 DEF Minted
  <2>2. \A f \in Pair : Current(f)' = IF f = q THEN q ELSE Current(f)
    BY <1>4, <1>5, <2>1
  <2>3. Origin(q) = NoPair
    BY <1>0 DEF Origin
  <2>4. \A p \in Pair : Origin(p)' = Origin(p)
    BY <1>3, <1>6, <2>3
  <2> QED BY <1>0, <1>1, <1>2, <2>2, <2>4, Opens
<1>7. CASE req[r].pair # NoPair
  <2>1. /\ req[r].pair \in Pair /\ committed[req[r].pair] = "Active" /\ Family(req[r].pair) = s
    BY <1>s, <1>7 DEF Minted
  <2>2. s \in Pair /\ s \notin ended
    BY <1>0, <2>1 DEF HInv, IInv, RowsOK, FamiliesOK, EndedOK, Live
  <2>3. Current(s) = req[r].pair
    BY <1>0, <2>1, CurrentIs
  <2>4. \A f \in Pair : Current(f)' = IF f = s THEN q ELSE Current(f)
    BY <1>4, <1>5
  <2> QED BY <1>0, <1>1, <1>2, <1>3, <1>7, <2>2, <2>3, <2>4, Exchanges
<1> QED BY <1>6, <1>7

LEMMA Implements == HInv /\ IInv' /\ [Next]_vars => [Session!Next]_(Session!sessions)
<1> SUFFICES ASSUME HInv, IInv', [Next]_vars PROVE Session!Next \/ UNCHANGED Session!sessions
  OBVIOUS
<1>0. TypeOK /\ RowsOK /\ RequestsOK /\ LiveOK /\ AllHeldOK /\ LiveOK' /\ EndedOK'
  BY DEF HInv, IInv
<1>1. CASE UNCHANGED <<database, ended>>
  BY <1>0, <1>1, NothingSeen DEF database
<1>2. CASE DeleteStep
  BY <1>0, <1>2, DeleteLapses DEF Session!Next
<1>3. ASSUME NEW r \in Request, Commit(r) PROVE Session!Next \/ UNCHANGED Session!sessions
  <2>1. CASE req[r].at = "revoked"
    BY <1>0, <1>3, <2>1, CommitEnds DEF Session!Next
  <2>2. CASE req[r].at = "commit" /\ Nothing(r)
    <3>1. ~ req[r].spent
      BY <1>0, <2>2 DEF RequestsOK, RequestOK
    <3>2. \A p \in Pair : committed'[p] = committed[p]
      BY <1>0, <1>3, <2>2, Commits DEF Nothing
    <3>3. committed' = committed
      BY <1>0, <1>3, <3>2 DEF Commit, TypeOK
    <3> QED BY <1>0, <1>3, <2>2, <3>1, <3>3, Commits, NothingSeen
  <2>3. CASE req[r].at = "commit" /\ Lapsed(r)
    BY <1>0, <1>3, <2>3, CommitLapses DEF Session!Next
  <2>4. CASE req[r].at = "commit" /\ \E q \in Pair : Minted(r, q)
    BY <1>0, <1>3, <2>4, CommitGives DEF Session!Next
  <2>5. HeldOK(r) /\ req[r].at \in {"commit", "revoked"}
    BY <1>0, <1>3, Commits DEF AllHeldOK
  <2> QED BY <2>1, <2>2, <2>3, <2>4, <2>5 DEF HeldOK
<1>4. ASSUME NEW r \in Request, Fail(r) PROVE UNCHANGED Session!sessions
  <2>1. committed' = committed /\ ended' = ended /\ \A p \in Issued : token'[p] = token[p]
    BY <1>4 DEF Fail, Issued
  <2> QED BY <1>0, <2>1, NothingSeen
<1>5. ASSUME NEW r \in Request, Mint(r) PROVE UNCHANGED Session!sessions
  <2>1. PICK q \in Pair : committed[q] = "free" /\ token' = [token EXCEPT ![q] = NewToken(r, q)]
    BY <1>0, <1>5, MintStep
  <2>2. committed' = committed /\ ended' = ended
    BY <1>5 DEF Mint
  <2>3. \A p \in Issued : token'[p] = token[p]
    BY <1>0, <2>1 DEF Issued, TypeOK
  <2> QED BY <1>0, <2>2, <2>3, NothingSeen
<1>6. ASSUME NEW r \in Request, Find(r) \/ CheckRefresh(r) \/ RevokeFamily(r) PROVE UNCHANGED Session!sessions
  <2>1. committed' = committed /\ ended' = ended /\ token' = token
    BY <1>6 DEF Find, CheckRefresh, RevokeFamily
  <2> QED BY <1>0, <2>1, NothingSeen
<1> QED BY <1>1, <1>2, <1>3, <1>4, <1>5, <1>6, Steps DEF RequestStep

LEMMA StartsEmpty == Init => AllHeldOK /\ Session!Init
<1> SUFFICES ASSUME Init PROVE AllHeldOK /\ Session!Init
  OBVIOUS
<1>1. AllHeldOK
  BY DEF Init, AllHeldOK, HeldOK, Idle
<1>2. Issued = {} /\ ended = {} /\ \A f \in Pair : ActiveOf(f) = {}
  BY DEF Init, Issued, ActiveOf
<1> QED BY <1>1, <1>2 DEF Session!Init

\* The requests, locks and transactions of auth.py implement the sessions: a
\* token is exchanged while it is the current one of a session that is not
\* over, at most once, and only a login opens a session.
THEOREM TokensImplementSessions == Spec => SessionSpec
<1>1. Spec => []AllHeldOK
  <2>1. IInv /\ AllHeldOK /\ [Next]_vars => AllHeldOK'
    BY HeldStep DEF IInv
  <2>2. Init => AllHeldOK
    BY StartsEmpty
  <2> QED BY <2>1, <2>2, Inductive, PTL DEF Spec
<1>2. IInv /\ AllHeldOK /\ IInv' /\ [Next]_vars => [Session!Next]_(Session!sessions)
  BY Implements DEF HInv
<1>3. Init => Session!Init
  BY StartsEmpty
<1> QED BY <1>1, <1>2, <1>3, Inductive, PTL DEF Spec, SessionSpec, Session!Spec
===============================================================================
