------------------------------- MODULE Sessions -------------------------------
(***************************************************************************)
(* What the refresh tokens of the gateway promise, without requests, rows, *)
(* locks and transactions: a session is opened with a token, its current   *)
(* token is exchanged for a new one, each token at most once, and a        *)
(* session that is over stays over.  RefreshTokens implements it.          *)
(***************************************************************************)

CONSTANTS
  Token,   \* refresh tokens; a session bears the name of its first one
  NoToken  \* a session that has none

VARIABLES
  current,  \* current[s]: the one token of session s that can be exchanged
  origin,   \* origin[t]: the token that t was given for, if for any
  used,     \* the tokens that were ever given out
  over      \* the sessions somebody was told are over

sessions == <<current, origin, used, over>>

Init ==
  /\ current = [s \in Token |-> NoToken]
  /\ origin  = [t \in Token |-> NoToken]
  /\ used    = {}
  /\ over    = {}

\* A login.
Open(t) ==
  /\ t \notin used \cup over
  /\ current' = [current EXCEPT ![t] = t]
  /\ used'    = used \cup {t}
  /\ UNCHANGED <<origin, over>>

\* A refresh: the current token, and no other, buys its successor.
Exchange(s, t) ==
  /\ current[s] # NoToken /\ s \notin over
  /\ t \notin used
  /\ current' = [current EXCEPT ![s] = t]
  /\ origin'  = [origin EXCEPT ![t] = current[s]]
  /\ used'    = used \cup {t}
  /\ UNCHANGED over

\* A revocation, or a token that was presented when it was no longer current.
End(s) ==
  /\ current' = [current EXCEPT ![s] = NoToken]
  /\ over'    = over \cup {s}
  /\ UNCHANGED <<origin, used>>

\* Tokens expire, are purged, or go with their user.
Lapse(gone) ==
  /\ current' = [s \in Token |-> IF s \in gone THEN NoToken ELSE current[s]]
  /\ UNCHANGED <<origin, used, over>>

Next ==
  \/ \E t \in Token : Open(t)
  \/ \E s, t \in Token : Exchange(s, t)
  \/ \E s \in Token : End(s)
  \/ \E gone \in SUBSET Token : Lapse(gone)

Spec == Init /\ [][Next]_sessions

===============================================================================
