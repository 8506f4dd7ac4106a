---------------------------- MODULE MCRefreshTokens ----------------------------
(* RefreshTokens with two requests and two pairs of tokens, the second of    *)
(* which succeeds the first.  A tick stands for the thirty seconds of the    *)
(* leeway of a JWT.                                                          *)
EXTENDS RefreshTokens, FiniteSets, TLC

CONSTANTS r1, r2

\* The requests are interchangeable.
Symmetric == Permutations(Request)

\* Requests that run at the same time do so in the first instant; after that
\* there is one at a time, for what is left is about lifetimes.  Nothing is
\* changed in the last instant, and no request goes on into it.
Apart ==
  /\ clock' > 0 => Cardinality({r \in Request : req'[r].at # "idle"}) <= 1
  /\ clock = MaxClock => changes' = changes
  /\ clock < MaxClock /\ clock' = MaxClock => \A r \in Request : req[r].at = "idle"

MCNext == Next /\ Apart
MCSpec == Init /\ [][MCNext]_vars

=============================================================================
