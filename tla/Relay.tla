------------------------------- MODULE Relay -------------------------------
(***************************************************************************)
(* What the rotation of refresh tokens promises.  A session is a baton: it *)
(* is in the hand of one token, or of one call on its way from a token to  *)
(* the next, or it is over for good.  A token is issued once and never     *)
(* gets the baton back.                                                    *)
(***************************************************************************)
CONSTANTS Calls, Tokens

VARIABLES issued,   \* the tokens that were ever issued
          tokenOf,  \* the tokens a session can be refreshed with; the first names it
          callOf    \* the calls that have taken a session over

relayVars == <<issued, tokenOf, callOf>>

RelayInit ==
  /\ issued = {}
  /\ tokenOf = [s \in Tokens |-> {}]
  /\ callOf = [s \in Tokens |-> {}]

Open(s) ==
  /\ s \notin issued
  /\ issued' = issued \cup {s}
  /\ tokenOf' = [tokenOf EXCEPT ![s] = {s}]
  /\ UNCHANGED callOf

\* A call takes over one session at a time.
Take(s, t, c) ==
  /\ tokenOf[s] = {t} /\ callOf[s] = {}
  /\ \A r \in Tokens : c \notin callOf[r]
  /\ tokenOf' = [tokenOf EXCEPT ![s] = {}]
  /\ callOf' = [callOf EXCEPT ![s] = {c}]
  /\ UNCHANGED issued

Hand(s, c, t) ==
  /\ callOf[s] = {c} /\ tokenOf[s] = {}
  /\ t \notin issued
  /\ issued' = issued \cup {t}
  /\ tokenOf' = [tokenOf EXCEPT ![s] = {t}]
  /\ callOf' = [callOf EXCEPT ![s] = {}]

\* Tokens are revoked, of one session or of all.  A call that has taken a
\* session over goes on.
Revoke(S) ==
  /\ tokenOf' = [s \in Tokens |-> IF s \in S THEN {} ELSE tokenOf[s]]
  /\ UNCHANGED <<issued, callOf>>

\* A call ends without a token.
Drop(s, c) ==
  /\ callOf[s] = {c}
  /\ callOf' = [callOf EXCEPT ![s] = {}]
  /\ UNCHANGED <<issued, tokenOf>>

RelayNext ==
  \/ \E s \in Tokens : Open(s)
  \/ \E s, t \in Tokens, c \in Calls : Take(s, t, c) \/ Hand(s, c, t)
  \/ \E S \in SUBSET Tokens : Revoke(S)
  \/ \E s \in Tokens, c \in Calls : Drop(s, c)

RelaySpec == RelayInit /\ [][RelayNext]_relayVars
=============================================================================
