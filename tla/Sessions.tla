------------------------------ MODULE Sessions ------------------------------
(***************************************************************************)
(* The sessions and the credentials of one user of the iam service.        *)
(*                                                                         *)
(* A login starts a family of refresh tokens; every refresh revokes one    *)
(* token of the family and saves the next.  The operations on the user's   *)
(* row read it, change their copy and write every column back; a change of *)
(* password then revokes all tokens.  Each is several statements without a *)
(* transaction, and calls of the same user overlap.                        *)
(*                                                                         *)
(* The blacklist of access tokens that Logout writes to is left out: no    *)
(* request looks at it.                                                    *)
(***************************************************************************)
EXTENDS Integers

CONSTANTS
  Handlers,  \* HTTP handlers at work for the user
  Tokens,    \* refresh tokens uuid.New can return: bounds the logins and refreshes
  Hashes,    \* password hashes bcrypt can return: bounds the changes
  Resets,    \* reset tokens uuid.New can return
  None

ASSUME NoneAssumption == None \notin Tokens \cup Hashes \cup Resets

VARIABLES
  row,        \* Postgres: the user's row of users
  tokens,     \* Postgres: refresh_tokens, None when there is no row
  expired,    \* the refresh and reset tokens whose time is over
  calls,      \* what each handler is at, or None
  minted      \* history: hashes and reset tokens that were ever made

vars == <<row, tokens, expired, calls, minted>>

Row == [hash : Hashes, active : BOOLEAN, reset : Resets \cup {None}]

Token == [family : Tokens, revoked : BOOLEAN]

Session == [pc : {"load", "issue"}, family : Tokens \cup {None}]
Edit == [pc : {"write"}, op : {"forgot", "reset", "change", "update", "verify"}, image : Row]
Ending == [pc : {"revoke"}]

ASSUME NothingAssumption == None \notin Token \cup Session \cup Edit \cup Ending

Idle(h) == calls[h] = None
At(h, pc) == calls[h] # None /\ calls[h].pc = pc

Live(t) == tokens[t] # None /\ ~tokens[t].revoked

\* Handler h has taken a token of family f and not yet saved the next.
Carries(h, f) == calls[h] \in Session /\ calls[h].family = f

TypeOK ==
  /\ row \in Row
  /\ tokens \in [Tokens -> Token \cup {None}]
  /\ expired \subseteq Tokens \cup Resets
  /\ calls \in [Handlers -> Session \cup Edit \cup Ending \cup {None}]
  /\ minted \subseteq Hashes \cup Resets

\* Registered and pending, or signed up and active.
Init ==
  /\ row \in [hash : Hashes, active : BOOLEAN, reset : {None}]
  /\ tokens = [t \in Tokens |-> None]
  /\ expired = {}
  /\ calls = [h \in Handlers |-> None]
  /\ minted = {row.hash}

End(h) == calls' = [calls EXCEPT ![h] = None]

-----------------------------------------------------------------------------
(* Tokens.                                                                 *)

\* Login: the row is read, the password and the status are checked.
Login(h) ==
  /\ Idle(h)
  /\ row.active
  /\ calls' = [calls EXCEPT ![h] = [pc |-> "issue", family |-> None]]
  /\ UNCHANGED <<row, tokens, expired, minted>>

\* Mutant: GetRefreshToken, which finds a revoked token as well.
RefreshFound(h, t) ==
  /\ Idle(h)
  /\ tokens[t] # None /\ t \notin expired
  /\ tokens' = [tokens EXCEPT ![t].revoked = TRUE]
  /\ calls' = [calls EXCEPT ![h] = [pc |-> "load", family |-> tokens[t].family]]
  /\ UNCHANGED <<row, expired, minted>>

\* Mutant: the old token is left for the client to fall back on.
RefreshKeeps(h, t) ==
  /\ Idle(h)
  /\ Live(t) /\ t \notin expired
  /\ calls' = [calls EXCEPT ![h] = [pc |-> "load", family |-> tokens[t].family]]
  /\ UNCHANGED <<row, tokens, expired, minted>>

\* Refresh: GetAndRevokeRefreshToken is one UPDATE ... RETURNING.
Refresh(h, t) ==
  /\ Idle(h)
  /\ Live(t) /\ t \notin expired
  /\ tokens' = [tokens EXCEPT ![t].revoked = TRUE]
  /\ calls' = [calls EXCEPT ![h] = [pc |-> "load", family |-> tokens[t].family]]
  /\ UNCHANGED <<row, expired, minted>>

\* Refresh reads the user, who must be active.
LoadUser(h) ==
  /\ At(h, "load")
  /\ IF row.active THEN calls' = [calls EXCEPT ![h].pc = "issue"] ELSE End(h)
  /\ UNCHANGED <<row, tokens, expired, minted>>

\* Mutant: each token is the first of a family of its own.
IssueAlone(h, t) ==
  /\ At(h, "issue")
  /\ tokens[t] = None
  /\ tokens' = [tokens EXCEPT ![t] = [family |-> t, revoked |-> FALSE]]
  /\ End(h)
  /\ UNCHANGED <<row, expired, minted>>

\* issueTokenPair saves a new token, in the family of the one before.
IssueTokenPair(h, t) ==
  /\ At(h, "issue")
  /\ tokens[t] = None
  /\ tokens' = [tokens EXCEPT ![t] =
                  [family |-> IF calls[h].family = None THEN t ELSE calls[h].family,
                   revoked |-> FALSE]]
  /\ End(h)
  /\ UNCHANGED <<row, expired, minted>>

\* Logout revokes the token it is given; an error is logged and the answer is
\* the same.
Logout(t) ==
  /\ tokens[t] # None
  /\ tokens' \in {tokens, [tokens EXCEPT ![t].revoked = TRUE]}
  /\ UNCHANGED <<row, expired, calls, minted>>

-----------------------------------------------------------------------------
(* The user's row.  Each operation reads it and makes its image.           *)

Read(h, op, image) ==
  /\ Idle(h)
  /\ calls' = [calls EXCEPT ![h] = [pc |-> "write", op |-> op, image |-> image]]
  /\ UNCHANGED <<row, tokens, expired>>

Mint(v) == v \notin minted /\ minted' = minted \cup {v}

ForgotPassword(h, k) ==
  /\ Mint(k)
  /\ Read(h, "forgot", [row EXCEPT !.reset = k])

\* GetByResetToken and IsResetTokenValid; then the new password, and the token
\* is cleared.
ResetPassword(h, p) ==
  /\ row.reset # None /\ row.reset \notin expired
  /\ Mint(p)
  /\ Read(h, "reset", [row EXCEPT !.hash = p, !.reset = None])

\* Mutant: a hash without a salt, the same for the same password.
ChangeUnsalted(h, p) ==
  /\ minted' = minted \cup {p}
  /\ Read(h, "change", [row EXCEPT !.hash = p])

ChangePassword(h, p) ==
  /\ Mint(p)
  /\ Read(h, "change", [row EXCEPT !.hash = p])

UpdateMe(h) == Read(h, "update", row) /\ UNCHANGED minted

VerifyEmail(h) ==
  /\ ~row.active
  /\ Read(h, "verify", [row EXCEPT !.active = TRUE])
  /\ UNCHANGED minted

\* UserRepo.Update writes every column of the image.  A new password goes on to
\* revoke the user's tokens.
UpdateUser(h) ==
  /\ At(h, "write")
  /\ row' = calls[h].image
  /\ IF calls[h].op \in {"reset", "change"}
     THEN calls' = [calls EXCEPT ![h] = [pc |-> "revoke"]]
     ELSE End(h)
  /\ UNCHANGED <<tokens, expired, minted>>

RevokeAllForUser(h) ==
  /\ At(h, "revoke")
  /\ tokens' = [t \in Tokens |-> IF tokens[t] = None THEN None
                                 ELSE [tokens[t] EXCEPT !.revoked = TRUE]]
  /\ End(h)
  /\ UNCHANGED <<row, expired, minted>>

-----------------------------------------------------------------------------
\* A statement fails without effect, or the process dies, wherever the call is.
CallFails(h) ==
  /\ ~Idle(h)
  /\ End(h)
  /\ UNCHANGED <<row, tokens, expired, minted>>

Expire(v) ==
  /\ v \in (Resets \cap minted) \cup {t \in Tokens : tokens[t] # None}
  /\ expired' = expired \cup {v}
  /\ UNCHANGED <<row, tokens, calls, minted>>

CallStep(h) ==
  \/ LoadUser(h)
  \/ \E t \in Tokens : IssueTokenPair(h, t)
  \/ UpdateUser(h)
  \/ RevokeAllForUser(h)
  \/ CallFails(h)

Request(h) ==
  \/ Login(h)
  \/ \E t \in Tokens : Refresh(h, t)
  \/ \E k \in Resets : ForgotPassword(h, k)
  \/ \E p \in Hashes : ResetPassword(h, p) \/ ChangePassword(h, p)
  \/ UpdateMe(h)
  \/ VerifyEmail(h)

Next ==
  \/ \E h \in Handlers : Request(h) \/ CallStep(h)
  \/ \E t \in Tokens : Logout(t)
  \/ \E v \in Tokens \cup Resets : Expire(v)

\* A handler that was entered goes on to its end; nobody is obliged to call.
Fairness == \A h \in Handlers : WF_vars(CallStep(h))

Spec == Init /\ [][Next]_vars /\ Fairness

-----------------------------------------------------------------------------
(* Properties.                                                             *)

\* GetAndRevokeRefreshToken hands a token's family to one caller only: however
\* refreshes, logouts and revocations overlap, a session has one live token.
OneLiveToken ==
  \A s, t \in Tokens :
    Live(s) /\ Live(t) /\ tokens[s].family = tokens[t].family => s = t

\* A session with no live token and no refresh on its way.
Dead(f) ==
  /\ tokens[f] # None
  /\ \A t \in Tokens : Live(t) => tokens[t].family # f
  /\ \A h \in Handlers : ~Carries(h, f)

\* A revoked token is never accepted again: a session that was ended, by
\* Logout, a password change or a failed refresh, is not revived by any call.
DeadStaysDead == [][\A f \in Tokens : Dead(f) => Dead(f)']_vars

\* The tokens a session can be refreshed with and the calls that have taken it
\* over, as Relay sees them.
Issued == {t \in Tokens : tokens[t] # None}
TokenOf == [f \in Tokens |-> {t \in Tokens : Live(t) /\ tokens[t].family = f}]
CallOf == [f \in Tokens |-> {h \in Handlers : Carries(h, f)}]

Rotation == INSTANCE Relay WITH Calls <- Handlers, issued <- Issued,
                                tokenOf <- TokenOf, callOf <- CallOf

\* Every interleaving of logins, refreshes, logouts, revocations and failures
\* is a relay: GetAndRevokeRefreshToken and issueTokenPair pass a session from
\* token to call to token, one holder at a time, and no token gets it twice.
ImplementsRelay == Rotation!RelaySpec

\* A hash or reset token that was replaced and that no call still has in hand.
Replaced(v) ==
  /\ v \in minted
  /\ row.hash # v /\ row.reset # v
  /\ \A h \in Handlers :
       calls[h] \in Edit => calls[h].image.hash # v /\ calls[h].image.reset # v

\* Whole-row writes bring back what they have read, but nothing older: once
\* replaced and out of hand, a password or reset token is gone for good.
ReplacedStaysReplaced ==
  [][\A v \in Hashes \cup Resets : Replaced(v) => Replaced(v)']_vars
=============================================================================
