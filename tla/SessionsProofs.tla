---------------------------- MODULE SessionsProofs ----------------------------
(***************************************************************************)
(* Proofs about Sessions, for any numbers of handlers, tokens, password    *)
(* hashes and reset tokens.                                                *)
(***************************************************************************)
EXTENDS Sessions, TLAPS

LEMMA NoneIsNoCall == None \notin Token /\ None \notin Session /\ None \notin Edit /\ None \notin Ending
BY NothingAssumption DEF NothingAssumption

\* What a handler holds at each of its steps.
LEMMA CallAt ==
  ASSUME TypeOK, NEW h \in Handlers, calls[h] # None
  PROVE  /\ calls[h] \in Session \cup Edit \cup Ending
         /\ At(h, "load") \/ At(h, "issue") => calls[h] \in Session
         /\ At(h, "write") => calls[h] \in Edit
BY DEF TypeOK, At, Session, Edit, Ending

LEMMA Revoked ==
  ASSUME NEW x \in Token
  PROVE  /\ [x EXCEPT !.revoked = TRUE] \in Token
         /\ [x EXCEPT !.revoked = TRUE].family = x.family
         /\ [x EXCEPT !.revoked = TRUE].revoked = TRUE
BY DEF Token

\* The images the operations make of the row.
LEMMA RowChanged ==
  ASSUME NEW x \in Row, NEW p \in Hashes, NEW k \in Resets
  PROVE  /\ [x EXCEPT !.reset = k] \in Row
         /\ [x EXCEPT !.hash = p, !.reset = None] \in Row
         /\ [x EXCEPT !.hash = p] \in Row
         /\ [x EXCEPT !.active = TRUE] \in Row
BY DEF Row

\* A step that changes one call and nothing else that has a type to keep.
LEMMA OneCallMoves ==
  ASSUME TypeOK, NEW h \in Handlers, NEW c \in Session \cup Edit \cup Ending \cup {None},
         calls' = [calls EXCEPT ![h] = c],
         row' \in Row, tokens' \in [Tokens -> Token \cup {None}],
         expired' = expired, minted' \subseteq Hashes \cup Resets
  PROVE  TypeOK'
BY DEF TypeOK

\* TypeOK (the shape of every variable, and what a handler holds at each of its
\* steps) is inductive.
LEMMA TypeInit == Init => TypeOK
<1> SUFFICES ASSUME Init PROVE TypeOK
  OBVIOUS
<1>1. row \in Row /\ row.hash \in Hashes
  BY DEF Init, Row
<1>2. QED
  BY <1>1 DEF Init, TypeOK

LEMMA TypeStep == TypeOK /\ [Next]_vars => TypeOK'
<1> SUFFICES ASSUME TypeOK, [Next]_vars PROVE TypeOK'
  OBVIOUS
<1>1. ASSUME NEW h \in Handlers, Login(h)
      PROVE  TypeOK'
  <2>1. [pc |-> "issue", family |-> None] \in Session
    BY DEF Session
  <2>2. QED
    BY <1>1, <2>1, OneCallMoves DEF Login, TypeOK
<1>2. ASSUME NEW h \in Handlers, NEW t \in Tokens, Refresh(h, t)
      PROVE  TypeOK'
  <2>1. tokens[t] \in Token
    BY <1>2 DEF Refresh, Live, TypeOK
  <2>2. [pc |-> "load", family |-> tokens[t].family] \in Session
    BY <2>1 DEF Session, Token
  <2>3. tokens' \in [Tokens -> Token \cup {None}]
    BY <1>2, <2>1, Revoked DEF Refresh, TypeOK
  <2>4. QED
    BY <1>2, <2>2, <2>3, OneCallMoves DEF Refresh, TypeOK
<1>3. ASSUME NEW h \in Handlers, LoadUser(h)
      PROVE  TypeOK'
  <2>1. calls[h] \in Session
    BY <1>3, CallAt DEF LoadUser, At
  <2>2. [calls[h] EXCEPT !.pc = "issue"] \in Session
    BY <2>1 DEF Session
  <2> DEFINE c == IF row.active THEN [calls[h] EXCEPT !.pc = "issue"] ELSE None
  <2>3. c \in Session \cup {None} /\ calls' = [calls EXCEPT ![h] = c]
    BY <1>3, <2>2 DEF LoadUser, End
  <2> HIDE DEF c
  <2>4. QED
    BY <1>3, <2>3, OneCallMoves DEF LoadUser, TypeOK
<1>4. ASSUME NEW h \in Handlers, NEW t \in Tokens, IssueTokenPair(h, t)
      PROVE  TypeOK'
  <2>1. calls[h] \in Session
    BY <1>4, CallAt DEF IssueTokenPair, At
  <2> DEFINE x == [family |-> IF calls[h].family = None THEN t ELSE calls[h].family, revoked |-> FALSE]
  <2>2. x \in Token
    BY <2>1 DEF Session, Token
  <2>3. tokens' = [tokens EXCEPT ![t] = x]
    BY <1>4 DEF IssueTokenPair
  <2> HIDE DEF x
  <2>4. tokens' \in [Tokens -> Token \cup {None}]
    BY <2>2, <2>3 DEF TypeOK
  <2>5. QED
    BY <1>4, <2>4, OneCallMoves DEF IssueTokenPair, End, TypeOK
<1>5. ASSUME NEW t \in Tokens, Logout(t)
      PROVE  TypeOK'
  <2>1. tokens[t] \in Token
    BY <1>5 DEF Logout, TypeOK
  <2>2. tokens' \in [Tokens -> Token \cup {None}]
    BY <1>5, <2>1, Revoked DEF Logout, TypeOK
  <2>3. QED
    BY <1>5, <2>2 DEF Logout, TypeOK
<1>6. ASSUME NEW h \in Handlers, NEW op \in {"forgot", "reset", "change", "update", "verify"},
             NEW image \in Row, Read(h, op, image), minted' \subseteq Hashes \cup Resets
      PROVE  TypeOK'
  <2>1. [pc |-> "write", op |-> op, image |-> image] \in Edit
    BY DEF Edit
  <2>2. QED
    BY <1>6, <2>1, OneCallMoves DEF Read, TypeOK
<1>7. row \in Row /\ \A v \in Hashes \cup Resets : Mint(v) => minted' \subseteq Hashes \cup Resets
  BY DEF TypeOK, Mint
<1>8. ASSUME NEW h \in Handlers, NEW k \in Resets, ForgotPassword(h, k)
      PROVE  TypeOK'
  <2>1. [row EXCEPT !.reset = k] \in Row
    BY <1>7 DEF Row
  <2>2. QED
    BY <1>6, <1>7, <1>8, <2>1 DEF ForgotPassword
<1>9. ASSUME NEW h \in Handlers, NEW p \in Hashes, ResetPassword(h, p)
      PROVE  TypeOK'
  <2>1. [row EXCEPT !.hash = p, !.reset = None] \in Row
    BY <1>7 DEF Row
  <2>2. QED
    BY <1>6, <1>7, <1>9, <2>1 DEF ResetPassword
<1>10. ASSUME NEW h \in Handlers, NEW p \in Hashes, ChangePassword(h, p)
       PROVE  TypeOK'
  <2>1. [row EXCEPT !.hash = p] \in Row
    BY <1>7 DEF Row
  <2>2. QED
    BY <1>6, <1>7, <1>10, <2>1 DEF ChangePassword
<1>11. ASSUME NEW h \in Handlers, UpdateMe(h) \/ VerifyEmail(h)
       PROVE  TypeOK'
  <2>1. [row EXCEPT !.active = TRUE] \in Row
    BY <1>7 DEF Row
  <2>2. minted' \subseteq Hashes \cup Resets
    BY <1>11 DEF UpdateMe, VerifyEmail, TypeOK
  <2>3. QED
    BY <1>6, <1>7, <1>11, <2>1, <2>2 DEF UpdateMe, VerifyEmail
<1>12. ASSUME NEW h \in Handlers, UpdateUser(h)
       PROVE  TypeOK'
  <2>1. calls[h] \in Edit /\ calls[h].image \in Row
    BY <1>12, CallAt DEF UpdateUser, At, Edit
  <2>2. [pc |-> "revoke"] \in Ending
    BY DEF Ending
  <2> DEFINE c == IF calls[h].op \in {"reset", "change"} THEN [pc |-> "revoke"] ELSE None
  <2>3. c \in Ending \cup {None} /\ calls' = [calls EXCEPT ![h] = c]
    BY <1>12, <2>2 DEF UpdateUser, End
  <2> HIDE DEF c
  <2>4. QED
    BY <1>12, <2>1, <2>3, OneCallMoves DEF UpdateUser, TypeOK
<1>13. ASSUME NEW h \in Handlers, RevokeAllForUser(h)
       PROVE  TypeOK'
  <2>1. \A t \in Tokens : tokens[t] # None => [tokens[t] EXCEPT !.revoked = TRUE] \in Token
    BY Revoked DEF TypeOK
  <2>2. tokens' \in [Tokens -> Token \cup {None}]
    BY <1>13, <2>1 DEF RevokeAllForUser
  <2>3. QED
    BY <1>13, <2>2, OneCallMoves DEF RevokeAllForUser, End, TypeOK
<1>14. ASSUME NEW h \in Handlers, CallFails(h)
       PROVE  TypeOK'
  BY <1>14, OneCallMoves DEF CallFails, End, TypeOK
<1>15. ASSUME NEW v \in Tokens \cup Resets, Expire(v)
       PROVE  TypeOK'
  BY <1>15 DEF Expire, TypeOK
<1>16. CASE UNCHANGED vars
  BY <1>16 DEF vars, TypeOK
<1>17. QED
  BY <1>1, <1>2, <1>3, <1>4, <1>5, <1>8, <1>9, <1>10, <1>11, <1>12, <1>13, <1>14, <1>15, <1>16
     DEF Next, Request, CallStep

\* Every variable keeps its shape, and what a handler holds between two of its
\* statements is what its next one needs.
THEOREM TypeCorrect == Spec => []TypeOK
BY TypeInit, TypeStep, PTL DEF Spec

-----------------------------------------------------------------------------
(* One right to issue: in a family, either one token is live or one call    *)
(* carries what the last one was.                                           *)

\* A token names the first of its family, which was saved before it.
Rooted ==
  /\ \A t \in Tokens : tokens[t] # None => tokens[tokens[t].family] # None
  /\ \A h \in Handlers, f \in Tokens : Carries(h, f) => tokens[f] # None

OneCarrier == \A g, h \in Handlers, f \in Tokens : Carries(g, f) /\ Carries(h, f) => g = h

NoneCarriedLive ==
  \A h \in Handlers, t \in Tokens : Live(t) => ~Carries(h, tokens[t].family)

OneTokenInv == TypeOK /\ Rooted /\ OneLiveToken /\ OneCarrier /\ NoneCarriedLive

LEMMA TokenTyped ==
  ASSUME TypeOK, NEW t \in Tokens, tokens[t] # None
  PROVE  tokens[t] \in Token /\ tokens[t].family \in Tokens /\ tokens[t].revoked \in BOOLEAN
BY DEF TypeOK, Token

\* Nothing but the saving of a token makes one live, and no family of a token
\* that was saved ever changes.
TokensOnlyRevoked ==
  \A t \in Tokens :
    /\ tokens'[t] = None <=> tokens[t] = None
    /\ tokens[t] # None => tokens'[t].family = tokens[t].family
    /\ Live(t)' => Live(t)

\* No call takes a family up.
NoneTaken == \A h \in Handlers, f \in Tokens : Carries(h, f)' => Carries(h, f)

LEMMA RevokingKeepsOne ==
  ASSUME OneTokenInv, TypeOK', TokensOnlyRevoked, NoneTaken
  PROVE  OneTokenInv'
<1>1. TypeOK
  BY DEF OneTokenInv
<1>2. \A t \in Tokens : tokens[t] # None => tokens[t].family \in Tokens
  BY <1>1, TokenTyped
<1>3. \A t \in Tokens : Live(t)' => Live(t) /\ tokens'[t].family = tokens[t].family
                                     /\ tokens[t].family \in Tokens
  BY <1>2 DEF TokensOnlyRevoked, Live
<1>4. Rooted'
  BY <1>2 DEF Rooted, OneTokenInv, TokensOnlyRevoked, NoneTaken
<1>5. OneLiveToken'
  BY <1>3 DEF OneLiveToken, OneTokenInv
<1>6. OneCarrier'
  BY DEF OneCarrier, OneTokenInv, NoneTaken
<1>7. NoneCarriedLive'
  BY <1>3 DEF NoneCarriedLive, OneTokenInv, NoneTaken
<1>8. QED
  BY <1>4, <1>5, <1>6, <1>7 DEF OneTokenInv

\* What a step other than a refresh and the saving of a token does to tokens
\* and to the families in hand.
LEMMA OthersTakeNone ==
  ASSUME TypeOK, [Next]_vars,
         ~ \E h \in Handlers, t \in Tokens : Refresh(h, t) \/ IssueTokenPair(h, t)
  PROVE  TokensOnlyRevoked /\ NoneTaken
<1> USE DEF Live
<1>1. ASSUME NEW h \in Handlers, NEW c, c \notin Session \/ c.family \notin Tokens,
             calls' = [calls EXCEPT ![h] = c]
      PROVE  NoneTaken
  BY <1>1 DEF NoneTaken, Carries, TypeOK
<1>2. ASSUME UNCHANGED tokens PROVE TokensOnlyRevoked
  BY <1>2 DEF TokensOnlyRevoked
<1>3. ASSUME UNCHANGED calls PROVE NoneTaken
  BY <1>3 DEF NoneTaken, Carries
<1>4. None \notin Session /\ None \notin Tokens
  BY NoneIsNoCall, NoneAssumption DEF NoneAssumption
<1>5. ASSUME NEW h \in Handlers, End(h) PROVE NoneTaken
  BY <1>1, <1>4, <1>5 DEF End
<1>6. ASSUME NEW h \in Handlers, Login(h) PROVE TokensOnlyRevoked /\ NoneTaken
  BY <1>1, <1>2, <1>4, <1>6 DEF Login
<1>7. ASSUME NEW h \in Handlers, NEW op, NEW image, Read(h, op, image)
      PROVE  TokensOnlyRevoked /\ NoneTaken
  <2>1. [pc |-> "write", op |-> op, image |-> image] \notin Session
    BY DEF Session
  <2>2. QED
    BY <1>1, <1>2, <1>7, <2>1 DEF Read
<1>8. ASSUME NEW h \in Handlers, LoadUser(h) PROVE TokensOnlyRevoked /\ NoneTaken
  <2>1. calls[h] \in Session
    BY <1>8, CallAt DEF LoadUser, At
  <2>2. CASE End(h)
    BY <1>2, <1>5, <1>8, <2>2 DEF LoadUser
  <2>3. CASE calls' = [calls EXCEPT ![h].pc = "issue"]
    <3>1. calls'[h].family = calls[h].family /\ \A g \in Handlers \ {h} : calls'[g] = calls[g]
      BY <2>1, <2>3 DEF TypeOK, Session
    <3>2. NoneTaken
      BY <2>1, <3>1 DEF NoneTaken, Carries
    <3>3. QED
      BY <1>2, <1>8, <3>2 DEF LoadUser
  <2>4. QED
    BY <1>8, <2>2, <2>3 DEF LoadUser
<1>9. ASSUME NEW h \in Handlers, UpdateUser(h) PROVE TokensOnlyRevoked /\ NoneTaken
  <2>1. [pc |-> "revoke"] \notin Session
    BY DEF Session
  <2>2. QED
    BY <1>1, <1>2, <1>5, <1>9, <2>1 DEF UpdateUser
<1>10. \A t \in Tokens : tokens[t] # None => [tokens[t] EXCEPT !.revoked = TRUE] \in Token
         /\ [tokens[t] EXCEPT !.revoked = TRUE].family = tokens[t].family
         /\ [tokens[t] EXCEPT !.revoked = TRUE].revoked
         /\ [tokens[t] EXCEPT !.revoked = TRUE] # None
  BY Revoked, NoneIsNoCall DEF TypeOK
<1>11. ASSUME NEW h \in Handlers, RevokeAllForUser(h) PROVE TokensOnlyRevoked /\ NoneTaken
  BY <1>5, <1>10, <1>11 DEF RevokeAllForUser, TokensOnlyRevoked
<1>12. ASSUME NEW t \in Tokens, Logout(t) PROVE TokensOnlyRevoked /\ NoneTaken
  BY <1>3, <1>10, <1>12 DEF Logout, TokensOnlyRevoked, TypeOK
<1>13. ASSUME NEW h \in Handlers, CallFails(h) PROVE TokensOnlyRevoked /\ NoneTaken
  BY <1>2, <1>5, <1>13 DEF CallFails
<1>14. ASSUME NEW v \in Tokens \cup Resets, Expire(v) PROVE TokensOnlyRevoked /\ NoneTaken
  BY <1>2, <1>3, <1>14 DEF Expire
<1>15. CASE UNCHANGED vars
  BY <1>2, <1>3, <1>15 DEF vars
<1>16. QED
  BY <1>6, <1>7, <1>8, <1>9, <1>11, <1>12, <1>13, <1>14, <1>15
     DEF Next, Request, CallStep, ForgotPassword, ResetPassword, ChangePassword, UpdateMe,
         VerifyEmail

\* A refresh gives up the one live token of the family it takes.
LEMMA RefreshKeepsOne ==
  ASSUME OneTokenInv, TypeOK', NEW h \in Handlers, NEW t \in Tokens, Refresh(h, t)
  PROVE  OneTokenInv'
<1> DEFINE f == tokens[t].family
<1> USE DEF Live
<1>1. TypeOK /\ tokens[t] \in Token /\ f \in Tokens /\ tokens[t] # None /\ Live(t)
  BY TokenTyped DEF OneTokenInv, Refresh
<1>2. tokens' = [tokens EXCEPT ![t] = [tokens[t] EXCEPT !.revoked = TRUE]]
  BY DEF Refresh
<1>3. /\ tokens'[t] # None /\ tokens'[t].family = f /\ ~Live(t)'
      /\ \A s \in Tokens \ {t} : tokens'[s] = tokens[s]
  BY <1>1, <1>2, Revoked, NoneIsNoCall DEF TypeOK
<1>4. \A s \in Tokens : (tokens'[s] = None <=> tokens[s] = None)
                        /\ (tokens[s] # None => tokens'[s].family = tokens[s].family)
  BY <1>1, <1>3
<1>5. \A s \in Tokens : Live(s)' => s # t /\ Live(s) /\ tokens'[s].family = tokens[s].family
  BY <1>3
<1>6. \A s \in Tokens : Live(s)' => tokens[s].family # f
  BY <1>1, <1>5 DEF OneTokenInv, OneLiveToken
<1>7. \A g \in Handlers : ~Carries(g, f)
  BY <1>1 DEF OneTokenInv, NoneCarriedLive
<1>8. \A g \in Handlers, e \in Tokens : Carries(g, e)' => (g = h /\ e = f) \/ Carries(g, e)
  BY <1>1 DEF Refresh, Carries, TypeOK
<1> HIDE DEF f, Live
<1>9. tokens[f] # None
  BY <1>1 DEF OneTokenInv, Rooted, f
<1>10. \A s \in Tokens : tokens[s] # None => tokens[s].family \in Tokens
  BY <1>1, TokenTyped
<1>11. Rooted'
  BY <1>4, <1>8, <1>9, <1>10, <1>1 DEF Rooted, OneTokenInv
<1>12. OneLiveToken'
  BY <1>5 DEF OneLiveToken, OneTokenInv
<1>13. OneCarrier'
  BY <1>7, <1>8 DEF OneCarrier, OneTokenInv
<1>14. ASSUME NEW g \in Handlers, NEW s \in Tokens, Live(s)',
              NEW e \in Tokens, tokens'[s].family = e
       PROVE  ~Carries(g, e)'
  <2>1. Live(s) /\ tokens'[s].family = tokens[s].family /\ tokens[s].family # f
        /\ tokens[s].family \in Tokens
    BY <1>5, <1>6, <1>10, <1>14 DEF Live
  <2>2. QED
    BY <1>8, <1>14, <2>1 DEF OneTokenInv, NoneCarriedLive
<1>15. NoneCarriedLive'
  <2>1. \A s \in Tokens : Live(s)' => tokens'[s].family \in Tokens
    BY <1>5, <1>10 DEF Live
  <2>2. QED
    BY <1>14, <2>1 DEF NoneCarriedLive
<1>16. QED
  BY <1>11, <1>12, <1>13, <1>15 DEF OneTokenInv

\* The token a call saves is the only one of its family that is live.
LEMMA IssueKeepsOne ==
  ASSUME OneTokenInv, TypeOK', NEW h \in Handlers, NEW t \in Tokens, IssueTokenPair(h, t)
  PROVE  OneTokenInv'
<1> DEFINE f == IF calls[h].family = None THEN t ELSE calls[h].family
           x == [family |-> f, revoked |-> FALSE]
<1> USE DEF Live
<1>1. TypeOK /\ calls[h] \in Session /\ tokens[t] = None
  BY CallAt DEF OneTokenInv, IssueTokenPair, At
<1>2. f \in Tokens /\ x # None /\ x.family = f
  <2>1. f \in Tokens
    BY <1>1 DEF Session
  <2>2. x \in Token
    BY <2>1 DEF Token
  <2>3. QED
    BY <2>1, <2>2, NoneIsNoCall
<1>3. tokens' = [tokens EXCEPT ![t] = x] /\ calls' = [calls EXCEPT ![h] = None]
  BY DEF IssueTokenPair, End
<1> HIDE DEF x
<1>4. /\ tokens'[t] = x
      /\ \A s \in Tokens \ {t} : tokens'[s] = tokens[s]
  BY <1>1, <1>3 DEF TypeOK
<1>5. \A g \in Handlers : \A e : Carries(g, e)' => g # h /\ Carries(g, e)
  BY <1>1, <1>3, NoneIsNoCall DEF Carries, TypeOK
<1>6. \A s \in Tokens : tokens[s] # None => tokens[s].family \in Tokens
  BY <1>1, TokenTyped
<1>7. f = t \/ Carries(h, f)
  BY <1>1 DEF Carries, Session
<1> HIDE DEF f
<1>8. \A s \in Tokens : Live(s) => tokens[s].family # f
  <2>1. \A s \in Tokens : Live(s) => tokens[s].family # t
    BY <1>1 DEF OneTokenInv, Rooted
  <2>2. QED
    BY <1>7, <2>1 DEF OneTokenInv, NoneCarriedLive
<1>9. \A g \in Handlers \ {h} : ~Carries(g, f)
  <2>1. \A g \in Handlers : ~Carries(g, t)
    BY <1>1 DEF OneTokenInv, Rooted
  <2>2. QED
    BY <1>2, <1>7, <2>1 DEF OneTokenInv, OneCarrier
<1>10. tokens'[f] # None
  BY <1>2, <1>4, <1>7 DEF OneTokenInv, Rooted
<1>11. Rooted'
  <2>1. \A s \in Tokens : tokens[s] # None => tokens'[s] # None
    BY <1>1, <1>4
  <2>2. \A s \in Tokens : tokens'[s] # None => tokens'[tokens'[s].family] # None
    BY <1>2, <1>4, <1>6, <1>10, <2>1 DEF OneTokenInv, Rooted
  <2>3. QED
    BY <1>5, <2>1, <2>2 DEF OneTokenInv, Rooted
<1>12. OneLiveToken'
  BY <1>2, <1>4, <1>8 DEF OneLiveToken, OneTokenInv
<1>13. OneCarrier'
  BY <1>5 DEF OneCarrier, OneTokenInv
<1>14. NoneCarriedLive'
  BY <1>2, <1>4, <1>5, <1>9 DEF NoneCarriedLive, OneTokenInv
<1>15. QED
  BY <1>11, <1>12, <1>13, <1>14 DEF OneTokenInv

LEMMA OneTokenInit == Init => OneTokenInv
BY TypeInit, NoneIsNoCall
   DEF Init, OneTokenInv, Rooted, OneLiveToken, OneCarrier, NoneCarriedLive, Live, Carries

LEMMA OneTokenStep == OneTokenInv /\ [Next]_vars => OneTokenInv'
<1> SUFFICES ASSUME OneTokenInv, [Next]_vars PROVE OneTokenInv'
  OBVIOUS
<1>1. TypeOK /\ TypeOK'
  BY TypeStep DEF OneTokenInv
<1>2. QED
  BY <1>1, OthersTakeNone, RevokingKeepsOne, RefreshKeepsOne, IssueKeepsOne

\* OneLiveToken: however logins, refreshes, logouts and revocations overlap and
\* fail, a session never has two refresh tokens that are good.
THEOREM SessionsHaveOneToken == Spec => []OneLiveToken
<1>1. OneTokenInv => OneLiveToken
  BY DEF OneTokenInv
<1>2. QED
  BY <1>1, OneTokenInit, OneTokenStep, PTL DEF Spec

-----------------------------------------------------------------------------
(* The rotation is a relay: the steps of Sessions, by what they do to the  *)
(* holders of the sessions, are steps of Relay.                            *)

\* What the holders of a session are, one by one.
LEMMA Holders ==
  ASSUME NEW f \in Tokens
  PROVE  /\ \A t \in Tokens : t \in TokenOf[f] <=> Live(t) /\ tokens[t].family = f
         /\ \A h \in Handlers : h \in CallOf[f] <=> Carries(h, f)
         /\ TokenOf[f] \subseteq Tokens /\ CallOf[f] \subseteq Handlers
         /\ \A t \in Tokens : t \in TokenOf'[f] <=> Live(t)' /\ tokens'[t].family = f
         /\ \A h \in Handlers : h \in CallOf'[f] <=> Carries(h, f)'
         /\ TokenOf'[f] \subseteq Tokens /\ CallOf'[f] \subseteq Handlers
BY DEF TokenOf, CallOf

\* A step leaves the holders of a session as they are if it does so one by one.
LEMMA SameHolders ==
  ASSUME NEW f \in Tokens
  PROVE  /\ (\A t \in Tokens : t \in TokenOf'[f] <=> t \in TokenOf[f]) => TokenOf'[f] = TokenOf[f]
         /\ (\A h \in Handlers : Carries(h, f)' <=> Carries(h, f)) => CallOf'[f] = CallOf[f]
<1>1. ASSUME \A t \in Tokens : t \in TokenOf'[f] <=> t \in TokenOf[f]
      PROVE  TokenOf'[f] = TokenOf[f]
  <2>1. \A t : t \in TokenOf'[f] <=> t \in TokenOf[f]
    BY <1>1, Holders
  <2>2. QED
    BY <2>1
<1>2. ASSUME \A h \in Handlers : Carries(h, f)' <=> Carries(h, f)
      PROVE  CallOf'[f] = CallOf[f]
  BY <1>2 DEF CallOf
<1>3. QED
  BY <1>1, <1>2

\* A session is with one token or with one call.
LEMMA OneHolder ==
  ASSUME OneTokenInv, NEW f \in Tokens
  PROVE  /\ \A t \in TokenOf[f] : TokenOf[f] = {t} /\ CallOf[f] = {}
         /\ \A h \in CallOf[f] : CallOf[f] = {h} /\ TokenOf[f] = {}
<1>1. \A s, t \in TokenOf[f] : s = t
  BY Holders DEF OneTokenInv, OneLiveToken
<1>2. \A g, h \in CallOf[f] : g = h
  BY Holders DEF OneTokenInv, OneCarrier
<1>3. \A t \in TokenOf[f], h \in CallOf[f] : FALSE
  BY Holders DEF OneTokenInv, NoneCarriedLive
<1>4. QED
  BY <1>1, <1>2, <1>3

\* A call has taken over one session at most.
LEMMA OneSessionACall ==
  ASSUME NEW h \in Handlers, NEW e \in Tokens, NEW f \in Tokens
  PROVE  /\ Carries(h, e) /\ Carries(h, f) => e = f
         /\ Carries(h, e)' /\ Carries(h, f)' => e = f
BY DEF Carries

\* A revocation, of whatever tokens.
LEMMA RevokingRelays ==
  ASSUME OneTokenInv, TokensOnlyRevoked, UNCHANGED CallOf
  PROVE  Rotation!RelayNext
<1> DEFINE S == {f \in Tokens : TokenOf'[f] = {}}
<1>1. Issued' = Issued
  BY DEF Issued, TokensOnlyRevoked
<1>2. ASSUME NEW f \in Tokens PROVE TokenOf'[f] \subseteq TokenOf[f]
  BY Holders DEF TokensOnlyRevoked, Live
<1>3. ASSUME NEW f \in Tokens, TokenOf'[f] # {} PROVE TokenOf'[f] = TokenOf[f]
  <2>1. PICK t \in TokenOf'[f] : TRUE
    BY <1>3
  <2>2. TokenOf[f] = {t}
    BY <1>2, <2>1, OneHolder
  <2>3. QED
    BY <1>2, <2>1, <2>2
<1>4. TokenOf' = [f \in Tokens |-> IF f \in S THEN {} ELSE TokenOf[f]]
  BY <1>3 DEF TokenOf
<1>5. Rotation!Revoke(S)
  BY <1>1, <1>4 DEF Rotation!Revoke
<1>6. QED
  BY <1>5 DEF Rotation!RelayNext

\* A call goes on or ends, and the tokens stay as they are.
LEMMA EndingRelays ==
  ASSUME OneTokenInv, UNCHANGED tokens, NoneTaken,
         NEW h \in Handlers, \A g \in Handlers \ {h} : calls'[g] = calls[g]
  PROVE  Rotation!RelayNext \/ UNCHANGED Rotation!relayVars
<1>1. Issued' = Issued /\ TokenOf' = TokenOf
  BY DEF Issued, TokenOf, Live
<1>2. ASSUME NEW f \in Tokens, NEW g \in Handlers \ {h} PROVE Carries(g, f)' <=> Carries(g, f)
  BY DEF Carries
<1>3. CASE \E f \in Tokens : Carries(h, f) /\ ~Carries(h, f)'
  <2>1. PICK f \in Tokens : Carries(h, f) /\ ~Carries(h, f)'
    BY <1>3
  <2>2. CallOf[f] = {h}
    BY <2>1, OneHolder, Holders
  <2>3. CallOf'[f] = {}
    BY <1>2, <2>1, <2>2, Holders
  <2>4. ASSUME NEW e \in Tokens \ {f} PROVE CallOf'[e] = CallOf[e]
    <3>1. ~Carries(h, e) /\ ~Carries(h, e)'
      BY <2>1, OneSessionACall DEF NoneTaken
    <3>2. QED
      BY <1>2, <3>1, SameHolders
  <2>5. CallOf' = [CallOf EXCEPT ![f] = {}]
    BY <2>3, <2>4 DEF CallOf
  <2>6. Rotation!Drop(f, h)
    BY <1>1, <2>2, <2>5 DEF Rotation!Drop
  <2>7. QED
    BY <2>6 DEF Rotation!RelayNext
<1>4. CASE \A f \in Tokens : Carries(h, f) => Carries(h, f)'
  <2>1. ASSUME NEW f \in Tokens PROVE CallOf'[f] = CallOf[f]
    BY <1>2, <1>4, SameHolders DEF NoneTaken
  <2>2. CallOf' = CallOf
    BY <2>1 DEF CallOf
  <2>3. QED
    BY <1>1, <2>2 DEF Rotation!relayVars
<1>5. QED
  BY <1>3, <1>4

\* A refresh takes the session over from its token.
LEMMA RefreshRelays ==
  ASSUME OneTokenInv, NEW h \in Handlers, NEW t \in Tokens, Refresh(h, t)
  PROVE  Rotation!RelayNext
<1> DEFINE f == tokens[t].family
<1>1. TypeOK /\ tokens[t] \in Token /\ f \in Tokens /\ tokens[t] # None /\ Live(t) /\ calls[h] = None
  BY TokenTyped DEF OneTokenInv, Refresh, Live, Idle
<1>2. /\ tokens'[t] # None /\ ~Live(t)'
      /\ \A s \in Tokens \ {t} : tokens'[s] = tokens[s]
  BY <1>1, Revoked, NoneIsNoCall DEF Refresh, TypeOK, Live
<1>3. calls'[h] = [pc |-> "load", family |-> f] /\ \A g \in Handlers \ {h} : calls'[g] = calls[g]
  BY <1>1 DEF Refresh, TypeOK
<1> HIDE DEF f
<1>4. Issued' = Issued
  BY <1>1, <1>2 DEF Issued
<1>5. TokenOf[f] = {t} /\ CallOf[f] = {}
  BY <1>1, OneHolder, Holders DEF f
<1>6. ASSUME NEW r \in Tokens PROVE h \notin CallOf[r]
  BY <1>1, NoneIsNoCall, Holders DEF Carries
<1>7. \A s \in Tokens \ {t} : Live(s)' <=> Live(s)
  BY <1>2 DEF Live
<1>8. TokenOf'[f] = {}
  BY <1>1, <1>2, <1>5, <1>7, Holders
<1>9. ASSUME NEW e \in Tokens \ {f} PROVE TokenOf'[e] = TokenOf[e]
  <2>1. t \notin TokenOf[e] /\ t \notin TokenOf'[e]
    BY <1>1, <1>2, Holders DEF f
  <2>2. \A s \in Tokens \ {t} : s \in TokenOf'[e] <=> s \in TokenOf[e]
    BY <1>2, <1>7, Holders
  <2>3. QED
    BY <2>1, <2>2, SameHolders
<1>10. TokenOf' = [TokenOf EXCEPT ![f] = {}]
  BY <1>8, <1>9 DEF TokenOf
<1>11. ASSUME NEW e \in Tokens, NEW g \in Handlers
       PROVE  Carries(g, e)' <=> IF g = h THEN e = f ELSE Carries(g, e)
  <2>1. [pc |-> "load", family |-> f] \in Session
    BY <1>1 DEF Session
  <2>2. QED
    BY <1>3, <2>1 DEF Carries
<1>12. CallOf'[f] = {h}
  BY <1>1, <1>5, <1>11, Holders
<1>13. ASSUME NEW e \in Tokens \ {f} PROVE CallOf'[e] = CallOf[e]
  <2>1. \A g \in Handlers : Carries(g, e)' <=> Carries(g, e)
    BY <1>6, <1>11, Holders
  <2>2. QED
    BY <2>1, SameHolders
<1>14. CallOf' = [CallOf EXCEPT ![f] = {h}]
  BY <1>12, <1>13 DEF CallOf
<1>15. Rotation!Take(f, t, h)
  BY <1>4, <1>5, <1>6, <1>10, <1>14 DEF Rotation!Take
<1>16. QED
  BY <1>1, <1>15 DEF Rotation!RelayNext

\* A call saves the token it makes: the first of a session or the next.
LEMMA IssueRelays ==
  ASSUME OneTokenInv, NEW h \in Handlers, NEW t \in Tokens, IssueTokenPair(h, t)
  PROVE  Rotation!RelayNext
<1> DEFINE f == IF calls[h].family = None THEN t ELSE calls[h].family
           x == [family |-> f, revoked |-> FALSE]
<1>1. TypeOK /\ calls[h] \in Session /\ tokens[t] = None
  BY CallAt DEF OneTokenInv, IssueTokenPair, At
<1>2. f \in Tokens /\ x # None /\ x.family = f /\ x.revoked = FALSE
  <2>1. f \in Tokens
    BY <1>1 DEF Session
  <2>2. x \in Token
    BY <2>1 DEF Token
  <2>3. QED
    BY <2>1, <2>2, NoneIsNoCall
<1>3. tokens' = [tokens EXCEPT ![t] = x] /\ calls' = [calls EXCEPT ![h] = None]
  BY DEF IssueTokenPair, End
<1>4. \/ calls[h].family = None /\ f = t /\ \A e \in Tokens : ~Carries(h, e)
      \/ Carries(h, f)
  BY <1>1, <1>2, NoneAssumption DEF Carries, Session, NoneAssumption
<1> HIDE DEF x, f
<1>5. tokens'[t] = x /\ \A s \in Tokens \ {t} : tokens'[s] = tokens[s]
  BY <1>1, <1>2, <1>3 DEF TypeOK
<1>6. ASSUME NEW e \in Tokens, NEW g \in Handlers
      PROVE  Carries(g, e)' <=> g # h /\ Carries(g, e)
  BY <1>1, <1>2, <1>3, NoneIsNoCall DEF Carries, TypeOK
<1>7. t \notin Issued /\ Issued' = Issued \cup {t}
  BY <1>1, <1>2, <1>5 DEF Issued
<1>8. ~Live(t) /\ Live(t)' /\ \A s \in Tokens \ {t} : Live(s)' <=> Live(s)
  BY <1>1, <1>2, <1>5 DEF Live
<1>9. TokenOf[f] = {}
  <2>1. CASE Carries(h, f)
    BY <1>1, <1>2, <2>1, OneHolder, Holders
  <2>2. CASE f = t
    <3>1. \A s \in Tokens : Live(s) => tokens[s].family # t
      BY <1>1 DEF OneTokenInv, Rooted, Live
    <3>2. QED
      BY <2>2, <3>1, Holders
  <2>3. QED
    BY <1>4, <2>1, <2>2
<1>10. TokenOf'[f] = {t}
  <2>1. t \in TokenOf'[f]
    BY <1>1, <1>2, <1>5, <1>8, Holders
  <2>2. \A s \in Tokens \ {t} : s \notin TokenOf'[f]
    BY <1>1, <1>2, <1>5, <1>8, <1>9, Holders
  <2>3. QED
    BY <1>1, <1>2, <2>1, <2>2, Holders
<1>11. ASSUME NEW e \in Tokens \ {f} PROVE TokenOf'[e] = TokenOf[e]
  <2>1. t \notin TokenOf[e] /\ t \notin TokenOf'[e]
    BY <1>2, <1>5, <1>8, Holders
  <2>2. \A s \in Tokens \ {t} : s \in TokenOf'[e] <=> s \in TokenOf[e]
    BY <1>5, <1>8, Holders
  <2>3. QED
    BY <2>1, <2>2, SameHolders
<1>12. TokenOf' = [TokenOf EXCEPT ![f] = {t}]
  BY <1>10, <1>11 DEF TokenOf
<1>13. CASE Carries(h, f)
  <2>1. CallOf[f] = {h}
    BY <1>1, <1>2, <1>13, OneHolder, Holders
  <2>2. CallOf'[f] = {}
    BY <1>1, <1>2, <1>6, <2>1, Holders
  <2>3. ASSUME NEW e \in Tokens \ {f} PROVE CallOf'[e] = CallOf[e]
    <3>1. ~Carries(h, e)
      BY <1>1, <1>2, <1>13, OneSessionACall
    <3>2. QED
      BY <1>6, <3>1, SameHolders
  <2>4. CallOf' = [CallOf EXCEPT ![f] = {}]
    BY <2>2, <2>3 DEF CallOf
  <2>5. Rotation!Hand(f, h, t)
    BY <1>7, <1>9, <1>12, <2>1, <2>4 DEF Rotation!Hand
  <2>6. QED
    BY <1>1, <1>2, <2>5 DEF Rotation!RelayNext
<1>14. CASE f = t /\ \A e \in Tokens : ~Carries(h, e)
  <2>1. ASSUME NEW e \in Tokens PROVE CallOf'[e] = CallOf[e]
    BY <1>6, <1>14, SameHolders
  <2>2. CallOf' = CallOf
    BY <2>1 DEF CallOf
  <2>3. Rotation!Open(t)
    BY <1>7, <1>12, <1>14, <2>2 DEF Rotation!Open
  <2>4. QED
    BY <2>3 DEF Rotation!RelayNext
<1>15. QED
  BY <1>4, <1>13, <1>14

\* No other step both revokes a token and ends a call that had taken one.
LEMMA OthersMoveOne ==
  ASSUME TypeOK, [Next]_vars,
         ~ \E h \in Handlers, t \in Tokens : Refresh(h, t) \/ IssueTokenPair(h, t)
  PROVE  \/ UNCHANGED CallOf
         \/ UNCHANGED tokens /\ \E h \in Handlers : \A g \in Handlers \ {h} : calls'[g] = calls[g]
<1>1. ASSUME UNCHANGED calls PROVE UNCHANGED CallOf
  BY <1>1 DEF CallOf, Carries
<1>2. ASSUME NEW h \in Handlers, NEW c, calls' = [calls EXCEPT ![h] = c]
      PROVE  \A g \in Handlers \ {h} : calls'[g] = calls[g]
  BY <1>2 DEF TypeOK
<1>3. ASSUME NEW h \in Handlers,
             \/ Login(h) \/ LoadUser(h) \/ UpdateUser(h) \/ CallFails(h)
             \/ \E op, image : Read(h, op, image)
      PROVE  UNCHANGED tokens /\ \A g \in Handlers \ {h} : calls'[g] = calls[g]
  BY <1>2, <1>3 DEF Login, LoadUser, UpdateUser, CallFails, Read, End
<1>4. ASSUME NEW h \in Handlers, RevokeAllForUser(h) PROVE UNCHANGED CallOf
  <2>1. calls[h] \notin Session /\ calls' = [calls EXCEPT ![h] = None]
    BY <1>4 DEF RevokeAllForUser, At, Session, End
  <2>2. ASSUME NEW e \in Tokens, NEW g \in Handlers PROVE Carries(g, e)' <=> Carries(g, e)
    BY <2>1, NoneIsNoCall DEF Carries, TypeOK
  <2>3. QED
    BY <2>2 DEF CallOf
<1>5. ASSUME \/ \E t \in Tokens : Logout(t)
             \/ \E v \in Tokens \cup Resets : Expire(v)
             \/ UNCHANGED vars
      PROVE  UNCHANGED CallOf
  BY <1>1, <1>5 DEF Logout, Expire, vars
<1>6. QED
  BY <1>3, <1>4, <1>5
     DEF Next, Request, CallStep, ForgotPassword, ResetPassword, ChangePassword, UpdateMe,
         VerifyEmail

LEMMA RelayInitial == Init => Rotation!RelayInit
<1> SUFFICES ASSUME Init PROVE Rotation!RelayInit
  OBVIOUS
<1>1. Issued = {}
  BY DEF Init, Issued
<1>2. ASSUME NEW f \in Tokens PROVE TokenOf[f] = {} /\ CallOf[f] = {}
  BY NoneIsNoCall DEF Init, TokenOf, CallOf, Live, Carries
<1>3. QED
  BY <1>1, <1>2 DEF Rotation!RelayInit, TokenOf, CallOf

LEMMA RelayStep ==
  ASSUME OneTokenInv, [Next]_vars
  PROVE  Rotation!RelayNext \/ UNCHANGED Rotation!relayVars
<1>1. CASE \E h \in Handlers, t \in Tokens : Refresh(h, t) \/ IssueTokenPair(h, t)
  BY <1>1, RefreshRelays, IssueRelays
<1>2. CASE ~ \E h \in Handlers, t \in Tokens : Refresh(h, t) \/ IssueTokenPair(h, t)
  <2>1. TokensOnlyRevoked /\ NoneTaken
    BY <1>2, OthersTakeNone DEF OneTokenInv
  <2>2. \/ UNCHANGED CallOf
        \/ UNCHANGED tokens /\ \E h \in Handlers : \A g \in Handlers \ {h} : calls'[g] = calls[g]
    BY <1>2, OthersMoveOne DEF OneTokenInv
  <2>3. QED
    BY <2>1, <2>2, RevokingRelays, EndingRelays
<1>3. QED
  BY <1>1, <1>2

\* ImplementsRelay: refreshes, logins, logouts, revocations and failures, in
\* any order and number, pass each session from one token to one call to one
\* token that was never issued before, or end it.
THEOREM SessionsImplementRelay == Spec => ImplementsRelay
<1>1. QED
  BY OneTokenInit, OneTokenStep, RelayInitial, RelayStep, PTL
     DEF Spec, ImplementsRelay, Rotation!RelaySpec

-----------------------------------------------------------------------------
(* What has ended does not come back.                                      *)

\* Each step keeps an ended session ended: who has no token and no call of it
\* can neither take nor save one.
LEMMA DeadStep == TypeOK /\ TypeOK' /\ [Next]_vars => \A f \in Tokens : Dead(f) => Dead(f)'
<1> SUFFICES ASSUME TypeOK, TypeOK', [Next]_vars, NEW f \in Tokens, Dead(f)
             PROVE  Dead(f)'
  OBVIOUS
<1>1. ASSUME TokensOnlyRevoked, NoneTaken PROVE Dead(f)'
  BY <1>1 DEF Dead, TokensOnlyRevoked, NoneTaken, Live
<1>2. ASSUME NEW h \in Handlers, NEW t \in Tokens, Refresh(h, t) PROVE Dead(f)'
  <2>1. tokens[t] \in Token /\ tokens[t].family # f
    BY <1>2, TokenTyped DEF Refresh, Dead, Live
  <2>2. \A s \in Tokens : /\ tokens'[s] = None <=> tokens[s] = None
                          /\ Live(s)' => Live(s) /\ tokens'[s].family = tokens[s].family
    BY <1>2, <2>1, Revoked, NoneIsNoCall DEF Refresh, Live, TypeOK
  <2>3. \A g \in Handlers : Carries(g, f)' => Carries(g, f)
    BY <1>2, <2>1 DEF Refresh, Carries, TypeOK
  <2>4. QED
    BY <2>2, <2>3 DEF Dead
<1>3. ASSUME NEW h \in Handlers, NEW t \in Tokens, IssueTokenPair(h, t) PROVE Dead(f)'
  <2>1. calls[h] \in Session /\ tokens[t] = None
    BY <1>3, CallAt DEF IssueTokenPair, At
  <2>2. f # t /\ calls[h].family # f
    BY <2>1 DEF Dead, Carries
  <2>3. \A s \in Tokens \ {t} : tokens'[s] = tokens[s]
    BY <1>3 DEF IssueTokenPair, TypeOK
  <2>4. tokens'[t].family # f
    BY <1>3, <2>2 DEF IssueTokenPair, TypeOK
  <2>5. \A g \in Handlers : Carries(g, f)' => Carries(g, f)
    BY <1>3, NoneIsNoCall DEF IssueTokenPair, End, Carries, TypeOK
  <2>6. QED
    BY <2>2, <2>3, <2>4, <2>5 DEF Dead, Live
<1>4. QED
  BY <1>1, <1>2, <1>3, OthersTakeNone

\* DeadStaysDead: a session that a logout, a change of password or a refresh
\* that failed has ended is not revived by any later call.
THEOREM EndedSessionsStayEnded == Spec => DeadStaysDead
<1>1. TypeOK /\ TypeOK' /\ [Next]_vars => [\A f \in Tokens : Dead(f) => Dead(f)']_vars
  BY DeadStep
<1>2. QED
  BY <1>1, TypeInit, TypeStep, PTL DEF Spec, DeadStaysDead

\* Where an image comes from: the row as it is, or what is minted with it.
FromRow(image) ==
  /\ image.hash = row.hash \/ image.hash \in minted' \ minted
  /\ image.reset \in {row.reset, None} \/ image.reset \in minted' \ minted

\* The user's row is an image some call had in hand.
FromHand ==
  row' = row \/ \E h \in Handlers : calls[h] \in Edit /\ row' = calls[h].image

LEMMA RowAndImages ==
  ASSUME TypeOK, [Next]_vars
  PROVE  /\ FromHand /\ minted \subseteq minted'
         /\ \A h \in Handlers : calls'[h] \in Edit => \/ calls'[h] = calls[h]
                                                      \/ FromRow(calls'[h].image)
<1> DEFINE Kept == \A h \in Handlers : calls'[h] \in Edit => \/ calls'[h] = calls[h]
                                                             \/ FromRow(calls'[h].image)
           Goal == FromHand /\ minted \subseteq minted' /\ Kept
<1>1. ASSUME NEW h \in Handlers, NEW c, calls' = [calls EXCEPT ![h] = c], c \notin Edit
      PROVE  Kept
  BY <1>1 DEF TypeOK
<1>2. None \notin Edit
  BY NoneIsNoCall
<1>3. ASSUME NEW h \in Handlers, End(h) PROVE Kept
  BY <1>1, <1>2, <1>3 DEF End
<1>4. ASSUME NEW op, NEW h \in Handlers, NEW image \in Row, Read(h, op, image), FromRow(image),
             minted \subseteq minted'
      PROVE  Goal
  <2>1. calls'[h].image = image /\ \A g \in Handlers \ {h} : calls'[g] = calls[g]
    BY <1>4 DEF Read, TypeOK
  <2>2. QED
    BY <1>4, <2>1 DEF Read, FromHand
<1>5. row \in Row /\ \A v : Mint(v) => minted \subseteq minted' /\ v \in minted' \ minted
  BY DEF TypeOK, Mint
<1>6. ASSUME NEW h \in Handlers, NEW k \in Resets, ForgotPassword(h, k) PROVE Goal
  <2>1. [row EXCEPT !.reset = k] \in Row /\ FromRow([row EXCEPT !.reset = k])
    BY <1>5, <1>6 DEF ForgotPassword, Row, FromRow
  <2>2. QED
    BY <1>4, <1>5, <1>6, <2>1 DEF ForgotPassword
<1>7. ASSUME NEW h \in Handlers, NEW p \in Hashes, ResetPassword(h, p) PROVE Goal
  <2> DEFINE image == [row EXCEPT !.hash = p, !.reset = None]
  <2>1. image \in Row /\ FromRow(image)
    BY <1>5, <1>7 DEF ResetPassword, Row, FromRow
  <2>2. QED
    BY <1>4, <1>5, <1>7, <2>1 DEF ResetPassword
<1>8. ASSUME NEW h \in Handlers, NEW p \in Hashes, ChangePassword(h, p) PROVE Goal
  <2>1. [row EXCEPT !.hash = p] \in Row /\ FromRow([row EXCEPT !.hash = p])
    BY <1>5, <1>8 DEF ChangePassword, Row, FromRow
  <2>2. QED
    BY <1>4, <1>5, <1>8, <2>1 DEF ChangePassword
<1>9. ASSUME NEW h \in Handlers, UpdateMe(h) \/ VerifyEmail(h) PROVE Goal
  <2>1. /\ [row EXCEPT !.active = TRUE] \in Row /\ FromRow([row EXCEPT !.active = TRUE])
        /\ FromRow(row)
    BY <1>5 DEF Row, FromRow
  <2>2. QED
    BY <1>4, <1>5, <1>9, <2>1 DEF UpdateMe, VerifyEmail
<1>10. ASSUME NEW h \in Handlers, UpdateUser(h) PROVE Goal
  <2>1. calls[h] \in Edit /\ [pc |-> "revoke"] \notin Edit
    BY <1>10, CallAt DEF UpdateUser, At, Edit
  <2>2. QED
    BY <1>1, <1>3, <1>10, <2>1 DEF UpdateUser, FromHand
<1>11. ASSUME NEW h \in Handlers,
              \/ Login(h) \/ LoadUser(h)
              \/ \E t \in Tokens : Refresh(h, t) \/ IssueTokenPair(h, t)
       PROVE  Goal
  <2>1. ASSUME NEW c \in Session PROVE c \notin Edit
    BY DEF Session, Edit
  <2>2. CASE Login(h) \/ \E t \in Tokens : IssueTokenPair(h, t)
    <3>1. [pc |-> "issue", family |-> None] \in Session
      BY DEF Session
    <3>2. QED
      BY <1>1, <1>3, <2>1, <2>2, <3>1 DEF Login, IssueTokenPair, FromHand
  <2>3. ASSUME NEW t \in Tokens, Refresh(h, t) PROVE Goal
    <3>1. [pc |-> "load", family |-> tokens[t].family] \in Session
      BY <2>3, TokenTyped DEF Refresh, Live, Session
    <3>2. QED
      BY <1>1, <2>1, <2>3, <3>1 DEF Refresh, FromHand
  <2>4. CASE LoadUser(h)
    <3>1. calls[h] \in Session
      BY <2>4, CallAt DEF LoadUser, At
    <3>2. [calls[h] EXCEPT !.pc = "issue"] \in Session
      BY <3>1 DEF Session
    <3>3. QED
      BY <1>1, <1>3, <2>1, <2>4, <3>2 DEF LoadUser, FromHand
  <2>5. QED
    BY <1>11, <2>2, <2>3, <2>4
<1>12. ASSUME NEW h \in Handlers, RevokeAllForUser(h) \/ CallFails(h) PROVE Goal
  BY <1>3, <1>12 DEF RevokeAllForUser, CallFails, FromHand
<1>13. ASSUME UNCHANGED <<row, calls, minted>> PROVE Goal
  BY <1>13 DEF FromHand
<1>14. QED
  BY <1>6, <1>7, <1>8, <1>9, <1>10, <1>11, <1>12, <1>13
     DEF Next, Request, CallStep, Logout, Expire, vars

LEMMA ReplacedStep ==
  TypeOK /\ [Next]_vars => \A v \in Hashes \cup Resets : Replaced(v) => Replaced(v)'
<1> SUFFICES ASSUME TypeOK, [Next]_vars, NEW v \in Hashes \cup Resets, Replaced(v)
             PROVE  Replaced(v)'
  OBVIOUS
<1>1. v # None
  BY NoneAssumption DEF NoneAssumption
<1>2. row'.hash # v /\ row'.reset # v /\ v \in minted'
  BY RowAndImages DEF Replaced, FromHand
<1>3. ASSUME NEW h \in Handlers, calls'[h] \in Edit
      PROVE  calls'[h].image.hash # v /\ calls'[h].image.reset # v
  BY <1>1, <1>3, RowAndImages DEF Replaced, FromRow
<1>4. QED
  BY <1>2, <1>3 DEF Replaced

\* ReplacedStaysReplaced: a whole-row write may bring back what its call has
\* read, but a hash or reset token that no call still holds is gone for good.
THEOREM ReplacedSecretsStayReplaced == Spec => ReplacedStaysReplaced
<1>1. TypeOK /\ [Next]_vars =>
        [\A v \in Hashes \cup Resets : Replaced(v) => Replaced(v)']_vars
  BY ReplacedStep
<1>2. QED
  BY <1>1, TypeInit, TypeStep, PTL DEF Spec, ReplacedStaysReplaced
=============================================================================
