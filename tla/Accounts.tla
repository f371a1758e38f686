------------------------------- MODULE Accounts -------------------------------
(***************************************************************************)
(* Sign-up in iam and the audit log in supporting, which have the topic    *)
(* user.events between them and share nothing else.                        *)
(***************************************************************************)
EXTENDS Naturals, Sequences

CONSTANTS Requests, Emails, FirstOrg, None, MaxRestarts,
  OtherEvents,  \* what else the producers put on the topic
  Garbled,      \* one of them: an event whose envelope does not decode
  MaxOthers     \* bound: how many of them

OtherEventsAssumption == Garbled \in OtherEvents /\ OtherEvents \cap Requests = {}
RestartsAssumption == MaxRestarts \in Nat

VARIABLES tenants, accounts, roles, tokens, requests, topic,
          position, at, committed, audit, lost, restarts

S == INSTANCE Signup
A == INSTANCE AuditLog

signupVars == <<tenants, accounts, roles, tokens, requests>>
auditVars == <<position, at, committed, audit, lost, restarts>>
vars == <<signupVars, topic, auditVars>>

TypeOK ==
  /\ S!TypeOK
  /\ A!TypeOK
  /\ topic \in Seq(Requests \cup OtherEvents)

Init == S!Init /\ A!Init

\* user.logged_in, user.password_changed, user.email_verified, or a stranger's.
OtherEvent(e) ==
  /\ Len(SelectSeq(topic, LAMBDA x : x \in OtherEvents)) < MaxOthers
  /\ topic' = Append(topic, e)
  /\ UNCHANGED <<signupVars, auditVars>>

Next ==
  \/ S!Next /\ UNCHANGED auditVars
  \/ A!Next /\ UNCHANGED signupVars
  \/ \E e \in OtherEvents : OtherEvent(e)

\* The consumer's loop runs whenever it can; no request has to be made, and
\* none has to come to its end.
Fairness == WF_vars(A!Consume /\ UNCHANGED signupVars)

Spec == Init /\ [][Next]_vars /\ Fairness

-----------------------------------------------------------------------------
Announced(r) == \E i \in A!Offsets : topic[i] = r
Recorded(r) == \E i \in A!Offsets : topic[i] = r /\ A!Settled(i)

\* PublishUserRegistered to EventRepo.Append: every account announced on the
\* topic comes to the audit log, or its record failed once.  One failure never
\* holds the accounts behind it back.
RegistrationsAudited == \A r \in Requests : Announced(r) ~> Recorded(r)
=============================================================================
