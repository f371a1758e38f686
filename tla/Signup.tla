-------------------------------- MODULE Signup --------------------------------
(***************************************************************************)
(* How an account comes into being in the iam service: SelfSignup, which   *)
(* makes an organisation of its own, and Register, which joins one.        *)
(*                                                                         *)
(* Each is a row of statements without a transaction around them.  Another *)
(* request, a failed statement or the deletion of the organisation may     *)
(* come between any two, and nothing that was written is taken back.       *)
(***************************************************************************)
EXTENDS Sequences

CONSTANTS
  Requests,  \* calls of either operation, at most one of each: a bound
  Emails,
  FirstOrg,      \* an organisation that is there from the start
  None

\* uuid.New names the organisation of a sign-up and the user of any request:
\* both ids are written as the request itself.
FirstOrgAssumption == FirstOrg \notin Requests

VARIABLES
  tenants, accounts, roles, tokens,  \* Postgres: orgs, users, user_roles, refresh_tokens
  requests,                    \* what each request asks and where it is, or None
  topic                        \* Kafka: user.events

tables == <<tenants, accounts, roles, tokens>>
signupVars == <<tables, requests>>

Tenants == Requests \cup {FirstOrg}

\* The order of the statements of each operation.
After(op, pc) ==
  CASE pc = "check" -> IF op = "signup" THEN "org" ELSE "user"
    [] pc = "org" -> "user"
    [] pc = "user" -> "roles"
    [] pc = "roles" -> IF op = "signup" THEN "tokens" ELSE "publish"
    [] pc = "tokens" -> "publish"
    [] pc = "publish" -> "done"

Statements == {"check", "org", "user", "roles", "tokens"}
Request ==
  [op : {"signup", "register"}, email : Emails, tenant : Tenants,
   pc : Statements \cup {"publish", "done", "failed"}]

NoneAssumption == None \notin Request

TypeOK ==
  /\ tenants \subseteq Tenants
  /\ accounts \subseteq Requests /\ roles \subseteq Requests /\ tokens \subseteq Requests
  /\ requests \in [Requests -> Request \cup {None}]

Init ==
  /\ tenants = {FirstOrg}
  /\ accounts = {} /\ roles = {} /\ tokens = {}
  /\ requests = [r \in Requests |-> None]
  /\ topic = <<>>

At(r, pc) == requests[r] # None /\ requests[r].pc = pc
Goto(r, pc) == requests' = [requests EXCEPT ![r].pc = pc]
GoOn(r) == Goto(r, After(requests[r].op, requests[r].pc))

-----------------------------------------------------------------------------
Signup(r, email) ==
  /\ requests[r] = None
  /\ requests' = [requests EXCEPT ![r] =
                    [op |-> "signup", email |-> email, tenant |-> r, pc |-> "check"]]
  /\ UNCHANGED <<tables, topic>>

\* The tenant is any id the caller writes into the request.
Register(r, email, tenant) ==
  /\ requests[r] = None
  /\ tenant # r
  /\ requests' = [requests EXCEPT ![r] =
                    [op |-> "register", email |-> email, tenant |-> tenant, pc |-> "check"]]
  /\ UNCHANGED <<tables, topic>>

Taken(email) == \E u \in accounts : requests[u].email = email

\* GetByEmail.  Only a user that was found stops the call: when the lookup
\* itself fails, the call goes on as if the address were free.
CheckEmail(r) ==
  /\ At(r, "check")
  /\ \/ Taken(requests[r].email) /\ Goto(r, "failed")
     \/ GoOn(r)
  /\ UNCHANGED <<tables, topic>>

CreateOrg(r) ==
  /\ At(r, "org")
  /\ tenants' = tenants \cup {r}
  /\ GoOn(r)
  /\ UNCHANGED <<accounts, roles, tokens, topic>>

\* UserRepo.Create: a foreign key to the organisation, a unique address.
CreateUser(r) ==
  /\ At(r, "user")
  /\ IF requests[r].tenant \in tenants /\ ~Taken(requests[r].email)
     THEN accounts' = accounts \cup {r} /\ GoOn(r)
     ELSE accounts' = accounts /\ Goto(r, "failed")
  /\ UNCHANGED <<tenants, roles, tokens, topic>>

\* Mutant: a failure to give the roles is logged, as one to publish is.
SetRolesLogged(r) ==
  /\ At(r, "roles")
  /\ roles' \in {roles, roles \cup ({r} \cap accounts)}
  /\ GoOn(r)
  /\ UNCHANGED <<tenants, accounts, tokens, topic>>

\* UserRepo.SetRoles is a transaction of its own.
SetRoles(r) ==
  /\ At(r, "roles")
  /\ IF r \in accounts
     THEN roles' = roles \cup {r} /\ GoOn(r)
     ELSE roles' = roles /\ Goto(r, "failed")
  /\ UNCHANGED <<tenants, accounts, tokens, topic>>

\* issueTokenPair, of which the refresh token is stored.
IssueTokenPair(r) ==
  /\ At(r, "tokens")
  /\ IF r \in accounts
     THEN tokens' = tokens \cup {r} /\ GoOn(r)
     ELSE tokens' = tokens /\ Goto(r, "failed")
  /\ UNCHANGED <<tenants, accounts, roles, topic>>

\* PublishUserRegistered: an error is logged, and may hide a delivery.
Publish(r) ==
  /\ At(r, "publish")
  /\ topic' \in {topic, Append(topic, r)}
  /\ GoOn(r)
  /\ UNCHANGED tables

\* A statement fails, or the process dies before it: the call ends there.
StatementFails(r) ==
  /\ \E pc \in Statements \ {"check"} : At(r, pc)
  /\ Goto(r, "failed")
  /\ UNCHANGED <<tables, topic>>

\* DeleteOrg of the tenant service, with its cascades.
DeleteOrg(o) ==
  LET kept == {u \in accounts : requests[u].tenant # o} IN
  /\ o \in tenants
  /\ tenants' = tenants \ {o}
  /\ accounts' = kept
  /\ roles' = roles \cap kept
  /\ tokens' = tokens \cap kept
  /\ UNCHANGED <<requests, topic>>

Next ==
  \/ \E r \in Requests :
       \/ \E email \in Emails :
            Signup(r, email) \/ \E tenant \in Tenants : Register(r, email, tenant)
       \/ CheckEmail(r) \/ CreateOrg(r) \/ CreateUser(r) \/ SetRoles(r)
       \/ IssueTokenPair(r) \/ Publish(r) \/ StatementFails(r)
  \/ \E o \in Tenants : DeleteOrg(o)

-----------------------------------------------------------------------------
\* What an account consists of, by how it came to be.
Account(r) ==
  r \in accounts \cap roles /\ (requests[r].op = "signup" => r \in tenants \cap tokens)

\* SelfSignup and Register are several statements: whoever was answered with
\* success, or is announced on the topic, has the whole account as long as the
\* organisation stands; and an organisation without its user, or a user without
\* a role, is left only by a call that is still at it or was refused.
SignupIsWhole ==
  /\ \A r \in Requests :
       /\ At(r, "publish") \/ At(r, "done")
       /\ requests[r].tenant \in tenants
       => Account(r)
  /\ \A r \in tenants \ (accounts \cup {FirstOrg}) : At(r, "user") \/ At(r, "failed")
  /\ \A r \in accounts \ roles : At(r, "roles") \/ At(r, "failed")
=============================================================================
