------------------------------ MODULE MCServices ------------------------------
(***************************************************************************)
(* One run for the smaller components.  They share nothing and no property *)
(* is about two of them, so a behaviour moves one, chosen at the start,    *)
(* and leaves the others where they begin: the states add up instead of    *)
(* multiplying.                                                            *)
(***************************************************************************)
CONSTANTS None, Handlers

VARIABLES
  moving,  \* the component this behaviour is about
  \* Workspaces
  orgs, spaces, members, keys, orgKeys, users, used, calls,
  \* Accounts
  tenants, accounts, roles, tokens, requests, topic,
  position, at, committed, audit, lost, restarts,
  \* Channels
  channels, buckets, edits, told,
  \* VideoStreams
  streams, objects, urls, streamCalls, created, owner, latest, excused,
  \* Ingestion
  raw, sent, call, dlq

CONSTANTS Orgs, Spaces, Keys, OrgKeys, Users, Home, Slugs, Roles
W == INSTANCE Workspaces

CONSTANTS Requests, Emails, FirstOrg, MaxRestarts, OtherEvents, Garbled, MaxOthers
C == INSTANCE Accounts

CONSTANTS Ids, Days, DefaultDays
R == INSTANCE Channels

CONSTANTS Streams, StorageKeys, Statuses, Pending
V == INSTANCE VideoStreams

CONSTANTS Calls, Points, MaxAttempts
P == INSTANCE Ingestion

ASSUME ServicesAssumption ==
  /\ W!HomeAssumption /\ W!NoneAssumption
  /\ C!OtherEventsAssumption /\ C!RestartsAssumption /\ C!S!FirstOrgAssumption /\ C!S!NoneAssumption
  /\ R!DaysAssumption /\ R!NoneAssumption
  /\ V!PendingAssumption /\ V!NoneAssumption
  /\ P!MaxAttemptsAssumption /\ P!NoneAssumption

\* All users belong to one organisation at the start.
CONSTANT o1
AllInOne == [u \in Users |-> o1]

workspacesVars == <<orgs, spaces, members, keys, orgKeys, users, used, calls>>
accountsVars == <<tenants, accounts, roles, tokens, requests, topic,
                  position, at, committed, audit, lost, restarts>>
channelsVars == <<channels, buckets, edits, told>>
streamsVars == <<streams, objects, urls, streamCalls, created, owner, latest, excused>>
ingestionVars == <<raw, sent, call, dlq>>
vars == <<moving, workspacesVars, accountsVars, channelsVars, streamsVars, ingestionVars>>

Components == {"workspaces", "accounts", "channels", "streams", "ingestion"}

TypeOK ==
  /\ moving \in Components
  /\ W!TypeOK /\ C!TypeOK /\ R!TypeOK /\ V!TypeOK /\ P!TypeOK

Init ==
  /\ moving \in Components
  /\ W!Init /\ C!Init /\ R!Init /\ V!Init /\ P!Init

WorkspacesMove == /\ moving = "workspaces" /\ W!Next
                  /\ UNCHANGED <<moving, accountsVars, channelsVars, streamsVars, ingestionVars>>
AccountsMove == /\ moving = "accounts" /\ C!Next
                /\ UNCHANGED <<moving, workspacesVars, channelsVars, streamsVars, ingestionVars>>
ChannelsMove == /\ moving = "channels" /\ R!Next
                /\ UNCHANGED <<moving, workspacesVars, accountsVars, streamsVars, ingestionVars>>
StreamsMove == /\ moving = "streams" /\ V!Next
               /\ UNCHANGED <<moving, workspacesVars, accountsVars, channelsVars, ingestionVars>>
IngestionMoves == /\ moving = "ingestion" /\ P!Next
                  /\ UNCHANGED <<moving, workspacesVars, accountsVars, channelsVars, streamsVars>>

Next == WorkspacesMove \/ AccountsMove \/ ChannelsMove \/ StreamsMove \/ IngestionMoves

Spec == Init /\ [][Next]_vars /\ C!Fairness

-----------------------------------------------------------------------------
(* The properties of the components, each as its own module states it.     *)

\* Workspaces: whatever the order of creations and deletions of organisations,
\* workspaces, members and workspace keys, no row outlives its parent.
RowsHaveParents == W!RowsHaveParents

\* Signup: whoever SelfSignup or Register has answered, or has announced, has
\* the whole account, and only a call at work or refused leaves half of one.
SignupIsWhole == C!S!SignupIsWhole

\* AuditLog: an event AuditConsumer has committed is recorded, or its record
\* failed.
CommittedIsAudited == C!A!CommittedIsAudited

\* Accounts: an account announced on user.events comes to the audit log.
RegistrationsAudited == C!RegistrationsAudited

\* Channels: SetRetention leaves a bucket with a period somebody asked for, or
\* without a limit.
RetentionAsTold == R!RetentionAsTold

\* VideoStreams: the row of a stream leads to its last recording, and a deleted
\* stream leaves none.
RecordingFollowsRow == V!RecordingFollowsRow

\* Ingestion: a device call answered 201 has its whole batch on the topic.
CreatedIsLogged == P!CreatedIsLogged
=============================================================================
