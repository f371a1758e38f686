------------------------------ MODULE Workspaces ------------------------------
(***************************************************************************)
(* The tenancy tables of the iam service: organisations, workspaces, their *)
(* members and their API keys.                                             *)
(*                                                                         *)
(* An operation that reads before it writes is two statements without a    *)
(* transaction, and another request may come between them: a parent that   *)
(* was checked is deleted before its child is inserted, a slug that was    *)
(* free is taken, a row that was read is edited by someone else.  What is  *)
(* left to hold the tables together is the schema: the foreign keys with   *)
(* their cascades and the unique indexes, which every statement meets.     *)
(***************************************************************************)
EXTENDS Integers

CONSTANTS
  Orgs, Spaces, Keys, OrgKeys,  \* ids uuid.New can return: bound the creations
  Users,     \* users of the organisations
  Home,      \* the organisation each user belongs to
  Slugs, Roles,
  Handlers,  \* HTTP handlers at work
  None

HomeAssumption == Home \in [Users -> Orgs]

VARIABLES
  orgs,     \* Postgres: the slug of each row of orgs, or None
  spaces,   \* Postgres: workspaces
  members,  \* Postgres: workspace_members, the role of each, or None
  keys,     \* Postgres: workspace_api_keys
  orgKeys,  \* Postgres: api_keys, the tenant_id of each, or None
  users,    \* Postgres: users
  used,     \* history: the ids that were ever given out
  calls     \* what each handler is at, or None

vars == <<orgs, spaces, members, keys, orgKeys, users, used, calls>>

Space == [org : Orgs, slug : Slugs]
Key == [space : Spaces, revoked : BOOLEAN]

\* What a handler holds between its two statements.
Call ==
  [op : {"org"}, id : Orgs, slug : Slugs]
    \cup [op : {"space"}, id : Spaces, row : Space]
    \cup [op : {"edit"}, id : Spaces, row : Space]
    \cup [op : {"key"}, id : Keys, space : Spaces]

NoneAssumption == None \notin Call \cup Space \cup Key \cup Slugs \cup Roles \cup Orgs

TypeOK ==
  /\ orgs \in [Orgs -> Slugs \cup {None}]
  /\ spaces \in [Spaces -> Space \cup {None}]
  /\ members \in [Spaces \X Users -> Roles \cup {None}]
  /\ keys \in [Keys -> Key \cup {None}]
  /\ orgKeys \in [OrgKeys -> Orgs \cup {None}]
  /\ users \subseteq Users
  /\ used \subseteq Orgs \cup Spaces \cup Keys \cup OrgKeys
  /\ calls \in [Handlers -> Call \cup {None}]

Live(table) == {id \in DOMAIN table : table[id] # None}

\* The organisations of the users exist, each with a slug of its own; nothing
\* else does.
Init ==
  /\ orgs \in [Orgs -> Slugs \cup {None}]
  /\ Live(orgs) = {Home[u] : u \in Users}
  /\ \A o, p \in Live(orgs) : orgs[o] = orgs[p] => o = p
  /\ spaces = [w \in Spaces |-> None]
  /\ members = [m \in Spaces \X Users |-> None]
  /\ keys = [k \in Keys |-> None]
  /\ orgKeys = [k \in OrgKeys |-> None]
  /\ users = Users
  /\ used = Live(orgs)
  /\ calls = [h \in Handlers |-> None]

Idle(h) == calls[h] = None
At(h, op) == calls[h] # None /\ calls[h].op = op
End(h) == calls' = [calls EXCEPT ![h] = None]
Begin(h, call) == Idle(h) /\ calls' = [calls EXCEPT ![h] = call]

Fresh(id) == id \notin used /\ used' = used \cup {id}

-----------------------------------------------------------------------------
(* What the schema does with a statement.                                  *)

\* UNIQUE (slug) of workspaces, over all organisations.
SlugFree(w, s) == \A v \in Live(spaces) \ {w} : spaces[v].slug # s

\* ON DELETE CASCADE: a table without the rows of the parents in gone.
DropMembers(ws, us) ==
  [m \in Spaces \X Users |-> IF m[1] \in ws \/ m[2] \in us THEN None ELSE members[m]]

\* Mutant: workspace_api_keys is declared like api_keys, without REFERENCES.
DropNoKeys(ws) == keys

DropKeys(ws) ==
  [k \in Keys |-> IF k \in Live(keys) /\ keys[k].space \in ws THEN None ELSE keys[k]]

\* The workspaces in ws and all that hangs on them, with the users in us.
Delete(ws, us) ==
  /\ spaces' = [w \in Spaces |-> IF w \in ws THEN None ELSE spaces[w]]
  /\ members' = DropMembers(ws, us)
  /\ keys' = DropKeys(ws)
  /\ users' = users \ us

-----------------------------------------------------------------------------
(* Organisations.                                                          *)

\* CreateOrg: the slug is looked up first.
CreateOrg(h, o, s) ==
  /\ \A p \in Live(orgs) : orgs[p] # s
  /\ Fresh(o)
  /\ Begin(h, [op |-> "org", id |-> o, slug |-> s])
  /\ UNCHANGED <<orgs, spaces, members, keys, orgKeys, users>>

\* OrgRepo.Create: the unique index has the last word.
InsertOrg(h) ==
  /\ At(h, "org")
  /\ LET c == calls[h] IN
     orgs' = IF \E p \in Live(orgs) : orgs[p] = c.slug THEN orgs
             ELSE [orgs EXCEPT ![c.id] = c.slug]
  /\ End(h)
  /\ UNCHANGED <<spaces, members, keys, orgKeys, users, used>>

\* DeleteOrg is one statement, with its cascades; api_keys has no foreign key.
DeleteOrg(o) ==
  /\ orgs' = [orgs EXCEPT ![o] = None]
  /\ Delete({w \in Live(spaces) : spaces[w].org = o}, {u \in users : Home[u] = o})
  /\ UNCHANGED <<orgKeys, used, calls>>

-----------------------------------------------------------------------------
(* Workspaces.                                                             *)

\* CreateWorkspace: the organisation is looked up first.
CreateWorkspace(h, w, row) ==
  /\ row.org \in Live(orgs)
  /\ Fresh(w)
  /\ Begin(h, [op |-> "space", id |-> w, row |-> row])
  /\ UNCHANGED <<orgs, spaces, members, keys, orgKeys, users>>

\* Mutant: org_id without REFERENCES, since the organisation was looked up.
InsertUnchecked(h) ==
  /\ At(h, "space")
  /\ LET c == calls[h] IN
     spaces' = IF SlugFree(c.id, c.row.slug) THEN [spaces EXCEPT ![c.id] = c.row] ELSE spaces
  /\ End(h)
  /\ UNCHANGED <<orgs, members, keys, orgKeys, users, used>>

\* WorkspaceRepo.Create.
InsertWorkspace(h) ==
  /\ At(h, "space")
  /\ LET c == calls[h] IN
     spaces' = IF c.row.org \in Live(orgs) /\ SlugFree(c.id, c.row.slug)
               THEN [spaces EXCEPT ![c.id] = c.row] ELSE spaces
  /\ End(h)
  /\ UNCHANGED <<orgs, members, keys, orgKeys, users, used>>

\* UpdateWorkspace reads the row and puts the fields that are not empty into it,
\* a slug or none among them; no other column has to be unique.
UpdateWorkspace(h, w, asked) ==
  /\ w \in Live(spaces)
  /\ Begin(h, [op |-> "edit", id |-> w,
               row |-> [spaces[w] EXCEPT !.slug = IF asked = None THEN @ ELSE asked]])
  /\ UNCHANGED <<orgs, spaces, members, keys, orgKeys, users, used>>

\* WorkspaceRepo.Update writes every column; it is no insert: when the row is
\* gone it changes none and reports no error.
WriteWorkspace(h) ==
  /\ At(h, "edit")
  /\ LET c == calls[h] IN
     spaces' = IF c.id \in Live(spaces) /\ SlugFree(c.id, c.row.slug)
               THEN [spaces EXCEPT ![c.id] = c.row] ELSE spaces
  /\ End(h)
  /\ UNCHANGED <<orgs, members, keys, orgKeys, users, used>>

DeleteWorkspace(w) ==
  /\ Delete({w}, {})
  /\ UNCHANGED <<orgs, orgKeys, used, calls>>

-----------------------------------------------------------------------------
(* Members: one statement each, and no look at the workspace before.       *)

AddMember(w, u, role) ==
  /\ w \in Live(spaces) /\ u \in users
  /\ members[<<w, u>>] = None
  /\ members' = [members EXCEPT ![<<w, u>>] = role]
  /\ UNCHANGED <<orgs, spaces, keys, orgKeys, users, used, calls>>

UpdateMember(w, u, role) ==
  /\ members[<<w, u>>] # None
  /\ members' = [members EXCEPT ![<<w, u>>] = role]
  /\ UNCHANGED <<orgs, spaces, keys, orgKeys, users, used, calls>>

RemoveMember(w, u) ==
  /\ members[<<w, u>>] # None
  /\ members' = [members EXCEPT ![<<w, u>>] = None]
  /\ UNCHANGED <<orgs, spaces, keys, orgKeys, users, used, calls>>

-----------------------------------------------------------------------------
(* API keys.                                                               *)

\* CreateWorkspaceAPIKey: the workspace is looked up first.
CreateWorkspaceAPIKey(h, k, w) ==
  /\ w \in Live(spaces)
  /\ Fresh(k)
  /\ Begin(h, [op |-> "key", id |-> k, space |-> w])
  /\ UNCHANGED <<orgs, spaces, members, keys, orgKeys, users>>

SaveKey(h) ==
  /\ At(h, "key")
  /\ LET c == calls[h] IN
     keys' = IF c.space \in Live(spaces)
             THEN [keys EXCEPT ![c.id] = [space |-> c.space, revoked |-> FALSE]] ELSE keys
  /\ End(h)
  /\ UNCHANGED <<orgs, spaces, members, orgKeys, users, used>>

RevokeWorkspaceAPIKey(k) ==
  /\ k \in Live(keys) /\ ~keys[k].revoked
  /\ keys' = [keys EXCEPT ![k].revoked = TRUE]
  /\ UNCHANGED <<orgs, spaces, members, orgKeys, users, used, calls>>

\* CreateAPIKey takes the tenant from the caller's access token, which outlives
\* the organisation by its fifteen minutes, and looks nothing up.
CreateAPIKey(k, o) ==
  /\ o \in used
  /\ Fresh(k)
  /\ orgKeys' = [orgKeys EXCEPT ![k] = o]
  /\ UNCHANGED <<orgs, spaces, members, keys, users, calls>>

RevokeAPIKey(k) ==
  /\ orgKeys[k] # None
  /\ orgKeys' = [orgKeys EXCEPT ![k] = None]
  /\ UNCHANGED <<orgs, spaces, members, keys, users, used, calls>>

\* A statement fails, or the process dies before it.
CallFails(h) ==
  /\ ~Idle(h)
  /\ End(h)
  /\ UNCHANGED <<orgs, spaces, members, keys, orgKeys, users, used>>

-----------------------------------------------------------------------------
Statement(h) == InsertOrg(h) \/ InsertWorkspace(h) \/ WriteWorkspace(h) \/ SaveKey(h)

Request(h) ==
  \/ \E o \in Orgs, s \in Slugs : CreateOrg(h, o, s)
  \/ \E w \in Spaces, row \in Space : CreateWorkspace(h, w, row)
  \/ \E w \in Spaces, asked \in Slugs \cup {None} : UpdateWorkspace(h, w, asked)
  \/ \E k \in Keys, w \in Spaces : CreateWorkspaceAPIKey(h, k, w)

\* The operations of one statement.
AtOnce ==
  \/ \E o \in Orgs : DeleteOrg(o)
  \/ \E w \in Spaces : DeleteWorkspace(w)
  \/ \E w \in Spaces, u \in Users :
       \/ \E role \in Roles : AddMember(w, u, role) \/ UpdateMember(w, u, role)
       \/ RemoveMember(w, u)
  \/ \E k \in Keys : RevokeWorkspaceAPIKey(k)
  \/ \E k \in OrgKeys : RevokeAPIKey(k) \/ \E o \in Orgs : CreateAPIKey(k, o)

Next == AtOnce \/ \E h \in Handlers : Request(h) \/ Statement(h) \/ CallFails(h)

Spec == Init /\ [][Next]_vars

-----------------------------------------------------------------------------
(* Properties.                                                             *)

\* CreateWorkspace, AddMember and CreateWorkspaceAPIKey against DeleteOrg and
\* DeleteWorkspace: whichever statement comes first, no row outlives, or is
\* born after, what it belongs to.  (Organisation keys are not held by it.)
RowsHaveParents ==
  /\ \A w \in Live(spaces) : spaces[w].org \in Live(orgs)
  /\ \A u \in users : Home[u] \in Live(orgs)
  /\ \A m \in Live(members) : m[1] \in Live(spaces) /\ m[2] \in users
  /\ \A k \in Live(keys) : keys[k].space \in Live(spaces)
=============================================================================
