----------------------------- MODULE DeviceAuth -----------------------------
(***************************************************************************)
(* How a device's API key is honoured and revoked.                         *)
(*                                                                         *)
(* Two services and two stores take part.  device-registry owns the device *)
(* rows (Postgres) and bumps device_version:{id} (Redis) when a key is     *)
(* rotated or a device deleted.  ingestion keeps, per (API key, channel),  *)
(* a cached answer of device-registry stamped with the version it read.    *)
(*                                                                         *)
(* The administrator's calls (Admins) and the devices' requests (Requests) *)
(* interleave between any two store accesses.  A Redis entry may expire, a *)
(* Redis or Postgres call may fail, and device-registry may die between    *)
(* the row update and the version bump.                                    *)
(*                                                                         *)
(* device-registry also writes device:id:* and device:apikey:* (SetDevice, *)
(* DeleteDevice of DeviceCache); only DeviceService.ValidateAPIKey reads   *)
(* them and no route calls it, so those two keys are left out.             *)
(***************************************************************************)
EXTENDS Integers

CONSTANTS
  Devices,       \* device ids, provisioned or not yet
  Channels,      \* channel ids
  Keys,          \* the keys generateAPIKey can return: bounds the rotations
  Requests,      \* ingestion handlers running Validator.Validate
  Admins,        \* device-registry handlers running a device operation
  InitialKey,    \* the key of each device that exists at the start, or None
  InitialOwner,  \* the device of each channel at the start, or None
  None

VARIABLES
  row,       \* Postgres: devices (api_key, status, deleted_at)
  owner,     \* Postgres: channels.device_id
  removed,   \* Postgres: the channels with deleted_at set
  version,   \* Redis: device_version:{id}; 0 when the key does not exist
  cache,     \* Redis: apikey:{sha256(key:channel)}
  req,       \* ingestion: what each handler holds, None when it is idle
  adm,       \* device-registry: what each handler holds, None when it is idle
  issuedTo,  \* history: the device each key was generated for
  lapses     \* history: the ways a device's revocation may have been missed

db == <<row, owner, removed>>
history == <<issuedTo, lapses>>
vars == <<db, version, cache, req, adm, history>>

Credentials == Keys \X Channels

\* "blocked" stands for inactive and blocked, which every lookup treats alike.
Row == [key : Keys \cup {None}, status : {"absent", "active", "blocked"},
        deleted : BOOLEAN]

\* A cached answer.  known is a history field: the device's version at the
\* moment device-registry looked the credential up.
Entry == [device : Devices, version : Nat, known : Nat]

Request == [pc : {"check", "lookup", "readver", "set"}, cred : Credentials,
            entry : Entry \cup {None}]

\* The row a handler read and changed in memory, waiting to be written.
Operation == [pc : {"write", "incr"},
              op : {"rotate", "update", "delete", "provision"},
              device : Devices, image : Row \cup {None},
              channel : Channels \cup {None}]

\* UpdateDevice and Provision bump nothing; a bump may be lost; it may expire.
Lapse == {"update", "relink", "lostIncr", "expired"}

ASSUME ConstantsAssumption ==
  /\ None \notin Devices \cup Keys \cup Channels
  /\ None \notin Row \cup Entry \cup Request \cup Operation
  /\ InitialKey \in [Devices -> Keys \cup {None}]
  /\ \A d, e \in Devices : InitialKey[d] # None /\ InitialKey[d] = InitialKey[e] => d = e
  /\ InitialOwner \in [Channels -> Devices \cup {None}]

-----------------------------------------------------------------------------
(* What the stores answer.                                                 *)

\* Mutant: the channel alone decides, the key is not compared.
ValidWithoutKey(p, d) ==
  row[d].status = "active" /\ ~row[d].deleted /\ owner[p[2]] = d

\* InternalRepo.ValidateAPIKey: the key is the device's, the device is active
\* and not deleted, the channel is the device's.  The channel's own
\* deleted_at is not consulted.
Valid(p, d) ==
  /\ row[d].key = p[1]
  /\ row[d].status = "active"
  /\ ~row[d].deleted
  /\ owner[p[2]] = d

\* APIKeyCache.Validate, once it has read device_version: a missing key means
\* "never invalidated", otherwise the two versions must be equal.
Fresh(e) == version[e.device] = 0 \/ version[e.device] = e.version

Exists(d) == row[d].status # "absent" /\ ~row[d].deleted

\* generateAPIKey returns eight random bytes: a key nobody was given before.
Unissued(k) == issuedTo[k] = None

ReqAt(r, pc) == req[r] # None /\ req[r].pc = pc
AdmAt(a, pc) == adm[a] # None /\ adm[a].pc = pc

\* The shape of every variable, and what a handler holds at each of its steps.
TypeOK ==
  /\ row \in [Devices -> Row]
  /\ owner \in [Channels -> Devices \cup {None}]
  /\ removed \in SUBSET Channels
  /\ version \in [Devices -> Nat]
  /\ cache \in [Credentials -> Entry \cup {None}]
  /\ req \in [Requests -> Request \cup {None}]
  /\ adm \in [Admins -> Operation \cup {None}]
  /\ \A r \in Requests : req[r] # None => (req[r].entry = None <=> req[r].pc = "lookup")
  /\ \A a \in Admins : AdmAt(a, "write") =>
       /\ adm[a].op # "delete" => adm[a].image # None
       /\ adm[a].op = "provision" => adm[a].channel # None
  /\ issuedTo \in [Keys -> Devices \cup {None}]
  /\ lapses \in [Devices -> SUBSET Lapse]

\* The row of d has changed and the version bump that follows has not run yet.
Pending(d) == \E a \in Admins : AdmAt(a, "incr") /\ adm[a].device = d

-----------------------------------------------------------------------------
Init ==
  /\ row = [d \in Devices |->
              [key |-> InitialKey[d], deleted |-> FALSE,
               status |-> IF InitialKey[d] = None THEN "absent" ELSE "active"]]
  /\ owner = InitialOwner
  /\ removed = {}
  /\ version = [d \in Devices |-> 0]
  /\ cache = [p \in Credentials |-> None]
  /\ req = [r \in Requests |-> None]
  /\ adm = [a \in Admins |-> None]
  /\ issuedTo = [k \in Keys |->
                   IF \E d \in Devices : InitialKey[d] = k
                   THEN CHOOSE d \in Devices : InitialKey[d] = k ELSE None]
  /\ lapses = [d \in Devices |-> {}]

-----------------------------------------------------------------------------
(* device-registry: DeviceService and ProvisionService.                    *)

Start(a, op, d, image, c) ==
  /\ adm[a] = None
  /\ adm' = [adm EXCEPT ![a] = [pc |-> "write", op |-> op, device |-> d,
                                image |-> image, channel |-> c]]
  /\ UNCHANGED <<db, version, cache, req, lapses>>

\* The row is written; what is left is to bump the version of d.
BumpNext(d) == [pc |-> "incr", op |-> "rotate", device |-> d,
                image |-> None, channel |-> None]

\* RotateAPIKey: GetByID, then a new key in the row image.
RotateAPIKey(a, d, k) ==
  /\ Exists(d)
  /\ Unissued(k)
  /\ issuedTo' = [issuedTo EXCEPT ![k] = d]
  /\ Start(a, "rotate", d, [row[d] EXCEPT !.key = k], None)

\* UpdateDevice: GetByID, then the requested status in the row image.
UpdateDevice(a, d, s) ==
  /\ Exists(d)
  /\ Start(a, "update", d, [row[d] EXCEPT !.status = s], None)
  /\ UNCHANGED issuedTo

\* DeleteDevice: GetByID.
DeleteDevice(a, d) ==
  /\ Exists(d)
  /\ Start(a, "delete", d, None, None)
  /\ UNCHANGED issuedTo

\* CreateDevice and Provision: a new device with a key of its own, to be
\* linked to a channel that is new (unowned) or found not deleted by GetByID.
Provision(a, d, c, k) ==
  /\ row[d].status = "absent"
  /\ \A b \in Admins : adm[b] # None => adm[b].device # d
  /\ c \notin removed
  /\ Unissued(k)
  /\ issuedTo' = [issuedTo EXCEPT ![k] = d]
  /\ Start(a, "provision", d,
           [key |-> k, status |-> "active", deleted |-> FALSE], c)

\* Mutant: a rotation that returns without bumping the version.
WriteUpdateWithoutBump(a) ==
  /\ AdmAt(a, "write")
  /\ adm[a].op \in {"rotate", "update"}
  /\ row' = [row EXCEPT ![adm[a].device] =
               [adm[a].image EXCEPT !.deleted = row[adm[a].device].deleted]]
  /\ adm' = [adm EXCEPT ![a] = None]
  /\ lapses' = IF adm[a].op = "rotate" THEN lapses
               ELSE [lapses EXCEPT ![adm[a].device] = @ \cup {"update"}]
  /\ UNCHANGED <<owner, removed, version, cache, req, issuedTo>>

\* Mutant: gorm's Save, which writes every column, deleted_at included.
WriteWholeRow(a) ==
  /\ AdmAt(a, "write")
  /\ adm[a].op \in {"rotate", "update"}
  /\ row' = [row EXCEPT ![adm[a].device] = adm[a].image]
  /\ adm' = [adm EXCEPT ![a] = IF adm[a].op = "rotate"
                               THEN BumpNext(adm[a].device) ELSE None]
  /\ lapses' = IF adm[a].op = "rotate" THEN lapses
               ELSE [lapses EXCEPT ![adm[a].device] = @ \cup {"update"}]
  /\ UNCHANGED <<owner, removed, version, cache, req, issuedTo>>

\* DeviceRepo.Update writes api_key and status of the image whatever the row
\* has become, and leaves deleted_at alone.  A rotation goes on to the bump.
WriteUpdate(a) ==
  LET d == adm[a].device
      written == [adm[a].image EXCEPT !.deleted = row[d].deleted]
  IN /\ AdmAt(a, "write")
     /\ adm[a].op \in {"rotate", "update"}
     /\ row' = [row EXCEPT ![d] = written]
     /\ \/ /\ adm[a].op = "rotate"
           /\ adm' = [adm EXCEPT ![a] = BumpNext(d)]
           /\ UNCHANGED lapses
        \/ /\ adm[a].op = "update"
           /\ adm' = [adm EXCEPT ![a] = None]
           /\ lapses' = IF written = row[d] THEN lapses
                        ELSE [lapses EXCEPT ![d] = @ \cup {"update"}]
     /\ UNCHANGED <<owner, removed, version, cache, req, issuedTo>>

\* DeviceRepo.Delete: one transaction marks the device, unless another delete
\* came first, and every channel linked to it.
DeleteRows(a) ==
  /\ AdmAt(a, "write")
  /\ adm[a].op = "delete"
  /\ ~row[adm[a].device].deleted
  /\ row' = [row EXCEPT ![adm[a].device].deleted = TRUE]
  /\ removed' = removed \cup {c \in Channels : owner[c] = adm[a].device}
  /\ UNCHANGED <<owner, cache, req, history>>

\* Mutant: a delete that also drops the device's version key, before the bump.
WriteDeleteDropsCounter(a) ==
  /\ DeleteRows(a)
  /\ adm' = [adm EXCEPT ![a] = BumpNext(adm[a].device)]
  /\ version' = [version EXCEPT ![adm[a].device] = 0]

\* DeleteDevice goes on to the bump.
WriteDelete(a) ==
  /\ DeleteRows(a)
  /\ adm' = [adm EXCEPT ![a] = BumpNext(adm[a].device)]
  /\ UNCHANGED version

\* TxRunner.RunInTx: the device row and the channel's device_id together.  The
\* device the channel belonged to, if any, loses it without a version bump.
WriteProvision(a) ==
  LET d == adm[a].device
      c == adm[a].channel
  IN /\ AdmAt(a, "write")
     /\ adm[a].op = "provision"
     /\ row' = [row EXCEPT ![d] = adm[a].image]
     /\ owner' = [owner EXCEPT ![c] = d]
     /\ lapses' = IF owner[c] = None THEN lapses
                  ELSE [lapses EXCEPT ![owner[c]] = @ \cup {"relink"}]
     /\ adm' = [adm EXCEPT ![a] = None]
     /\ UNCHANGED <<removed, version, cache, req, issuedTo>>

\* The statement fails, or finds the device deleted: the call returns an error.
WriteFails(a) ==
  /\ AdmAt(a, "write")
  /\ adm' = [adm EXCEPT ![a] = None]
  /\ UNCHANGED <<db, version, cache, req, history>>

\* IncrDeviceVersion: INCR creates the key at 1 when it does not exist.
IncrDeviceVersion(a) ==
  /\ AdmAt(a, "incr")
  /\ version' = [version EXCEPT ![adm[a].device] = @ + 1]
  /\ adm' = [adm EXCEPT ![a] = None]
  /\ UNCHANGED <<db, cache, req, history>>

\* Redis fails (logged, the call still succeeds) or the process dies first.
LoseIncr(a) ==
  /\ AdmAt(a, "incr")
  /\ lapses' = [lapses EXCEPT ![adm[a].device] = @ \cup {"lostIncr"}]
  /\ adm' = [adm EXCEPT ![a] = None]
  /\ UNCHANGED <<db, version, cache, req, issuedTo>>

\* ChannelRepo.Delete: a single guarded UPDATE, and no version bump.
DeleteChannel(c) ==
  /\ c \notin removed
  /\ removed' = removed \cup {c}
  /\ UNCHANGED <<row, owner, version, cache, req, adm, history>>

-----------------------------------------------------------------------------
(* ingestion: Validator.Validate over APIKeyCache and the registry client. *)

\* The first GET: an entry is kept for the version check; without one, or
\* when Redis fails, the registry is asked.
Validate(r, p) ==
  /\ req[r] = None
  /\ \/ /\ cache[p] # None
        /\ req' = [req EXCEPT ![r] = [pc |-> "check", cred |-> p, entry |-> cache[p]]]
     \/ req' = [req EXCEPT ![r] = [pc |-> "lookup", cred |-> p, entry |-> None]]
  /\ UNCHANGED <<db, version, cache, adm, history>>

\* The version check succeeds: the request is accepted without a lookup.
CacheHit(r) ==
  /\ ReqAt(r, "check")
  /\ Fresh(req[r].entry)
  /\ req' = [req EXCEPT ![r] = None]
  /\ UNCHANGED <<db, version, cache, adm, history>>

\* The version differs, or cannot be read: ErrCacheMiss.
CacheStale(r) ==
  /\ ReqAt(r, "check")
  /\ req' = [req EXCEPT ![r].pc = "lookup", ![r].entry = None]
  /\ UNCHANGED <<db, version, cache, adm, history>>

\* Mutant: the query joins devices by key, whatever their status.
LookupIgnoringStatus(r) ==
  /\ ReqAt(r, "lookup")
  /\ \E d \in Devices :
       /\ row[d].key = req[r].cred[1] /\ owner[req[r].cred[2]] = d
       /\ req' = [req EXCEPT ![r].pc = "readver",
                    ![r].entry = [device |-> d, version |-> 0, known |-> version[d]]]
  /\ UNCHANGED <<db, version, cache, adm, history>>

\* POST /internal/validate-api-key finds the credential valid.
LookupGranted(r) ==
  /\ ReqAt(r, "lookup")
  /\ \E d \in Devices :
       /\ Valid(req[r].cred, d)
       /\ req' = [req EXCEPT ![r].pc = "readver",
                    ![r].entry = [device |-> d, version |-> 0, known |-> version[d]]]
  /\ UNCHANGED <<db, version, cache, adm, history>>

\* 401 or a failed call: the request is refused and nothing is cached.
LookupRefused(r) ==
  /\ ReqAt(r, "lookup")
  /\ req' = [req EXCEPT ![r] = None]
  /\ UNCHANGED <<db, version, cache, adm, history>>

\* APIKeyCache.Set reads the version; 0 if it is not set or cannot be read.
SetReadVersion(r) ==
  /\ ReqAt(r, "readver")
  /\ \E v \in {0, version[req[r].entry.device]} :
       req' = [req EXCEPT ![r].pc = "set", ![r].entry.version = v]
  /\ UNCHANGED <<db, version, cache, adm, history>>

\* APIKeyCache.Set writes the entry, or fails to (logged); either way the
\* request is accepted.
SetWrite(r) ==
  /\ ReqAt(r, "set")
  /\ cache' \in {cache, [cache EXCEPT ![req[r].cred] = req[r].entry]}
  /\ req' = [req EXCEPT ![r] = None]
  /\ UNCHANGED <<db, version, adm, history>>

-----------------------------------------------------------------------------
(* Redis: apiKeyCacheTTL is ten minutes, deviceVersionTTL 24 hours from the *)
(* last bump.                                                               *)

\* Mutant: entries of a device that has no version key are stored without TTL.
ExpireVersionedEntry(p) ==
  /\ cache[p] # None
  /\ cache[p].version # 0
  /\ cache' = [cache EXCEPT ![p] = None]
  /\ UNCHANGED <<db, version, req, adm, history>>

ExpireEntry(p) ==
  /\ cache[p] # None
  /\ cache' = [cache EXCEPT ![p] = None]
  /\ UNCHANGED <<db, version, req, adm, history>>

\* Whatever was looked up before the last bump, 24 hours ago, is gone by now.
Outlived(d) ==
  /\ \A p \in Credentials :
       cache[p] # None /\ cache[p].device = d => cache[p].known = version[d]
  /\ \A r \in Requests :
       req[r] # None /\ req[r].entry # None /\ req[r].entry.device = d
         => req[r].entry.known = version[d]

ExpireVersion(d) ==
  /\ version[d] # 0
  /\ Outlived(d)
  /\ version' = [version EXCEPT ![d] = 0]
  /\ lapses' = [lapses EXCEPT ![d] = @ \cup {"expired"}]
  /\ UNCHANGED <<db, cache, req, adm, issuedTo>>

-----------------------------------------------------------------------------
AdminBegins(a) ==
  \/ \E d \in Devices, k \in Keys : RotateAPIKey(a, d, k)
  \/ \E d \in Devices, s \in {"active", "blocked"} : UpdateDevice(a, d, s)
  \/ \E d \in Devices : DeleteDevice(a, d)
  \/ \E d \in Devices, c \in Channels, k \in Keys : Provision(a, d, c, k)

AdminStep(a) ==
  \/ WriteUpdate(a)
  \/ WriteDelete(a)
  \/ WriteProvision(a)
  \/ WriteFails(a)
  \/ IncrDeviceVersion(a)
  \/ LoseIncr(a)

RequestStep(r) ==
  \/ CacheHit(r)
  \/ CacheStale(r)
  \/ LookupGranted(r)
  \/ LookupRefused(r)
  \/ SetReadVersion(r)
  \/ SetWrite(r)

Next ==
  \/ \E a \in Admins : AdminBegins(a) \/ AdminStep(a)
  \/ \E c \in Channels : DeleteChannel(c)
  \/ \E r \in Requests, p \in Credentials : Validate(r, p)
  \/ \E r \in Requests : RequestStep(r)
  \/ \E p \in Credentials : ExpireEntry(p)
  \/ \E d \in Devices : ExpireVersion(d)

\* A started handler runs to its end (its store calls have deadlines) and
\* Redis expires what it was told to expire.  Nobody is obliged to call.
Fairness ==
  /\ \A a \in Admins : WF_vars(AdminStep(a))
  /\ \A r \in Requests : WF_vars(RequestStep(r))
  /\ \A p \in Credentials : WF_vars(ExpireEntry(p))

Spec == Init /\ [][Next]_vars /\ Fairness

-----------------------------------------------------------------------------
(* Properties.                                                             *)

\* A credential is served although the database would refuse it only when
\* the version bump is still to come, when a bump fell between the entry's
\* lookup and its version read, or when the device's revocation was one that
\* never reaches the version counter.
Excused(p, e) ==
  Fresh(e) /\ ~Valid(p, e.device) =>
    \/ Pending(e.device)
    \/ e.known < e.version
    \/ lapses[e.device] # {}

\* The version check of APIKeyCache.Validate: no entry in Redis, and none a
\* handler has read and is about to judge, is served beyond its revocation
\* for a reason other than the three named above.
StaleOnlyIfExcused ==
  /\ \A p \in Credentials : cache[p] # None => Excused(p, cache[p])
  /\ \A r \in Requests : ReqAt(r, "check") => Excused(req[r].cred, req[r].entry)

\* Validator.Validate: readings are attributed to the device the key was
\* generated for, whatever was rotated, deleted, relinked or cached meanwhile.
NeverMisattributed ==
  /\ \A d \in Devices : row[d].key # None => issuedTo[row[d].key] = d
  /\ \A p \in Credentials : cache[p] # None => issuedTo[p[1]] = cache[p].device
  /\ \A r \in Requests : req[r] # None /\ req[r].entry # None =>
       issuedTo[req[r].cred[1]] = req[r].entry.device

AllOutdated(d) ==
  \A p \in Credentials :
    cache[p] # None /\ cache[p].device = d => cache[p].version # version[d]

\* IncrDeviceVersion: one bump puts every entry cached for the device before
\* it out of date, as long as the counter has not expired and restarted.
BumpInvalidates ==
  [][\A d \in Devices :
       version'[d] > version[d] /\ "expired" \notin lapses[d] => AllOutdated(d)']_vars

\* DeviceRepo.Update: a write of a row image read before the device was
\* deleted never brings the device back.
DeletedForGood == [][\A d \in Devices : row[d].deleted => row'[d].deleted]_vars

\* Some cache entry, or some handler, stands ready to honour the credential.
Honoured(p) ==
  \/ cache[p] # None
  \/ \E r \in Requests : req[r] # None /\ req[r].cred = p /\ req[r].entry # None

\* The ten-minute TTL of an entry: a credential the database refuses from some
\* time on is, from some time on, neither cached nor in any handler's hands.
RevocationTakesEffect ==
  \A p \in Credentials :
    <>[](\A d \in Devices : ~Valid(p, d)) => <>[]~Honoured(p)

\* The grants of CredentialGate: those the database accepts, and those an
\* entry or a handler that has looked one up would act on.
ValidGrants == {g \in Credentials \X Devices : Valid(g[1], g[2])}

HonouredGrants ==
  {<<p, cache[p].device>> : p \in {q \in Credentials : cache[q] # None}} \cup
  {<<req[r].cred, req[r].entry.device>> :
     r \in {q \in Requests : req[q] # None /\ req[q].entry # None}}

Gate == INSTANCE CredentialGate
          WITH Grants <- Credentials \X Devices,
               valid <- ValidGrants, honoured <- HonouredGrants

\* Cache, counter and lookups together implement the gate: no interleaving
\* of a fill with a revocation, an expiry or another fill makes ingestion
\* honour anew a grant the database has stopped accepting.
ImplementsGate == Gate!GateSpec

=============================================================================
