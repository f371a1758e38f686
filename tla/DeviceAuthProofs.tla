-------------------------- MODULE DeviceAuthProofs --------------------------
(***************************************************************************)
(* Proofs about DeviceAuth, for any numbers of devices, channels, keys,    *)
(* requests and administrators.                                            *)
(***************************************************************************)
EXTENDS DeviceAuth, TLAPS

\* The two row images the code builds from constants are rows.
LEMMA NewRow ==
  ASSUME NEW k \in Keys
  PROVE  [key |-> k, status |-> "active", deleted |-> FALSE] \in Row
BY DEF Row

LEMMA DeletedRow ==
  ASSUME NEW i \in Row
  PROVE  [i EXCEPT !.deleted = TRUE] \in Row
BY DEF Row

\* The two changes a handler makes to the row image it has read.
LEMMA RekeyedRow ==
  ASSUME NEW i \in Row, NEW k \in Keys
  PROVE  [i EXCEPT !.key = k] \in Row /\ [i EXCEPT !.key = k].status = i.status
BY DEF Row

LEMMA RestatedRow ==
  ASSUME NEW i \in Row, NEW s \in {"active", "blocked"}
  PROVE  [i EXCEPT !.status = s] \in Row /\ [i EXCEPT !.status = s].status = s
BY DEF Row

\* A request whose entry takes the version just read.
LEMMA VersionIntoRequest ==
  ASSUME NEW f \in [Requests -> Request \cup {None}], NEW r \in Requests, f[r] \in Request, NEW v
  PROVE  [f EXCEPT ![r].pc = "set", ![r].entry.version = v]
           = [f EXCEPT ![r] = [[f[r] EXCEPT !.pc = "set"] EXCEPT
                                 !.entry = [f[r].entry EXCEPT !.version = v]]]
<1> DEFINE g == [f EXCEPT ![r] = [f[r] EXCEPT !.pc = "set"]]
<1>1. [f EXCEPT ![r].pc = "set", ![r].entry.version = v]
        = [g EXCEPT ![r] = [g[r] EXCEPT !.entry.version = v]]
  OBVIOUS
<1>2. g[r] = [f[r] EXCEPT !.pc = "set"] /\ g[r].entry = f[r].entry
  BY DEF Request
<1>3. [g[r] EXCEPT !.entry.version = v] = [g[r] EXCEPT !.entry = [f[r].entry EXCEPT !.version = v]]
  BY <1>2
<1>4. QED
  BY <1>1, <1>2, <1>3

\* TypeOK (the shape of every variable, and what a handler holds at each of
\* its steps) is inductive: Init establishes it and every step keeps it.
LEMMA TypeInit == Init => TypeOK
<1> USE ConstantsAssumption DEF ConstantsAssumption
<1> SUFFICES ASSUME Init PROVE TypeOK
  OBVIOUS
<1>1. row \in [Devices -> Row]
  BY DEF Init, Row
<1>2. issuedTo \in [Keys -> Devices \cup {None}]
  <2>1. ASSUME NEW k \in Keys, \E d \in Devices : InitialKey[d] = k
        PROVE  (CHOOSE d \in Devices : InitialKey[d] = k) \in Devices
    BY <2>1
  <2>2. QED
    BY <2>1 DEF Init
<1>3. QED
  BY <1>1, <1>2 DEF Init, TypeOK, AdmAt

LEMMA TypeStep == TypeOK /\ [Next]_vars => TypeOK'
<1> USE ConstantsAssumption DEF ConstantsAssumption
<1> SUFFICES ASSUME TypeOK, [Next]_vars PROVE TypeOK'
  OBVIOUS
<1> USE DEF TypeOK, db, history, ReqAt, AdmAt
<1>1. ASSUME NEW a \in Admins, NEW d \in Devices, NEW k \in Keys, RotateAPIKey(a, d, k)
      PROVE  TypeOK'
  BY <1>1 DEF RotateAPIKey, Start, Row, Operation, Exists
<1>2. ASSUME NEW a \in Admins, NEW d \in Devices, NEW s \in {"active", "blocked"},
             UpdateDevice(a, d, s)
      PROVE  TypeOK'
  BY <1>2 DEF UpdateDevice, Start, Row, Operation, Exists
<1>3. ASSUME NEW a \in Admins, NEW d \in Devices, DeleteDevice(a, d)
      PROVE  TypeOK'
  BY <1>3 DEF DeleteDevice, Start, Row, Operation
<1>4. ASSUME NEW a \in Admins, NEW d \in Devices, NEW c \in Channels, NEW k \in Keys,
             Provision(a, d, c, k)
      PROVE  TypeOK'
  <2> DEFINE image == [key |-> k, status |-> "active", deleted |-> FALSE]
  <2>1. image \in Row /\ image # None
    BY NewRow
  <2>2. Start(a, "provision", d, image, c) /\ issuedTo' = [issuedTo EXCEPT ![k] = d]
    BY <1>4 DEF Provision
  <2>3. adm'[a] \in Operation /\ adm'[a].image = image /\ adm'[a].channel = c
    BY <2>1, <2>2 DEF Start, Operation
  <2>4. c # None
    OBVIOUS
  <2> HIDE DEF image
  <2>5. QED
    BY <2>1, <2>2, <2>3, <2>4 DEF Start
<1>5. ASSUME NEW a \in Admins, WriteUpdate(a)
      PROVE  TypeOK'
  <2> DEFINE d == adm[a].device
             written == [adm[a].image EXCEPT !.deleted = row[d].deleted]
  <2>1. adm[a] \in Operation /\ d \in Devices /\ adm[a].image \in Row
    BY <1>5 DEF WriteUpdate, Operation
  <2>2. written \in Row
    BY <2>1 DEF Row
  <2>3. row' \in [Devices -> Row]
    BY <1>5, <2>2 DEF WriteUpdate
  <2>4. BumpNext(d) \in Operation /\ BumpNext(d).pc = "incr"
    BY <2>1 DEF BumpNext, Operation
  <2>5. adm' \in [Admins -> Operation \cup {None}] /\ ~AdmAt(a, "write")'
    BY <1>5, <2>4 DEF WriteUpdate
  <2>6. lapses' \in [Devices -> SUBSET Lapse]
    BY <1>5, <2>1 DEF WriteUpdate, Lapse
  <2>7. \A b \in Admins : b # a => adm'[b] = adm[b]
    BY <1>5 DEF WriteUpdate
  <2>8. QED
    BY <1>5, <2>3, <2>5, <2>6, <2>7 DEF WriteUpdate
<1>6. ASSUME NEW a \in Admins, WriteDelete(a)
      PROVE  TypeOK'
  <2> DEFINE d == adm[a].device
  <2>1. d \in Devices /\ BumpNext(d) \in Operation /\ BumpNext(d).pc = "incr"
    BY <1>6 DEF WriteDelete, DeleteRows, BumpNext, Operation
  <2>2. row' \in [Devices -> Row]
    <3>1. [row[d] EXCEPT !.deleted = TRUE] \in Row
      BY <2>1, DeletedRow
    <3>2. QED
      BY <1>6, <2>1, <3>1 DEF WriteDelete, DeleteRows
  <2>3. adm' \in [Admins -> Operation \cup {None}] /\ ~AdmAt(a, "write")'
    BY <1>6, <2>1 DEF WriteDelete, DeleteRows
  <2>4. removed' \in SUBSET Channels
    BY <1>6 DEF WriteDelete, DeleteRows
  <2>5. \A b \in Admins : b # a => adm'[b] = adm[b]
    BY <1>6 DEF WriteDelete, DeleteRows
  <2>6. QED
    BY <1>6, <2>2, <2>3, <2>4, <2>5 DEF WriteDelete, DeleteRows
<1>7. ASSUME NEW a \in Admins, WriteProvision(a)
      PROVE  TypeOK'
  <2>1. /\ adm[a].device \in Devices
        /\ adm[a].channel \in Channels
        /\ adm[a].image \in Row
    BY <1>7 DEF WriteProvision, Operation
  <2>2. lapses' \in [Devices -> SUBSET Lapse]
    BY <1>7, <2>1 DEF WriteProvision, Lapse
  <2>3. QED
    BY <1>7, <2>1, <2>2 DEF WriteProvision
<1>8. ASSUME NEW a \in Admins, WriteFails(a)
      PROVE  TypeOK'
  BY <1>8 DEF WriteFails
<1>9. ASSUME NEW a \in Admins, IncrDeviceVersion(a)
      PROVE  TypeOK'
  BY <1>9 DEF IncrDeviceVersion, Operation
<1>10. ASSUME NEW a \in Admins, LoseIncr(a)
       PROVE  TypeOK'
  BY <1>10 DEF LoseIncr, Operation, Lapse
<1>11. ASSUME NEW c \in Channels, DeleteChannel(c)
       PROVE  TypeOK'
  BY <1>11 DEF DeleteChannel
<1>12. ASSUME NEW r \in Requests, NEW p \in Credentials, Validate(r, p)
       PROVE  TypeOK'
  BY <1>12 DEF Validate, Request
<1>13. ASSUME NEW r \in Requests, CacheHit(r) \/ LookupRefused(r)
       PROVE  TypeOK'
  BY <1>13 DEF CacheHit, LookupRefused
<1>14. ASSUME NEW r \in Requests, CacheStale(r)
       PROVE  TypeOK'
  BY <1>14 DEF CacheStale, Request
<1>15. ASSUME NEW r \in Requests, LookupGranted(r)
       PROVE  TypeOK'
  BY <1>15 DEF LookupGranted, Request, Entry
<1>16. ASSUME NEW r \in Requests, SetReadVersion(r)
       PROVE  TypeOK'
  <2>1. req[r] \in Request /\ req[r].entry \in Entry
    BY <1>16 DEF SetReadVersion, Request
  <2>2. PICK v \in {0, version[req[r].entry.device]} :
          req' = [req EXCEPT ![r].pc = "set", ![r].entry.version = v]
    BY <1>16 DEF SetReadVersion
  <2>3. v \in Nat
    BY <2>1 DEF Entry
  <2> DEFINE e == [req[r].entry EXCEPT !.version = v]
             q == [[req[r] EXCEPT !.pc = "set"] EXCEPT !.entry = e]
  <2>4. e \in Entry
    BY <2>1, <2>3 DEF Entry
  <2>5. q \in Request /\ q.entry = e /\ q.pc = "set"
    BY <2>1, <2>4 DEF Request
  <2>6. req' = [req EXCEPT ![r] = q]
    <3>1. req \in [Requests -> Request \cup {None}]
      BY Zenon DEF TypeOK
    <3> HIDE ConstantsAssumption DEF TypeOK
    <3>2. [req EXCEPT ![r].pc = "set", ![r].entry.version = v] = [req EXCEPT ![r] = q]
      BY <2>1, <3>1, VersionIntoRequest
    <3>3. QED
      BY <2>2, <3>2
  <2>7. /\ e # None /\ req'[r] = q
        /\ \A s \in Requests \ {r} : req'[s] = req[s]
        /\ req' \in [Requests -> Request \cup {None}]
    <3>1. e # None
      BY <2>4 DEF Entry
    <3> HIDE DEF q, e
    <3>2. QED
      BY <2>5, <2>6, <3>1
  <2> HIDE DEF q, e
  <2>8. \A s \in Requests : req'[s] # None => (req'[s].entry = None <=> req'[s].pc = "lookup")
    BY <2>5, <2>7
  <2>9. QED
    BY <1>16, <2>7, <2>8 DEF SetReadVersion
<1>17. ASSUME NEW r \in Requests, SetWrite(r)
       PROVE  TypeOK'
  BY <1>17 DEF SetWrite, Request
<1>18. ASSUME NEW p \in Credentials, ExpireEntry(p)
       PROVE  TypeOK'
  BY <1>18 DEF ExpireEntry
<1>19. ASSUME NEW d \in Devices, ExpireVersion(d)
       PROVE  TypeOK'
  BY <1>19 DEF ExpireVersion, Lapse
<1>20. CASE UNCHANGED vars
  BY <1>20 DEF vars
<1>21. QED
  BY <1>1, <1>2, <1>3, <1>4, <1>5, <1>6, <1>7, <1>8, <1>9, <1>10, <1>11, <1>12,
     <1>13, <1>14, <1>15, <1>16, <1>17, <1>18, <1>19, <1>20
     DEF Next, AdminBegins, AdminStep, RequestStep

\* Every variable keeps its shape and every handler holds what its step needs,
\* for any numbers of devices, keys, requests and administrators.
THEOREM TypeCorrect == Spec => []TypeOK
BY TypeInit, TypeStep, PTL DEF Spec

-----------------------------------------------------------------------------
(* The version check.  StaleOnlyIfExcused is not inductive: it says nothing  *)
(* of entries that are not fresh, nor of those a handler is still filling.   *)

\* The entry e is in Redis, or in a handler's hands, for the credential p.
Holds(p, e) ==
  \/ cache[p] = e
  \/ \E r \in Requests : req[r] # None /\ req[r].cred = p /\ req[r].entry = e

\* While d's counter has not expired, nothing about d is stamped with a later
\* version; and as long as every change of d was followed by its bump, what
\* the database refuses was looked up before the last bump.
Bound(p, e) ==
  /\ "expired" \notin lapses[e.device] =>
       e.version <= version[e.device] /\ e.known <= version[e.device]
  /\ lapses[e.device] = {} /\ ~Valid(p, e.device) /\ ~Pending(e.device) =>
       e.known < version[e.device]

HeldBound == \A p \in Credentials, e \in Entry : Holds(p, e) => Bound(p, e)

Provisions(a) == AdmAt(a, "write") /\ adm[a].op = "provision"

\* A device is absent until the one provisioning that concerns it commits,
\* present from then on, and every other operation finds it present.
Lifecycle ==
  /\ \A d \in Devices : row[d].status = "absent" => ~row[d].deleted
  /\ \A a \in Admins : adm[a] # None =>
       (Provisions(a) <=> row[adm[a].device].status = "absent")
  /\ \A a \in Admins : AdmAt(a, "write") /\ adm[a].op # "delete" =>
       adm[a].image.status # "absent"
  /\ \A a, b \in Admins :
       Provisions(a) /\ Provisions(b) /\ adm[a].device = adm[b].device => a = b

IInv == TypeOK /\ Lifecycle /\ HeldBound

\* Every step keeps Lifecycle: only administrators' steps touch what it says.
LEMMA LifecycleStep ==
  ASSUME TypeOK, TypeOK', Lifecycle, [Next]_vars
  PROVE  Lifecycle'
<1> USE ConstantsAssumption DEF ConstantsAssumption
<1> USE DEF db, history, AdmAt, Provisions
<1>1. ASSUME NEW a \in Admins, NEW op \in {"rotate", "update", "delete"}, NEW d \in Devices,
             NEW i \in Row \cup {None}, Start(a, op, d, i, None), Exists(d),
             op # "delete" => i.status # "absent"
      PROVE  Lifecycle'
  <2>1. /\ row' = row
        /\ adm' = [adm EXCEPT ![a] = [pc |-> "write", op |-> op, device |-> d,
                                      image |-> i, channel |-> None]]
    BY <1>1 DEF Start
  <2>2. adm'[a] # None /\ ~Provisions(a)'
    BY <2>1, <1>1 DEF TypeOK, Operation
  <2>3. \A b \in Admins : b # a => adm'[b] = adm[b]
    BY <2>1 DEF TypeOK
  <2>4. adm'[a].device = d /\ adm'[a].op = op /\ adm'[a].image = i
    BY <2>1 DEF TypeOK
  <2>5. QED
    BY <1>1, <2>1, <2>2, <2>3, <2>4 DEF Lifecycle, Exists
<1>2. ASSUME NEW a \in Admins, NEW d \in Devices, NEW k \in Keys, RotateAPIKey(a, d, k)
      PROVE  Lifecycle'
  <2>1. [row[d] EXCEPT !.key = k] \in Row /\ [row[d] EXCEPT !.key = k].status = row[d].status
    BY RekeyedRow DEF TypeOK
  <2>2. QED
    BY <1>1, <1>2, <2>1 DEF RotateAPIKey, Exists
<1>3. ASSUME NEW a \in Admins, NEW d \in Devices, NEW s \in {"active", "blocked"},
             UpdateDevice(a, d, s)
      PROVE  Lifecycle'
  <2>1. [row[d] EXCEPT !.status = s] \in Row /\ [row[d] EXCEPT !.status = s].status = s
    <3>1. row[d] \in Row
      BY DEF TypeOK
    <3>2. QED
      BY <3>1, <1>3, RestatedRow
  <2>2. QED
    BY <1>1, <1>3, <2>1 DEF UpdateDevice
<1>4. ASSUME NEW a \in Admins, NEW d \in Devices, DeleteDevice(a, d)
      PROVE  Lifecycle'
  BY <1>1, <1>4 DEF DeleteDevice
<1>5. ASSUME NEW a \in Admins, NEW d \in Devices, NEW c \in Channels, NEW k \in Keys,
             Provision(a, d, c, k)
      PROVE  Lifecycle'
  <2> DEFINE i == [key |-> k, status |-> "active", deleted |-> FALSE]
             o == [pc |-> "write", op |-> "provision", device |-> d, image |-> i,
                   channel |-> c]
  <2>1. /\ row' = row
        /\ \A b \in Admins : b # a => adm'[b] = adm[b]
        /\ adm'[a] = o
    BY <1>5 DEF Provision, Start, TypeOK
  <2>2. /\ o # None
        /\ o.device = d /\ o.op = "provision" /\ o.pc = "write"
        /\ o.image.status # "absent"
    <3>1. i \in Row /\ i.status # "absent"
      BY NewRow
    <3> HIDE DEF i
    <3>2. QED
      BY <3>1 DEF Operation
  <2> HIDE DEF o
  <2>3. \A b \in Admins : b # a /\ adm'[b] # None => adm'[b].device # d
    BY <1>5, <2>1 DEF Provision
  <2>4. row[d].status = "absent"
    BY <1>5 DEF Provision
  <2>5. QED
    BY <2>1, <2>2, <2>3, <2>4 DEF Lifecycle
<1>6. ASSUME NEW a \in Admins, adm'[a] = None \/ ~AdmAt(a, "write")',
             \A b \in Admins : b # a => adm'[b] = adm[b],
             row' = row, adm[a] # None,
             adm'[a] # None => adm'[a].device = adm[a].device /\ ~Provisions(a)
      PROVE  Lifecycle'
  BY <1>6 DEF Lifecycle
<1>7. ASSUME NEW a \in Admins, WriteUpdate(a)
      PROVE  Lifecycle'
  <2> DEFINE d == adm[a].device
             written == [adm[a].image EXCEPT !.deleted = row[d].deleted]
  <2>1. d \in Devices /\ adm[a] # None /\ ~Provisions(a) /\ adm[a].image \in Row
    BY <1>7 DEF WriteUpdate, TypeOK, Operation
  <2>2. /\ written.status = adm[a].image.status
        /\ written.deleted = row[d].deleted
    BY <2>1 DEF Row
  <2>3. row[d].status # "absent" /\ written.status # "absent"
    BY <1>7, <2>1, <2>2 DEF WriteUpdate, Lifecycle
  <2>4. row' = [row EXCEPT ![d] = written]
    BY <1>7 DEF WriteUpdate
  <2> HIDE DEF written
  <2>5. \A f \in Devices : /\ row'[f].status = "absent" <=> row[f].status = "absent"
                           /\ row'[f].deleted = row[f].deleted
    BY <2>1, <2>2, <2>3, <2>4 DEF TypeOK
  <2>6. /\ \A b \in Admins : b # a => adm'[b] = adm[b]
        /\ adm'[a] = None \/ ~AdmAt(a, "write")'
        /\ adm'[a] # None => adm'[a].device = d
    BY <1>7 DEF WriteUpdate, BumpNext, TypeOK
  <2>7. \A b \in Admins : adm[b] # None => adm[b].device \in Devices
    BY DEF TypeOK, Operation
  <2> HIDE DEF d
  <2>8. QED
    BY <2>1, <2>3, <2>5, <2>6, <2>7 DEF Lifecycle, d
<1>8. ASSUME NEW a \in Admins, WriteDelete(a)
      PROVE  Lifecycle'
  <2> DEFINE d == adm[a].device
  <2>1. d \in Devices /\ adm[a] # None /\ ~Provisions(a)
    BY <1>8 DEF WriteDelete, DeleteRows, TypeOK, Operation
  <2>2. row[d].status # "absent"
    BY <2>1 DEF Lifecycle
  <2>3. \A f \in Devices : /\ row'[f].status = row[f].status
                           /\ f # d => row'[f].deleted = row[f].deleted
    BY <1>8 DEF WriteDelete, DeleteRows, TypeOK, Row
  <2>4. /\ \A b \in Admins : b # a => adm'[b] = adm[b]
        /\ ~AdmAt(a, "write")'
        /\ adm'[a].device = d
    BY <1>8 DEF WriteDelete, DeleteRows, BumpNext, TypeOK
  <2>5. \A b \in Admins : adm[b] # None => adm[b].device \in Devices
    BY DEF TypeOK, Operation
  <2> HIDE DEF d
  <2>6. QED
    BY <2>1, <2>2, <2>3, <2>4, <2>5 DEF Lifecycle, d
<1>9. ASSUME NEW a \in Admins, WriteProvision(a)
      PROVE  Lifecycle'
  <2> DEFINE d == adm[a].device
  <2>1. d \in Devices /\ adm[a] # None /\ Provisions(a) /\ adm[a].image \in Row
    BY <1>9 DEF WriteProvision, TypeOK, Operation
  <2>2. row'[d] = adm[a].image /\ \A f \in Devices : f # d => row'[f] = row[f]
    BY <1>9 DEF WriteProvision, TypeOK
  <2>3. adm'[a] = None /\ \A b \in Admins : b # a => adm'[b] = adm[b]
    BY <1>9 DEF WriteProvision, TypeOK
  <2>4. \A b \in Admins : b # a /\ adm[b] # None => adm[b].device # d
    BY <2>1 DEF Lifecycle
  <2>5. row'[d].status # "absent"
    BY <2>1, <2>2 DEF Lifecycle
  <2>6. \A b \in Admins : adm[b] # None => adm[b].device \in Devices
    BY DEF TypeOK, Operation
  <2> HIDE DEF d
  <2>7. QED
    BY <2>1, <2>2, <2>3, <2>4, <2>5, <2>6 DEF Lifecycle
<1>10. ASSUME NEW a \in Admins, WriteFails(a) \/ IncrDeviceVersion(a) \/ LoseIncr(a)
       PROVE  Lifecycle'
  BY <1>6, <1>10 DEF WriteFails, IncrDeviceVersion, LoseIncr, TypeOK
<1>11. CASE row' = row /\ adm' = adm
  BY <1>11 DEF Lifecycle
<1>12. ASSUME NEW r \in Requests, RequestStep(r)
       PROVE  Lifecycle'
  BY <1>11, <1>12 DEF RequestStep, CacheHit, CacheStale, LookupGranted, LookupRefused,
                      SetReadVersion, SetWrite
<1>13. QED
  BY <1>2, <1>3, <1>4, <1>5, <1>7, <1>8, <1>9, <1>10, <1>11, <1>12
     DEF Next, AdminBegins, AdminStep, DeleteChannel, Validate, ExpireEntry, ExpireVersion, vars

\* Where neither the database nor a counter changes, Bound does not either.
LEMMA BoundKept ==
  ASSUME NEW p \in Credentials, NEW e \in Entry, Bound(p, e),
         UNCHANGED <<row, owner, version, lapses>>, Pending(e.device)' <=> Pending(e.device)
  PROVE  Bound(p, e)'
BY DEF Bound, Valid

\* Once the row of f is written, its bump is to come; nothing else changes.
LEMMA BumpToCome ==
  ASSUME adm \in [Admins -> Operation \cup {None}], NEW a \in Admins, NEW f \in Devices,
         AdmAt(a, "write"), adm' = [adm EXCEPT ![a] = BumpNext(f)], NEW x \in Devices
  PROVE  Pending(x)' <=> Pending(x) \/ x = f
<1>1. BumpNext(f) \in Operation /\ BumpNext(f).pc = "incr" /\ BumpNext(f).device = f
  BY DEF BumpNext, Operation
<1>2. BumpNext(f) # None
  BY <1>1, ConstantsAssumption DEF ConstantsAssumption
<1>3. adm'[a] = BumpNext(f) /\ \A b \in Admins : b # a => adm'[b] = adm[b]
  OBVIOUS
<1>4. QED
  BY <1>1, <1>2, <1>3 DEF Pending, AdmAt

\* A step that lets the database refuse what it accepted leaves a bump to come
\* or a lapse; a bump moves the counter past everything looked up before it.
LEMMA BoundStep ==
  ASSUME TypeOK, TypeOK', Lifecycle, [Next]_vars,
         NEW p \in Credentials, NEW e \in Entry, Bound(p, e)
  PROVE  Bound(p, e)'
<1> DEFINE d == e.device
<1> USE DEF db, history, AdmAt, TypeOK
<1>1. /\ d \in Devices /\ e.known \in Nat /\ e.version \in Nat
      /\ p[2] \in Channels /\ version[d] \in Nat
  BY DEF Entry, Credentials
<1>2. ASSUME NEW a \in Admins, adm[a] = None \/ ~AdmAt(a, "incr"),
             adm'[a] = None \/ ~AdmAt(a, "incr")',
             \A b \in Admins : b # a => adm'[b] = adm[b]
      PROVE  Pending(d)' <=> Pending(d)
  BY <1>2 DEF Pending
<1>3. ASSUME NEW a \in Admins, AdminBegins(a)
      PROVE  Bound(p, e)'
  <2>1. PICK op, f, i, c : Start(a, op, f, i, c)
    BY <1>3 DEF AdminBegins, RotateAPIKey, UpdateDevice, DeleteDevice, Provision
  <2>2. Pending(d)' <=> Pending(d)
    BY <1>2, <2>1 DEF Start
  <2>3. QED
    BY <2>1, <2>2, BoundKept DEF Start
<1>4. ASSUME NEW a \in Admins, WriteUpdate(a)
      PROVE  Bound(p, e)'
  <2> DEFINE f == adm[a].device
             written == [adm[a].image EXCEPT !.deleted = row[f].deleted]
  <2>1. f \in Devices
    BY <1>4 DEF WriteUpdate, Operation
  <2>2. /\ row' = [row EXCEPT ![f] = written]
        /\ UNCHANGED <<owner, version>>
    BY <1>4 DEF WriteUpdate
  <2>3. CASE adm[a].op = "rotate" /\ adm' = [adm EXCEPT ![a] = BumpNext(f)] /\ lapses' = lapses
    <3>1. Pending(d)' <=> Pending(d) \/ d = f
      BY <1>1, <1>4, <2>1, <2>3, BumpToCome DEF WriteUpdate
    <3>2. f # d => (Valid(p, d)' <=> Valid(p, d))
      BY <1>1, <2>1, <2>2 DEF Valid
    <3>3. QED
      BY <1>1, <2>2, <2>3, <3>1, <3>2 DEF Bound
  <2>4. CASE adm[a].op = "update" /\ adm' = [adm EXCEPT ![a] = None]
             /\ lapses' = IF written = row[f] THEN lapses
                          ELSE [lapses EXCEPT ![f] = @ \cup {"update"}]
    <3>1. Pending(d)' <=> Pending(d)
      BY <1>2, <1>4, <2>4 DEF WriteUpdate
    <3>2. lapses'[d] = {} => (Valid(p, d)' <=> Valid(p, d))
      BY <1>1, <2>1, <2>2, <2>4 DEF Valid
    <3>3. lapses[d] \subseteq lapses'[d]
      BY <1>1, <2>1, <2>4
    <3>4. QED
      BY <1>1, <2>2, <3>1, <3>2, <3>3 DEF Bound
  <2>5. QED
    BY <1>4, <2>3, <2>4 DEF WriteUpdate
<1>5. ASSUME NEW a \in Admins, WriteDelete(a)
      PROVE  Bound(p, e)'
  <2> DEFINE f == adm[a].device
  <2>1. f \in Devices
    BY <1>5 DEF WriteDelete, DeleteRows, Operation
  <2>2. Pending(d)' <=> Pending(d) \/ d = f
    BY <1>1, <1>5, <2>1, BumpToCome DEF WriteDelete, DeleteRows
  <2>3. f # d => (Valid(p, d)' <=> Valid(p, d))
    BY <1>1, <1>5, <2>1 DEF Valid, WriteDelete, DeleteRows
  <2>4. UNCHANGED <<version, lapses>>
    BY <1>5 DEF WriteDelete, DeleteRows
  <2>5. QED
    BY <1>1, <2>2, <2>3, <2>4 DEF Bound
<1>6. ASSUME NEW a \in Admins, WriteProvision(a)
      PROVE  Bound(p, e)'
  <2> DEFINE f == adm[a].device
             c == adm[a].channel
  <2>1. f \in Devices /\ c \in Channels /\ row[f].status = "absent"
    BY <1>6 DEF WriteProvision, Operation, Lifecycle, Provisions
  <2>2. Pending(d)' <=> Pending(d)
    BY <1>2, <1>6 DEF WriteProvision
  <2>3. Valid(p, d) /\ lapses'[d] = {} => Valid(p, d)'
    <3>1. SUFFICES ASSUME Valid(p, d), lapses'[d] = {} PROVE Valid(p, d)'
      OBVIOUS
    <3>2. f # d
      BY <2>1, <3>1 DEF Valid
    <3>3. row'[d] = row[d]
      BY <1>1, <1>6, <2>1, <3>2 DEF WriteProvision
    <3>4. owner[p[2]] = d /\ d # None
      BY <1>1, <3>1, ConstantsAssumption DEF Valid, ConstantsAssumption
    <3>5. owner[c] # d
      BY <1>1, <1>6, <3>1, <3>4 DEF WriteProvision
    <3>6. owner'[p[2]] = owner[p[2]]
      BY <1>1, <1>6, <2>1, <3>4, <3>5 DEF WriteProvision
    <3>7. QED
      BY <3>1, <3>3, <3>6 DEF Valid
  <2>4. lapses[d] = {} \/ lapses'[d] # {}
    BY <1>1, <1>6 DEF WriteProvision
  <2>5. "expired" \in lapses[d] => "expired" \in lapses'[d]
    BY <1>1, <1>6 DEF WriteProvision
  <2>6. version' = version
    BY <1>6 DEF WriteProvision
  <2>7. QED
    BY <1>1, <2>2, <2>3, <2>4, <2>5, <2>6 DEF Bound
<1>7. ASSUME NEW a \in Admins, WriteFails(a)
      PROVE  Bound(p, e)'
  <2>1. Pending(d)' <=> Pending(d)
    BY <1>2, <1>7 DEF WriteFails
  <2>2. QED
    BY <1>7, <2>1, BoundKept DEF WriteFails
<1>8. ASSUME NEW a \in Admins, IncrDeviceVersion(a)
      PROVE  Bound(p, e)'
  <2> DEFINE f == adm[a].device
  <2>1. f \in Devices /\ version[f] \in Nat
    BY <1>8 DEF IncrDeviceVersion, Operation
  <2>2. version'[d] = IF f = d THEN version[d] + 1 ELSE version[d]
    BY <1>1, <1>8, <2>1 DEF IncrDeviceVersion
  <2>3. f # d => (Pending(d)' <=> Pending(d))
    BY <1>8 DEF IncrDeviceVersion, Pending
  <2>4. UNCHANGED <<row, owner, lapses>>
    BY <1>8 DEF IncrDeviceVersion
  <2>5. Valid(p, d)' <=> Valid(p, d)
    BY <2>4 DEF Valid
  <2>6. "expired" \in lapses[d] \/ (e.version <= version[d] /\ e.known <= version[d])
    BY DEF Bound
  <2> HIDE DEF d, f
  <2>7. QED
    BY <1>1, <2>2, <2>3, <2>4, <2>5, <2>6 DEF Bound, d
<1>9. ASSUME NEW a \in Admins, LoseIncr(a)
      PROVE  Bound(p, e)'
  <2>1. adm[a].device \in Devices
    BY <1>9 DEF LoseIncr, Operation
  <2>2. adm[a].device # d => (Pending(d)' <=> Pending(d))
    BY <1>9 DEF LoseIncr, Pending
  <2>3. lapses'[d] = lapses[d] \cup (IF adm[a].device = d THEN {"lostIncr"} ELSE {})
    BY <1>1, <1>9, <2>1 DEF LoseIncr
  <2>4. Valid(p, d)' <=> Valid(p, d)
    BY <1>9 DEF Valid, LoseIncr
  <2>5. version' = version
    BY <1>9 DEF LoseIncr
  <2>6. QED
    BY <1>1, <2>2, <2>3, <2>4, <2>5 DEF Bound
<1>10. ASSUME NEW f \in Devices, ExpireVersion(f)
       PROVE  Bound(p, e)'
  <2>1. /\ UNCHANGED <<row, owner, adm>>
        /\ f # d => version'[d] = version[d] /\ lapses'[d] = lapses[d]
        /\ f = d => "expired" \in lapses'[d]
    BY <1>1, <1>10 DEF ExpireVersion
  <2>2. (Valid(p, d)' <=> Valid(p, d)) /\ (Pending(d)' <=> Pending(d))
    BY <2>1 DEF Valid, Pending
  <2>3. QED
    BY <2>1, <2>2 DEF Bound
<1>11. CASE UNCHANGED <<row, owner, version, lapses, adm>>
  BY <1>11, BoundKept DEF Pending
<1>12. ASSUME NEW r \in Requests, RequestStep(r)
       PROVE  Bound(p, e)'
  BY <1>11, <1>12 DEF RequestStep, CacheHit, CacheStale, LookupGranted, LookupRefused,
                      SetReadVersion, SetWrite
<1>13. QED
  BY <1>3, <1>4, <1>5, <1>6, <1>7, <1>8, <1>9, <1>10, <1>11, <1>12
     DEF Next, AdminStep, DeleteChannel, Validate, ExpireEntry, vars

\* Only a lookup and the version read of a fill bring a new entry about.
LEMMA HeldSource ==
  ASSUME TypeOK, [Next]_vars, NEW p \in Credentials, NEW e \in Entry, Holds(p, e)'
  PROVE  \/ Holds(p, e)
         \/ \E r \in Requests : /\ LookupGranted(r) \/ SetReadVersion(r)
                               /\ req'[r] # None /\ req'[r].cred = p /\ req'[r].entry = e
<1> USE ConstantsAssumption DEF ConstantsAssumption
<1> USE DEF TypeOK, db, history, ReqAt, Holds
<1>1. e # None
  OBVIOUS
<1>2. ASSUME NEW r \in Requests, NEW q \in Credentials, Validate(r, q)
      PROVE  Holds(p, e)
  <2>1. cache' = cache /\ \A x \in Requests : x # r => req'[x] = req[x]
    BY <1>2 DEF Validate
  <2>2. \/ cache[q] # None /\ req'[r] = [pc |-> "check", cred |-> q, entry |-> cache[q]]
        \/ req'[r] = [pc |-> "lookup", cred |-> q, entry |-> None]
    BY <1>2 DEF Validate
  <2>3. QED
    BY <1>1, <2>1, <2>2
<1>3. ASSUME NEW r \in Requests, CacheHit(r) \/ LookupRefused(r)
      PROVE  Holds(p, e)
  BY <1>3 DEF CacheHit, LookupRefused
<1>4. ASSUME NEW r \in Requests, CacheStale(r)
      PROVE  Holds(p, e)
  <2>1. cache' = cache /\ \A x \in Requests : x # r => req'[x] = req[x]
    BY <1>4 DEF CacheStale
  <2>2. req'[r].entry = None
    BY <1>4 DEF CacheStale, Request
  <2>3. QED
    BY <1>1, <2>1, <2>2
<1>5. ASSUME NEW r \in Requests, LookupGranted(r) \/ SetReadVersion(r)
      PROVE  Holds(p, e) \/ (req'[r] # None /\ req'[r].cred = p /\ req'[r].entry = e)
  <2>1. cache' = cache /\ \A x \in Requests : x # r => req'[x] = req[x]
    BY <1>5 DEF LookupGranted, SetReadVersion
  <2>2. QED
    BY <2>1
<1>6. ASSUME NEW r \in Requests, SetWrite(r)
      PROVE  Holds(p, e)
  <2>1. req'[r] = None /\ \A x \in Requests : x # r => req'[x] = req[x]
    BY <1>6 DEF SetWrite
  <2>2. \A q \in Credentials : cache'[q] = cache[q] \/ (q = req[r].cred /\ cache'[q] = req[r].entry)
    BY <1>6 DEF SetWrite
  <2>3. QED
    BY <1>6, <2>1, <2>2 DEF SetWrite
<1>7. ASSUME NEW q \in Credentials, ExpireEntry(q)
      PROVE  Holds(p, e)
  BY <1>1, <1>7 DEF ExpireEntry
<1>8. CASE UNCHANGED <<cache, req>>
  BY <1>8
<1>9. ASSUME NEW a \in Admins, AdminBegins(a) \/ AdminStep(a)
      PROVE  Holds(p, e)
  BY <1>8, <1>9 DEF AdminBegins, RotateAPIKey, UpdateDevice, DeleteDevice, Provision, Start,
                    AdminStep, WriteUpdate, WriteDelete, DeleteRows, WriteProvision, WriteFails,
                    IncrDeviceVersion, LoseIncr
<1>10. QED
  BY <1>2, <1>3, <1>4, <1>5, <1>6, <1>7, <1>8, <1>9
     DEF Next, RequestStep, DeleteChannel, ExpireVersion, vars

\* What a lookup has just answered, or a fill has just stamped, is in bounds.
LEMMA NewEntryBound ==
  ASSUME IInv, NEW r \in Requests, LookupGranted(r) \/ SetReadVersion(r),
         NEW p \in Credentials, NEW e \in Entry,
         req'[r] # None, req'[r].cred = p, req'[r].entry = e
  PROVE  Bound(p, e)'
<1> USE DEF db, history, ReqAt
<1>1. /\ req[r] \in Request /\ req \in [Requests -> Request \cup {None}]
      /\ version \in [Devices -> Nat]
      /\ UNCHANGED <<row, owner, version, lapses, adm>>
  BY DEF IInv, TypeOK, LookupGranted, SetReadVersion
<1>2. CASE LookupGranted(r)
  <2>1. PICK d \in Devices :
          /\ Valid(req[r].cred, d)
          /\ req' = [req EXCEPT ![r].pc = "readver",
                       ![r].entry = [device |-> d, version |-> 0, known |-> version[d]]]
    BY <1>2 DEF LookupGranted
  <2>2. p = req[r].cred /\ e = [device |-> d, version |-> 0, known |-> version[d]]
    BY <1>1, <2>1 DEF Request
  <2>3. Valid(p, e.device) /\ e.version = 0 /\ e.known = version[e.device]
    BY <2>1, <2>2
  <2>4. Valid(p, e.device)' /\ version'[e.device] \in Nat
    BY <1>1, <2>3 DEF Valid, Entry
  <2>5. QED
    BY <1>1, <2>3, <2>4 DEF Bound
<1>3. CASE SetReadVersion(r)
  <2>1. PICK v \in {0, version[req[r].entry.device]} :
          req' = [req EXCEPT ![r].pc = "set", ![r].entry.version = v]
    BY <1>3 DEF SetReadVersion
  <2>2. req[r].entry \in Entry /\ req[r] # None
    BY <1>3 DEF SetReadVersion, IInv, TypeOK, Request
  <2>3. p = req[r].cred /\ e = [req[r].entry EXCEPT !.version = v]
    BY <1>1, <2>1 DEF Request
  <2>4. /\ e.device = req[r].entry.device /\ e.known = req[r].entry.known
        /\ e.version \in {0, version[e.device]} /\ version[e.device] \in Nat
    BY <1>1, <2>1, <2>2, <2>3 DEF Entry
  <2>5. Bound(p, req[r].entry)
    BY <2>2, <2>3 DEF IInv, HeldBound, Holds
  <2>6. (Valid(p, e.device)' <=> Valid(p, e.device)) /\ (Pending(e.device)' <=> Pending(e.device))
    BY <1>1 DEF Valid, Pending, AdmAt
  <2>7. QED
    BY <1>1, <2>4, <2>5, <2>6 DEF Bound
<1>4. QED
  BY <1>2, <1>3

LEMMA IInvInit == Init => IInv
<1> USE ConstantsAssumption DEF ConstantsAssumption
<1> SUFFICES ASSUME Init PROVE IInv
  OBVIOUS
<1>1. TypeOK
  BY TypeInit
<1>2. Lifecycle
  BY DEF Init, Lifecycle, Provisions, AdmAt
<1>3. HeldBound
  BY DEF Init, HeldBound, Holds
<1>4. QED
  BY <1>1, <1>2, <1>3 DEF IInv

LEMMA IInvStep == IInv /\ [Next]_vars => IInv'
<1> SUFFICES ASSUME IInv, [Next]_vars PROVE IInv'
  OBVIOUS
<1>1. TypeOK /\ TypeOK' /\ Lifecycle'
  BY TypeStep, LifecycleStep DEF IInv
<1>2. ASSUME NEW p \in Credentials, NEW e \in Entry, Holds(p, e)'
      PROVE  Bound(p, e)'
  <2>1. CASE Holds(p, e)
    BY <1>1, <2>1, BoundStep DEF IInv, HeldBound
  <2>2. CASE ~Holds(p, e)
    BY <1>1, <1>2, <2>2, HeldSource, NewEntryBound
  <2>3. QED
    BY <2>1, <2>2
<1>3. QED
  BY <1>1, <1>2 DEF IInv, HeldBound

\* The version check of APIKeyCache.Validate, for any number of devices, keys,
\* requests and administrators: an entry served beyond its revocation has one
\* of the three excuses StaleOnlyIfExcused names.
THEOREM StaleEntriesExcused == Spec => []StaleOnlyIfExcused
<1>1. IInv => StaleOnlyIfExcused
  <2> SUFFICES ASSUME IInv, NEW p \in Credentials, NEW e \in Entry, Holds(p, e)
               PROVE  Excused(p, e)
    BY ConstantsAssumption
       DEF StaleOnlyIfExcused, IInv, TypeOK, Request, Holds, ReqAt, ConstantsAssumption
  <2>1. /\ e.device \in Devices /\ e.known \in Nat /\ e.version \in Nat
        /\ version[e.device] \in Nat
    BY DEF IInv, TypeOK, Entry
  <2>2. Bound(p, e)
    BY DEF IInv, HeldBound
  <2>3. QED
    BY <2>1, <2>2 DEF Bound, Excused, Fresh
<1>2. QED
  BY <1>1, IInvInit, IInvStep, PTL DEF Spec

\* IncrDeviceVersion outdates every entry cached for the device before it, as
\* long as the device's counter has not expired and restarted.
THEOREM BumpOutdates == Spec => BumpInvalidates
<1>1. IInv /\ [Next]_vars =>
        [\A d \in Devices :
           version'[d] > version[d] /\ "expired" \notin lapses[d] => AllOutdated(d)']_vars
  <2> SUFFICES ASSUME IInv, [Next]_vars, NEW d \in Devices, version'[d] > version[d],
                      "expired" \notin lapses[d]
               PROVE  AllOutdated(d)'
    OBVIOUS
  <2> USE DEF IInv, TypeOK, db, history
  <2>1. \A f \in Devices : ~ExpireVersion(f)
    BY DEF ExpireVersion
  <2>2. PICK a \in Admins : IncrDeviceVersion(a)
    <3>1. version' # version
      OBVIOUS
    <3>2. QED
      BY <2>1, <3>1 DEF Next, AdminBegins, RotateAPIKey, UpdateDevice, DeleteDevice, Provision, Start,
             AdminStep, WriteUpdate, WriteDelete, DeleteRows, WriteProvision, WriteFails, LoseIncr,
             DeleteChannel, Validate, RequestStep, CacheHit, CacheStale, LookupGranted,
             LookupRefused, SetReadVersion, SetWrite, ExpireEntry, vars
  <2>3. cache' = cache
    BY <2>2 DEF IncrDeviceVersion
  <2>4. ASSUME NEW p \in Credentials, cache[p] # None, cache[p].device = d
        PROVE  cache[p].version # version'[d]
    <3>1. cache[p] \in Entry /\ Holds(p, cache[p])
      BY <2>4 DEF Holds
    <3>2. cache[p].version <= version[d]
      BY <2>4, <3>1 DEF HeldBound, Bound
    <3>3. cache[p].version \in Nat /\ version[d] \in Nat /\ version'[d] \in Nat
      BY <2>2, <3>1 DEF Entry, IncrDeviceVersion, AdmAt, Operation
    <3>4. QED
      BY <3>2, <3>3
  <2>5. QED
    BY <2>3, <2>4 DEF AllOutdated
<1>2. QED
  BY <1>1, IInvInit, IInvStep, PTL DEF Spec, BumpInvalidates

\* DeviceRepo.Update leaves deleted_at alone and Provision writes absent rows
\* only: whatever row image is still to be written, a deleted device stays so.
THEOREM DeletedStays == Spec => DeletedForGood
<1>1. IInv /\ [Next]_vars =>
        [\A d \in Devices : row[d].deleted => row'[d].deleted]_vars
  <2> SUFFICES ASSUME IInv, [Next]_vars, NEW d \in Devices, row[d].deleted
               PROVE  row'[d].deleted
    OBVIOUS
  <2> USE DEF IInv, TypeOK, db, history
  <2>1. ASSUME NEW a \in Admins, WriteUpdate(a)
        PROVE  row'[d].deleted
    <3> DEFINE f == adm[a].device
               written == [adm[a].image EXCEPT !.deleted = row[f].deleted]
    <3>1. adm[a].image \in Row /\ f \in Devices
      BY <2>1 DEF WriteUpdate, AdmAt, Operation
    <3>2. written.deleted = row[f].deleted
      BY <3>1 DEF Row
    <3>3. row' = [row EXCEPT ![f] = written]
      BY <2>1 DEF WriteUpdate
    <3> HIDE DEF written
    <3>4. QED
      BY <3>1, <3>2, <3>3
  <2>2. ASSUME NEW a \in Admins, WriteDelete(a)
        PROVE  row'[d].deleted
    <3>1. adm[a].device \in Devices
      BY <2>2 DEF WriteDelete, DeleteRows, AdmAt, Operation
    <3>2. adm[a].device # d
      BY <2>2 DEF WriteDelete, DeleteRows
    <3>3. QED
      BY <2>2, <3>1, <3>2 DEF WriteDelete, DeleteRows
  <2>3. ASSUME NEW a \in Admins, WriteProvision(a)
        PROVE  row'[d].deleted
    <3>1. adm[a].device \in Devices /\ row[adm[a].device].status = "absent"
      BY <2>3 DEF WriteProvision, AdmAt, Operation, Lifecycle, Provisions
    <3>2. adm[a].device # d
      BY <3>1 DEF Lifecycle
    <3>3. QED
      BY <2>3, <3>1, <3>2 DEF WriteProvision
  <2>4. CASE row' = row
    BY <2>4
  <2>5. QED
    BY <2>1, <2>2, <2>3, <2>4
       DEF Next, AdminBegins, RotateAPIKey, UpdateDevice, DeleteDevice, Provision, Start,
           AdminStep, WriteFails, IncrDeviceVersion, LoseIncr, DeleteChannel, Validate,
           RequestStep, CacheHit, CacheStale, LookupGranted, LookupRefused, SetReadVersion,
           SetWrite, ExpireEntry, ExpireVersion, vars
<1>2. QED
  BY <1>1, IInvInit, IInvStep, PTL DEF Spec, DeletedForGood

-----------------------------------------------------------------------------
(* Attribution: a key is issued once, and whatever holds it, a row, a row   *)
(* image or a cached answer, belongs to the device it was issued to.        *)

IssuedRows ==
  /\ \A d \in Devices : row[d].key # None => issuedTo[row[d].key] = d
  /\ \A a \in Admins : adm[a] # None /\ adm[a].image # None /\ adm[a].image.key # None
       => issuedTo[adm[a].image.key] = adm[a].device

IssuedEntries ==
  \A p \in Credentials, e \in Entry : Holds(p, e) => issuedTo[p[1]] = e.device

\* A key that was issued is never issued again.
LEMMA IssuedOnce ==
  ASSUME TypeOK, [Next]_vars, NEW k \in Keys, issuedTo[k] # None
  PROVE  issuedTo'[k] = issuedTo[k]
<1> USE DEF TypeOK, history
<1>1. CASE issuedTo' = issuedTo
  BY <1>1
<1>2. ASSUME NEW l \in Keys, NEW d \in Devices, Unissued(l),
             issuedTo' = [issuedTo EXCEPT ![l] = d]
      PROVE  issuedTo'[k] = issuedTo[k]
  BY <1>2 DEF Unissued
<1>3. ASSUME NEW a \in Admins, AdminBegins(a)
      PROVE  issuedTo'[k] = issuedTo[k]
  BY <1>1, <1>2, <1>3 DEF AdminBegins, RotateAPIKey, UpdateDevice, DeleteDevice, Provision
<1>4. ASSUME NEW a \in Admins, AdminStep(a)
      PROVE  issuedTo' = issuedTo
  BY <1>4 DEF AdminStep, WriteUpdate, WriteDelete, DeleteRows, WriteProvision, WriteFails,
              IncrDeviceVersion, LoseIncr
<1>5. QED
  BY <1>1, <1>3, <1>4 DEF Next, DeleteChannel, Validate, RequestStep, CacheHit, CacheStale,
     LookupGranted, LookupRefused, SetReadVersion, SetWrite, ExpireEntry, ExpireVersion, vars

LEMMA IssuedRowsStep ==
  ASSUME TypeOK, TypeOK', IssuedRows, [Next]_vars
  PROVE  IssuedRows'
<1> USE ConstantsAssumption DEF ConstantsAssumption
<1> USE DEF TypeOK, db, history, AdmAt
<1>1. /\ \A d \in Devices : row[d].key # None => row[d].key \in Keys
      /\ \A a \in Admins : adm[a] # None => adm[a].device \in Devices
      /\ \A a \in Admins : adm[a] # None /\ adm[a].image # None => adm[a].image \in Row
      /\ \A i \in Row : i.key # None => i.key \in Keys
  BY DEF Row, Operation
<1>2. \A k \in Keys : issuedTo[k] # None => issuedTo'[k] = issuedTo[k]
  BY IssuedOnce
<1>3. ASSUME row' = row,
             NEW a \in Admins, \A b \in Admins : b # a => adm'[b] = adm[b],
             adm'[a] # None /\ adm'[a].image # None /\ adm'[a].image.key # None =>
               issuedTo'[adm'[a].image.key] = adm'[a].device
      PROVE  IssuedRows'
  BY <1>1, <1>2, <1>3 DEF IssuedRows
<1>4. ASSUME NEW a \in Admins, NEW op, NEW d \in Devices, NEW i, NEW c, Start(a, op, d, i, c)
      PROVE  /\ row' = row
             /\ \A b \in Admins : b # a => adm'[b] = adm[b]
             /\ adm'[a].image = i /\ adm'[a].device = d
  BY <1>4 DEF Start
<1>5. ASSUME NEW a \in Admins, NEW d \in Devices, NEW k \in Keys, RotateAPIKey(a, d, k)
      PROVE  IssuedRows'
  <2> DEFINE i == [row[d] EXCEPT !.key = k]
  <2>1. i.key = k
    BY DEF Row
  <2>2. Start(a, "rotate", d, i, None) /\ issuedTo'[k] = d
    BY <1>5 DEF RotateAPIKey
  <2> HIDE DEF i
  <2>3. QED
    BY <1>3, <1>4, <2>1, <2>2
<1>6. ASSUME NEW a \in Admins, NEW d \in Devices, NEW s \in {"active", "blocked"},
             UpdateDevice(a, d, s)
      PROVE  IssuedRows'
  <2> DEFINE i == [row[d] EXCEPT !.status = s]
  <2>1. i.key = row[d].key
    BY DEF Row
  <2>2. Start(a, "update", d, i, None)
    BY <1>6 DEF UpdateDevice
  <2>3. row[d].key # None => issuedTo'[row[d].key] = d
    BY <1>1, <1>2 DEF IssuedRows
  <2> HIDE DEF i
  <2>4. QED
    BY <1>3, <1>4, <2>1, <2>2, <2>3
<1>7. ASSUME NEW a \in Admins, NEW d \in Devices, DeleteDevice(a, d)
      PROVE  IssuedRows'
  BY <1>3, <1>4, <1>7 DEF DeleteDevice
<1>8. ASSUME NEW a \in Admins, NEW d \in Devices, NEW c \in Channels, NEW k \in Keys,
             Provision(a, d, c, k)
      PROVE  IssuedRows'
  <2> DEFINE i == [key |-> k, status |-> "active", deleted |-> FALSE]
  <2>1. i.key = k
    OBVIOUS
  <2>2. Start(a, "provision", d, i, c) /\ issuedTo'[k] = d
    BY <1>8 DEF Provision
  <2> HIDE DEF i
  <2>3. QED
    BY <1>3, <1>4, <2>1, <2>2
<1>9. ASSUME NEW a \in Admins, issuedTo' = issuedTo, NEW f \in Devices, NEW i,
             row' = [row EXCEPT ![f] = i],
             i.key # None => issuedTo[i.key] = f,
             \A b \in Admins : b # a => adm'[b] = adm[b],
             adm'[a] # None => adm'[a].image = None
      PROVE  IssuedRows'
  BY <1>1, <1>9 DEF IssuedRows
<1>10. ASSUME NEW f \in Devices
       PROVE  BumpNext(f) # None /\ BumpNext(f).image = None
  BY DEF BumpNext, Operation
<1>11. ASSUME NEW a \in Admins, WriteUpdate(a)
       PROVE  IssuedRows'
  <2>1. PICK f \in Devices, i \in Row :
          /\ f = adm[a].device
          /\ i = [adm[a].image EXCEPT !.deleted = row[f].deleted]
          /\ i.key = adm[a].image.key
    <3>1. adm[a].device \in Devices /\ adm[a].image \in Row
      BY <1>11 DEF WriteUpdate, Operation
    <3> DEFINE i == [adm[a].image EXCEPT !.deleted = row[adm[a].device].deleted]
    <3>2. i \in Row /\ i.key = adm[a].image.key
      BY <3>1 DEF Row
    <3>3. QED
      BY <3>1, <3>2
  <2>2. i.key # None => issuedTo[i.key] = f
    BY <1>11, <2>1 DEF WriteUpdate, IssuedRows
  <2>3. row' = [row EXCEPT ![f] = i] /\ issuedTo' = issuedTo
    BY <1>11, <2>1 DEF WriteUpdate
  <2>4. adm' = [adm EXCEPT ![a] = BumpNext(f)] \/ adm' = [adm EXCEPT ![a] = None]
    BY <1>11, <2>1 DEF WriteUpdate
  <2>5. /\ \A b \in Admins : b # a => adm'[b] = adm[b]
        /\ adm'[a] # None => adm'[a].image = None
    BY <1>10, <2>4
  <2>6. QED
    BY <1>9, <2>2, <2>3, <2>5
<1>12. ASSUME NEW a \in Admins, WriteDelete(a)
       PROVE  IssuedRows'
  <2>1. PICK f \in Devices : f = adm[a].device
    BY <1>12 DEF WriteDelete, DeleteRows, Operation
  <2>2. row' = [row EXCEPT ![f] = [row[f] EXCEPT !.deleted = TRUE]]
    BY <1>12, <2>1 DEF WriteDelete, DeleteRows
  <2>3. [row[f] EXCEPT !.deleted = TRUE].key = row[f].key
    BY DEF Row
  <2>4. adm' = [adm EXCEPT ![a] = BumpNext(f)] /\ issuedTo' = issuedTo
    BY <1>12, <2>1 DEF WriteDelete, DeleteRows
  <2>5. /\ \A b \in Admins : b # a => adm'[b] = adm[b]
        /\ adm'[a] # None => adm'[a].image = None
    BY <1>10, <2>4
  <2>6. row[f].key # None => issuedTo[row[f].key] = f
    BY DEF IssuedRows
  <2>7. QED
    BY <1>9, <2>2, <2>3, <2>4, <2>5, <2>6
<1>13. ASSUME NEW a \in Admins, WriteProvision(a)
       PROVE  IssuedRows'
  <2>1. /\ adm[a].device \in Devices
        /\ adm[a].image.key # None => issuedTo[adm[a].image.key] = adm[a].device
    BY <1>1, <1>13 DEF WriteProvision, IssuedRows
  <2>2. /\ row' = [row EXCEPT ![adm[a].device] = adm[a].image]
        /\ issuedTo' = issuedTo /\ adm'[a] = None
        /\ \A b \in Admins : b # a => adm'[b] = adm[b]
    BY <1>13 DEF WriteProvision
  <2>3. QED
    BY <1>9, <2>1, <2>2
<1>14. ASSUME NEW a \in Admins, WriteFails(a) \/ IncrDeviceVersion(a) \/ LoseIncr(a)
       PROVE  IssuedRows'
  BY <1>3, <1>14 DEF WriteFails, IncrDeviceVersion, LoseIncr
<1>15. CASE UNCHANGED <<row, adm, issuedTo>>
  BY <1>15 DEF IssuedRows
<1>16. ASSUME NEW r \in Requests, RequestStep(r)
       PROVE  IssuedRows'
  BY <1>15, <1>16 DEF RequestStep, CacheHit, CacheStale, LookupGranted, LookupRefused,
                      SetReadVersion, SetWrite
<1>17. QED
  BY <1>5, <1>6, <1>7, <1>8, <1>11, <1>12, <1>13, <1>14, <1>15, <1>16
     DEF Next, AdminBegins, AdminStep, DeleteChannel, Validate, ExpireEntry,
         ExpireVersion, vars

LEMMA IssuedEntriesStep ==
  ASSUME TypeOK, IssuedRows, IssuedEntries, [Next]_vars
  PROVE  IssuedEntries'
<1> USE ConstantsAssumption DEF ConstantsAssumption
<1> SUFFICES ASSUME NEW p \in Credentials, NEW e \in Entry, Holds(p, e)'
             PROVE  issuedTo'[p[1]] = e.device
  BY DEF IssuedEntries
<1>1. p[1] \in Keys /\ e.device \in Devices /\ e.device # None
  BY DEF Credentials, Entry
<1>2. ASSUME issuedTo[p[1]] = e.device
      PROVE  issuedTo'[p[1]] = e.device
  BY <1>1, <1>2, IssuedOnce
<1>3. CASE Holds(p, e)
  BY <1>2, <1>3 DEF IssuedEntries
<1>4. ASSUME NEW r \in Requests, LookupGranted(r), req'[r].cred = p, req'[r].entry = e
      PROVE  issuedTo[p[1]] = e.device
  <2>1. PICK d \in Devices :
          /\ Valid(req[r].cred, d)
          /\ req' = [req EXCEPT ![r].pc = "readver",
                       ![r].entry = [device |-> d, version |-> 0, known |-> version[d]]]
    BY <1>4 DEF LookupGranted
  <2>2. p = req[r].cred /\ e.device = d
    BY <1>4, <2>1 DEF TypeOK, LookupGranted, ReqAt, Request
  <2>3. QED
    BY <1>1, <2>1, <2>2 DEF Valid, IssuedRows
<1>5. ASSUME NEW r \in Requests, SetReadVersion(r), req'[r].cred = p, req'[r].entry = e
      PROVE  issuedTo[p[1]] = e.device
  <2>1. PICK v : req' = [req EXCEPT ![r].pc = "set", ![r].entry.version = v]
    BY <1>5 DEF SetReadVersion
  <2>2. req[r] \in Request /\ req[r].entry \in Entry /\ req[r] # None
    BY <1>5 DEF SetReadVersion, TypeOK, ReqAt, Request
  <2>3. p = req[r].cred /\ e.device = req[r].entry.device
    BY <1>5, <2>1, <2>2 DEF TypeOK, Request, Entry
  <2>4. QED
    BY <2>2, <2>3 DEF IssuedEntries, Holds
<1>6. QED
  BY <1>2, <1>3, <1>4, <1>5, HeldSource

\* Validator.Validate: whatever is rotated, deleted, relinked or cached in
\* between, readings are attributed to the device the key was generated for.
THEOREM NothingMisattributed == Spec => []NeverMisattributed
<1> DEFINE Inv == TypeOK /\ IssuedRows /\ IssuedEntries
<1>1. Init => Inv
  <2> SUFFICES ASSUME Init PROVE Inv
    OBVIOUS
  <2>1. ASSUME NEW d \in Devices, row[d].key # None
        PROVE  issuedTo[row[d].key] = d
    <3>1. row[d].key = InitialKey[d] /\ InitialKey[d] \in Keys
      BY <2>1, ConstantsAssumption DEF Init, ConstantsAssumption
    <3>2. (CHOOSE f \in Devices : InitialKey[f] = InitialKey[d]) = d
      BY <2>1, <3>1, ConstantsAssumption DEF ConstantsAssumption
    <3>3. QED
      BY <3>1, <3>2 DEF Init
  <2>2. IssuedRows
    BY <2>1 DEF Init, IssuedRows
  <2>3. IssuedEntries
    BY ConstantsAssumption DEF Init, IssuedEntries, Holds, ConstantsAssumption
  <2>4. QED
    BY <2>2, <2>3, TypeInit
<1>2. Inv /\ [Next]_vars => Inv'
  BY TypeStep, IssuedRowsStep, IssuedEntriesStep
<1>3. Inv => NeverMisattributed
  BY DEF NeverMisattributed, TypeOK, IssuedRows, IssuedEntries, Holds, Request
<1>4. QED
  BY <1>1, <1>2, <1>3, PTL DEF Spec

-----------------------------------------------------------------------------
(* The refinement of CredentialGate.                                       *)

GrantsOfHeld ==
  \A g : g \in HonouredGrants <=>
    \E p \in Credentials, e \in Entry : Holds(p, e) /\ g = <<p, e.device>>

LEMMA HonouredAreHeld == TypeOK => GrantsOfHeld
<1> USE ConstantsAssumption DEF ConstantsAssumption, TypeOK
<1> SUFFICES ASSUME TypeOK PROVE GrantsOfHeld
  OBVIOUS
<1>1. ASSUME NEW p \in Credentials, cache[p] # None
      PROVE  cache[p] \in Entry /\ Holds(p, cache[p])
  BY <1>1 DEF Holds
<1>2. ASSUME NEW r \in Requests, req[r] # None, req[r].entry # None
      PROVE  req[r].cred \in Credentials /\ req[r].entry \in Entry
             /\ Holds(req[r].cred, req[r].entry)
  <2>1. req[r] \in Request
    BY <1>2
  <2>2. QED
    BY <1>2, <2>1 DEF Request, Holds
<1>3. ASSUME NEW g \in HonouredGrants
      PROVE  \E p \in Credentials, e \in Entry : Holds(p, e) /\ g = <<p, e.device>>
  BY <1>1, <1>2, <1>3 DEF HonouredGrants
<1>4. ASSUME NEW p \in Credentials, NEW e \in Entry, Holds(p, e)
      PROVE  <<p, e.device>> \in HonouredGrants
  BY <1>4 DEF Holds, HonouredGrants
<1>5. QED
  BY <1>3, <1>4 DEF GrantsOfHeld

\* The two-store protocol of cache, counter and lookups implements the gate:
\* a grant is honoured anew only while the database accepts it.
THEOREM GateRefined == Spec => ImplementsGate
<1> USE ConstantsAssumption DEF ConstantsAssumption
<1>1. Init => Gate!GateInit
  BY DEF Init, Gate!GateInit, ValidGrants, HonouredGrants
<1>2. TypeOK /\ TypeOK' /\ [Next]_vars => [Gate!GateNext]_<<ValidGrants, HonouredGrants>>
  <2> SUFFICES ASSUME TypeOK, TypeOK', [Next]_vars
               PROVE  Gate!GateNext \/ UNCHANGED <<ValidGrants, HonouredGrants>>
    OBVIOUS
  <2>1. GrantsOfHeld /\ GrantsOfHeld'
    <3>1. (TypeOK => GrantsOfHeld)'
      BY HonouredAreHeld, PTL
    <3>2. QED
      BY <3>1, HonouredAreHeld
  <2>2. CASE UNCHANGED <<cache, req>>
    <3>1. HonouredGrants' = HonouredGrants
      BY <2>2 DEF HonouredGrants
    <3>2. ValidGrants' \in SUBSET (Credentials \X Devices)
      BY DEF ValidGrants
    <3>3. QED
      BY <3>1, <3>2 DEF Gate!GateNext, Gate!Administer
  <2>3. ASSUME UNCHANGED <<row, owner>>, NEW r \in Requests, LookupGranted(r)
        PROVE  Gate!GateNext
    <3>1. PICK d \in Devices :
            /\ Valid(req[r].cred, d)
            /\ req' = [req EXCEPT ![r].pc = "readver",
                         ![r].entry = [device |-> d, version |-> 0, known |-> version[d]]]
      BY <2>3 DEF LookupGranted
    <3> DEFINE q == req[r].cred
               x == [device |-> d, version |-> 0, known |-> version[d]]
    <3>2. /\ req[r] \in Request /\ req[r] # None /\ req[r].entry = None
          /\ q \in Credentials /\ cache' = cache
      BY <2>3 DEF LookupGranted, ReqAt, TypeOK, Request
    <3>3. x \in Entry
      BY DEF TypeOK, Entry
    <3>4. req'[r] # None /\ req'[r].cred = q /\ req'[r].entry = x
      BY <3>1, <3>2, <3>3 DEF TypeOK, Request
    <3>5. \A s \in Requests : s # r => req'[s] = req[s]
      BY <3>1 DEF TypeOK
    <3> HIDE DEF x
    <3>6. \A p \in Credentials, e \in Entry : Holds(p, e)' <=> Holds(p, e) \/ (p = q /\ e = x)
      BY <3>2, <3>3, <3>4, <3>5 DEF Holds
    <3>7. x.device = d
      BY DEF x
    <3> HIDE DEF q
    <3>8. HonouredGrants' = HonouredGrants \cup {<<q, d>>}
      BY <2>1, <3>2, <3>3, <3>6, <3>7 DEF GrantsOfHeld
    <3>9. <<q, d>> \in ValidGrants
      BY <3>1, <3>2 DEF ValidGrants, q
    <3>10. ValidGrants' = ValidGrants
      BY <2>3 DEF ValidGrants, Valid
    <3>11. <<q, d>> \in Credentials \X Devices
      BY <3>2
    <3>12. QED
      BY <3>8, <3>9, <3>10, <3>11 DEF Gate!GateNext, Gate!Learn
  <2>4. ASSUME UNCHANGED <<row, owner>>, \A r \in Requests : ~LookupGranted(r)
        PROVE  Gate!GateNext
    <3>1. ASSUME NEW p \in Credentials, NEW e \in Entry, Holds(p, e)'
          PROVE  \E f \in Entry : Holds(p, f) /\ f.device = e.device
      <4>1. CASE Holds(p, e)
        BY <4>1
      <4>2. ASSUME NEW r \in Requests, SetReadVersion(r), req'[r].cred = p, req'[r].entry = e
            PROVE  \E f \in Entry : Holds(p, f) /\ f.device = e.device
        <5>1. PICK v : req' = [req EXCEPT ![r].pc = "set", ![r].entry.version = v]
          BY <4>2 DEF SetReadVersion
        <5>2. req[r] \in Request /\ req[r].entry \in Entry /\ req[r] # None
          BY <4>2 DEF SetReadVersion, TypeOK, ReqAt, Request
        <5>3. p = req[r].cred /\ e.device = req[r].entry.device
          BY <4>2, <5>1, <5>2 DEF TypeOK, Request, Entry
        <5>4. QED
          BY <5>2, <5>3 DEF Holds
      <4>3. QED
        BY <2>4, <3>1, <4>1, <4>2, HeldSource
    <3>2. HonouredGrants' \subseteq HonouredGrants
      BY <2>1, <3>1 DEF GrantsOfHeld
    <3>3. ValidGrants' = ValidGrants
      BY <2>4 DEF ValidGrants, Valid
    <3>4. QED
      BY <3>2, <3>3 DEF Gate!GateNext, Gate!Forget
  <2>5. ASSUME NEW a \in Admins, AdminBegins(a) \/ AdminStep(a)
        PROVE  UNCHANGED <<cache, req>>
    BY <2>5 DEF AdminBegins, RotateAPIKey, UpdateDevice, DeleteDevice, Provision, Start,
                AdminStep, WriteUpdate, WriteDelete, DeleteRows, WriteProvision, WriteFails,
                IncrDeviceVersion, LoseIncr
  <2>6. ASSUME NEW r \in Requests, RequestStep(r)
        PROVE  UNCHANGED <<row, owner>>
    BY <2>6 DEF RequestStep, CacheHit, CacheStale, LookupGranted, LookupRefused,
                SetReadVersion, SetWrite, db
  <2>7. UNCHANGED <<cache, req>> \/ UNCHANGED <<row, owner>>
    BY <2>5, <2>6 DEF Next, DeleteChannel, Validate, ExpireEntry, ExpireVersion, db, vars
  <2>8. QED
    BY <2>2, <2>3, <2>4, <2>7
<1>3. QED
  BY <1>1, <1>2, TypeCorrect, PTL DEF Spec, ImplementsGate, Gate!GateSpec
=============================================================================
