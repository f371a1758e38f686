----------------------------- MODULE CompactWire -----------------------------
(***************************************************************************)
(* What a device measures against what ingestion publishes for it.         *)
(*                                                                         *)
(* Postgres holds the fields of a channel: a position, 1 to 8, and a name. *)
(* A device works from the table of fields it was built with, ingestion    *)
(* from the one it looked up with the API key, which its cache keeps for   *)
(* up to ten minutes: editing fields invalidates neither.  Of the formats, *)
(* JSON carries names, the others positions only.                          *)
(*                                                                         *)
(* The value measured for a field is modelled by the field itself, so that *)
(* a published point shows whose value it is.                              *)
(***************************************************************************)
EXTENDS Integers, Sequences, FiniteSets

CONSTANTS
  Fields,       \* identities (UUIDs) of the fields that are ever created
  Names,        \* names a field may be given
  MaxPosition,  \* positions of a channel; 8 in the code
  MaxTime,      \* times of a measurement: bounds how far apart two may be
  Second,       \* milliseconds in a second, the resolution of the binary frame
  None

ASSUME BoundsAssumption ==
  MaxPosition \in Nat \ {0} /\ MaxTime \in Nat /\ Second \in Nat \ {0}

VARIABLES
  row,     \* Postgres: the row of each field, or None
  cached,  \* Redis: the table of fields kept with the API key, or None
  layout,  \* the table of fields the device was built with
  uplink   \* the device call of the last step and what became of it, or None

vars == <<row, cached, layout, uplink>>

Positions == 1 .. MaxPosition

Times == 0 .. MaxTime

\* A deleted row keeps its position and has no name here: nothing reads it.
Row == [position : Positions, name : Names \cup {None}]

Entry == [index : Positions, field : Fields, name : Names]

\* bare is the compact form without t and td; sdk is what sdk/go sends.
Formats == {"json", "compact", "bare", "binary", "thingspeak", "sdk"}

\* A time of the device, or one counted from when the server read the body.
Stamp == [clock : {"device", "server"}, ms : Times]

Point == [name : Names, of : Fields, at : Stamp]

Measured == UNION {[S -> Times] : S \in (SUBSET Fields) \ {{}}}

Uplink == [format : Formats, measured : Measured, layout : SUBSET Entry, schema : SUBSET Entry,
           status : {"created", "unknown_field_index", "bad_timestamp", "empty_fields"},
           points : SUBSET Point]

ASSUME NoneAssumption ==
  None \notin Names /\ None \notin Row /\ None \notin Uplink /\ \A table \in SUBSET Entry : None # table

Live(f) == row[f] # None /\ row[f].name # None

\* ValidateAPIKey and ResolveChannelByAPIKey: the fields as they are now.
Registered ==
  {[index |-> row[f].position, field |-> f, name |-> row[f].name] : f \in {g \in Fields : Live(g)}}

EntryAt(table, i) == CHOOSE e \in table : e.index = i

EntryOf(table, f) == CHOOSE e \in table : e.field = f

IndexesOf(table, m) == {e.index : e \in {d \in table : d.field \in DOMAIN m}}

\* UNIQUE (channel_id, position).
IsTable(table) == \A d, e \in table : (d.index = e.index \/ d.field = e.field) => d = e

TypeOK ==
  /\ row \in [Fields -> Row \cup {None}]
  /\ cached = None \/ cached \subseteq Entry
  /\ layout \subseteq Entry
  /\ uplink \in Uplink \cup {None}
  /\ IsTable(Registered) /\ IsTable(layout)
  /\ cached # None => IsTable(cached)

Init ==
  /\ row = [f \in Fields |-> None]
  /\ cached = None
  /\ layout = {}
  /\ uplink = None

-----------------------------------------------------------------------------
(* The device: what it puts on the wire.  A frame gives a value and an     *)
(* offset for each index; f of the compact forms is the frame 1, 2, ...    *)

MinTime(m) == CHOOSE t \in {m[f] : f \in DOMAIN m} : \A f \in DOMAIN m : t <= m[f]

Frame(base, values, td) == [base |-> base, values |-> values, td |-> td]

\* A bit of FIELDMSK for each value, TS in whole seconds.
MaskFrame(table, m) ==
  Frame([clock |-> "device", ms |-> (MinTime(m) \div Second) * Second],
        [i \in IndexesOf(table, m) |-> EntryAt(table, i).field], <<>>)

\* f, t and td as docs/api.md describes them: value i of f is that of index i.
DenseFrame(table, m) ==
  LET values == [i \in 1 .. Cardinality(DOMAIN m) |-> EntryAt(table, i).field]
  IN  Frame([clock |-> "device", ms |-> MinTime(m)], values,
            [i \in DOMAIN values |-> m[values[i]] - MinTime(m)])

BareFrame(table, m) ==
  Frame([clock |-> "server", ms |-> 0],
        [i \in 1 .. Cardinality(DOMAIN m) |-> EntryAt(table, i).field], <<>>)

\* buildBatches: f holds the slots that have a value, moved together; td counts
\* from the first reading set, and before it is 0.  Its ts is no key the server
\* reads.
SdkFrame(table, m, first) ==
  LET slots == IndexesOf(table, m)
      slot(i) == CHOOSE s \in slots : Cardinality({r \in slots : r <= s}) = i
      f == [i \in 1 .. Cardinality(slots) |-> EntryAt(table, slot(i)).field]
  IN  Frame([clock |-> "server", ms |-> 0], f,
            [i \in DOMAIN f |-> IF m[f[i]] < first THEN 0 ELSE m[f[i]] - first])

\* What the device can say in a format: it knows the fields, and where values
\* are told by their order they are those of indexes 1, 2, ...
CanEncode(format, table, m) ==
  /\ \A f \in DOMAIN m : \E e \in table : e.field = f
  /\ format \in {"compact", "bare"} => IndexesOf(table, m) = 1 .. Cardinality(DOMAIN m)
  /\ format \in {"json", "sdk"} =>
       \A d, e \in table : d.name = e.name /\ {d.field, e.field} \subseteq DOMAIN m => d = e
  /\ format = "binary" => \A f, g \in DOMAIN m : m[f] = m[g]

-----------------------------------------------------------------------------
(* Ingestion: what it makes of a frame.                                    *)

\* Entries found by their rank in the list of fields, for a mutant.
ResolveByRank(frame, table) ==
  LET rank(e) == Cardinality({d \in table : d.index <= e.index})
      indexes == {i \in DOMAIN frame.values : i <= Cardinality(table)}
  IN  {[name |-> (CHOOSE e \in table : rank(e) = i).name, of |-> frame.values[i],
        at |-> frame.base] : i \in indexes}

\* Mutant: the offsets are looked up by index and not by order.
ResolveOffsetsReversed(frame, table) ==
  LET n == Cardinality(DOMAIN frame.values)
      offset(i) == IF frame.td = <<>> THEN 0 ELSE frame.td[n + 1 - i]
  IN  {[name |-> EntryAt(table, i).name, of |-> frame.values[i],
        at |-> [frame.base EXCEPT !.ms = @ + offset(i)]] : i \in DOMAIN frame.values}

\* deserializeCompact: indexes are resolved in order, and of two fields of one
\* name the later is kept, for the value as for the time.
Resolve(frame, table) ==
  LET indexes == DOMAIN frame.values
      name(i) == EntryAt(table, i).name
      offset(i) == IF frame.td = <<>> THEN 0
                   ELSE frame.td[Cardinality({j \in indexes : j <= i})]
  IN  {[name |-> name(i), of |-> frame.values[i],
        at |-> [frame.base EXCEPT !.ms = @ + offset(i)]] :
         i \in {j \in indexes : \A k \in indexes : name(k) = name(j) => k <= j}}

\* The indexes of a frame that a table knows.
Known(frame, table) == {i \in DOMAIN frame.values : \E e \in table : e.index = i}

\* Mutant: an index that is not known is skipped, as for ThingSpeak.
DecodeKnown(frame, table) ==
  LET known == [frame EXCEPT !.values = [i \in Known(frame, table) |-> frame.values[i]]]
  IN  [status |-> "created", points |-> Resolve(known, table)]

\* Mutant: the indexes are those of the list of fields, holes closed.
DecodeByRank(frame, table) == [status |-> "created", points |-> ResolveByRank(frame, table)]

\* deserializeCompact: an unknown index refuses the whole body.  The version
\* never differs: registry and devices have only version 1, a binary frame 0.
Decode(frame, table) ==
  IF Known(frame, table) = DOMAIN frame.values
  THEN [status |-> "created", points |-> Resolve(frame, table)]
  ELSE [status |-> "unknown_field_index", points |-> {}]

\* Handler.ThingSpeak: unknown positions are skipped; "0" if none is left.
DecodeThingSpeak(frame, table) ==
  LET known == [frame EXCEPT !.values = [i \in Known(frame, table) |-> frame.values[i]]]
  IN  IF Known(frame, table) = {}
      THEN [status |-> "empty_fields", points |-> {}]
      ELSE [status |-> "created", points |-> Resolve(known, table)]

\* ingestJSON takes the names as they come; no table is consulted.
DecodeJSON(table, m) ==
  [status |-> "created",
   points |-> {[name |-> EntryOf(table, f).name, of |-> f,
                at |-> [clock |-> "device", ms |-> m[f]]] : f \in DOMAIN m}]

\* ValidateTimestamp may refuse any time the device gave or moved by a td.
BadTimestamp == [status |-> "bad_timestamp", points |-> {}]

Record(format, m, table, result) ==
  /\ uplink = None
  /\ uplink' = [format |-> format, measured |-> m, layout |-> layout, schema |-> table,
                status |-> result.status, points |-> result.points]

\* Validator.Validate: the cached table, or the registry's, which is then cached
\* (or not, when Redis fails).
Lookup(table) ==
  \/ cached # None /\ table = cached /\ cached' = cached
  \/ table = Registered /\ cached' \in {cached, Registered}

-----------------------------------------------------------------------------
(* Device registry.                                                        *)

\* Mutant: without UNIQUE (channel_id, position).
CreateFieldUnchecked(f, p, n) ==
  /\ row[f] = None
  /\ row' = [row EXCEPT ![f] = [position |-> p, name |-> n]]
  /\ uplink' = None
  /\ UNCHANGED <<cached, layout>>

\* FieldService.CreateField.
CreateField(f, p, n) ==
  /\ row[f] = None
  /\ \A g \in Fields : Live(g) => row[g].position # p
  /\ row' = [row EXCEPT ![f] = [position |-> p, name |-> n]]
  /\ uplink' = None
  /\ UNCHANGED <<cached, layout>>

\* FieldService.UpdateField: the name changes, the position cannot.
UpdateField(f, n) ==
  /\ Live(f)
  /\ row' = [row EXCEPT ![f].name = n]
  /\ uplink' = None
  /\ UNCHANGED <<cached, layout>>

\* FieldService.DeleteField.
DeleteField(f) ==
  /\ Live(f)
  /\ row' = [row EXCEPT ![f].name = None]
  /\ uplink' = None
  /\ UNCHANGED <<cached, layout>>

\* apiKeyCacheTTL has passed, or device_version was bumped for another reason.
Expire ==
  /\ cached # None
  /\ cached' = None
  /\ uplink' = None
  /\ UNCHANGED <<row, layout>>

\* The device is built, or built again, for the fields as they are; an earlier
\* call is forgotten.
Flash ==
  /\ layout' = Registered
  /\ uplink' = None
  /\ UNCHANGED <<row, cached>>

-----------------------------------------------------------------------------
(* One call of the device.                                                 *)

SendJSON(m) ==
  /\ CanEncode("json", layout, m)
  /\ \E table \in {cached, Registered}, result \in {DecodeJSON(layout, m), BadTimestamp} :
       Lookup(table) /\ Record("json", m, table, result)
  /\ UNCHANGED <<row, layout>>

\* ingestCompact of a frame in a compact format.
SendFrame(format, m, frame) ==
  /\ CanEncode(format, layout, m)
  /\ \E table \in {cached, Registered} :
       /\ Lookup(table)
       /\ \E result \in {Decode(frame, table)} \cup
                        (IF frame.base.clock = "device" \/ frame.td # <<>>
                         THEN {BadTimestamp} ELSE {}) :
            Record(format, m, table, result)
  /\ UNCHANGED <<row, layout>>

SendThingSpeak(m) ==
  /\ CanEncode("thingspeak", layout, m)
  /\ LET frame == Frame([clock |-> "server", ms |-> 0],
                        [i \in IndexesOf(layout, m) |-> EntryAt(layout, i).field], <<>>)
     IN  Record("thingspeak", m, Registered, DecodeThingSpeak(frame, Registered))
  /\ UNCHANGED <<row, cached, layout>>

Send(m) ==
  \/ SendJSON(m)
  \/ SendFrame("compact", m, DenseFrame(layout, m))
  \/ SendFrame("bare", m, BareFrame(layout, m))
  \/ SendFrame("binary", m, MaskFrame(layout, m))
  \/ SendThingSpeak(m)
  \/ \E f \in DOMAIN m : SendFrame("sdk", m, SdkFrame(layout, m, m[f]))

Next ==
  \/ \E f \in Fields, p \in Positions, n \in Names : CreateField(f, p, n)
  \/ \E f \in Fields, n \in Names : UpdateField(f, n)
  \/ \E f \in Fields : DeleteField(f)
  \/ Expire
  \/ Flash
  \/ \E m \in Measured : Send(m)

Spec == Init /\ [][Next]_vars

-----------------------------------------------------------------------------
(* Properties.                                                             *)

Answered == uplink # None

\* The device and the table ingestion used have the measured fields in the same
\* places.
Agrees(u) ==
  \A f \in DOMAIN u.measured :
    \E d \in u.layout, e \in u.schema : d.field = f /\ e.field = f /\ d.index = e.index

\* Nothing in Postgres keeps two fields of a channel from having one name.
Distinct(u) == \A d, e \in u.schema : d.name = e.name => d = e

\* The time the format carries.
TimeSent(u, f) ==
  CASE u.format \in {"json", "compact"} -> [clock |-> "device", ms |-> u.measured[f]]
    [] u.format = "binary" ->
         [clock |-> "device", ms |-> (u.measured[f] \div Second) * Second]
    [] OTHER -> [clock |-> "server", ms |-> 0]

NameSent(u, f) ==
  IF u.format = "json" THEN EntryOf(u.layout, f).name ELSE EntryOf(u.schema, f).name

Meant(u) ==
  {[name |-> NameSent(u, f), of |-> f, at |-> TimeSent(u, f)] : f \in DOMAIN u.measured}

\* The formats of docs/api.md: a device that agrees with the table ingestion
\* used is never told that a field is unknown, and what is published is what it
\* measured, under the right names and at the times the format carries.
DecodedAsMeant ==
  Answered /\ uplink.format # "sdk" /\ Agrees(uplink) /\ Distinct(uplink) =>
    \/ uplink.status = "bad_timestamp"
    \/ uplink.status = "created" /\ uplink.points = Meant(uplink)

\* The fields a position has ever been given to.
Holders(p) == {f \in Fields : row[f] # None /\ row[f].position = p}

\* However old the table of the device and that of the cache are, a value is
\* published under the name of another field only if a position it was sent for
\* has been given to a second field: deleting and renaming do no such harm.
MisfiledOnlyIfReused ==
  Answered /\ uplink.format \notin {"json", "sdk"} /\ Distinct(uplink) =>
    \A pt \in uplink.points, e \in uplink.schema :
      \/ e.name # pt.name
      \/ e.field = pt.of
      \/ \E p \in Positions : {e.field, pt.of} \subseteq Holders(p)

\* A call is published whole or not at all, ThingSpeak's excepted: as many
\* points as values were measured, whichever tables were used.
PublishedWhole ==
  Answered /\ uplink.format # "thingspeak" /\ uplink.status = "created" /\ Distinct(uplink) =>
    Cardinality(uplink.points) = Cardinality(DOMAIN uplink.measured)

-----------------------------------------------------------------------------
(* What comments of sdk/go promise and its encoder does not keep.          *)

\* "The "f" array is positional, matching the server's ordered field list": with
\* the same table on both sides, a value set for a field is published for it.
FieldKept ==
  Answered /\ uplink.format = "sdk" /\ Agrees(uplink) /\ Distinct(uplink) =>
    \A pt \in uplink.points : pt.name = EntryOf(uplink.schema, pt.of).name
=============================================================================
