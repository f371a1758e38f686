---------------------------- MODULE ServicesProofs ----------------------------
(***************************************************************************)
(* Proofs about the smaller components: Workspaces, Accounts (Signup and   *)
(* AuditLog), Channels, VideoStreams and Ingestion, for any values of      *)
(* their constants that meet their assumptions.  Each has an inductive     *)
(* invariant of its own; a step of MCServices is a step of one of them and *)
(* leaves the others alone.                                                *)
(***************************************************************************)
EXTENDS MCServices, SequenceTheorems, TLAPS

LEMMA Assumptions ==
  /\ W!HomeAssumption /\ W!NoneAssumption
  /\ C!OtherEventsAssumption /\ C!RestartsAssumption
  /\ C!S!FirstOrgAssumption /\ C!S!NoneAssumption
  /\ R!DaysAssumption /\ R!NoneAssumption
  /\ V!PendingAssumption /\ V!NoneAssumption
  /\ P!MaxAttemptsAssumption /\ P!NoneAssumption
BY ServicesAssumption

-----------------------------------------------------------------------------
(* Channels.  While a channel is edited, each call carries a period that   *)
(* was told, and a bucket that a call did not find was made meanwhile.     *)

PeriodsTold ==
  \A h \in Handlers : edits[h] # None =>
    /\ edits[h].days \in told[edits[h].id] \cup {R!Forever}
    /\ edits[h].at = "post" =>
         buckets[edits[h].id] \in told[edits[h].id] \cup {R!Forever, None}

ChannelsInv == R!TypeOK /\ PeriodsTold /\ RetentionAsTold

LEMMA EditTyped ==
  ASSUME R!TypeOK, NEW h \in Handlers, edits[h] # None
  PROVE  /\ edits[h] \in R!Call /\ edits[h].id \in Ids /\ edits[h].days \in R!Periods
         /\ edits[h].days # None /\ buckets[edits[h].id] \in R!Periods \cup {None}
BY Assumptions DEF R!TypeOK, R!Call, R!NoneAssumption

LEMMA ChannelsInit == R!Init => ChannelsInv
BY DEF R!Init, ChannelsInv, R!TypeOK, PeriodsTold, RetentionAsTold, R!RetentionAsTold

\* A call begins: what is told of the channel starts anew only when nobody is at it.
LEMMA BeginKeepsTold ==
  ASSUME ChannelsInv, NEW h \in Handlers, NEW step \in {"row", "find"}, NEW c \in Ids,
         NEW days \in R!Periods, NEW named \in R!Periods,
         days = named, R!Begin(h, step, c, days, named), buckets' = buckets,
         channels' \in [Ids -> {"absent", "live", "deleted"}],
         \A d \in Ids \ {c} : channels'[d] = channels[d]
  PROVE  ChannelsInv'
<1>1. R!TypeOK /\ PeriodsTold /\ RetentionAsTold
  BY DEF ChannelsInv
<1>2. [at |-> step, id |-> c, days |-> days] \in R!Call /\ [at |-> step, id |-> c, days |-> days] # None
  BY Assumptions DEF R!Call, R!NoneAssumption
<1>3. /\ edits[h] = None
      /\ edits'[h] = [at |-> step, id |-> c, days |-> days]
      /\ \A g \in Handlers \ {h} : edits'[g] = edits[g]
  BY <1>1 DEF R!Begin, R!TypeOK
<1>4. /\ \A d \in Ids \ {c} : told'[d] = told[d]
      /\ named = R!Forever => told'[c] = told[c]
      /\ named # R!Forever => named \in told'[c]
      /\ R!Busy(c) => told[c] \subseteq told'[c]
  BY <1>1 DEF R!Begin, R!TypeOK
<1>5. R!TypeOK'
  <2>1. edits' \in [Handlers -> R!Call \cup {None}]
    BY <1>1, <1>2 DEF R!Begin, R!TypeOK
  <2>2. told' \in [Ids -> SUBSET (R!Periods \cup {None})]
    BY <1>1 DEF R!Begin, R!TypeOK
  <2>3. QED
    BY <1>1, <2>1, <2>2 DEF R!TypeOK
<1>6. PeriodsTold'
  <2>1. SUFFICES ASSUME NEW g \in Handlers, edits'[g] # None
                 PROVE  /\ edits'[g].days \in told'[edits'[g].id] \cup {R!Forever}
                        /\ edits'[g].at = "post" =>
                             buckets[edits'[g].id] \in told'[edits'[g].id] \cup {R!Forever, None}
    BY DEF PeriodsTold
  <2>2. CASE g = h
    BY <1>3, <1>4, <2>2
  <2>3. CASE g # h
    <3>1. edits'[g] = edits[g] /\ edits[g].id \in Ids
      BY <1>1, <1>3, <2>1, <2>3, EditTyped
    <3>2. told[edits[g].id] \subseteq told'[edits[g].id]
      BY <1>4, <2>1, <3>1 DEF R!Busy
    <3>3. QED
      BY <1>1, <2>1, <3>1, <3>2 DEF PeriodsTold
  <2>4. QED
    BY <2>2, <2>3
<1>7. RetentionAsTold'
  <2>1. SUFFICES ASSUME NEW d \in Ids, channels'[d] # "absent", ~R!Busy(d)'
                 PROVE  buckets[d] \in told'[d] \cup {R!Forever}
    BY DEF RetentionAsTold, R!RetentionAsTold
  <2>2. d # c
    BY <1>2, <1>3, <2>1 DEF R!Busy
  <2>3. ~R!Busy(d)
    BY <1>3, <2>1 DEF R!Busy
  <2>4. QED
    BY <1>1, <1>4, <2>1, <2>2, <2>3 DEF RetentionAsTold, R!RetentionAsTold
<1>8. QED
  BY <1>5, <1>6, <1>7 DEF ChannelsInv

LEMMA CallMovesOn ==
  ASSUME ChannelsInv, NEW h \in Handlers, edits[h] # None,
         NEW step \in {"find", "post", "patch"}, R!Goto(h, step),
         step = "post" => buckets[edits[h].id] = None,
         UNCHANGED <<channels, buckets, told>>
  PROVE  ChannelsInv'
<1>1. R!TypeOK /\ PeriodsTold /\ RetentionAsTold
  BY DEF ChannelsInv
<1>2. edits[h] \in R!Call /\ edits \in [Handlers -> R!Call \cup {None}]
  BY <1>1, EditTyped DEF R!TypeOK
<1>3. [edits[h] EXCEPT !.at = step] \in R!Call /\ \A x \in R!Call : x # None
  BY <1>2, Assumptions DEF R!Call, R!NoneAssumption
<1>4. edits' = [edits EXCEPT ![h] = [edits[h] EXCEPT !.at = step]]
  BY <1>2 DEF R!Goto
<1>5. edits'[h] = [edits[h] EXCEPT !.at = step] /\ \A g \in Handlers \ {h} : edits'[g] = edits[g]
  BY <1>2, <1>4
<1>6. /\ edits'[h] # None /\ edits'[h].at = step
      /\ edits'[h].id = edits[h].id /\ edits'[h].days = edits[h].days
  BY <1>2, <1>3, <1>5 DEF R!Call
<1>7. R!TypeOK'
  BY <1>1, <1>2, <1>3, <1>4 DEF R!TypeOK
<1>8. PeriodsTold'
  BY <1>1, <1>5, <1>6 DEF PeriodsTold
<1>9. \A c \in Ids : R!Busy(c) => R!Busy(c)'
  BY <1>5, <1>6 DEF R!Busy
<1>10. QED
  BY <1>1, <1>7, <1>8, <1>9 DEF ChannelsInv, RetentionAsTold, R!RetentionAsTold

\* A call ends: what its channel's bucket has now is told.
LEMMA CallEnds ==
  ASSUME ChannelsInv, NEW h \in Handlers, edits[h] # None, R!End(h), channels' = channels,
         NEW c \in Ids, c = edits[h].id,
         buckets' \in [Ids -> R!Periods \cup {None}],
         told' \in [Ids -> SUBSET (R!Periods \cup {None})],
         \A d \in Ids \ {c} : buckets'[d] = buckets[d] /\ told'[d] = told[d],
         buckets'[c] \in told'[c] \cup {R!Forever}, told[c] \subseteq told'[c]
  PROVE  ChannelsInv'
<1>1. R!TypeOK /\ PeriodsTold /\ RetentionAsTold
  BY DEF ChannelsInv
<1>2. edits'[h] = None /\ \A g \in Handlers \ {h} : edits'[g] = edits[g]
  BY <1>1 DEF R!End, R!TypeOK
<1>3. R!TypeOK'
  BY <1>1 DEF R!End, R!TypeOK
<1>4. PeriodsTold'
  <2>1. SUFFICES ASSUME NEW g \in Handlers, edits'[g] # None
                 PROVE  /\ edits'[g].days \in told'[edits'[g].id] \cup {R!Forever}
                        /\ edits'[g].at = "post" =>
                             buckets'[edits'[g].id] \in told'[edits'[g].id] \cup {R!Forever, None}
    BY DEF PeriodsTold
  <2>2. edits'[g] = edits[g] /\ edits[g].id \in Ids
    BY <1>1, <1>2, <2>1, EditTyped
  <2>3. QED
    BY <1>1, <2>1, <2>2 DEF PeriodsTold
<1>5. RetentionAsTold'
  <2>1. SUFFICES ASSUME NEW d \in Ids, channels[d] # "absent", ~R!Busy(d)', d # c
                 PROVE  buckets'[d] \in told'[d] \cup {R!Forever}
    BY DEF RetentionAsTold, R!RetentionAsTold
  <2>2. ~R!Busy(d)
    BY <1>2, <2>1 DEF R!Busy
  <2>3. QED
    BY <1>1, <2>1, <2>2 DEF RetentionAsTold, R!RetentionAsTold
<1>6. QED
  BY <1>3, <1>4, <1>5 DEF ChannelsInv

LEMMA ChannelsStep == ChannelsInv /\ [R!Next]_channelsVars => ChannelsInv'
<1> SUFFICES ASSUME ChannelsInv, [R!Next]_channelsVars PROVE ChannelsInv'
  OBVIOUS
<1>1. R!TypeOK /\ PeriodsTold /\ RetentionAsTold
  BY DEF ChannelsInv
<1>2. /\ R!Forever \in R!Periods /\ DefaultDays \in R!Periods /\ Days \subseteq R!Periods
      /\ DefaultDays # R!Forever
  BY Assumptions DEF R!Periods, R!DaysAssumption
<1>3. ASSUME NEW h \in Handlers, NEW c \in Ids, NEW named \in Days \cup {R!Forever},
             R!CreateChannel(h, c, named)
      PROVE  ChannelsInv'
  <2> DEFINE days == IF named = R!Forever THEN DefaultDays ELSE named
  <2>1. days \in R!Periods
    BY <1>2
  <2>2. R!Begin(h, "find", c, days, days) /\ buckets' = buckets
        /\ channels' = [channels EXCEPT ![c] = "live"]
    BY <1>3 DEF R!CreateChannel
  <2> HIDE DEF days
  <2>3. QED
    BY <1>1, <2>1, <2>2, BeginKeepsTold DEF R!TypeOK
<1>4. ASSUME NEW h \in Handlers, NEW c \in Ids, NEW named \in Days \cup {R!Forever},
             R!UpdateChannel(h, c, named)
      PROVE  ChannelsInv'
  BY <1>1, <1>2, <1>4, BeginKeepsTold DEF R!UpdateChannel, R!TypeOK
<1>5. ASSUME NEW h \in Handlers, R!WriteRow(h) \/ R!FindBucket(h) PROVE ChannelsInv'
  BY <1>5, CallMovesOn DEF R!WriteRow, R!FindBucket, R!At
<1>6. ASSUME NEW h \in Handlers, R!UpdateBucket(h) \/ R!CreateBucket(h) PROVE ChannelsInv'
  <2>1. edits[h] # None /\ R!End(h) /\ UNCHANGED <<channels, told>>
        /\ (R!CreateBucket(h) => edits[h].at = "post")
    BY <1>6 DEF R!UpdateBucket, R!CreateBucket, R!At
  <2>2. PICK c \in Ids : c = edits[h].id
    BY <1>1, <2>1, EditTyped
  <2>3. edits[h].days \in R!Periods /\ edits[h].days \in told[c] \cup {R!Forever}
    BY <1>1, <2>1, <2>2, EditTyped DEF PeriodsTold
  <2>4. \/ buckets' = [buckets EXCEPT ![c] = edits[h].days]
        \/ R!CreateBucket(h) /\ buckets[c] # None /\ buckets' = [buckets EXCEPT ![c] = buckets[c]]
    BY <1>6, <2>2 DEF R!UpdateBucket, R!CreateBucket
  <2>5. R!CreateBucket(h) /\ buckets[c] # None => buckets[c] \in told[c] \cup {R!Forever}
    BY <1>1, <2>1, <2>2 DEF PeriodsTold
  <2>6. /\ buckets' \in [Ids -> R!Periods \cup {None}]
        /\ buckets'[c] \in told[c] \cup {R!Forever}
        /\ \A d \in Ids \ {c} : buckets'[d] = buckets[d]
    BY <1>1, <2>3, <2>4, <2>5 DEF R!TypeOK
  <2>7. QED
    BY <1>1, <2>1, <2>2, <2>6, CallEnds DEF R!TypeOK
<1>7. ASSUME NEW h \in Handlers, R!CallFails(h) PROVE ChannelsInv'
  <2>1. PICK c \in Ids : c = edits[h].id
    BY <1>1, <1>7, EditTyped DEF R!CallFails
  <2>2. edits[h] # None /\ R!End(h) /\ UNCHANGED <<channels, buckets>>
        /\ told' = [told EXCEPT ![c] = told[c] \cup {buckets[c]}]
    BY <1>7, <2>1 DEF R!CallFails
  <2>3. /\ told' \in [Ids -> SUBSET (R!Periods \cup {None})]
        /\ told'[c] = told[c] \cup {buckets[c]} /\ \A d \in Ids \ {c} : told'[d] = told[d]
    BY <1>1, <2>2 DEF R!TypeOK
  <2>4. QED
    BY <1>1, <2>1, <2>2, <2>3, CallEnds DEF R!TypeOK
<1>8. ASSUME NEW c \in Ids, R!DeleteChannel(c) PROVE ChannelsInv'
  <2>1. R!TypeOK' /\ \A d \in Ids : channels'[d] # "absent" => channels[d] # "absent"
    BY <1>1, <1>8 DEF R!DeleteChannel, R!TypeOK
  <2>2. PeriodsTold'
    BY <1>1, <1>8 DEF R!DeleteChannel, PeriodsTold
  <2>3. RetentionAsTold'
    BY <1>1, <1>8, <2>1 DEF R!DeleteChannel, RetentionAsTold, R!RetentionAsTold, R!Busy
  <2>4. QED
    BY <2>1, <2>2, <2>3 DEF ChannelsInv
<1>9. ASSUME UNCHANGED channelsVars PROVE ChannelsInv'
  BY <1>1, <1>9 DEF channelsVars, ChannelsInv, R!TypeOK, PeriodsTold, RetentionAsTold,
                    R!RetentionAsTold, R!Busy
<1>10. QED
  BY <1>3, <1>4, <1>5, <1>6, <1>7, <1>8, <1>9 DEF R!Next

-----------------------------------------------------------------------------
(* VideoStreams.  A stream that is not excused, its calls and the last URL *)
(* given out agree on one key, which belongs to this stream only; a key    *)
(* that an upload call still holds is nowhere else.                        *)

KeysOwned ==
  /\ \A k \in objects \cup urls : owner[k] # None
  /\ \A s \in Streams : latest[s] # None => owner[latest[s]] = s

KeysPending ==
  \A h \in Handlers : V!At(h, "upload") =>
    /\ streamCalls[h].row.key \in StorageKeys \ (objects \cup urls)
    /\ owner[streamCalls[h].row.key] = streamCalls[h].id
    /\ \A g \in Handlers \ {h} :
         V!At(g, "upload") => streamCalls[g].row.key # streamCalls[h].row.key

CallsAgree ==
  \A h \in Handlers : streamCalls[h] # None /\ streamCalls[h].id \notin excused =>
    /\ streamCalls[h].op # "upload" => streamCalls[h].row.key = latest[streamCalls[h].id]
    /\ streamCalls[h].op = "drop" => latest[streamCalls[h].id] \notin objects

NothingBefore ==
  /\ \A s \in Streams \ created : streams[s] = None /\ latest[s] = None
  /\ \A h \in Handlers : streamCalls[h] # None => streamCalls[h].id \in created

StreamsInv ==
  V!TypeOK /\ KeysOwned /\ KeysPending /\ CallsAgree /\ NothingBefore /\ RecordingFollowsRow

LEMMA StreamCallTyped ==
  ASSUME V!TypeOK, NEW h \in Handlers, streamCalls[h] # None
  PROVE  /\ streamCalls[h] \in V!Call /\ streamCalls[h].id \in Streams
         /\ streamCalls[h].op \in {"upload", "status", "delete", "drop"}
         /\ streamCalls[h].row \in V!Row /\ streamCalls[h].row # None
         /\ streamCalls[h].row.key \in StorageKeys \cup {None}
BY Assumptions DEF V!TypeOK, V!Call, V!Row, V!NoneAssumption

LEMMA StreamsInit == V!Init => StreamsInv
<1> SUFFICES ASSUME V!Init PROVE StreamsInv
  OBVIOUS
<1>1. V!TypeOK
  BY DEF V!Init, V!TypeOK
<1>2. \A h \in Handlers : streamCalls[h] = None
  BY DEF V!Init
<1>3. KeysPending /\ CallsAgree
  BY <1>2 DEF KeysPending, CallsAgree, V!At
<1>4. KeysOwned /\ NothingBefore /\ RecordingFollowsRow
  BY <1>2 DEF V!Init, KeysOwned, NothingBefore, RecordingFollowsRow, V!RecordingFollowsRow
<1>5. QED
  BY <1>1, <1>3, <1>4 DEF StreamsInv

\* What V!Begin writes: a call that is none of the others.
LEMMA BeginEffect ==
  ASSUME V!TypeOK, NEW h \in Handlers, NEW s \in Streams, NEW r \in V!Row,
         NEW op \in {"upload", "status", "delete"}, V!Begin(h, op, s, r)
  PROVE  /\ streams[s] # None /\ streamCalls[h] = None
         /\ streamCalls' \in [Handlers -> V!Call \cup {None}]
         /\ streamCalls'[h] # None /\ streamCalls'[h].op = op
         /\ streamCalls'[h].id = s /\ streamCalls'[h].row = r
         /\ \A g \in Handlers \ {h} : streamCalls'[g] = streamCalls[g]
<1>1. [op |-> op, id |-> s, row |-> r] \in V!Call /\ [op |-> op, id |-> s, row |-> r] # None
  BY Assumptions DEF V!Call, V!NoneAssumption
<1>2. streamCalls' = [streamCalls EXCEPT ![h] = [op |-> op, id |-> s, row |-> r]]
  BY DEF V!Begin
<1>3. streamCalls'[h] = [op |-> op, id |-> s, row |-> r]
  BY <1>2 DEF V!TypeOK
<1>4. QED
  BY <1>1, <1>2, <1>3 DEF V!TypeOK, V!Begin

\* A status or a deletion begins: it has read the row as it is.
LEMMA ReadKeepsStreams ==
  ASSUME StreamsInv, NEW h \in Handlers, NEW s \in Streams, NEW r \in V!Row,
         NEW op \in {"status", "delete"}, V!Begin(h, op, s, r), r.key = streams[s].key,
         UNCHANGED <<streams, objects, urls, created, owner, latest, excused>>
  PROVE  StreamsInv'
<1>1. V!TypeOK /\ KeysOwned /\ KeysPending /\ CallsAgree /\ NothingBefore /\ RecordingFollowsRow
  BY DEF StreamsInv
<1>2. V!TypeOK'
  BY <1>1, BeginEffect DEF V!TypeOK
<1>3. KeysPending'
  BY <1>1, BeginEffect DEF KeysPending, V!At
<1>4. CallsAgree'
  <2>1. s \notin excused => r.key = latest[s]
    BY <1>1, BeginEffect DEF RecordingFollowsRow, V!RecordingFollowsRow
  <2>2. QED
    BY <1>1, <2>1, BeginEffect DEF CallsAgree
<1>5. NothingBefore'
  BY <1>1, BeginEffect DEF NothingBefore
<1>6. KeysOwned' /\ RecordingFollowsRow'
  BY <1>1 DEF KeysOwned, RecordingFollowsRow, V!RecordingFollowsRow
<1>7. QED
  BY <1>2, <1>3, <1>4, <1>5, <1>6 DEF StreamsInv

LEMMA UploadURLKeepsStreams ==
  ASSUME StreamsInv, NEW h \in Handlers, NEW s \in Streams, NEW k \in StorageKeys,
         V!GetUploadURL(h, s, k)
  PROVE  StreamsInv'
<1>1. V!TypeOK /\ KeysOwned /\ KeysPending /\ CallsAgree /\ NothingBefore /\ RecordingFollowsRow
  BY DEF StreamsInv
<1>2. /\ owner[k] = None /\ owner' = [owner EXCEPT ![k] = s] /\ s # None
      /\ [streams[s] EXCEPT !.key = k] \in V!Row /\ [streams[s] EXCEPT !.key = k].key = k
      /\ V!Begin(h, "upload", s, [streams[s] EXCEPT !.key = k])
      /\ UNCHANGED <<streams, objects, urls, created, latest, excused>>
  <2>1. V!Begin(h, "upload", s, [streams[s] EXCEPT !.key = k]) /\ streams[s] \in V!Row
    BY <1>1 DEF V!GetUploadURL, V!Begin, V!TypeOK
  <2>2. [streams[s] EXCEPT !.key = k] \in V!Row /\ [streams[s] EXCEPT !.key = k].key = k
    BY <2>1 DEF V!Row
  <2>3. QED
    BY <2>1, <2>2, Assumptions DEF V!GetUploadURL, V!NoneAssumption
<1>3. PICK r \in V!Row : r.key = k /\ V!Begin(h, "upload", s, r)
  BY <1>2
<1>4. /\ streams[s] # None /\ streamCalls[h] = None
      /\ streamCalls' \in [Handlers -> V!Call \cup {None}]
      /\ streamCalls'[h] # None /\ streamCalls'[h].op = "upload"
      /\ streamCalls'[h].id = s /\ streamCalls'[h].row.key = k
      /\ \A g \in Handlers \ {h} : streamCalls'[g] = streamCalls[g]
  BY <1>1, <1>2, <1>3, BeginEffect
<1>5. owner'[k] = s /\ \A j \in StorageKeys \ {k} : owner'[j] = owner[j]
  BY <1>1, <1>2 DEF V!TypeOK
<1>6. V!TypeOK'
  BY <1>1, <1>2, <1>4 DEF V!TypeOK
<1>7. KeysOwned'
  <2>1. objects \subseteq StorageKeys /\ urls \subseteq StorageKeys
        /\ \A t \in Streams : latest[t] \in StorageKeys \cup {None}
    BY <1>1 DEF V!TypeOK
  <2>2. k \notin objects \cup urls /\ \A t \in Streams : latest[t] # None => latest[t] # k
    <3>1. \A t \in Streams : t # None
      BY Assumptions DEF V!NoneAssumption
    <3>2. QED
      BY <1>1, <1>2, <3>1 DEF KeysOwned
  <2>3. QED
    BY <1>1, <1>2, <1>5, <2>1, <2>2 DEF KeysOwned
<1>8. KeysPending'
  <2>1. ASSUME NEW g \in Handlers \ {h}, V!At(g, "upload") PROVE streamCalls[g].row.key # k
    <3>1. streamCalls[g].id # None
      BY <1>1, <2>1, StreamCallTyped, Assumptions DEF V!At, V!NoneAssumption
    <3>2. QED
      BY <1>1, <1>2, <2>1, <3>1 DEF KeysPending
  <2>2. k \notin objects \cup urls
    BY <1>1, <1>2 DEF KeysOwned
  <2>3. QED
    BY <1>1, <1>2, <1>4, <1>5, <2>1, <2>2 DEF KeysPending, V!At
<1>9. CallsAgree' /\ NothingBefore' /\ RecordingFollowsRow'
  BY <1>1, <1>2, <1>4 DEF CallsAgree, NothingBefore, RecordingFollowsRow, V!RecordingFollowsRow
<1>10. QED
  BY <1>6, <1>7, <1>8, <1>9 DEF StreamsInv

\* A statement ends its call: every other call is where it was.
LEMMA EndEffect ==
  ASSUME V!TypeOK, NEW h \in Handlers, V!End(h)
  PROVE  /\ streamCalls' \in [Handlers -> V!Call \cup {None}]
         /\ streamCalls'[h] = None /\ \A g \in Handlers \ {h} : streamCalls'[g] = streamCalls[g]
BY DEF V!End, V!TypeOK

LEMMA WrittenRow ==
  ASSUME V!TypeOK, NEW c \in V!Call
  PROVE  /\ V!Written(c) \in [Streams -> V!Row \cup {None}]
         /\ \A s \in Streams \ {c.id} : V!Written(c)[s] = streams[s]
         /\ streams[c.id] = None => V!Written(c)[c.id] = None
         /\ streams[c.id] # None => V!Written(c)[c.id] = c.row /\ c.row # None
<1>1. c.row \in V!Row /\ c.id \in Streams /\ c.row # None
  BY Assumptions DEF V!Call, V!NoneAssumption
<1>2. QED
  BY <1>1 DEF V!Written, V!TypeOK

LEMMA StatusKeepsStreams ==
  ASSUME StreamsInv, NEW h \in Handlers, V!WriteStatus(h)
  PROVE  StreamsInv'
<1>1. V!TypeOK /\ KeysOwned /\ KeysPending /\ CallsAgree /\ NothingBefore /\ RecordingFollowsRow
  BY DEF StreamsInv
<1>2. PICK c \in V!Call : c = streamCalls[h] /\ c # None /\ c.op = "status" /\ c.id \in Streams
  BY <1>1, StreamCallTyped DEF V!WriteStatus, V!At
<1>3. /\ V!End(h) /\ streams' = V!Written(c)
      /\ UNCHANGED <<objects, urls, created, owner, latest, excused>>
  BY <1>2 DEF V!WriteStatus
<1>4. /\ streams' \in [Streams -> V!Row \cup {None}]
      /\ \A s \in Streams \ {c.id} : streams'[s] = streams[s]
      /\ streams[c.id] = None => streams'[c.id] = None
      /\ streams[c.id] # None => streams'[c.id] = c.row /\ c.row # None
  BY <1>1, <1>3, WrittenRow
<1>5. V!TypeOK'
  BY <1>1, <1>3, <1>4, EndEffect DEF V!TypeOK
<1>6. KeysOwned' /\ KeysPending'
  BY <1>1, <1>3, EndEffect DEF KeysOwned, KeysPending, V!At
<1>7. CallsAgree'
  BY <1>1, <1>3, EndEffect DEF CallsAgree
<1>8. NothingBefore'
  BY <1>1, <1>2, <1>3, <1>4, EndEffect DEF NothingBefore
<1>9. RecordingFollowsRow'
  <2>1. c.id \notin excused => c.row.key = latest[c.id]
    BY <1>1, <1>2 DEF CallsAgree
  <2>2. QED
    BY <1>1, <1>2, <1>3, <1>4, <2>1 DEF RecordingFollowsRow, V!RecordingFollowsRow
<1>10. QED
  BY <1>5, <1>6, <1>7, <1>8, <1>9 DEF StreamsInv

LEMMA WriteKeyKeepsStreams ==
  ASSUME StreamsInv, NEW h \in Handlers, V!WriteKey(h)
  PROVE  StreamsInv'
<1>1. V!TypeOK /\ KeysOwned /\ KeysPending /\ CallsAgree /\ NothingBefore /\ RecordingFollowsRow
  BY DEF StreamsInv
<1>2. PICK c \in V!Call : c = streamCalls[h] /\ c # None /\ c.op = "upload" /\ c.id \in Streams
  BY <1>1, StreamCallTyped DEF V!WriteKey, V!At
<1>3. /\ c.row.key \in StorageKeys \ (objects \cup urls) /\ owner[c.row.key] = c.id
      /\ c.row.key # None /\ c.id # None /\ c.id \in created
      /\ \A g \in Handlers \ {h} : V!At(g, "upload") => streamCalls[g].row.key # c.row.key
  BY <1>1, <1>2, Assumptions DEF KeysPending, V!At, V!NoneAssumption, NothingBefore
<1>4. PICK saved \in BOOLEAN : \E given \in BOOLEAN :
        /\ streams' = IF saved THEN V!Written(c) ELSE streams
        /\ urls' = IF given THEN urls \cup {c.row.key} ELSE urls
        /\ latest' = IF given THEN [latest EXCEPT ![c.id] = c.row.key] ELSE latest
        /\ excused' = IF saved /\ given /\ ~V!Running(c.id, {"status", "delete", "drop"})
                      THEN excused ELSE excused \cup {c.id}
  BY <1>2 DEF V!WriteKey
<1>5. PICK given \in BOOLEAN :
        /\ streams' = IF saved THEN V!Written(c) ELSE streams
        /\ urls' = IF given THEN urls \cup {c.row.key} ELSE urls
        /\ latest' = IF given THEN [latest EXCEPT ![c.id] = c.row.key] ELSE latest
        /\ excused' = IF saved /\ given /\ ~V!Running(c.id, {"status", "delete", "drop"})
                      THEN excused ELSE excused \cup {c.id}
  BY <1>4
<1>6. V!End(h) /\ UNCHANGED <<objects, created, owner>>
  BY DEF V!WriteKey
<1>7. /\ streams' \in [Streams -> V!Row \cup {None}]
      /\ \A s \in Streams \ {c.id} : streams'[s] = streams[s]
      /\ streams[c.id] = None => streams'[c.id] = None
      /\ saved /\ streams[c.id] # None => streams'[c.id] = c.row /\ c.row # None
  BY <1>1, <1>5, WrittenRow DEF V!TypeOK
<1>8. /\ latest' \in [Streams -> StorageKeys \cup {None}]
      /\ \A s \in Streams \ {c.id} : latest'[s] = latest[s]
      /\ latest'[c.id] \in {c.row.key, latest[c.id]} /\ (given => latest'[c.id] = c.row.key)
  BY <1>1, <1>2, <1>3, <1>5 DEF V!TypeOK
<1>9. /\ excused \subseteq excused' /\ excused' \subseteq excused \cup {c.id}
      /\ c.id \notin excused' => /\ saved /\ given
                                 /\ ~V!Running(c.id, {"status", "delete", "drop"})
  BY <1>5
<1>10. V!TypeOK'
  <2>1. urls' \subseteq StorageKeys /\ excused' \subseteq Streams
    BY <1>1, <1>2, <1>3, <1>5, <1>9 DEF V!TypeOK
  <2>2. QED
    BY <1>1, <1>6, <1>7, <1>8, <2>1, EndEffect DEF V!TypeOK
<1>11. KeysOwned'
  BY <1>1, <1>2, <1>3, <1>5, <1>6, <1>8 DEF KeysOwned
<1>12. KeysPending'
  BY <1>1, <1>3, <1>5, <1>6, EndEffect DEF KeysPending, V!At
<1>13. CallsAgree'
  <2>1. SUFFICES ASSUME NEW g \in Handlers, streamCalls'[g] # None, streamCalls'[g].id \notin excused'
                 PROVE  /\ streamCalls'[g].op # "upload" =>
                             streamCalls'[g].row.key = latest'[streamCalls'[g].id]
                        /\ streamCalls'[g].op = "drop" => latest'[streamCalls'[g].id] \notin objects'
    BY DEF CallsAgree
  <2>2. g # h /\ streamCalls'[g] = streamCalls[g]
    BY <1>1, <1>6, <2>1, EndEffect
  <2>3. streamCalls[g].op \in {"upload", "status", "delete", "drop"} /\ streamCalls[g].id \in Streams
    BY <1>1, <2>1, <2>2, StreamCallTyped
  <2>4. CASE streamCalls[g].id = c.id
    <3>1. streamCalls[g].op = "upload"
      BY <1>9, <2>1, <2>2, <2>3, <2>4 DEF V!Running, V!At
    <3>2. QED
      BY <2>2, <3>1
  <2>5. CASE streamCalls[g].id # c.id
    BY <1>1, <1>6, <1>8, <1>9, <2>1, <2>2, <2>3, <2>5 DEF CallsAgree
  <2>6. QED
    BY <2>4, <2>5
<1>14. NothingBefore'
  BY <1>1, <1>2, <1>3, <1>6, <1>7, <1>8, EndEffect DEF NothingBefore
<1>15. RecordingFollowsRow'
  <2>1. SUFFICES ASSUME NEW s \in Streams \ excused'
                 PROVE  IF streams'[s] # None THEN streams'[s].key = latest'[s]
                                              ELSE latest'[s] \notin objects
    BY <1>6 DEF RecordingFollowsRow, V!RecordingFollowsRow
  <2>2. CASE s = c.id
    <3>1. latest'[s] = c.row.key /\ c.row.key \notin objects
      BY <1>3, <1>8, <1>9, <2>1, <2>2
    <3>2. QED
      BY <1>7, <1>9, <2>1, <2>2, <3>1
  <2>3. CASE s # c.id
    BY <1>1, <1>7, <1>8, <1>9, <2>1, <2>3 DEF RecordingFollowsRow, V!RecordingFollowsRow
  <2>4. QED
    BY <2>2, <2>3
<1>16. QED
  BY <1>10, <1>11, <1>12, <1>13, <1>14, <1>15 DEF StreamsInv

\* The client's PUT.  The key belongs to one stream: no other follows it.
LEMMA PutKeepsStreams ==
  ASSUME StreamsInv, NEW k \in StorageKeys, V!Upload(k)
  PROVE  StreamsInv'
<1>1. V!TypeOK /\ KeysOwned /\ KeysPending /\ CallsAgree /\ NothingBefore /\ RecordingFollowsRow
  BY DEF StreamsInv
<1>2. /\ k \in urls /\ objects' = objects \cup {k}
      /\ UNCHANGED <<streams, urls, streamCalls, created, owner, latest>>
      /\ owner[k] \in Streams
  BY <1>1 DEF V!Upload, KeysOwned, V!TypeOK
<1>3. /\ excused \subseteq excused' /\ excused' \subseteq excused \cup {owner[k]}
      /\ owner[k] \notin excused' => /\ streams[owner[k]] # None
                                     /\ ~V!Running(owner[k], {"delete", "drop"})
  BY DEF V!Upload
<1>4. V!TypeOK' /\ KeysOwned' /\ NothingBefore'
  BY <1>1, <1>2, <1>3 DEF V!TypeOK, KeysOwned, NothingBefore
<1>5. KeysPending'
  BY <1>1, <1>2 DEF KeysPending, V!At
<1>6. \A s \in Streams : latest[s] = k => s = owner[k]
  BY <1>1, Assumptions DEF KeysOwned, V!NoneAssumption
<1>7. CallsAgree'
  <2>1. SUFFICES ASSUME NEW g \in Handlers, streamCalls[g] # None, streamCalls[g].id \notin excused'
                 PROVE  /\ streamCalls[g].op # "upload" => streamCalls[g].row.key = latest[streamCalls[g].id]
                        /\ streamCalls[g].op = "drop" => latest[streamCalls[g].id] \notin objects'
    BY <1>2 DEF CallsAgree
  <2>2. streamCalls[g].op = "drop" => streamCalls[g].id # owner[k]
    BY <1>3, <2>1 DEF V!Running, V!At
  <2>3. streamCalls[g].id \in Streams
    BY <1>1, <2>1, StreamCallTyped
  <2>4. QED
    BY <1>1, <1>2, <1>3, <1>6, <2>1, <2>2, <2>3 DEF CallsAgree
<1>8. RecordingFollowsRow'
  BY <1>1, <1>2, <1>3, <1>6 DEF RecordingFollowsRow, V!RecordingFollowsRow
<1>9. QED
  BY <1>4, <1>5, <1>7, <1>8 DEF StreamsInv

LEMMA DeleteObjectKeepsStreams ==
  ASSUME StreamsInv, NEW h \in Handlers, V!DeleteObject(h)
  PROVE  StreamsInv'
<1>1. V!TypeOK /\ KeysOwned /\ KeysPending /\ CallsAgree /\ NothingBefore /\ RecordingFollowsRow
  BY DEF StreamsInv
<1>2. PICK c \in V!Call : c = streamCalls[h] /\ c # None /\ c.op = "delete" /\ c.id \in Streams
  BY <1>1, StreamCallTyped DEF V!DeleteObject, V!At
<1>3. /\ \/ objects' = objects \ {c.row.key} /\ excused' = excused
         \/ objects' = objects /\ excused' = excused \cup {c.id}
      /\ UNCHANGED <<streams, urls, created, owner, latest>>
  BY <1>2 DEF V!DeleteObject
<1>4. /\ streamCalls' \in [Handlers -> V!Call \cup {None}]
      /\ streamCalls'[h].op = "drop" /\ streamCalls'[h].id = c.id /\ streamCalls'[h].row = c.row
      /\ \A g \in Handlers \ {h} : streamCalls'[g] = streamCalls[g]
  <2>1. [c EXCEPT !.op = "drop"] \in V!Call
    BY DEF V!Call
  <2>2. streamCalls' = [streamCalls EXCEPT ![h] = [c EXCEPT !.op = "drop"]]
    BY <1>1, <1>2 DEF V!DeleteObject, V!TypeOK
  <2>3. streamCalls'[h] = [c EXCEPT !.op = "drop"]
    BY <1>1, <2>2 DEF V!TypeOK
  <2>4. QED
    BY <1>1, <2>1, <2>2, <2>3 DEF V!TypeOK, V!Call
<1>5. V!TypeOK' /\ KeysOwned'
  BY <1>1, <1>2, <1>3, <1>4 DEF V!TypeOK, KeysOwned
<1>6. KeysPending'
  BY <1>1, <1>3, <1>4 DEF KeysPending, V!At
<1>7. CallsAgree'
  <2>1. c.id \notin excused => c.row.key = latest[c.id]
    BY <1>1, <1>2 DEF CallsAgree
  <2>2. QED
    BY <1>1, <1>2, <1>3, <1>4, <2>1 DEF CallsAgree
<1>8. NothingBefore'
  BY <1>1, <1>2, <1>3, <1>4 DEF NothingBefore
<1>9. RecordingFollowsRow'
  BY <1>1, <1>3 DEF RecordingFollowsRow, V!RecordingFollowsRow
<1>10. QED
  BY <1>5, <1>6, <1>7, <1>8, <1>9 DEF StreamsInv

LEMMA DeleteRowKeepsStreams ==
  ASSUME StreamsInv, NEW h \in Handlers, V!DeleteRow(h)
  PROVE  StreamsInv'
<1>1. V!TypeOK /\ KeysOwned /\ KeysPending /\ CallsAgree /\ NothingBefore /\ RecordingFollowsRow
  BY DEF StreamsInv
<1>2. PICK c \in V!Call : c = streamCalls[h] /\ c # None /\ c.op = "drop" /\ c.id \in Streams
  BY <1>1, StreamCallTyped DEF V!DeleteRow, V!At
<1>3. /\ streams' = [streams EXCEPT ![c.id] = None] /\ V!End(h)
      /\ UNCHANGED <<objects, urls, created, owner, latest, excused>>
  BY <1>2 DEF V!DeleteRow
<1>4. V!TypeOK' /\ KeysOwned'
  BY <1>1, <1>3, EndEffect DEF V!TypeOK, KeysOwned
<1>5. KeysPending'
  BY <1>1, <1>3, EndEffect DEF KeysPending, V!At
<1>6. CallsAgree'
  BY <1>1, <1>3, EndEffect DEF CallsAgree
<1>7. NothingBefore'
  BY <1>1, <1>3, EndEffect DEF NothingBefore, V!TypeOK
<1>8. RecordingFollowsRow'
  <2>1. c.id \notin excused => latest[c.id] \notin objects
    BY <1>1, <1>2 DEF CallsAgree
  <2>2. QED
    BY <1>1, <1>3, <2>1 DEF RecordingFollowsRow, V!RecordingFollowsRow, V!TypeOK
<1>9. QED
  BY <1>4, <1>5, <1>6, <1>7, <1>8 DEF StreamsInv

LEMMA CreateStreamKeepsStreams ==
  ASSUME StreamsInv, NEW s \in Streams, V!CreateStream(s)
  PROVE  StreamsInv'
<1>1. V!TypeOK /\ KeysOwned /\ KeysPending /\ CallsAgree /\ NothingBefore /\ RecordingFollowsRow
  BY DEF StreamsInv
<1>2. [key |-> None, status |-> Pending] \in V!Row
  BY Assumptions DEF V!Row, V!PendingAssumption
<1>3. PICK r \in V!Row : r.key = None /\ streams' = [streams EXCEPT ![s] = r]
  BY <1>2 DEF V!CreateStream
<1>4. /\ s \notin created /\ created' = created \cup {s}
      /\ UNCHANGED <<objects, urls, streamCalls, owner, latest, excused>>
      /\ latest[s] = None
  BY <1>1 DEF V!CreateStream, NothingBefore
<1>5. streams'[s] = r /\ \A t \in Streams \ {s} : streams'[t] = streams[t]
  BY <1>1, <1>3 DEF V!TypeOK
<1>6. V!TypeOK' /\ KeysOwned'
  BY <1>1, <1>3, <1>4 DEF V!TypeOK, KeysOwned
<1>7. KeysPending' /\ CallsAgree'
  BY <1>1, <1>4 DEF KeysPending, V!At, CallsAgree
<1>8. NothingBefore'
  BY <1>1, <1>4, <1>5 DEF NothingBefore
<1>9. RecordingFollowsRow'
  <2>1. r # None
    BY Assumptions DEF V!NoneAssumption
  <2>2. QED
    BY <1>1, <1>3, <1>4, <1>5, <2>1 DEF RecordingFollowsRow, V!RecordingFollowsRow
<1>10. QED
  BY <1>6, <1>7, <1>8, <1>9 DEF StreamsInv

LEMMA StreamsStep == StreamsInv /\ [V!Next]_streamsVars => StreamsInv'
<1> SUFFICES ASSUME StreamsInv, [V!Next]_streamsVars PROVE StreamsInv'
  OBVIOUS
<1>1. V!TypeOK /\ KeysOwned /\ KeysPending /\ CallsAgree /\ NothingBefore /\ RecordingFollowsRow
  BY DEF StreamsInv
<1>2. ASSUME NEW h \in Handlers, NEW s \in Streams, NEW status \in Statuses,
             V!UpdateStreamStatus(h, s, status)
      PROVE  StreamsInv'
  <2>1. streams[s] \in V!Row
    BY <1>1, <1>2 DEF V!UpdateStreamStatus, V!Begin, V!TypeOK
  <2>2. PICK r \in V!Row : r = [streams[s] EXCEPT !.status = status]
    BY <2>1 DEF V!Row
  <2>3. r.key = streams[s].key /\ V!Begin(h, "status", s, r)
    BY <1>2, <2>1, <2>2 DEF V!UpdateStreamStatus, V!Row
  <2>4. QED
    BY <1>2, <2>3, ReadKeepsStreams DEF V!UpdateStreamStatus
<1>3. ASSUME NEW h \in Handlers, NEW s \in Streams, V!DeleteStream(h, s) PROVE StreamsInv'
  <2>1. PICK r \in V!Row : r = streams[s]
    BY <1>1, <1>3 DEF V!DeleteStream, V!Begin, V!TypeOK
  <2>2. QED
    BY <1>3, <2>1, ReadKeepsStreams DEF V!DeleteStream
<1>4. ASSUME NEW k \in StorageKeys, V!Expire(k) PROVE StreamsInv'
  <2>1. V!TypeOK' /\ KeysOwned' /\ NothingBefore' /\ RecordingFollowsRow' /\ CallsAgree'
    BY <1>1, <1>4 DEF V!Expire, V!TypeOK, KeysOwned, NothingBefore, RecordingFollowsRow,
                      V!RecordingFollowsRow, CallsAgree
  <2>2. KeysPending'
    BY <1>1, <1>4 DEF V!Expire, KeysPending, V!At
  <2>3. QED
    BY <2>1, <2>2 DEF StreamsInv
<1>5. ASSUME NEW h \in Handlers, V!CallFails(h) PROVE StreamsInv'
  <2>1. V!End(h) /\ UNCHANGED <<streams, objects, urls, created, owner, latest, excused>>
    BY <1>5 DEF V!CallFails
  <2>2. V!TypeOK' /\ KeysOwned' /\ RecordingFollowsRow'
    BY <1>1, <2>1, EndEffect DEF V!TypeOK, KeysOwned, RecordingFollowsRow, V!RecordingFollowsRow
  <2>3. KeysPending' /\ CallsAgree' /\ NothingBefore'
    BY <1>1, <2>1, EndEffect DEF KeysPending, CallsAgree, NothingBefore, V!At
  <2>4. QED
    BY <2>2, <2>3 DEF StreamsInv
<1>6. ASSUME UNCHANGED streamsVars PROVE StreamsInv'
  BY <1>1, <1>6 DEF streamsVars, StreamsInv, V!TypeOK, KeysOwned, KeysPending, V!At, CallsAgree,
                    NothingBefore, RecordingFollowsRow, V!RecordingFollowsRow
<1>7. QED
  BY <1>2, <1>3, <1>4, <1>5, <1>6, CreateStreamKeepsStreams, UploadURLKeepsStreams,
     PutKeepsStreams, StatusKeepsStreams, WriteKeyKeepsStreams, DeleteObjectKeepsStreams,
     DeleteRowKeepsStreams DEF V!Next

-----------------------------------------------------------------------------
(* Signup.  Which rows a request has behind it, and that an organisation   *)
(* which is gone never comes back.                                         *)

\* The requests that have passed the statement of their user.
HasUser == {"roles", "tokens", "publish", "done"}

OpsOrdered ==
  \A r \in Requests : requests[r] # None =>
    /\ requests[r].op = "signup" => requests[r].tenant = r
    /\ requests[r].op = "register" => requests[r].pc \notin {"org", "tokens"}

\* Each table by itself: an organisation is a sign-up's, a user hangs on its
\* organisation, a role and a token on their user.
TablesHold ==
  /\ \A r \in Requests \cap tenants :
       /\ requests[r] # None /\ requests[r].op = "signup"
       /\ requests[r].pc \notin {"check", "org"}
  /\ \A r \in accounts :
       /\ requests[r] # None /\ requests[r].pc \in HasUser \cup {"failed"}
       /\ requests[r].tenant \in tenants
  /\ roles \cup tokens \subseteq accounts

\* The tenant of a request that has its user was made before, once.
TenantsMade ==
  \A r \in Requests : requests[r] # None /\ requests[r].pc \in HasUser =>
    \/ requests[r].tenant = FirstOrg
    \/ /\ requests[requests[r].tenant] # None
       /\ requests[requests[r].tenant].pc \notin {"check", "org"}

RowsBehind ==
  \A r \in Requests :
    requests[r] # None /\ requests[r].pc \in HasUser /\ requests[r].tenant \in tenants =>
      /\ r \in accounts
      /\ requests[r].pc # "roles" => r \in roles
      /\ requests[r].op = "signup" /\ requests[r].pc \in {"publish", "done"} => r \in tokens

SignupInv == C!S!TypeOK /\ OpsOrdered /\ TablesHold /\ TenantsMade /\ RowsBehind

LEMMA RequestTyped ==
  ASSUME C!S!TypeOK, NEW r \in Requests, requests[r] # None
  PROVE  /\ requests[r] \in C!S!Request /\ requests[r].op \in {"signup", "register"}
         /\ requests[r].email \in Emails /\ requests[r].tenant \in C!S!Tenants
         /\ requests[r].pc \in C!S!Statements \cup {"publish", "done", "failed"}
BY DEF C!S!TypeOK, C!S!Request

LEMMA SignupInit == C!S!Init => SignupInv
BY Assumptions DEF C!S!Init, SignupInv, C!S!TypeOK, C!S!Tenants, OpsOrdered, TablesHold,
   TenantsMade, RowsBehind, C!S!FirstOrgAssumption

LEMMA SignupGivesWhole == SignupInv => SignupIsWhole
<1> SUFFICES ASSUME SignupInv PROVE SignupIsWhole
  OBVIOUS
<1>1. C!S!TypeOK /\ OpsOrdered /\ TablesHold /\ TenantsMade /\ RowsBehind
  BY DEF SignupInv
<1>2. ASSUME NEW r \in Requests, C!S!At(r, "publish") \/ C!S!At(r, "done"),
             requests[r].tenant \in tenants
      PROVE  C!S!Account(r)
  BY <1>1, <1>2 DEF C!S!At, C!S!Account, OpsOrdered, RowsBehind, HasUser
<1>3. ASSUME NEW r \in tenants \ (accounts \cup {FirstOrg})
      PROVE  C!S!At(r, "user") \/ C!S!At(r, "failed")
  <2>1. r \in Requests /\ requests[r] # None /\ requests[r].op = "signup"
        /\ requests[r].pc \notin {"check", "org"}
    BY <1>1, <1>3 DEF C!S!TypeOK, C!S!Tenants, TablesHold
  <2>2. requests[r].pc \notin HasUser
    BY <1>1, <1>3, <2>1 DEF OpsOrdered, RowsBehind
  <2>3. QED
    BY <1>1, <2>1, <2>2, RequestTyped DEF C!S!At, C!S!Statements, HasUser
<1>4. ASSUME NEW r \in accounts \ roles PROVE C!S!At(r, "roles") \/ C!S!At(r, "failed")
  BY <1>1, <1>4 DEF TablesHold, RowsBehind, C!S!At, C!S!TypeOK
<1>5. QED
  BY <1>2, <1>3, <1>4 DEF SignupIsWhole, C!S!SignupIsWhole

\* A request that goes to another statement: its op, address and tenant stay.
LEMMA GotoEffect ==
  ASSUME C!S!TypeOK, NEW r \in Requests, requests[r] # None,
         NEW pc \in C!S!Statements \cup {"publish", "done", "failed"}, C!S!Goto(r, pc)
  PROVE  /\ requests' \in [Requests -> C!S!Request \cup {None}]
         /\ requests'[r] # None /\ requests'[r].pc = pc /\ requests'[r].op = requests[r].op
         /\ requests'[r].tenant = requests[r].tenant /\ requests'[r].email = requests[r].email
         /\ \A q \in Requests \ {r} : requests'[q] = requests[q]
<1>1. [requests[r] EXCEPT !.pc = pc] \in C!S!Request /\ [requests[r] EXCEPT !.pc = pc].pc = pc
      /\ [requests[r] EXCEPT !.pc = pc].op = requests[r].op
      /\ [requests[r] EXCEPT !.pc = pc].tenant = requests[r].tenant
      /\ [requests[r] EXCEPT !.pc = pc].email = requests[r].email
  BY RequestTyped DEF C!S!Request
<1>2. [requests[r] EXCEPT !.pc = pc] # None
  BY <1>1, Assumptions DEF C!S!NoneAssumption
<1>3. requests' = [requests EXCEPT ![r] = [requests[r] EXCEPT !.pc = pc]]
  BY DEF C!S!Goto, C!S!TypeOK
<1>4. QED
  BY <1>1, <1>2, <1>3 DEF C!S!TypeOK

\* The statement after each statement.
LEMMA GoOnEffect ==
  ASSUME C!S!TypeOK, NEW r \in Requests, requests[r] # None, requests[r].pc # "failed",
         requests[r].pc # "done", C!S!GoOn(r)
  PROVE  \E pc \in C!S!Statements \cup {"publish", "done"} :
           /\ C!S!Goto(r, pc)
           /\ requests[r].pc = "check" => pc = IF requests[r].op = "signup" THEN "org" ELSE "user"
           /\ requests[r].pc = "org" => pc = "user"
           /\ requests[r].pc = "user" => pc = "roles"
           /\ requests[r].pc = "roles" =>
                pc = IF requests[r].op = "signup" THEN "tokens" ELSE "publish"
           /\ requests[r].pc = "tokens" => pc = "publish"
           /\ requests[r].pc = "publish" => pc = "done"
<1>1. requests[r].pc \in {"check", "org", "user", "roles", "tokens", "publish"}
  BY RequestTyped DEF C!S!Statements
<1>2. C!S!Goto(r, C!S!After(requests[r].op, requests[r].pc))
  BY DEF C!S!GoOn
<1>3. QED
  BY <1>1, <1>2 DEF C!S!After, C!S!Statements

\* A request begins: no row is its own.
LEMMA AskKeepsSignup ==
  ASSUME SignupInv, NEW r \in Requests, requests[r] = None, NEW q \in C!S!Request,
         q.pc = "check", q.op = "signup" => q.tenant = r,
         requests' = [requests EXCEPT ![r] = q], UNCHANGED <<tenants, accounts, roles, tokens>>
  PROVE  SignupInv'
<1>1. C!S!TypeOK /\ OpsOrdered /\ TablesHold /\ TenantsMade /\ RowsBehind
  BY DEF SignupInv
<1>2. requests'[r] = q /\ \A p \in Requests \ {r} : requests'[p] = requests[p]
  BY <1>1 DEF C!S!TypeOK
<1>3. C!S!TypeOK' /\ OpsOrdered'
  BY <1>1, <1>2 DEF C!S!TypeOK, OpsOrdered
<1>4. TablesHold'
  BY <1>1, <1>2 DEF C!S!TypeOK, TablesHold
<1>5. TenantsMade'
  <2>1. ASSUME NEW p \in Requests \ {r}, requests[p] # None, requests[p].pc \in HasUser
        PROVE  \/ requests[p].tenant = FirstOrg
               \/ /\ requests'[requests[p].tenant] # None
                  /\ requests'[requests[p].tenant].pc \notin {"check", "org"}
    BY <1>1, <1>2, <2>1, RequestTyped DEF TenantsMade, C!S!Tenants
  <2>2. QED
    BY <1>2, <2>1 DEF TenantsMade, HasUser
<1>6. RowsBehind'
  BY <1>1, <1>2 DEF RowsBehind, HasUser
<1>7. QED
  BY <1>3, <1>4, <1>5, <1>6 DEF SignupInv

\* A request goes on and no table changes: it has nothing to write there, or fails.
LEMMA MoveKeepsSignup ==
  ASSUME SignupInv, NEW r \in Requests, requests[r] # None,
         NEW pc \in C!S!Statements \cup {"publish", "done", "failed"}, C!S!Goto(r, pc),
         \/ pc = "failed"
         \/ requests[r].pc = "check" /\ pc = IF requests[r].op = "signup" THEN "org" ELSE "user"
         \/ requests[r].pc = "publish" /\ pc = "done",
         UNCHANGED <<tenants, accounts, roles, tokens>>
  PROVE  SignupInv'
<1>1. C!S!TypeOK /\ OpsOrdered /\ TablesHold /\ TenantsMade /\ RowsBehind
  BY DEF SignupInv
<1>2. requests[r].op \in {"signup", "register"} /\ requests[r].op # "signup" => pc # "org"
  BY <1>1, RequestTyped
<1>3. /\ pc # "check" /\ pc # "tokens" /\ (pc = "org" => requests[r].pc = "check")
      /\ (pc \in HasUser => requests[r].pc = "publish" /\ pc = "done")
      /\ (pc = "org" => requests[r].op = "signup")
  BY <1>1, RequestTyped DEF HasUser
<1>4. C!S!TypeOK'
  BY <1>1, GotoEffect DEF C!S!TypeOK
<1>5. OpsOrdered'
  BY <1>1, <1>3, GotoEffect DEF OpsOrdered
<1>6. TablesHold'
  <2>1. \A q \in Requests \cap tenants :
          /\ requests'[q] # None /\ requests'[q].op = "signup"
          /\ requests'[q].pc \notin {"check", "org"}
    BY <1>1, <1>3, GotoEffect DEF TablesHold
  <2>2. \A q \in accounts :
          /\ requests'[q] # None /\ requests'[q].pc \in HasUser \cup {"failed"}
          /\ requests'[q].tenant \in tenants
    <3>1. r \in accounts => pc \in HasUser \cup {"failed"}
      BY <1>1 DEF TablesHold, HasUser
    <3>2. QED
      BY <1>1, <3>1, GotoEffect DEF TablesHold, C!S!TypeOK
  <2>3. QED
    BY <1>1, <2>1, <2>2 DEF TablesHold
<1>7. TenantsMade'
  <2>1. \A q \in Requests : requests[q] # None /\ requests[q].pc \notin {"check", "org"} =>
          requests'[q] # None /\ requests'[q].pc \notin {"check", "org"}
    BY <1>1, <1>3, GotoEffect
  <2>2. \A q \in Requests : requests'[q] # None /\ requests'[q].pc \in HasUser =>
          /\ requests[q] # None /\ requests[q].pc \in HasUser
          /\ requests'[q].tenant = requests[q].tenant /\ requests[q].tenant \in Requests \cup {FirstOrg}
    BY <1>1, <1>3, GotoEffect, RequestTyped DEF HasUser, C!S!Tenants
  <2>3. QED
    BY <1>1, <2>1, <2>2 DEF TenantsMade
<1>8. RowsBehind'
  BY <1>1, <1>3, GotoEffect DEF RowsBehind, HasUser
<1>9. QED
  BY <1>4, <1>5, <1>6, <1>7, <1>8 DEF SignupInv

LEMMA CreateOrgKeepsSignup ==
  ASSUME SignupInv, NEW r \in Requests, C!S!CreateOrg(r)
  PROVE  SignupInv'
<1>1. C!S!TypeOK /\ OpsOrdered /\ TablesHold /\ TenantsMade /\ RowsBehind
  BY DEF SignupInv
<1>2. /\ requests[r] # None /\ requests[r].pc = "org"
      /\ tenants' = tenants \cup {r} /\ UNCHANGED <<accounts, roles, tokens>>
      /\ C!S!Goto(r, "user") /\ requests[r].op = "signup"
  BY <1>1, GoOnEffect, RequestTyped DEF C!S!CreateOrg, C!S!At, OpsOrdered
<1>3. /\ requests' \in [Requests -> C!S!Request \cup {None}]
      /\ requests'[r] # None /\ requests'[r].pc = "user" /\ requests'[r].op = "signup"
      /\ requests'[r].tenant = requests[r].tenant
      /\ \A q \in Requests \ {r} : requests'[q] = requests[q]
  <2>1. "user" \in C!S!Statements
    BY DEF C!S!Statements
  <2>2. QED
    BY <1>1, <1>2, <2>1, GotoEffect
<1>4. C!S!TypeOK' /\ OpsOrdered'
  BY <1>1, <1>2, <1>3 DEF C!S!TypeOK, C!S!Tenants, OpsOrdered
<1>5. TablesHold'
  <2>1. r \notin accounts
    BY <1>1, <1>2 DEF TablesHold, HasUser
  <2>2. QED
    BY <1>1, <1>2, <1>3, <2>1 DEF TablesHold, C!S!TypeOK
<1>6. \A q \in Requests : requests'[q] # None /\ requests'[q].pc \in HasUser =>
        /\ q # r /\ requests'[q] = requests[q] /\ requests[q].tenant \in Requests \cup {FirstOrg}
        /\ requests[q].tenant # r
  <2>1. SUFFICES ASSUME NEW q \in Requests, requests'[q] # None, requests'[q].pc \in HasUser
                 PROVE  /\ q # r /\ requests'[q] = requests[q]
                        /\ requests[q].tenant \in Requests \cup {FirstOrg} /\ requests[q].tenant # r
    OBVIOUS
  <2>2. q # r /\ requests'[q] = requests[q]
    BY <1>3, <2>1 DEF HasUser
  <2>3. requests[q].tenant \in Requests \cup {FirstOrg}
    BY <1>1, <2>1, <2>2, RequestTyped DEF C!S!Tenants
  <2>4. requests[q].tenant # r
    BY <1>1, <1>2, <2>1, <2>2, Assumptions DEF TenantsMade, C!S!FirstOrgAssumption
  <2>5. QED
    BY <2>2, <2>3, <2>4
<1>7. TenantsMade' /\ RowsBehind'
  BY <1>1, <1>2, <1>3, <1>6 DEF TenantsMade, RowsBehind
<1>8. QED
  BY <1>4, <1>5, <1>7 DEF SignupInv

\* A statement that writes a row of the request: the user, its roles, its token.
LEMMA WriteKeepsSignup ==
  ASSUME SignupInv, NEW r \in Requests, requests[r] # None,
         NEW pc \in {"roles", "tokens", "publish"}, C!S!Goto(r, pc),
         requests[r].pc \in {"user", "roles", "tokens"},
         pc = "tokens" => requests[r].op = "signup", tenants' = tenants,
         r \in accounts',
         accounts' = accounts \/ (accounts' = accounts \cup {r} /\ requests[r].tenant \in tenants),
         roles' = roles \/ roles' = roles \cup {r}, tokens' = tokens \/ tokens' = tokens \cup {r},
         pc # "roles" => r \in roles',
         requests[r].op = "signup" /\ pc = "publish" => r \in tokens'
  PROVE  SignupInv'
<1>1. C!S!TypeOK /\ OpsOrdered /\ TablesHold /\ TenantsMade /\ RowsBehind
  BY DEF SignupInv
<1>2. /\ requests' \in [Requests -> C!S!Request \cup {None}]
      /\ requests'[r] # None /\ requests'[r].pc = pc /\ requests'[r].op = requests[r].op
      /\ requests'[r].tenant = requests[r].tenant
      /\ \A q \in Requests \ {r} : requests'[q] = requests[q]
  <2>1. pc \in C!S!Statements \cup {"publish", "done", "failed"}
    BY DEF C!S!Statements
  <2>2. QED
    BY <1>1, <2>1, GotoEffect
<1>3. requests[r].tenant \in tenants
  BY <1>1 DEF TablesHold
<1>4. C!S!TypeOK' /\ OpsOrdered'
  BY <1>1, <1>2 DEF C!S!TypeOK, OpsOrdered
<1>5. TablesHold'
  BY <1>1, <1>2, <1>3 DEF TablesHold, HasUser, C!S!TypeOK
<1>6. TenantsMade'
  <2>1. \A q \in Requests : requests[q] # None /\ requests[q].pc \notin {"check", "org"} =>
          requests'[q] # None /\ requests'[q].pc \notin {"check", "org"}
    BY <1>1, <1>2
  <2>2. \/ requests[r].tenant = FirstOrg
        \/ /\ requests[requests[r].tenant] # None /\ requests[r].tenant \in Requests
           /\ requests[requests[r].tenant].pc \notin {"check", "org"}
    BY <1>1, <1>3, RequestTyped DEF TablesHold, C!S!Tenants
  <2>3. \A q \in Requests : requests[q] # None => requests[q].tenant \in Requests \cup {FirstOrg}
    BY <1>1, RequestTyped DEF C!S!Tenants
  <2>4. QED
    BY <1>1, <1>2, <2>1, <2>2, <2>3 DEF TenantsMade
<1>7. RowsBehind'
  BY <1>1, <1>2 DEF RowsBehind
<1>8. QED
  BY <1>4, <1>5, <1>6, <1>7 DEF SignupInv

LEMMA DeleteOrgKeepsSignup ==
  ASSUME SignupInv, NEW o \in C!S!Tenants, C!S!DeleteOrg(o)
  PROVE  SignupInv'
<1> DEFINE kept == {u \in accounts : requests[u].tenant # o}
<1>1. C!S!TypeOK /\ OpsOrdered /\ TablesHold /\ TenantsMade /\ RowsBehind
  BY DEF SignupInv
<1>2. /\ tenants' = tenants \ {o} /\ accounts' = kept
      /\ roles' = roles \cap kept /\ tokens' = tokens \cap kept /\ requests' = requests
  BY DEF C!S!DeleteOrg
<1>3. C!S!TypeOK' /\ OpsOrdered' /\ TenantsMade'
  BY <1>1, <1>2 DEF C!S!TypeOK, OpsOrdered, TenantsMade
<1>4. TablesHold' /\ RowsBehind'
  BY <1>1, <1>2 DEF TablesHold, RowsBehind
<1>5. QED
  BY <1>3, <1>4 DEF SignupInv

LEMMA SignupStep == SignupInv /\ [C!S!Next]_(C!signupVars) => SignupInv'
<1> SUFFICES ASSUME SignupInv, [C!S!Next]_(C!signupVars) PROVE SignupInv'
  OBVIOUS
<1> DEFINE Ends == C!S!Statements \cup {"publish", "done", "failed"}
<1>1. C!S!TypeOK /\ OpsOrdered /\ TablesHold /\ TenantsMade /\ RowsBehind
  BY DEF SignupInv
<1>2. /\ {"check", "org", "user", "roles", "tokens", "publish", "done", "failed"} = Ends
      /\ \A r \in Requests, pc \in Ends :
           C!S!At(r, pc) <=> requests[r] # None /\ requests[r].pc = pc
  BY DEF C!S!Statements, C!S!At
<1>3. ASSUME NEW r \in Requests, NEW email \in Emails, C!S!Signup(r, email) PROVE SignupInv'
  <2>1. PICK q \in C!S!Request : q = [op |-> "signup", email |-> email, tenant |-> r, pc |-> "check"]
    BY DEF C!S!Request, C!S!Tenants, C!S!Statements
  <2>2. QED
    BY <1>3, <2>1, AskKeepsSignup DEF C!S!Signup, C!S!tables
<1>4. ASSUME NEW r \in Requests, NEW email \in Emails, NEW tenant \in C!S!Tenants,
             C!S!Register(r, email, tenant)
      PROVE  SignupInv'
  <2>1. PICK q \in C!S!Request :
          q = [op |-> "register", email |-> email, tenant |-> tenant, pc |-> "check"]
    BY DEF C!S!Request, C!S!Statements
  <2>2. QED
    BY <1>4, <2>1, AskKeepsSignup DEF C!S!Register, C!S!tables
<1>5. ASSUME NEW r \in Requests, C!S!CheckEmail(r) PROVE SignupInv'
  <2>1. requests[r] # None /\ requests[r].pc = "check" /\ UNCHANGED <<tenants, accounts, roles, tokens>>
    BY <1>5 DEF C!S!CheckEmail, C!S!At, C!S!tables
  <2>2. PICK pc \in Ends : /\ C!S!Goto(r, pc)
                           /\ \/ pc = "failed"
                              \/ pc = IF requests[r].op = "signup" THEN "org" ELSE "user"
    <3>1. CASE C!S!Goto(r, "failed")
      BY <1>2, <3>1
    <3>2. CASE C!S!GoOn(r)
      BY <1>1, <2>1, <3>2, GoOnEffect
    <3>3. QED
      BY <1>5, <3>1, <3>2 DEF C!S!CheckEmail
  <2>3. QED
    BY <2>1, <2>2, MoveKeepsSignup
<1>6. ASSUME NEW r \in Requests, requests[r] # None, C!S!Goto(r, "failed"),
             UNCHANGED <<tenants, accounts, roles, tokens>>
      PROVE  SignupInv'
  BY <1>2, <1>6, MoveKeepsSignup
<1>7. ASSUME NEW r \in Requests, C!S!CreateUser(r) PROVE SignupInv'
  <2>1. requests[r] # None /\ requests[r].pc = "user" /\ UNCHANGED <<tenants, roles, tokens>>
    BY <1>7 DEF C!S!CreateUser, C!S!At
  <2>2. CASE requests[r].tenant \in tenants /\ accounts' = accounts \cup {r} /\ C!S!GoOn(r)
    <3>1. C!S!Goto(r, "roles")
      BY <1>1, <2>1, <2>2, GoOnEffect
    <3>2. QED
      BY <2>1, <2>2, <3>1, WriteKeepsSignup
  <2>3. QED
    BY <1>6, <1>7, <2>1, <2>2 DEF C!S!CreateUser
<1>8. ASSUME NEW r \in Requests, C!S!SetRoles(r) PROVE SignupInv'
  <2>1. requests[r] # None /\ requests[r].pc = "roles" /\ UNCHANGED <<tenants, accounts, tokens>>
    BY <1>8 DEF C!S!SetRoles, C!S!At
  <2>2. CASE r \in accounts /\ roles' = roles \cup {r} /\ C!S!GoOn(r)
    <3>1. PICK pc \in {"tokens", "publish"} :
            C!S!Goto(r, pc) /\ (pc = "tokens" <=> requests[r].op = "signup")
      BY <1>1, <2>1, <2>2, GoOnEffect
    <3>2. QED
      BY <2>1, <2>2, <3>1, WriteKeepsSignup
  <2>3. QED
    BY <1>6, <1>8, <2>1, <2>2 DEF C!S!SetRoles
<1>9. ASSUME NEW r \in Requests, C!S!IssueTokenPair(r) PROVE SignupInv'
  <2>1. requests[r] # None /\ requests[r].pc = "tokens" /\ UNCHANGED <<tenants, accounts, roles>>
    BY <1>9 DEF C!S!IssueTokenPair, C!S!At
  <2>2. CASE r \in accounts /\ tokens' = tokens \cup {r} /\ C!S!GoOn(r)
    <3>1. C!S!Goto(r, "publish")
      BY <1>1, <2>1, <2>2, GoOnEffect
    <3>2. r \in roles
      BY <1>1, <2>1, <2>2 DEF TablesHold, RowsBehind, HasUser
    <3>3. QED
      BY <2>1, <2>2, <3>1, <3>2, WriteKeepsSignup
  <2>3. QED
    BY <1>6, <1>9, <2>1, <2>2 DEF C!S!IssueTokenPair
<1>10. ASSUME NEW r \in Requests, C!S!Publish(r) PROVE SignupInv'
  <2>1. /\ requests[r] # None /\ requests[r].pc = "publish" /\ C!S!GoOn(r)
        /\ UNCHANGED <<tenants, accounts, roles, tokens>>
    BY <1>10 DEF C!S!Publish, C!S!At, C!S!tables
  <2>2. C!S!Goto(r, "done")
    BY <1>1, <2>1, GoOnEffect
  <2>3. QED
    BY <1>2, <2>1, <2>2, MoveKeepsSignup
<1>11. ASSUME NEW r \in Requests, C!S!StatementFails(r) PROVE SignupInv'
  BY <1>6, <1>11 DEF C!S!StatementFails, C!S!At, C!S!tables
<1>12. ASSUME UNCHANGED C!signupVars PROVE SignupInv'
  BY <1>1, <1>12 DEF C!signupVars, SignupInv, C!S!TypeOK, OpsOrdered, TablesHold, TenantsMade,
                     RowsBehind
<1>13. QED
  BY <1>3, <1>4, <1>5, <1>7, <1>8, <1>9, <1>10, <1>11, <1>12, CreateOrgKeepsSignup,
     DeleteOrgKeepsSignup DEF C!S!Next

-----------------------------------------------------------------------------
(* AuditLog.  What lies behind the reader is settled, but for the message  *)
(* in its hand; and that one is not committed yet.                         *)

Behind ==
  /\ \A i \in 1 .. position : C!A!Settled(i) \/ (i = position /\ at = "record")
  /\ at = "record" => committed < position

AuditInv == C!A!TypeOK /\ topic \in Seq(Requests \cup OtherEvents) /\ Behind

LEMMA AuditInit == C!A!Init /\ topic = <<>> => AuditInv
BY Assumptions DEF C!A!Init, AuditInv, C!A!TypeOK, Behind, C!RestartsAssumption

LEMMA AuditGivesRecord == AuditInv => CommittedIsAudited
BY DEF AuditInv, Behind, C!A!TypeOK, CommittedIsAudited, C!A!CommittedIsAudited

\* A longer topic and a longer log leave settled what was.
LEMMA SettledStays ==
  ASSUME AuditInv, \/ topic' = topic
                   \/ \E m \in Requests \cup OtherEvents : topic' = Append(topic, m)
  PROVE  /\ topic' \in Seq(Requests \cup OtherEvents)
         /\ Len(topic) <= Len(topic')
         /\ \A i \in 1 .. Len(topic) : topic'[i] = topic[i]
BY DEF AuditInv

LEMMA RowAdded ==
  ASSUME NEW S, NEW s \in Seq(S), NEW x \in S
  PROVE  C!A!ToSet(Append(s, x)) = C!A!ToSet(s) \cup {x}
<1>1. Append(s, x) \in Seq(S) /\ Len(Append(s, x)) = Len(s) + 1 /\ Len(s) \in Nat
  BY AppendProperties
<1>2. /\ \A i \in 1 .. Len(s) : Append(s, x)[i] = s[i]
      /\ Append(s, x)[Len(s) + 1] = x
  BY AppendProperties
<1>3. DOMAIN Append(s, x) = 1 .. Len(s) + 1 /\ DOMAIN s = 1 .. Len(s)
  BY <1>1, LenProperties
<1>4. 1 .. Len(s) + 1 = (1 .. Len(s)) \cup {Len(s) + 1}
  BY <1>1
<1>5. QED
  BY <1>2, <1>3, <1>4 DEF C!A!ToSet

LEMMA AuditStep ==
  ASSUME AuditInv,
         \/ C!A!Next
         \/ /\ UNCHANGED C!auditVars
            /\ \/ topic' = topic
               \/ \E m \in Requests \cup OtherEvents : topic' = Append(topic, m)
  PROVE  AuditInv'
<1>1. C!A!TypeOK /\ topic \in Seq(Requests \cup OtherEvents) /\ Behind
  BY DEF AuditInv
<1>2. /\ position \in 0 .. Len(topic) /\ committed \in 0 .. position /\ Len(topic) \in Nat
      /\ at \in {"fetch", "record", "commit"} /\ audit \in Seq(1 .. Len(topic))
      /\ lost \subseteq 1 .. Len(topic)
  BY <1>1 DEF C!A!TypeOK, C!A!Offsets
<1>3. CASE C!A!Fetch
  <2>1. C!A!TypeOK'
    BY <1>1, <1>2, <1>3 DEF C!A!Fetch, C!A!TypeOK, C!A!Offsets
  <2>2. Behind'
    BY <1>1, <1>2, <1>3 DEF C!A!Fetch, Behind, C!A!Settled
  <2>3. QED
    BY <1>1, <1>3, <2>1, <2>2 DEF AuditInv, C!A!Fetch
<1>4. CASE C!A!Record
  <2>1. /\ at = "record" /\ at' = "commit" /\ position \in 1 .. Len(topic)
        /\ UNCHANGED <<topic, position, committed, restarts>>
    BY <1>1, <1>2, <1>4 DEF C!A!Record, Behind
  <2>2. /\ audit' \in Seq(1 .. Len(topic)) /\ lost' \subseteq 1 .. Len(topic)
        /\ C!A!ToSet(audit') \cup lost' = C!A!ToSet(audit) \cup lost \cup {position}
    <3>1. CASE audit' = Append(audit, position) /\ lost' = lost
      <4>1. C!A!ToSet(Append(audit, position)) = C!A!ToSet(audit) \cup {position}
        BY <1>2, <2>1, RowAdded
      <4>2. Append(audit, position) \in Seq(1 .. Len(topic))
        BY <1>2, <2>1
      <4>3. QED
        BY <1>2, <3>1, <4>1, <4>2
    <3>2. CASE audit' = audit /\ lost' = lost \cup {position}
      BY <1>2, <2>1, <3>2
    <3>3. QED
      BY <1>4, <3>1, <3>2 DEF C!A!Record
  <2>3. C!A!TypeOK'
    BY <1>1, <1>2, <2>1, <2>2 DEF C!A!TypeOK, C!A!Offsets
  <2>4. Behind'
    BY <1>1, <2>1, <2>2 DEF Behind, C!A!Settled
  <2>5. QED
    BY <1>1, <2>1, <2>3, <2>4 DEF AuditInv
<1>5. CASE C!A!Commit
  <2>1. C!A!TypeOK'
    BY <1>1, <1>2, <1>5 DEF C!A!Commit, C!A!TypeOK, C!A!Offsets
  <2>2. Behind'
    BY <1>1, <1>5 DEF C!A!Commit, Behind, C!A!Settled
  <2>3. QED
    BY <1>1, <1>5, <2>1, <2>2 DEF AuditInv, C!A!Commit
<1>6. CASE C!A!Restart
  <2>1. C!A!TypeOK'
    BY <1>1, <1>2, <1>6, Assumptions DEF C!A!Restart, C!A!TypeOK, C!A!Offsets, C!RestartsAssumption
  <2>2. Behind'
    BY <1>1, <1>2, <1>6 DEF C!A!Restart, Behind, C!A!Settled
  <2>3. QED
    BY <1>1, <1>6, <2>1, <2>2 DEF AuditInv, C!A!Restart
<1>7. CASE /\ UNCHANGED C!auditVars
           /\ \/ topic' = topic
              \/ \E m \in Requests \cup OtherEvents : topic' = Append(topic, m)
  <2>1. /\ topic' \in Seq(Requests \cup OtherEvents) /\ Len(topic) <= Len(topic')
        /\ \A i \in 1 .. Len(topic) : topic'[i] = topic[i]
    BY <1>7, SettledStays
  <2>2. Len(topic') \in Nat /\ Seq(1 .. Len(topic)) \subseteq Seq(1 .. Len(topic'))
    BY <1>2, <2>1
  <2>3. C!A!TypeOK'
    BY <1>1, <1>2, <1>7, <2>1, <2>2 DEF C!auditVars, C!A!TypeOK, C!A!Offsets
  <2>4. Behind'
    BY <1>1, <1>2, <1>7, <2>1 DEF C!auditVars, Behind, C!A!Settled
  <2>5. QED
    BY <2>1, <2>3, <2>4 DEF AuditInv
<1>8. QED
  BY <1>3, <1>4, <1>5, <1>6, <1>7 DEF C!A!Next, C!A!Consume

-----------------------------------------------------------------------------
(* Workspaces.  A workspace row that is written has an organisation, since *)
(* the write of an edit keeps the one the row had when it was read: an id  *)
(* is given out once, so a row that is gone does not come back in between. *)

Parents ==
  /\ \A w \in Spaces : spaces[w] # None => orgs[spaces[w].org] # None
  /\ \A u \in users : orgs[Home[u]] # None
  /\ \A w \in Spaces, u \in Users : members[<<w, u>>] # None => spaces[w] # None /\ u \in users
  /\ \A k \in Keys : keys[k] # None => spaces[keys[k].space] # None

EditsAgree ==
  \A h \in Handlers : W!At(h, "edit") =>
    /\ calls[h].id \in used
    /\ spaces[calls[h].id] # None => spaces[calls[h].id].org = calls[h].row.org

InsertsFresh ==
  \A h \in Handlers : W!At(h, "space") =>
    /\ calls[h].id \in used /\ spaces[calls[h].id] = None
    /\ \A g \in Handlers \ {h} :
         W!At(g, "space") \/ W!At(g, "edit") => calls[g].id # calls[h].id

SpacesUsed == \A w \in Spaces : spaces[w] # None => w \in used

IdsOnce == EditsAgree /\ InsertsFresh /\ SpacesUsed

WorkspacesInv == W!TypeOK /\ Parents /\ IdsOnce

LEMMA ParentsMean == W!TypeOK => (RowsHaveParents <=> Parents)
<1> SUFFICES ASSUME W!TypeOK PROVE RowsHaveParents <=> Parents
  OBVIOUS
<1>1. /\ \A w \in Spaces : spaces[w] # None => spaces[w].org \in Orgs
      /\ \A u \in users : Home[u] \in Orgs
      /\ \A k \in Keys : keys[k] # None => keys[k].space \in Spaces
  BY Assumptions DEF W!TypeOK, W!Space, W!Key, W!HomeAssumption
<1>2. /\ \A w : w \in W!Live(spaces) <=> w \in Spaces /\ spaces[w] # None
      /\ \A o : o \in W!Live(orgs) <=> o \in Orgs /\ orgs[o] # None
      /\ \A k : k \in W!Live(keys) <=> k \in Keys /\ keys[k] # None
      /\ \A m : m \in W!Live(members) <=> m \in Spaces \X Users /\ members[m] # None
  BY DEF W!Live, W!TypeOK
<1>3. (\A m \in W!Live(members) : m[1] \in W!Live(spaces) /\ m[2] \in users)
        <=> (\A w \in Spaces, u \in Users : members[<<w, u>>] # None => spaces[w] # None /\ u \in users)
  BY <1>2
<1>4. QED
  BY <1>1, <1>2, <1>3 DEF RowsHaveParents, W!RowsHaveParents, Parents

LEMMA CallTyped ==
  ASSUME W!TypeOK, NEW h \in Handlers, calls[h] # None
  PROVE  /\ calls[h] \in W!Call /\ calls[h].op \in {"org", "space", "edit", "key"}
         /\ calls[h].op = "org" => calls[h].id \in Orgs /\ calls[h].slug \in Slugs
         /\ calls[h].op \in {"space", "edit"} =>
              calls[h].id \in Spaces /\ calls[h].row \in W!Space /\ calls[h].row.org \in Orgs
         /\ calls[h].op = "key" => calls[h].id \in Keys /\ calls[h].space \in Spaces
BY DEF W!TypeOK, W!Call, W!Space

LEMMA WorkspacesInit == W!Init => WorkspacesInv
<1> SUFFICES ASSUME W!Init PROVE WorkspacesInv
  OBVIOUS
<1>1. /\ orgs \in [Orgs -> Slugs \cup {None}]
      /\ \A u \in Users : orgs[Home[u]] # None
      /\ users = Users /\ used \subseteq Orgs
      /\ spaces = [w \in Spaces |-> None] /\ members = [m \in Spaces \X Users |-> None]
      /\ keys = [k \in Keys |-> None] /\ orgKeys = [k \in OrgKeys |-> None]
      /\ calls = [h \in Handlers |-> None]
  BY DEF W!Init, W!Live
<1>2. W!TypeOK
  BY <1>1 DEF W!TypeOK
<1>3. Parents
  BY <1>1 DEF Parents
<1>4. IdsOnce
  BY <1>1 DEF IdsOnce, EditsAgree, InsertsFresh, SpacesUsed, W!At
<1>5. QED
  BY <1>2, <1>3, <1>4 DEF WorkspacesInv

LEMMA CallEndsTyped ==
  ASSUME W!TypeOK, NEW h \in Handlers, W!End(h)
  PROVE  /\ calls' \in [Handlers -> W!Call \cup {None}] /\ calls'[h] = None
         /\ \A g \in Handlers \ {h} : calls'[g] = calls[g]
BY DEF W!End, W!TypeOK

LEMMA CallBegins ==
  ASSUME W!TypeOK, NEW h \in Handlers, NEW c \in W!Call, W!Begin(h, c)
  PROVE  /\ calls' \in [Handlers -> W!Call \cup {None}] /\ calls[h] = None
         /\ calls'[h] = c /\ c # None
         /\ \A g \in Handlers \ {h} : calls'[g] = calls[g]
BY Assumptions DEF W!Begin, W!Idle, W!TypeOK, W!NoneAssumption

\* Rows only go, and no call on a workspace row begins.
LEMMA RowsGo ==
  ASSUME IdsOnce,
         \A w \in Spaces : spaces'[w] = spaces[w] \/ spaces'[w] = None, used \subseteq used',
         \A h \in Handlers : \/ calls'[h] = calls[h] \/ calls'[h] = None
                             \/ calls'[h].op \in {"org", "key"},
         \A h \in Handlers : W!At(h, "space") \/ W!At(h, "edit") => calls[h].id \in Spaces
  PROVE  IdsOnce'
<1>1. \A h \in Handlers : /\ W!At(h, "space")' => W!At(h, "space") /\ calls'[h] = calls[h]
                          /\ W!At(h, "edit")' => W!At(h, "edit") /\ calls'[h] = calls[h]
  BY DEF W!At
<1>2. EditsAgree' /\ SpacesUsed'
  BY <1>1 DEF IdsOnce, EditsAgree, SpacesUsed
<1>3. InsertsFresh'
  BY <1>1 DEF IdsOnce, InsertsFresh
<1>4. QED
  BY <1>2, <1>3 DEF IdsOnce

LEMMA RowCalls ==
  ASSUME W!TypeOK
  PROVE  \A h \in Handlers : W!At(h, "space") \/ W!At(h, "edit") => calls[h].id \in Spaces
BY CallTyped DEF W!At

\* Rows with all that hangs on them go.
LEMMA DeleteKeeps ==
  ASSUME WorkspacesInv, NEW ws \in SUBSET Spaces, NEW us \in SUBSET Users, W!Delete(ws, us),
         UNCHANGED <<orgKeys, used, calls>>, orgs' \in [Orgs -> Slugs \cup {None}],
         \A w \in Spaces \ ws : spaces[w] # None => orgs'[spaces[w].org] # None,
         \A u \in users \ us : orgs'[Home[u]] # None
  PROVE  WorkspacesInv'
<1>1. W!TypeOK /\ Parents /\ IdsOnce
  BY DEF WorkspacesInv
<1>2. /\ spaces' = [w \in Spaces |-> IF w \in ws THEN None ELSE spaces[w]]
      /\ users' = users \ us
      /\ members' = [m \in Spaces \X Users |->
                       IF m[1] \in ws \/ m[2] \in us THEN None ELSE members[m]]
      /\ keys' = [k \in Keys |-> IF k \in W!Live(keys) /\ keys[k].space \in ws THEN None ELSE keys[k]]
  BY DEF W!Delete, W!DropMembers, W!DropKeys
<1>3. W!TypeOK'
  BY <1>1, <1>2 DEF W!TypeOK
<1>4. Parents'
  <2>1. \A w \in Spaces : spaces'[w] = IF w \in ws THEN None ELSE spaces[w]
    BY <1>2
  <2>2. \A w \in Spaces, u \in Users :
          members'[<<w, u>>] # None => w \notin ws /\ u \notin us /\ members[<<w, u>>] # None
    BY <1>2
  <2>3. \A k \in Keys : keys'[k] # None =>
          keys'[k] = keys[k] /\ keys[k].space \in Spaces \ ws
    BY <1>1, <1>2 DEF W!Live, W!TypeOK, W!Key
  <2>4. \A w \in Spaces : spaces'[w] # None => orgs'[spaces'[w].org] # None
    BY <2>1
  <2>5. \A u \in users' : orgs'[Home[u]] # None
    BY <1>2
  <2>6. \A w \in Spaces, u \in Users : members'[<<w, u>>] # None => spaces'[w] # None /\ u \in users'
    BY <1>1, <1>2, <2>1, <2>2 DEF Parents
  <2>7. \A k \in Keys : keys'[k] # None => spaces'[keys'[k].space] # None
    BY <1>1, <2>1, <2>3 DEF Parents
  <2>8. QED
    BY <2>4, <2>5, <2>6, <2>7 DEF Parents
<1>5. IdsOnce'
  BY <1>1, <1>2, RowsGo, RowCalls
<1>6. QED
  BY <1>3, <1>4, <1>5 DEF WorkspacesInv

\* A step that leaves the workspace rows and takes no parent away.
LEMMA RowsStay ==
  ASSUME WorkspacesInv, W!TypeOK', UNCHANGED <<spaces, users>>, used \subseteq used',
         \A o \in Orgs : orgs[o] # None => orgs'[o] # None,
         \A w \in Spaces, u \in Users : members'[<<w, u>>] # None =>
           members[<<w, u>>] # None \/ (spaces[w] # None /\ u \in users),
         \A k \in Keys : keys'[k] # None =>
           \/ keys[k] # None /\ keys'[k].space = keys[k].space
           \/ keys'[k].space \in Spaces /\ spaces[keys'[k].space] # None,
         \A h \in Handlers : \/ calls'[h] = calls[h] \/ calls'[h] = None
                             \/ calls'[h].op \in {"org", "key"}
  PROVE  WorkspacesInv'
<1>1. W!TypeOK /\ Parents /\ IdsOnce
  BY DEF WorkspacesInv
<1>2. /\ \A w \in Spaces : spaces[w] # None => spaces[w].org \in Orgs
      /\ \A u \in users : Home[u] \in Orgs
  BY <1>1, Assumptions DEF W!TypeOK, W!Space, W!HomeAssumption
<1>3. Parents'
  BY <1>1, <1>2 DEF Parents
<1>4. IdsOnce'
  BY <1>1, RowsGo, RowCalls
<1>5. QED
  BY <1>3, <1>4 DEF WorkspacesInv

\* A workspace row is inserted or written, or the statement changes nothing.
LEMMA RowWritten ==
  ASSUME WorkspacesInv, NEW h \in Handlers, NEW w \in Spaces, NEW row \in W!Space,
         W!At(h, "space") \/ W!At(h, "edit"), calls[h].id = w, calls[h].row = row, W!End(h),
         UNCHANGED <<orgs, members, keys, orgKeys, users, used>>,
         \/ spaces' = spaces
         \/ spaces' = [spaces EXCEPT ![w] = row] /\ orgs[row.org] # None
            /\ (W!At(h, "edit") => spaces[w] # None)
  PROVE  WorkspacesInv'
<1>1. W!TypeOK /\ Parents /\ IdsOnce
  BY DEF WorkspacesInv
<1>2. /\ calls' \in [Handlers -> W!Call \cup {None}] /\ calls'[h] = None
      /\ \A g \in Handlers \ {h} : calls'[g] = calls[g]
  BY <1>1, CallEndsTyped
<1>3. row # None
  BY Assumptions DEF W!NoneAssumption
<1>4. /\ spaces' \in [Spaces -> W!Space \cup {None}]
      /\ \A v \in Spaces \ {w} : spaces'[v] = spaces[v]
      /\ spaces'[w] = spaces[w] \/ (spaces'[w] = row /\ orgs[row.org] # None)
      /\ spaces[w] # None => spaces'[w] # None
  BY <1>1, <1>3 DEF W!TypeOK
<1>5. W!TypeOK'
  BY <1>1, <1>2, <1>4 DEF W!TypeOK
<1>6. Parents'
  <2>1. \A v \in Spaces : spaces'[v] # None => orgs[spaces'[v].org] # None
    BY <1>1, <1>4 DEF Parents
  <2>2. \A k \in Keys : keys[k] # None => keys[k].space \in Spaces
    BY <1>1 DEF W!TypeOK, W!Key
  <2>3. \A v \in Spaces : spaces[v] # None => spaces'[v] # None
    BY <1>4
  <2>4. QED
    BY <1>1, <2>1, <2>2, <2>3 DEF Parents
<1>7. w \in used /\ (W!At(h, "edit") /\ spaces[w] # None => spaces[w].org = row.org)
  BY <1>1 DEF IdsOnce, EditsAgree, InsertsFresh
<1>8. \A g \in Handlers : /\ W!At(g, "space")' => g # h /\ W!At(g, "space") /\ calls'[g] = calls[g]
                          /\ W!At(g, "edit")' => g # h /\ W!At(g, "edit") /\ calls'[g] = calls[g]
  BY <1>2 DEF W!At
<1>9. \A g \in Handlers \ {h} : W!At(g, "space") \/ W!At(g, "edit") => calls[g].id \in Spaces
  BY <1>1, RowCalls
<1>10. SpacesUsed'
  BY <1>1, <1>4, <1>7 DEF IdsOnce, SpacesUsed
<1>11. EditsAgree'
  <2>1. SUFFICES ASSUME NEW g \in Handlers, W!At(g, "edit")'
                 PROVE  /\ calls'[g].id \in used
                        /\ spaces'[calls'[g].id] # None =>
                             spaces'[calls'[g].id].org = calls'[g].row.org
    BY DEF EditsAgree
  <2>2. /\ g # h /\ W!At(g, "edit") /\ calls'[g] = calls[g] /\ calls[g].id \in Spaces
        /\ calls[g].id \in used
        /\ spaces[calls[g].id] # None => spaces[calls[g].id].org = calls[g].row.org
    BY <1>1, <1>8, <1>9, <2>1 DEF IdsOnce, EditsAgree
  <2>3. CASE calls[g].id # w
    BY <1>4, <2>2, <2>3
  <2>4. CASE calls[g].id = w
    <3>1. W!At(h, "edit")
      BY <1>1, <2>2, <2>4 DEF IdsOnce, InsertsFresh
    <3>2. spaces'[w] = spaces[w] \/ (spaces'[w] = row /\ spaces[w] # None /\ spaces[w].org = row.org)
      BY <1>1, <1>7, <3>1 DEF W!TypeOK
    <3>3. QED
      BY <2>2, <2>4, <3>2
  <2>5. QED
    BY <2>3, <2>4
<1>12. InsertsFresh'
  <2>1. SUFFICES ASSUME NEW g \in Handlers, W!At(g, "space")'
                 PROVE  /\ calls'[g].id \in used /\ spaces'[calls'[g].id] = None
                        /\ \A f \in Handlers \ {g} :
                             W!At(f, "space")' \/ W!At(f, "edit")' => calls'[f].id # calls'[g].id
    BY DEF InsertsFresh
  <2>2. /\ g # h /\ W!At(g, "space") /\ calls'[g] = calls[g] /\ calls[g].id \in Spaces
        /\ calls[g].id \in used /\ spaces[calls[g].id] = None /\ calls[g].id # w
        /\ \A f \in Handlers \ {g} :
             W!At(f, "space") \/ W!At(f, "edit") => calls[f].id # calls[g].id
    BY <1>1, <1>8, <1>9, <2>1 DEF IdsOnce, InsertsFresh
  <2>3. QED
    BY <1>4, <1>8, <2>2
<1>13. QED
  BY <1>5, <1>6, <1>10, <1>11, <1>12 DEF WorkspacesInv, IdsOnce

\* CreateWorkspace and UpdateWorkspace have looked up what they need.
LEMMA RowCallBegins ==
  ASSUME WorkspacesInv, NEW h \in Handlers, NEW c \in W!Call, W!Begin(h, c), c.id \in Spaces,
         \/ c.op = "space" /\ c.id \notin used
         \/ c.op = "edit" /\ spaces[c.id] # None /\ spaces[c.id].org = c.row.org,
         used \subseteq used', used' \subseteq used \cup Spaces, c.id \in used',
         UNCHANGED <<orgs, spaces, members, keys, orgKeys, users>>
  PROVE  WorkspacesInv'
<1>1. W!TypeOK /\ Parents /\ IdsOnce
  BY DEF WorkspacesInv
<1>2. /\ calls' \in [Handlers -> W!Call \cup {None}] /\ calls[h] = None
      /\ calls'[h] = c /\ c # None
      /\ \A g \in Handlers \ {h} : calls'[g] = calls[g]
  BY <1>1, CallBegins
<1>3. W!TypeOK' /\ Parents'
  BY <1>1, <1>2 DEF W!TypeOK, Parents
<1>4. SpacesUsed'
  BY <1>1 DEF IdsOnce, SpacesUsed
<1>5. \A g \in Handlers \ {h} : /\ W!At(g, "space")' <=> W!At(g, "space")
                                /\ W!At(g, "edit")' <=> W!At(g, "edit")
  BY <1>2 DEF W!At
<1>6. /\ W!At(h, "space")' <=> c.op = "space"
      /\ W!At(h, "edit")' <=> c.op = "edit"
  BY <1>2 DEF W!At
<1>7. EditsAgree'
  BY <1>1, <1>2, <1>5, <1>6 DEF IdsOnce, EditsAgree
<1>8. \A g \in Handlers : /\ W!At(g, "space") => calls[g].id \in used /\ spaces[calls[g].id] = None
                          /\ W!At(g, "edit") => calls[g].id \in used
  BY <1>1 DEF IdsOnce, EditsAgree, InsertsFresh
<1>9. c.op = "space" => spaces[c.id] = None
  BY <1>1 DEF IdsOnce, SpacesUsed
<1>10. InsertsFresh'
  <2>1. SUFFICES ASSUME NEW g \in Handlers, W!At(g, "space")'
                 PROVE  /\ calls'[g].id \in used' /\ spaces[calls'[g].id] = None
                        /\ \A f \in Handlers \ {g} :
                             W!At(f, "space")' \/ W!At(f, "edit")' => calls'[f].id # calls'[g].id
    BY DEF InsertsFresh
  <2>2. CASE g = h
    BY <1>2, <1>5, <1>6, <1>8, <1>9, <2>1, <2>2
  <2>3. CASE g # h
    <3>1. /\ W!At(g, "space") /\ calls'[g] = calls[g]
          /\ calls[g].id \in used /\ spaces[calls[g].id] = None
          /\ \A f \in Handlers \ {g} :
               W!At(f, "space") \/ W!At(f, "edit") => calls[f].id # calls[g].id
      BY <1>1, <1>2, <1>5, <2>1, <2>3 DEF IdsOnce, InsertsFresh
    <3>2. calls'[h].id # calls[g].id
      BY <1>2, <3>1
    <3>3. QED
      BY <1>2, <1>5, <3>1, <3>2
  <2>4. QED
    BY <2>2, <2>3
<1>11. QED
  BY <1>3, <1>4, <1>7, <1>10 DEF WorkspacesInv, IdsOnce

LEMMA WorkspacesStep == WorkspacesInv /\ [W!Next]_workspacesVars => WorkspacesInv'
<1> SUFFICES ASSUME WorkspacesInv, [W!Next]_workspacesVars PROVE WorkspacesInv'
  OBVIOUS
<1>1. W!TypeOK /\ Parents /\ IdsOnce
  BY DEF WorkspacesInv
<1>2. /\ \A w : w \in W!Live(spaces) <=> w \in Spaces /\ spaces[w] # None
      /\ \A o : o \in W!Live(orgs) <=> o \in Orgs /\ orgs[o] # None
      /\ \A k : k \in W!Live(keys) <=> k \in Keys /\ keys[k] # None
  BY <1>1 DEF W!Live, W!TypeOK
<1>3. /\ \A row \in W!Space : row # None /\ row.org \in Orgs
      /\ \A row \in W!Key : row # None /\ row.space \in Spaces
      /\ \A s \in Slugs : s # None
      /\ Home \in [Users -> Orgs]
  BY Assumptions DEF W!NoneAssumption, W!HomeAssumption, W!Space, W!Key
<1>4. ASSUME NEW h \in Handlers, NEW o \in Orgs, NEW s \in Slugs, W!CreateOrg(h, o, s)
      PROVE  WorkspacesInv'
  <2>1. PICK c \in W!Call : c = [op |-> "org", id |-> o, slug |-> s]
    BY DEF W!Call
  <2>2. /\ W!Begin(h, c) /\ used' = used \cup {o}
        /\ UNCHANGED <<orgs, spaces, members, keys, orgKeys, users>>
    BY <1>4, <2>1 DEF W!CreateOrg, W!Fresh
  <2>3. /\ calls' \in [Handlers -> W!Call \cup {None}] /\ calls'[h].op = "org"
        /\ \A g \in Handlers \ {h} : calls'[g] = calls[g]
    BY <1>1, <2>1, <2>2, CallBegins
  <2>4. W!TypeOK'
    BY <1>1, <2>2, <2>3 DEF W!TypeOK
  <2>5. QED
    BY <2>2, <2>3, <2>4, RowsStay
<1>5. ASSUME NEW h \in Handlers, NEW w \in Spaces, NEW row \in W!Space,
             W!CreateWorkspace(h, w, row)
      PROVE  WorkspacesInv'
  <2>1. PICK c \in W!Call : c = [op |-> "space", id |-> w, row |-> row]
    BY DEF W!Call
  <2>2. /\ W!Begin(h, c) /\ used' = used \cup {w} /\ w \notin used
        /\ UNCHANGED <<orgs, spaces, members, keys, orgKeys, users>>
    BY <1>5, <2>1 DEF W!CreateWorkspace, W!Fresh
  <2>3. QED
    BY <2>1, <2>2, RowCallBegins
<1>6. ASSUME NEW h \in Handlers, NEW w \in Spaces, NEW asked \in Slugs \cup {None},
             W!UpdateWorkspace(h, w, asked)
      PROVE  WorkspacesInv'
  <2>1. spaces[w] # None /\ spaces[w] \in W!Space /\ w \in used
    BY <1>1, <1>2, <1>6 DEF W!UpdateWorkspace, W!TypeOK, IdsOnce, SpacesUsed
  <2>2. PICK row \in W!Space :
          row = [spaces[w] EXCEPT !.slug = IF asked = None THEN @ ELSE asked] /\ row.org = spaces[w].org
    <3> DEFINE image == [spaces[w] EXCEPT !.slug = IF asked = None THEN @ ELSE asked]
    <3>1. image \in W!Space /\ image.org = spaces[w].org
      BY <2>1 DEF W!Space
    <3>2. QED
      BY <3>1
  <2>3. PICK c \in W!Call : c = [op |-> "edit", id |-> w, row |-> row]
    BY DEF W!Call
  <2>4. W!Begin(h, c) /\ UNCHANGED <<orgs, spaces, members, keys, orgKeys, users, used>>
    BY <1>6, <2>2, <2>3 DEF W!UpdateWorkspace
  <2>5. QED
    BY <2>1, <2>2, <2>3, <2>4, RowCallBegins
<1>7. ASSUME NEW h \in Handlers, NEW k \in Keys, NEW w \in Spaces,
             W!CreateWorkspaceAPIKey(h, k, w)
      PROVE  WorkspacesInv'
  <2>1. PICK c \in W!Call : c = [op |-> "key", id |-> k, space |-> w]
    BY DEF W!Call
  <2>2. /\ W!Begin(h, c) /\ used' = used \cup {k}
        /\ UNCHANGED <<orgs, spaces, members, keys, orgKeys, users>>
    BY <1>7, <2>1 DEF W!CreateWorkspaceAPIKey, W!Fresh
  <2>3. /\ calls' \in [Handlers -> W!Call \cup {None}] /\ calls'[h].op = "key"
        /\ \A g \in Handlers \ {h} : calls'[g] = calls[g]
    BY <1>1, <2>1, <2>2, CallBegins
  <2>4. W!TypeOK'
    BY <1>1, <2>2, <2>3 DEF W!TypeOK
  <2>5. QED
    BY <2>2, <2>3, <2>4, RowsStay
<1>8. ASSUME NEW h \in Handlers, W!InsertOrg(h) PROVE WorkspacesInv'
  <2>1. /\ W!End(h) /\ UNCHANGED <<spaces, members, keys, orgKeys, users, used>>
        /\ calls[h] # None /\ calls[h].op = "org"
    BY <1>8 DEF W!InsertOrg, W!At
  <2>2. calls[h].id \in Orgs /\ calls[h].slug \in Slugs
    BY <1>1, <2>1, CallTyped
  <2>3. /\ orgs' \in [Orgs -> Slugs \cup {None}]
        /\ \A o \in Orgs : orgs[o] # None => orgs'[o] # None
    BY <1>1, <1>3, <1>8, <2>2 DEF W!InsertOrg, W!TypeOK
  <2>4. W!TypeOK'
    BY <1>1, <2>1, <2>3, CallEndsTyped DEF W!TypeOK
  <2>5. QED
    BY <1>1, <2>1, <2>3, <2>4, CallEndsTyped, RowsStay
<1>9. ASSUME NEW h \in Handlers, W!InsertWorkspace(h) \/ W!WriteWorkspace(h) PROVE WorkspacesInv'
  <2>1. /\ W!End(h) /\ UNCHANGED <<orgs, members, keys, orgKeys, users, used>>
        /\ W!At(h, "space") \/ W!At(h, "edit")
        /\ W!InsertWorkspace(h) => ~W!At(h, "edit")
    BY <1>9 DEF W!InsertWorkspace, W!WriteWorkspace, W!At
  <2>2. PICK w \in Spaces : w = calls[h].id
    BY <1>1, <2>1, RowCalls
  <2>3. PICK row \in W!Space : row = calls[h].row /\ row.org \in Orgs
    BY <1>1, <2>1, CallTyped DEF W!At
  <2>4. CASE W!InsertWorkspace(h)
    <3>1. \/ spaces' = spaces
          \/ spaces' = [spaces EXCEPT ![w] = row] /\ orgs[row.org] # None
      BY <1>2, <2>2, <2>3, <2>4 DEF W!InsertWorkspace
    <3>2. QED
      BY <2>1, <2>2, <2>3, <2>4, <3>1, RowWritten
  <2>5. CASE W!WriteWorkspace(h)
    <3>1. W!At(h, "edit")
      BY <2>5 DEF W!WriteWorkspace
    <3>2. \/ spaces' = spaces
          \/ spaces' = [spaces EXCEPT ![w] = row] /\ spaces[w] # None
      BY <1>2, <2>2, <2>3, <2>5 DEF W!WriteWorkspace
    <3>3. spaces[w] # None => orgs[row.org] # None
      BY <1>1, <2>2, <2>3, <3>1 DEF Parents, IdsOnce, EditsAgree
    <3>4. QED
      BY <2>1, <2>2, <2>3, <3>2, <3>3, RowWritten
  <2>6. QED
    BY <1>9, <2>4, <2>5
<1>10. ASSUME NEW h \in Handlers, W!SaveKey(h) PROVE WorkspacesInv'
  <2>1. /\ W!End(h) /\ UNCHANGED <<orgs, spaces, members, orgKeys, users, used>>
        /\ calls[h] # None /\ calls[h].op = "key"
    BY <1>10 DEF W!SaveKey, W!At
  <2>2. calls[h].id \in Keys /\ calls[h].space \in Spaces
    BY <1>1, <2>1, CallTyped
  <2>3. PICK row \in W!Key :
          row = [space |-> calls[h].space, revoked |-> FALSE] /\ row.space = calls[h].space
    <3> DEFINE image == [space |-> calls[h].space, revoked |-> FALSE]
    <3>1. image \in W!Key /\ image.space = calls[h].space
      BY <2>2 DEF W!Key
    <3>2. QED
      BY <3>1
  <2>4. keys' = keys \/ (keys' = [keys EXCEPT ![calls[h].id] = row] /\ spaces[row.space] # None)
    BY <1>2, <1>10, <2>3 DEF W!SaveKey
  <2>5. /\ keys' \in [Keys -> W!Key \cup {None}]
        /\ \A k \in Keys : keys'[k] = keys[k] \/ (keys'[k] = row /\ spaces[row.space] # None)
    BY <1>1, <2>2, <2>4 DEF W!TypeOK
  <2>6. W!TypeOK'
    BY <1>1, <2>1, <2>5, CallEndsTyped DEF W!TypeOK
  <2>7. QED
    BY <1>1, <1>3, <2>1, <2>5, <2>6, CallEndsTyped, RowsStay
<1>11. ASSUME NEW h \in Handlers, W!CallFails(h) PROVE WorkspacesInv'
  <2>1. W!End(h) /\ UNCHANGED <<orgs, spaces, members, keys, orgKeys, users, used>>
    BY <1>11 DEF W!CallFails
  <2>2. W!TypeOK'
    BY <1>1, <2>1, CallEndsTyped DEF W!TypeOK
  <2>3. QED
    BY <1>1, <2>1, <2>2, CallEndsTyped, RowsStay
<1>12. ASSUME NEW o \in Orgs, W!DeleteOrg(o) PROVE WorkspacesInv'
  <2>1. PICK ws \in SUBSET Spaces : ws = {w \in W!Live(spaces) : spaces[w].org = o}
    BY <1>2
  <2>2. PICK us \in SUBSET Users : us = {u \in users : Home[u] = o}
    BY <1>1 DEF W!TypeOK
  <2>3. /\ W!Delete(ws, us) /\ orgs' = [orgs EXCEPT ![o] = None]
        /\ UNCHANGED <<orgKeys, used, calls>>
    BY <1>12, <2>1, <2>2 DEF W!DeleteOrg
  <2>4. /\ orgs' \in [Orgs -> Slugs \cup {None}]
        /\ \A p \in Orgs \ {o} : orgs'[p] = orgs[p]
    BY <1>1, <2>3 DEF W!TypeOK
  <2>5. \A w \in Spaces \ ws : spaces[w] # None => orgs'[spaces[w].org] # None
    BY <1>1, <1>2, <1>3, <2>1, <2>4 DEF W!TypeOK, Parents
  <2>6. \A u \in users \ us : orgs'[Home[u]] # None
    BY <1>1, <1>3, <2>2, <2>4 DEF W!TypeOK, Parents
  <2>7. QED
    BY <2>3, <2>4, <2>5, <2>6, DeleteKeeps
<1>13. ASSUME NEW w \in Spaces, W!DeleteWorkspace(w) PROVE WorkspacesInv'
  <2>1. W!Delete({w}, {}) /\ UNCHANGED <<orgs, orgKeys, used, calls>>
    BY <1>13 DEF W!DeleteWorkspace
  <2>2. \A v \in Spaces : spaces[v] # None => orgs'[spaces[v].org] # None
    BY <1>1, <2>1 DEF Parents
  <2>3. \A u \in users : orgs'[Home[u]] # None
    BY <1>1, <2>1 DEF Parents
  <2>4. QED
    BY <1>1, <2>1, <2>2, <2>3, DeleteKeeps DEF W!TypeOK
<1>14. ASSUME NEW w \in Spaces, NEW u \in Users,
              \/ \E role \in Roles : W!AddMember(w, u, role) \/ W!UpdateMember(w, u, role)
              \/ W!RemoveMember(w, u)
       PROVE  WorkspacesInv'
  <2>1. PICK role \in Roles \cup {None} :
          /\ members' = [members EXCEPT ![<<w, u>>] = role]
          /\ members[<<w, u>>] # None \/ (spaces[w] # None /\ u \in users)
          /\ UNCHANGED <<orgs, spaces, keys, orgKeys, users, used, calls>>
    BY <1>2, <1>14 DEF W!AddMember, W!UpdateMember, W!RemoveMember
  <2>2. W!TypeOK'
    BY <1>1, <2>1 DEF W!TypeOK
  <2>3. \A v \in Spaces, x \in Users : members'[<<v, x>>] # None =>
          members[<<v, x>>] # None \/ (spaces[v] # None /\ x \in users)
    BY <1>1, <2>1 DEF W!TypeOK
  <2>4. QED
    BY <2>1, <2>2, <2>3, RowsStay
<1>15. ASSUME NEW k \in Keys, W!RevokeWorkspaceAPIKey(k) PROVE WorkspacesInv'
  <2>1. keys[k] \in W!Key /\ UNCHANGED <<orgs, spaces, members, orgKeys, users, used, calls>>
    BY <1>1, <1>2, <1>15 DEF W!RevokeWorkspaceAPIKey, W!TypeOK
  <2>2. PICK row \in W!Key : row = [keys[k] EXCEPT !.revoked = TRUE] /\ row.space = keys[k].space
    <3> DEFINE image == [keys[k] EXCEPT !.revoked = TRUE]
    <3>1. image \in W!Key /\ image.space = keys[k].space
      BY <2>1 DEF W!Key
    <3>2. QED
      BY <3>1
  <2>3. keys' = [keys EXCEPT ![k] = row] /\ keys[k] # None
    BY <1>1, <1>2, <1>15, <2>2 DEF W!RevokeWorkspaceAPIKey, W!TypeOK
  <2>4. W!TypeOK'
    BY <1>1, <2>1, <2>3 DEF W!TypeOK
  <2>5. \A j \in Keys : keys'[j] # None => keys[j] # None /\ keys'[j].space = keys[j].space
    BY <1>1, <2>2, <2>3 DEF W!TypeOK
  <2>6. QED
    BY <2>1, <2>4, <2>5, RowsStay
<1>16. ASSUME NEW k \in OrgKeys,
              W!RevokeAPIKey(k) \/ \E o \in Orgs : W!CreateAPIKey(k, o)
       PROVE  WorkspacesInv'
  <2>1. /\ UNCHANGED <<orgs, spaces, members, keys, users, calls>>
        /\ used \subseteq used' /\ used' \subseteq used \cup OrgKeys
        /\ \E o \in Orgs \cup {None} : orgKeys' = [orgKeys EXCEPT ![k] = o]
    BY <1>16 DEF W!RevokeAPIKey, W!CreateAPIKey, W!Fresh
  <2>2. W!TypeOK'
    BY <1>1, <2>1 DEF W!TypeOK
  <2>3. QED
    BY <2>1, <2>2, RowsStay
<1>17. ASSUME UNCHANGED workspacesVars PROVE WorkspacesInv'
  <2>1. UNCHANGED <<orgs, spaces, members, keys, orgKeys, users, used, calls>>
    BY <1>17 DEF workspacesVars
  <2>2. W!TypeOK'
    BY <1>1, <2>1 DEF W!TypeOK
  <2>3. QED
    BY <2>1, <2>2, RowsStay
<1>18. QED
  BY <1>4, <1>5, <1>6, <1>7, <1>8, <1>9, <1>10, <1>11, <1>12, <1>13, <1>14, <1>15, <1>16, <1>17
     DEF W!Next, W!AtOnce, W!Request, W!Statement

-----------------------------------------------------------------------------
(* Ingestion.  While a call publishes, each reading of its batch is on the *)
(* topic or is still sent by the attempt the call is waiting for.          *)

LEMMA PublicationAssumptions == MaxAttempts \in Nat \ {0} /\ None \notin P!Call
BY Assumptions DEF P!MaxAttemptsAssumption, P!NoneAssumption

\* A call is moved on with its fields in their sets.
LEMMA CallMoved ==
  ASSUME NEW c \in P!Call, NEW n \in 1 .. MaxAttempts, NEW todo \in SUBSET Points,
         NEW pc \in {"publish", "queue"} \cup P!Answers
  PROVE  /\ [c EXCEPT !.pc = pc] \in P!Call
         /\ [c EXCEPT !.attempt = n] \in P!Call
         /\ [c EXCEPT !.todo = todo] \in P!Call
         /\ [c EXCEPT !.pc = pc, !.todo = todo] \in P!Call
BY DEF P!Call

\* What is known of a call that is at some point of its handler.
LEMMA CallAt ==
  ASSUME P!TypeOK, NEW q \in Calls, NEW pc, P!At(q, pc)
  PROVE  /\ call[q] \in P!Call /\ call[q] # None /\ call[q].pc = pc
         /\ call[q].attempt \in 1 .. MaxAttempts
         /\ call[q].batch \subseteq Points /\ call[q].todo \subseteq call[q].batch
BY DEF P!TypeOK, P!At, P!Call

\* TypeOK, with what is still to be pushed a part of the batch, is inductive.
LEMMA PublicationTypeInit == P!Init => P!TypeOK
BY DEF P!Init, P!TypeOK

\* A step of one call, which leaves the rest of the calls alone.
LEMMA OneCallMoves ==
  ASSUME P!TypeOK, NEW q \in Calls, NEW c \in P!Call, c.todo \subseteq c.batch,
         call' = [call EXCEPT ![q] = c],
         raw' = raw, sent' \subseteq P!Message, dlq' \subseteq Calls \X Points
  PROVE  P!TypeOK'
BY PublicationAssumptions DEF P!TypeOK

LEMMA MessagesTyped ==
  ASSUME NEW q \in Calls, NEW n \in 1 .. MaxAttempts, NEW batch \in SUBSET Points
  PROVE  P!Messages(q, n, batch) \subseteq P!Message
BY DEF P!Messages, P!Message

LEMMA PublicationTypeStep == P!TypeOK /\ [P!Next]_ingestionVars => P!TypeOK'
<1> SUFFICES ASSUME P!TypeOK, [P!Next]_ingestionVars PROVE P!TypeOK'
  OBVIOUS
<1>1. ASSUME NEW q \in Calls, NEW kind \in {"live", "replay"}, NEW batch \in SUBSET Points,
             P!Receive(q, kind, batch)
      PROVE  P!TypeOK'
  <2> DEFINE c == [kind |-> kind, batch |-> batch, attempt |-> 1, pc |-> "publish", todo |-> {}]
  <2>1. c \in P!Call /\ c.todo \subseteq c.batch
    BY PublicationAssumptions DEF P!Call
  <2>2. sent' \subseteq P!Message
    BY <1>1, PublicationAssumptions, MessagesTyped DEF P!Receive, P!TypeOK
  <2>3. QED
    BY <1>1, <2>1, <2>2, OneCallMoves DEF P!Receive, P!TypeOK
<1>2. ASSUME NEW q \in Calls, P!PublishSucceeds(q) \/ P!PublishFails(q) \/ P!AnswerQueued(q)
      PROVE  P!TypeOK'
  <2>1. PICK pc \in P!Answers : call' = [call EXCEPT ![q].pc = pc]
    BY <1>2 DEF P!PublishSucceeds, P!PublishFails, P!AnswerQueued, P!Answers
  <2> DEFINE c == [call[q] EXCEPT !.pc = pc]
  <2>2. call[q] \in P!Call /\ call[q].todo \subseteq call[q].batch
    BY <1>2, CallAt DEF P!PublishSucceeds, P!PublishFails, P!AnswerQueued
  <2>3. c \in P!Call /\ c.todo \subseteq c.batch
    BY <2>2, CallMoved DEF P!Call
  <2>4. call' = [call EXCEPT ![q] = c]
    BY <2>1
  <2> HIDE DEF c
  <2>5. QED
    BY <1>2, <2>3, <2>4, OneCallMoves
       DEF P!PublishSucceeds, P!PublishFails, P!AnswerQueued, P!TypeOK
<1>3. ASSUME NEW q \in Calls, P!Retry(q)
      PROVE  P!TypeOK'
  <2> DEFINE c == [call[q] EXCEPT !.attempt = @ + 1]
  <2>1. /\ call[q] \in P!Call /\ call[q].todo \subseteq call[q].batch
        /\ call[q].attempt + 1 \in 1 .. MaxAttempts /\ call[q].batch \subseteq Points
    BY <1>3, PublicationAssumptions, CallAt DEF P!Retry
  <2>2. c \in P!Call /\ c.todo \subseteq c.batch
    BY <2>1, CallMoved DEF P!Call
  <2>3. sent' \subseteq P!Message
    BY <1>3, <2>1, MessagesTyped DEF P!Retry, P!TypeOK
  <2>4. call' = [call EXCEPT ![q] = c]
    BY <1>3 DEF P!Retry
  <2> HIDE DEF c
  <2>5. QED
    BY <1>3, <2>2, <2>3, <2>4, OneCallMoves DEF P!Retry, P!TypeOK
<1>4. ASSUME NEW q \in Calls, P!AttemptsExhausted(q)
      PROVE  P!TypeOK'
  <2> DEFINE c == [call[q] EXCEPT !.pc = "queue", !.todo = call[q].batch]
  <2>1. call[q] \in P!Call /\ call[q].batch \subseteq Points
    BY <1>4, CallAt DEF P!AttemptsExhausted
  <2>2. c \in P!Call /\ c.todo \subseteq c.batch
    BY <2>1, CallMoved DEF P!Call
  <2>3. call' = [call EXCEPT ![q] = c]
    BY <1>4 DEF P!AttemptsExhausted
  <2> HIDE DEF c
  <2>4. QED
    BY <1>4, <2>2, <2>3, OneCallMoves DEF P!AttemptsExhausted, P!TypeOK
<1>5. ASSUME NEW q \in Calls, NEW p \in Points, P!Push(q, p)
      PROVE  P!TypeOK'
  <2> DEFINE c == [call[q] EXCEPT !.todo = @ \ {p}]
  <2>1. call[q] \in P!Call /\ call[q].todo \subseteq call[q].batch /\ call[q].batch \subseteq Points
    BY <1>5, CallAt DEF P!Push
  <2>2. c \in P!Call /\ c.todo \subseteq c.batch
    BY <2>1, CallMoved DEF P!Call
  <2>3. call' = [call EXCEPT ![q] = c] /\ dlq' \subseteq Calls \X Points
    BY <1>5 DEF P!Push, P!TypeOK
  <2> HIDE DEF c
  <2>4. QED
    BY <1>5, <2>2, <2>3, OneCallMoves DEF P!Push, P!TypeOK
<1>6. ASSUME NEW m \in sent, P!Take(m) \/ P!GiveUp(m)
      PROVE  P!TypeOK'
  BY <1>6 DEF P!Take, P!GiveUp, P!TypeOK
<1>7. CASE P!Crash
  <2>1. \A q \in Calls : call[q] # None =>
          /\ [call[q] EXCEPT !.pc = "gone"] \in P!Call
          /\ [call[q] EXCEPT !.pc = "gone"].todo = call[q].todo
          /\ [call[q] EXCEPT !.pc = "gone"].batch = call[q].batch
    BY DEF P!TypeOK, P!Call, P!Answers
  <2>2. QED
    BY <1>7, <2>1 DEF P!Crash, P!TypeOK
<1>8. CASE UNCHANGED ingestionVars
  BY <1>8 DEF ingestionVars, P!TypeOK
<1>9. QED
  BY <1>1, <1>2, <1>3, <1>4, <1>5, <1>6, <1>7, <1>8 DEF P!Next, P!CallStep

\* CreatedIsLogged is not inductive: a call that is about to be answered must
\* have its batch logged as well.  While a call publishes, every reading of its
\* batch is on the topic or is still sent by the attempt it is waiting for.
OnItsWay(q, p) ==
  P!Copies(q, p) # {} \/ [call |-> q, attempt |-> call[q].attempt, point |-> p] \in sent

LoggedInv ==
  /\ P!TypeOK
  /\ \A q \in Calls : P!At(q, "publish") => \A p \in call[q].batch : OnItsWay(q, p)
  /\ P!CreatedIsLogged

\* A copy that is on the topic stays there.
LEMMA CopiesStay ==
  ASSUME raw \in Seq(P!Message),
         raw' = raw \/ \E m \in P!Message : raw' = Append(raw, m),
         NEW q \in Calls, NEW p \in Points, P!Copies(q, p) # {}
  PROVE  P!Copies(q, p)' # {}
<1>1. PICK k \in 1 .. Len(raw) : raw[k].call = q /\ raw[k].point = p
  BY DEF P!Copies
<1>2. k \in 1 .. Len(raw') /\ raw'[k] = raw[k]
  BY <1>1
<1>3. QED
  BY <1>1, <1>2 DEF P!Copies

LEMMA CopyTaken ==
  ASSUME raw \in Seq(P!Message), NEW m \in P!Message, raw' = Append(raw, m)
  PROVE  P!Copies(m.call, m.point)' # {}
<1>1. Len(raw') \in 1 .. Len(raw') /\ raw'[Len(raw')] = m
  BY DEF P!Message
<1>2. QED
  BY <1>1 DEF P!Copies

\* What a step does to the calls it is not about.
LEMMA RestStays ==
  ASSUME LoggedInv, P!TypeOK', raw' = raw \/ \E m \in P!Message : raw' = Append(raw, m),
         sent \subseteq sent', NEW q \in Calls, call'[q] = call[q]
  PROVE  /\ P!At(q, "publish")' => \A p \in call'[q].batch : OnItsWay(q, p)'
         /\ P!At(q, "created")' => \A p \in call'[q].batch : P!Copies(q, p)' # {}
<1>1. \A p \in Points : P!Copies(q, p) # {} => P!Copies(q, p)' # {}
  BY CopiesStay DEF LoggedInv, P!TypeOK
<1>2. call[q] # None => call[q].batch \subseteq Points
  BY DEF LoggedInv, P!TypeOK, P!Call
<1>3. QED
  BY <1>1, <1>2 DEF LoggedInv, P!CreatedIsLogged, P!At, OnItsWay

\* One call moves to a point where it is neither publishing nor answered 201.
LEMMA LoggedOfOne ==
  ASSUME LoggedInv, P!TypeOK', raw' = raw, sent \subseteq sent', NEW q \in Calls,
         \A r \in Calls \ {q} : call'[r] = call[r],
         P!At(q, "publish")' => \A p \in call'[q].batch : OnItsWay(q, p)',
         P!At(q, "created")' => \A p \in call'[q].batch : P!Copies(q, p)' # {}
  PROVE  LoggedInv'
<1>1. \A r \in Calls \ {q} :
        /\ P!At(r, "publish")' => \A p \in call'[r].batch : OnItsWay(r, p)'
        /\ P!At(r, "created")' => \A p \in call'[r].batch : P!Copies(r, p)' # {}
  BY RestStays
<1>2. QED
  BY <1>1 DEF LoggedInv, P!CreatedIsLogged

LEMMA LoggedInit == P!Init => LoggedInv
BY PublicationTypeInit DEF P!Init, LoggedInv, P!CreatedIsLogged, P!At

LEMMA LoggedStep == LoggedInv /\ [P!Next]_ingestionVars => LoggedInv'
<1> SUFFICES ASSUME LoggedInv, [P!Next]_ingestionVars PROVE LoggedInv'
  OBVIOUS
<1>1. P!TypeOK /\ P!TypeOK'
  BY PublicationTypeStep DEF LoggedInv
<1>2. ASSUME NEW q \in Calls, NEW kind \in {"live", "replay"}, NEW batch \in SUBSET Points,
             P!Receive(q, kind, batch)
      PROVE  LoggedInv'
  <2>1. call'[q] = [kind |-> kind, batch |-> batch, attempt |-> 1, pc |-> "publish", todo |-> {}]
    BY <1>1, <1>2 DEF P!Receive, P!TypeOK
  <2>2. \A p \in batch : [call |-> q, attempt |-> 1, point |-> p] \in sent'
    BY <1>2 DEF P!Receive, P!Messages
  <2>3. QED
    BY <1>1, <1>2, <2>1, <2>2, LoggedOfOne DEF P!Receive, P!At, OnItsWay, P!TypeOK
<1>3. ASSUME NEW q \in Calls, P!PublishSucceeds(q)
      PROVE  LoggedInv'
  <2>1. P!At(q, "publish") /\ call[q] \in P!Call /\ call'[q] = [call[q] EXCEPT !.pc = "created"]
    BY <1>1, <1>3, CallAt DEF P!PublishSucceeds, P!TypeOK
  <2>2. call'[q].batch = call[q].batch /\ call'[q].pc = "created"
    BY <2>1 DEF P!Call
  <2>3. \A p \in call[q].batch : P!Copies(q, p) # {}
    <3> SUFFICES ASSUME NEW p \in call[q].batch PROVE P!Copies(q, p) # {}
      OBVIOUS
    <3>1. [call |-> q, attempt |-> call[q].attempt, point |-> p] \notin P!Outstanding(q)
      BY <1>3 DEF P!PublishSucceeds
    <3>2. QED
      BY <2>1, <3>1 DEF LoggedInv, OnItsWay, P!Outstanding
  <2>4. \A p \in Points : P!Copies(q, p)' = P!Copies(q, p)
    BY <1>3 DEF P!PublishSucceeds, P!Copies
  <2>5. ~P!At(q, "publish")' /\ \A p \in call'[q].batch : P!Copies(q, p)' # {}
    BY <2>1, <2>2, <2>3, <2>4 DEF P!At, P!Call
  <2>6. raw' = raw /\ sent' = sent /\ \A r \in Calls \ {q} : call'[r] = call[r]
    BY <1>1, <1>3 DEF P!PublishSucceeds, P!TypeOK
  <2>7. QED
    BY <1>1, <2>5, <2>6, LoggedOfOne
<1>4. ASSUME NEW q \in Calls, P!Retry(q)
      PROVE  LoggedInv'
  <2>1. /\ call[q] \in P!Call /\ call[q].batch \subseteq Points
        /\ call'[q] = [call[q] EXCEPT !.attempt = @ + 1] /\ call[q].pc = "publish"
    BY <1>1, <1>4, CallAt DEF P!Retry, P!TypeOK
  <2>2. /\ call'[q].batch = call[q].batch /\ call'[q].pc = "publish"
        /\ call'[q].attempt = call[q].attempt + 1
    BY <2>1 DEF P!Call
  <2>3. \A p \in call[q].batch :
          [call |-> q, attempt |-> call[q].attempt + 1, point |-> p] \in sent'
    BY <1>4 DEF P!Retry, P!Messages
  <2>4. QED
    BY <1>1, <1>4, <2>2, <2>3, LoggedOfOne DEF P!Retry, P!At, OnItsWay, P!TypeOK
<1>5. ASSUME NEW q \in Calls,
             \/ P!PublishFails(q) \/ P!AttemptsExhausted(q) \/ P!AnswerQueued(q)
             \/ \E p \in Points : P!Push(q, p)
      PROVE  LoggedInv'
  <2>1. call[q] \in P!Call /\ call[q] # None
    BY <1>1, <1>5, CallAt DEF P!PublishFails, P!AttemptsExhausted, P!AnswerQueued, P!Push
  <2>2. call'[q].pc \in {"unavailable", "queue", "queued"}
    BY <1>1, <1>5, <2>1
       DEF P!PublishFails, P!AttemptsExhausted, P!AnswerQueued, P!Push, P!TypeOK, P!Call, P!At
  <2>3. QED
    BY <1>1, <1>5, <2>2, LoggedOfOne
       DEF P!PublishFails, P!AttemptsExhausted, P!AnswerQueued, P!Push, P!At, P!TypeOK
<1>6. ASSUME NEW m \in sent, P!Take(m)
      PROVE  LoggedInv'
  <2>1. m \in P!Message /\ raw \in Seq(P!Message) /\ raw' = Append(raw, m)
        /\ sent' = sent \ {m} /\ call' = call
    BY <1>1, <1>6 DEF P!Take, P!TypeOK
  <2>2. P!Copies(m.call, m.point)' # {}
    BY <2>1, CopyTaken
  <2>3. \A q \in Calls, p \in Points : P!Copies(q, p) # {} => P!Copies(q, p)' # {}
    BY <2>1, CopiesStay
  <2>4. ASSUME NEW q \in Calls, call[q] # None, NEW p \in Points, OnItsWay(q, p)
        PROVE  OnItsWay(q, p)'
    BY <2>1, <2>2, <2>3, <2>4 DEF OnItsWay, P!Message
  <2>5. \A q \in Calls : call[q] # None => call[q].batch \subseteq Points
    BY <1>1 DEF P!TypeOK, P!Call
  <2>6. QED
    BY <1>1, <2>1, <2>3, <2>4, <2>5 DEF LoggedInv, P!CreatedIsLogged, P!At
<1>7. ASSUME NEW m \in sent, P!GiveUp(m)
      PROVE  LoggedInv'
  <2>1. call' = call /\ raw' = raw /\ sent' = sent \ {m}
    BY <1>7 DEF P!GiveUp
  <2>2. \A q \in Calls, p \in Points : P!Copies(q, p)' = P!Copies(q, p)
    BY <2>1 DEF P!Copies
  <2>3. ASSUME NEW q \in Calls, P!At(q, "publish"), NEW p \in Points, OnItsWay(q, p)
        PROVE  OnItsWay(q, p)'
    BY <1>7, <2>1, <2>2, <2>3 DEF OnItsWay, P!GiveUp, P!At
  <2>4. \A q \in Calls : call[q] # None => call[q].batch \subseteq Points
    BY <1>1 DEF P!TypeOK, P!Call
  <2>5. QED
    BY <1>1, <2>1, <2>2, <2>3, <2>4 DEF LoggedInv, P!CreatedIsLogged, P!At
<1>8. CASE P!Crash
  <2>1. \A q \in Calls, p \in Points : P!Copies(q, p)' = P!Copies(q, p)
    BY <1>8 DEF P!Crash, P!Copies
  <2>2. \A q \in Calls :
          ~P!At(q, "publish")' /\ (P!At(q, "created")' => P!At(q, "created") /\ call'[q] = call[q])
    BY <1>1, <1>8 DEF P!Crash, P!At, P!Ended, P!Answers, P!TypeOK, P!Call
  <2>3. \A q \in Calls : call[q] # None => call[q].batch \subseteq Points
    BY <1>1 DEF P!TypeOK, P!Call
  <2>4. QED
    BY <1>1, <2>1, <2>2, <2>3 DEF LoggedInv, P!CreatedIsLogged, P!At
<1>9. CASE UNCHANGED ingestionVars
  BY <1>1, <1>9 DEF ingestionVars, LoggedInv, P!CreatedIsLogged, P!At, OnItsWay, P!Copies
<1>10. QED
  BY <1>2, <1>3, <1>4, <1>5, <1>6, <1>7, <1>8, <1>9 DEF P!Next, P!CallStep

-----------------------------------------------------------------------------
(* The components together.                                                *)

ServicesInv ==
  /\ moving \in Components
  /\ WorkspacesInv /\ SignupInv /\ AuditInv /\ ChannelsInv /\ StreamsInv /\ LoggedInv

LEMMA ServicesInit == Init => ServicesInv
BY WorkspacesInit, SignupInit, AuditInit, ChannelsInit, StreamsInit, LoggedInit
   DEF Init, C!Init, C!S!Init, ServicesInv

\* What sign-up does to the topic.
LEMMA SignupAppends ==
  C!S!Next => \/ topic' = topic
              \/ \E m \in Requests \cup OtherEvents : topic' = Append(topic, m)
<1> SUFFICES ASSUME C!S!Next
             PROVE  \/ topic' = topic
                    \/ \E m \in Requests \cup OtherEvents : topic' = Append(topic, m)
  OBVIOUS
<1>1. ASSUME NEW r \in Requests,
             \/ \E email \in Emails : \/ C!S!Signup(r, email)
                                      \/ \E tenant \in C!S!Tenants : C!S!Register(r, email, tenant)
             \/ C!S!CheckEmail(r) \/ C!S!CreateOrg(r) \/ C!S!CreateUser(r) \/ C!S!SetRoles(r)
             \/ C!S!IssueTokenPair(r) \/ C!S!StatementFails(r)
      PROVE  topic' = topic
  BY <1>1 DEF C!S!Signup, C!S!Register, C!S!CheckEmail, C!S!CreateOrg, C!S!CreateUser,
              C!S!SetRoles, C!S!IssueTokenPair, C!S!StatementFails
<1>2. ASSUME NEW r \in Requests, C!S!Publish(r)
      PROVE  topic' = topic \/ topic' = Append(topic, r)
  BY <1>2 DEF C!S!Publish
<1>3. ASSUME NEW o \in C!S!Tenants, C!S!DeleteOrg(o) PROVE topic' = topic
  BY <1>3 DEF C!S!DeleteOrg
<1>4. QED
  BY <1>1, <1>2, <1>3 DEF C!S!Next

LEMMA AccountsStep ==
  ASSUME SignupInv, AuditInv, C!Next \/ UNCHANGED accountsVars
  PROVE  SignupInv' /\ AuditInv'
<1>1. CASE C!S!Next /\ UNCHANGED C!auditVars
  BY <1>1, SignupStep, SignupAppends, AuditStep
<1>2. CASE C!A!Next /\ UNCHANGED C!signupVars
  BY <1>2, SignupStep, AuditStep
<1>3. CASE \E e \in OtherEvents : C!OtherEvent(e)
  <2>1. /\ UNCHANGED C!signupVars /\ UNCHANGED C!auditVars
        /\ \E m \in Requests \cup OtherEvents : topic' = Append(topic, m)
    BY <1>3 DEF C!OtherEvent
  <2>2. QED
    BY <2>1, SignupStep, AuditStep
<1>4. CASE UNCHANGED accountsVars
  <2>1. UNCHANGED C!signupVars /\ UNCHANGED C!auditVars /\ topic' = topic
    BY <1>4 DEF accountsVars, C!signupVars, C!auditVars
  <2>2. QED
    BY <2>1, SignupStep, AuditStep
<1>5. QED
  BY <1>1, <1>2, <1>3, <1>4 DEF C!Next

LEMMA ServicesStep == ServicesInv /\ [Next]_vars => ServicesInv'
<1> SUFFICES ASSUME ServicesInv, [Next]_vars PROVE ServicesInv'
  OBVIOUS
<1>1. /\ moving' = moving
      /\ [W!Next]_workspacesVars /\ [R!Next]_channelsVars /\ [V!Next]_streamsVars
      /\ [P!Next]_ingestionVars
      /\ C!Next \/ UNCHANGED accountsVars
  BY DEF Next, vars, WorkspacesMove, AccountsMove, ChannelsMove, StreamsMove, IngestionMoves
<1>2. QED
  BY <1>1, WorkspacesStep, AccountsStep, ChannelsStep, StreamsStep, LoggedStep DEF ServicesInv

LEMMA ServicesHold == Spec => []ServicesInv
BY ServicesInit, ServicesStep, PTL DEF Spec

\* TypeOK: the tables, calls, topics and reader of the smaller components hold
\* what their code writes there.
THEOREM TypeCorrect == Spec => []TypeOK
<1>1. ServicesInv => TypeOK
  BY DEF ServicesInv, WorkspacesInv, SignupInv, AuditInv, ChannelsInv, StreamsInv, LoggedInv,
         TypeOK, C!TypeOK
<1>2. QED
  BY <1>1, ServicesHold, PTL

\* RowsHaveParents: CreateWorkspace, AddMember and CreateWorkspaceAPIKey in any
\* order with DeleteOrg and DeleteWorkspace leave no row without its parent.
THEOREM NoOrphans == Spec => []RowsHaveParents
<1>1. ServicesInv => RowsHaveParents
  BY ParentsMean DEF ServicesInv, WorkspacesInv
<1>2. QED
  BY <1>1, ServicesHold, PTL

\* SignupIsWhole: whoever SelfSignup or Register answered has a whole account,
\* and only a call at work or refused leaves half of one.
THEOREM AnsweredAccountsAreWhole == Spec => []SignupIsWhole
<1>1. ServicesInv => SignupIsWhole
  BY SignupGivesWhole DEF ServicesInv
<1>2. QED
  BY <1>1, ServicesHold, PTL

\* CommittedIsAudited: Start of the audit consumer commits no event before its
\* record is there or has failed, however often it starts again.
THEOREM NothingCommittedUnseen == Spec => []CommittedIsAudited
<1>1. ServicesInv => CommittedIsAudited
  BY AuditGivesRecord DEF ServicesInv
<1>2. QED
  BY <1>1, ServicesHold, PTL

\* RetentionAsTold: whatever calls of SetRetention overlap, the bucket of a
\* channel keeps data for a period somebody asked for, or without a limit.
THEOREM BucketsAsTold == Spec => []RetentionAsTold
<1>1. ServicesInv => RetentionAsTold
  BY DEF ServicesInv, ChannelsInv
<1>2. QED
  BY <1>1, ServicesHold, PTL

\* RecordingFollowsRow: the upload, status and delete calls of a stream in any
\* order leave its row at its last recording, or neither of the two; but for a
\* stream whose row and object came apart where the calls do not prevent it.
THEOREM RowsLeadToRecordings == Spec => []RecordingFollowsRow
<1>1. ServicesInv => RecordingFollowsRow
  BY DEF ServicesInv, StreamsInv
<1>2. QED
  BY <1>1, ServicesHold, PTL

\* CreatedIsLogged: a call answered 201 has every reading of its batch on
\* raw.sensor.ingest, whichever attempts put them there, for any number of calls
\* and attempts, whatever the writer gives up and whenever the service dies.
THEOREM CreatedCallsAreLogged == Spec => []CreatedIsLogged
<1>1. ServicesInv => CreatedIsLogged
  BY DEF ServicesInv, LoggedInv, CreatedIsLogged
<1>2. QED
  BY <1>1, ServicesHold, PTL

=============================================================================
