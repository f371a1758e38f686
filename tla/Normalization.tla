---------------------------- MODULE Normalization ----------------------------
(***************************************************************************)
(* The normalization worker: raw.sensor.ingest to InfluxDB and to          *)
(* normalized.sensor.                                                      *)
(*                                                                         *)
(* Each replica runs one loop: ReadMessage, which in kafka-go commits the  *)
(* message before it returns it, then the write to InfluxDB, then the      *)
(* publication.  Every call may fail, with or without having taken effect, *)
(* a replica may die between any two, and the partition may move.  The     *)
(* topic is keyed by channel: one channel, so one partition, is modelled.  *)
(***************************************************************************)
EXTENDS Integers, Sequences

CONSTANTS
  Replicas,    \* instances of the worker
  Points,      \* InfluxDB points a reading may be written to: tags and timestamp
  MaxRecords,  \* bound on the messages published to raw.sensor.ingest
  MaxMoves,    \* bound on rebalances and restarts
  None

ASSUME BoundsAssumption == MaxRecords \in Nat /\ MaxMoves \in Nat

VARIABLES
  raw,         \* Kafka: raw.sensor.ingest
  committed,   \* Kafka: how many messages the group has committed
  holder,      \* the replica the partition is assigned to
  fetched,     \* kafka.Reader of the holder: how many it has handed out
  hand,        \* the loop of each replica: the message in hand, or None
  stored,      \* InfluxDB: the message whose fields each point holds, 0 for none
  normalized,  \* Kafka: normalized.sensor, the messages published onward
  moves,       \* how often a replica restarted or the partition moved
  rebalanced,  \* history: the partition has moved to a replica while another ran
  lost         \* history: the messages a replica has given up

worker == <<committed, holder, fetched, hand>>
vars == <<raw, worker, stored, normalized, moves, rebalanced, lost>>

Hand == [offset : 1 .. Len(raw), pc : {"commit", "write", "publish"}]

ASSUME NoneAssumption ==
  None \notin Points \cup [offset : Nat, pc : {"commit", "write", "publish"}]

At(i, pc) == hand[i] # None /\ hand[i].pc = pc

PointOf(o) == raw[o]

\* The store after the point of message o was written.
Upserted(o) == [stored EXCEPT ![PointOf(o)] = o]

Drop(i) ==
  /\ hand' = [hand EXCEPT ![i] = None]
  /\ lost' = lost \cup {hand[i].offset}

TypeOK ==
  /\ raw \in Seq(Points \cup {None})
  /\ committed \in 0 .. Len(raw)
  /\ holder \in Replicas
  /\ fetched \in 0 .. Len(raw)
  /\ hand \in [Replicas -> Hand \cup {None}]
  /\ \A i \in Replicas : At(i, "write") \/ At(i, "publish") => raw[hand[i].offset] # None
  /\ stored \in [Points -> 0 .. Len(raw)]
  /\ normalized \in Seq(1 .. Len(raw))
  /\ moves \in Nat /\ rebalanced \in BOOLEAN
  /\ lost \subseteq 1 .. Len(raw)

Init ==
  /\ raw = <<>>
  /\ committed = 0
  /\ holder \in Replicas
  /\ fetched = 0
  /\ hand = [i \in Replicas |-> None]
  /\ stored = [p \in Points |-> 0]
  /\ normalized = <<>>
  /\ moves = 0
  /\ rebalanced = FALSE
  /\ lost = {}

-----------------------------------------------------------------------------
\* A message of Ingest or IngestReplay for point p, whose replay header nobody
\* reads; None is one that does not decode or has no fields.
PublishRaw(p) ==
  /\ Len(raw) < MaxRecords
  /\ raw' = Append(raw, p)
  /\ UNCHANGED <<worker, stored, normalized, moves, rebalanced, lost>>

\* The fetch of ReadMessage.
FetchMessage(i) ==
  /\ holder = i /\ hand[i] = None
  /\ fetched < Len(raw)
  /\ fetched' = fetched + 1
  /\ hand' = [hand EXCEPT ![i] = [offset |-> fetched', pc |-> "commit"]]
  /\ UNCHANGED <<raw, committed, holder, stored, normalized, moves, rebalanced, lost>>

\* The commit of ReadMessage, before anything is done with the message; the
\* group accepts it of a replica that has lost the partition.  What does not
\* decode is dropped by ReadMessage, what has no fields by Process.
CommitMessage(i) ==
  /\ At(i, "commit")
  /\ committed' = hand[i].offset
  /\ IF raw[hand[i].offset] = None THEN Drop(i)
     ELSE hand' = [hand EXCEPT ![i].pc = "write"] /\ UNCHANGED lost
  /\ UNCHANGED <<raw, holder, fetched, stored, normalized, moves, rebalanced>>

\* The commit fails, perhaps after the group has taken it: ReadMessage returns
\* the error in place of the message.
CommitFails(i) ==
  /\ At(i, "commit")
  /\ committed' \in {committed, hand[i].offset}
  /\ Drop(i)
  /\ UNCHANGED <<raw, holder, fetched, stored, normalized, moves, rebalanced>>

\* Writer.Write: a point with the same tags and timestamp is overwritten.
WritePoint(i) ==
  /\ At(i, "write")
  /\ stored' = Upserted(hand[i].offset)
  /\ hand' = [hand EXCEPT ![i].pc = "publish"]
  /\ UNCHANGED <<raw, committed, holder, fetched, normalized, moves, rebalanced, lost>>

\* Mutant: the write error is logged and the event published all the same.
WriteErrorDropped(i) ==
  /\ At(i, "write")
  /\ hand' = [hand EXCEPT ![i].pc = "publish"]
  /\ UNCHANGED <<raw, committed, holder, fetched, stored, normalized, moves, rebalanced, lost>>

\* The write fails, perhaps after InfluxDB has taken the point: Process returns
\* the error, the loop logs it and goes on.
WriteFails(i) ==
  /\ At(i, "write")
  /\ stored' \in {stored, Upserted(hand[i].offset)}
  /\ Drop(i)
  /\ UNCHANGED <<raw, committed, holder, fetched, normalized, moves, rebalanced>>

PublishReading(i) ==
  /\ At(i, "publish")
  /\ normalized' = Append(normalized, hand[i].offset)
  /\ hand' = [hand EXCEPT ![i] = None]
  /\ UNCHANGED <<raw, committed, holder, fetched, stored, moves, rebalanced, lost>>

\* Mutant: a failed publication is tried again.
PublishRetried(i) ==
  /\ At(i, "publish")
  /\ Len(normalized) < 2 * MaxRecords
  /\ normalized' \in {normalized, Append(normalized, hand[i].offset)}
  /\ UNCHANGED <<raw, worker, stored, moves, rebalanced, lost>>

\* The publication fails, perhaps after the broker has taken the event: the
\* error is logged and the loop goes on.
PublishFails(i) ==
  /\ At(i, "publish")
  /\ normalized' \in {normalized, Append(normalized, hand[i].offset)}
  /\ Drop(i)
  /\ UNCHANGED <<raw, committed, holder, fetched, stored, moves, rebalanced>>

-----------------------------------------------------------------------------
Move ==
  /\ moves < MaxMoves
  /\ moves' = moves + 1
  /\ UNCHANGED <<raw, committed, stored, normalized>>

\* Mutant: the new reader starts at the end of the partition.
RebalanceToEnd(i) ==
  /\ Move
  /\ holder' = i
  /\ fetched' = Len(raw)
  /\ rebalanced' = TRUE
  /\ UNCHANGED <<hand, lost>>

\* The partition goes to replica i, which resumes from the committed offset;
\* the replica that held it finishes what it has in hand.
Rebalance(i) ==
  /\ Move
  /\ holder' = i
  /\ fetched' = committed
  /\ rebalanced' = TRUE
  /\ UNCHANGED <<hand, lost>>

\* Replica i dies and comes back; if it held the partition, replica j resumes
\* from the committed offset.
Restart(i, j) ==
  /\ Move
  /\ hand' = [hand EXCEPT ![i] = None]
  /\ lost' = IF hand[i] = None THEN lost ELSE lost \cup {hand[i].offset}
  /\ \/ holder = i /\ holder' = j /\ fetched' = committed /\ rebalanced' = (rebalanced \/ i # j)
     \/ holder # i /\ i = j /\ UNCHANGED <<holder, fetched, rebalanced>>

-----------------------------------------------------------------------------
Process(i) ==
  \/ FetchMessage(i)
  \/ CommitMessage(i) \/ CommitFails(i)
  \/ WritePoint(i) \/ WriteFails(i)
  \/ PublishReading(i) \/ PublishFails(i)

Next ==
  \/ \E p \in Points \cup {None} : PublishRaw(p)
  \/ \E i \in Replicas : Process(i) \/ Rebalance(i)
  \/ \E i, j \in Replicas : Restart(i, j)

\* The loop of every replica keeps running; nobody is obliged to publish.
Fairness == \A i \in Replicas : WF_vars(Process(i))

Spec == Init /\ [][Next]_vars /\ Fairness

-----------------------------------------------------------------------------
(* Properties.                                                             *)

Offsets(s) == {s[k] : k \in 1 .. Len(s)}

Held == {hand[i].offset : i \in {i \in Replicas : hand[i] # None}}

\* ReadMessage commits first, so a message can be lost; but wherever replicas
\* die and the partition moves, only in the ways the loop reports: no message
\* below the committed offset is neither published, given up nor in hand.
CommittedIsAccounted == 1 .. committed \subseteq Offsets(normalized) \cup lost \cup Held

\* NormalizationService.Process writes before it publishes: a consumer of
\* normalized.sensor finds the point in InfluxDB and, while one replica works
\* at a time, finds that reading or a later one there.
NormalizedIsStored ==
  \A o \in Offsets(normalized) :
    /\ stored[PointOf(o)] # 0
    /\ ~rebalanced => stored[PointOf(o)] >= o

\* The key is the channel, the loop is sequential and the commit comes first:
\* unless the partition has moved, readings of a channel reach normalized.sensor
\* once and in order, whatever fails and restarts.
NormalizedInOrder ==
  ~rebalanced =>
    \A k, l \in 1 .. Len(normalized) : k < l => normalized[k] < normalized[l]

\* The loop never stalls: every raw message is in the end published or given up.
RecordsHandled ==
  \A o \in 1 .. MaxRecords : o <= Len(raw) ~> o \in Offsets(normalized) \cup lost

=============================================================================
