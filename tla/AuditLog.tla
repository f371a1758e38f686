------------------------------- MODULE AuditLog -------------------------------
(***************************************************************************)
(* The audit consumer of the supporting service: user.events is read in    *)
(* order, each event becomes a row of audit_events, and its offset is      *)
(* committed.  Where the alert consumer leaves a message whose record      *)
(* failed uncommitted, this one logs the failure and commits: the event is *)
(* not seen again.  One partition of the topic is modelled.                *)
(***************************************************************************)
EXTENDS Naturals, Sequences, SequencesExt

CONSTANTS
  Garbled,     \* an event whose envelope does not decode
  MaxRestarts  \* bound: how often the consumer starts again

VARIABLES
  topic,      \* Kafka: user.events, written by the producers
  position,   \* Reader: the offset of the last message fetched
  at,         \* Start: "fetch", "record" or "commit"
  committed,  \* Kafka: the offset the group has committed
  audit,      \* Postgres: audit_events, the offset each row stands for
  lost,       \* history: the offsets whose record failed
  restarts

auditVars == <<position, at, committed, audit, lost, restarts>>

Offsets == 1 .. Len(topic)

TypeOK ==
  /\ position \in 0 .. Len(topic) /\ committed \in 0 .. position
  /\ at \in {"fetch", "record", "commit"}
  /\ audit \in Seq(Offsets)
  /\ lost \subseteq Offsets
  /\ restarts \in 0 .. MaxRestarts

Init ==
  /\ position = 0 /\ committed = 0
  /\ at = "fetch"
  /\ audit = <<>>
  /\ lost = {}
  /\ restarts = 0

\* Mutant: the offset is committed as soon as the message is there.
FetchAndCommit ==
  /\ at = "fetch"
  /\ position < Len(topic)
  /\ position' = position + 1 /\ committed' = position + 1
  /\ at' = IF topic[position + 1] = Garbled THEN "commit" ELSE "record"
  /\ UNCHANGED <<topic, audit, lost, restarts>>

\* FetchMessage; an envelope that does not decode is skipped.
Fetch ==
  /\ at = "fetch"
  /\ position < Len(topic)
  /\ position' = position + 1
  /\ at' = IF topic[position + 1] = Garbled THEN "commit" ELSE "record"
  /\ UNCHANGED <<topic, committed, audit, lost, restarts>>

\* Mutant: a record that fails sends the reader back to the committed offset.
RecordStartsOver ==
  /\ at = "record"
  /\ \/ audit' = Append(audit, position) /\ at' = "commit" /\ position' = position
     \/ audit' = audit /\ at' = "fetch" /\ position' = committed
  /\ UNCHANGED <<topic, committed, lost, restarts>>

\* AuditService.Record; its error is logged, and may hide a row.
Record ==
  /\ at = "record"
  /\ \/ audit' = Append(audit, position) /\ lost' = lost
     \/ audit' = audit /\ lost' = lost \cup {position}
  /\ at' = "commit"
  /\ UNCHANGED <<topic, position, committed, restarts>>

\* CommitMessages; its error is logged.
Commit ==
  /\ at = "commit"
  /\ committed' \in {committed, position}
  /\ at' = "fetch"
  /\ UNCHANGED <<topic, position, audit, lost, restarts>>

\* The process stops, or the group hands the partition to another consumer.
Restart ==
  /\ restarts < MaxRestarts
  /\ restarts' = restarts + 1
  /\ position' = committed
  /\ at' = "fetch"
  /\ UNCHANGED <<topic, committed, audit, lost>>

Consume == Fetch \/ Record \/ Commit
Next == Consume \/ Restart

-----------------------------------------------------------------------------
Settled(i) == i \in ToSet(audit) \cup lost \/ topic[i] = Garbled

\* Start records before it commits: what the group has committed is in the
\* audit log, or its record failed, whenever the consumer stopped in between.
CommittedIsAudited == \A i \in 1 .. committed : Settled(i)
=============================================================================
