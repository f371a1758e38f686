------------------------------ MODULE Ingestion ------------------------------
(***************************************************************************)
(* Publication of readings by the ingestion service.                       *)
(*                                                                         *)
(* A device call brings a batch of readings of its channel.  A live call   *)
(* (JSON, compact, bulk or ThingSpeak) publishes the batch once; a replay  *)
(* call tries up to MaxAttempts times and, when all of them have failed,   *)
(* pushes the readings one by one to a list in Redis.  Calls run           *)
(* concurrently and share the topic raw.sensor.ingest.                     *)
(*                                                                         *)
(* kafka.Writer sends a batch in parts.  A part may be taken although the  *)
(* call that wrote it has had an error, even after that call has gone on.  *)
(***************************************************************************)
EXTENDS Integers, Sequences

CONSTANTS
  Calls,        \* device calls: bounds how many there are
  Points,       \* readings a call may bring: series and timestamp
  MaxAttempts,  \* publications a replay tries; 3 in the code
  None

MaxAttemptsAssumption == MaxAttempts \in Nat \ {0}

VARIABLES
  raw,   \* Kafka: raw.sensor.ingest, with the call each message is from
  sent,  \* kafka.Writer: messages not yet taken or given up
  call,  \* what each device call is at, or None
  dlq    \* Redis: replay_dlq of the channel, with the call of each entry

vars == <<raw, sent, call, dlq>>

Message == [call : Calls, attempt : 1 .. MaxAttempts, point : Points]

\* created is 201, queued 202, unavailable 503; a call is gone when the service
\* died before it was answered.
Answers == {"created", "queued", "unavailable", "gone"}

Call == [kind : {"live", "replay"}, batch : SUBSET Points, attempt : 1 .. MaxAttempts,
         pc : {"publish", "queue"} \cup Answers, todo : SUBSET Points]

NoneAssumption == None \notin Call

At(q, pc) == call[q] # None /\ call[q].pc = pc

Ended(q) == call[q] # None /\ call[q].pc \in Answers

\* The messages of the publication call q is waiting for.
Outstanding(q) == {m \in sent : m.call = q /\ m.attempt = call[q].attempt}

Messages(q, n, batch) == {[call |-> q, attempt |-> n, point |-> p] : p \in batch}

\* The copies of point p that call q has put on the topic.
Copies(q, p) == {k \in 1 .. Len(raw) : raw[k].call = q /\ raw[k].point = p}

TypeOK ==
  /\ raw \in Seq(Message)
  /\ sent \subseteq Message
  /\ call \in [Calls -> Call \cup {None}]
  /\ dlq \subseteq Calls \X Points
  /\ \A q \in Calls : call[q] # None => call[q].todo \subseteq call[q].batch

Init ==
  /\ raw = <<>>
  /\ sent = {}
  /\ call = [q \in Calls |-> None]
  /\ dlq = {}

-----------------------------------------------------------------------------
\* Ingest, IngestBatch and IngestReplay up to the first publication; what they
\* refuse as invalid changes nothing.
Receive(q, kind, batch) ==
  /\ call[q] = None
  /\ call' = [call EXCEPT ![q] = [kind |-> kind, batch |-> batch, attempt |-> 1,
                                  pc |-> "publish", todo |-> {}]]
  /\ sent' = sent \cup Messages(q, 1, batch)
  /\ UNCHANGED <<raw, dlq>>

\* The broker takes a message.
Take(m) ==
  /\ raw' = Append(raw, m)
  /\ sent' = sent \ {m}
  /\ UNCHANGED <<call, dlq>>

\* The writer gives a message up; its publication has failed before.
GiveUp(m) ==
  /\ ~At(m.call, "publish") \/ m.attempt # call[m.call].attempt
  /\ sent' = sent \ {m}
  /\ UNCHANGED <<raw, call, dlq>>

\* PublishReadings or PublishReplayReadings returns without an error.
PublishSucceeds(q) ==
  /\ At(q, "publish")
  /\ Outstanding(q) = {}
  /\ call' = [call EXCEPT ![q].pc = "created"]
  /\ UNCHANGED <<raw, sent, dlq>>

\* Mutant: the error of an earlier attempt is not kept.
PublishFailsForgotten(q) ==
  /\ At(q, "publish")
  /\ call' = [call EXCEPT ![q].pc = "created"]
  /\ UNCHANGED <<raw, sent, dlq>>

\* PublishReadings returns an error: 503.
PublishFails(q) ==
  /\ At(q, "publish")
  /\ call[q].kind = "live"
  /\ call' = [call EXCEPT ![q].pc = "unavailable"]
  /\ UNCHANGED <<raw, sent, dlq>>

\* PublishReplayReadings returns an error and the whole batch is sent again.
Retry(q) ==
  /\ At(q, "publish")
  /\ call[q].kind = "replay"
  /\ call[q].attempt < MaxAttempts
  /\ call' = [call EXCEPT ![q].attempt = @ + 1]
  /\ sent' = sent \cup Messages(q, call[q].attempt + 1, call[q].batch)
  /\ UNCHANGED <<raw, dlq>>

\* The last attempt has failed: the batch goes to the list.
AttemptsExhausted(q) ==
  /\ At(q, "publish")
  /\ call[q].kind = "replay"
  /\ call[q].attempt = MaxAttempts
  /\ call' = [call EXCEPT ![q].pc = "queue", ![q].todo = call[q].batch]
  /\ UNCHANGED <<raw, sent, dlq>>

\* ReplayDLQ.Push of one reading; an error, perhaps after Redis has taken the
\* entry, is logged.
Push(q, p) ==
  /\ At(q, "queue")
  /\ p \in call[q].todo
  /\ dlq' \in {dlq, dlq \cup {<<q, p>>}}
  /\ call' = [call EXCEPT ![q].todo = @ \ {p}]
  /\ UNCHANGED <<raw, sent>>

\* Handler.Replay answers 202.
AnswerQueued(q) ==
  /\ At(q, "queue")
  /\ call[q].todo = {}
  /\ call' = [call EXCEPT ![q].pc = "queued"]
  /\ UNCHANGED <<raw, sent, dlq>>

\* The service dies: its calls and what its writer holds are gone.
Crash ==
  /\ \E q \in Calls : call[q] # None /\ ~Ended(q)
  /\ call' = [q \in Calls |->
                IF call[q] = None \/ Ended(q) THEN call[q] ELSE [call[q] EXCEPT !.pc = "gone"]]
  /\ sent' = {}
  /\ UNCHANGED <<raw, dlq>>

-----------------------------------------------------------------------------
CallStep(q) ==
  \/ PublishSucceeds(q)
  \/ PublishFails(q)
  \/ Retry(q)
  \/ AttemptsExhausted(q)
  \/ \E p \in Points : Push(q, p)
  \/ AnswerQueued(q)

Next ==
  \/ \E q \in Calls, kind \in {"live", "replay"}, batch \in (SUBSET Points) \ {{}} :
       Receive(q, kind, batch)
  \/ \E q \in Calls : CallStep(q)
  \/ \E m \in sent : Take(m) \/ GiveUp(m)
  \/ Crash

Spec == Init /\ [][Next]_vars

-----------------------------------------------------------------------------
(* Properties.                                                             *)

\* RequireAll and the error of WriteMessages: a call answered 201 has every
\* reading of its batch on the topic, whichever of its attempts put them there.
CreatedIsLogged ==
  \A q \in Calls : At(q, "created") => \A p \in call[q].batch : Copies(q, p) # {}

-----------------------------------------------------------------------------
(* What a comment promises and the code does not keep.                     *)

\* Handler.Replay: "readings were saved there — return 202 Accepted".  Push may
\* have failed for any of them.
QueuedIsSaved ==
  \A q \in Calls : At(q, "queued") => \A p \in call[q].batch : <<q, p>> \in dlq
=============================================================================
