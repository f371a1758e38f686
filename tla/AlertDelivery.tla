---------------------------- MODULE AlertDelivery ----------------------------
(***************************************************************************)
(* From an alert event to a settled notification.                          *)
(*                                                                         *)
(* One goroutine (AlertConsumer.Start) fetches alert.events, saves a       *)
(* notification row for each event and commits the event; a goroutine per  *)
(* notification sends it and writes the outcome to the row, while the API  *)
(* creates notifications of its own and marks rows as read.  Postgres,     *)
(* Kafka and SMTP calls may fail, with or without having taken effect, and *)
(* the process may die and come back at any moment.                        *)
(*                                                                         *)
(* One partition of the topic is modelled: commits of different partitions *)
(* do not interact, and LeastBytes promises no order between them.         *)
(***************************************************************************)
EXTENDS Integers, Sequences

CONSTANTS
  Notifications,  \* ids uuid.New can return: bounds the rows
  MaxEvents,      \* bound on the alert events published
  MaxRestarts,    \* bound on the restarts of the service
  None

VARIABLES
  topic,      \* Kafka: alert.events, what each message holds
  committed,  \* Kafka: how many messages the group has committed
  fetched,    \* kafka.Reader: how many messages it has handed out
  handling,   \* AlertConsumer.Start: the message in hand, or None
  notes,      \* Postgres: notifications
  job,        \* dispatch: what the goroutine of each notification is at
  restarts,   \* how often the service was restarted
  skipped,    \* history: the messages left uncommitted "to allow retry"
  abandoned   \* history: the notifications whose save or update reported an error

consumer == <<committed, fetched, handling>>
vars == <<topic, consumer, notes, job, restarts, skipped, abandoned>>

ASSUME BoundsAssumption == MaxEvents \in Nat /\ MaxRestarts \in Nat

\* A row of notifications.  source is the message it was made from, 0 when it
\* came through the API; run tells in which life of the service it was saved.
Note == [source : Nat, run : Nat, status : {"pending", "sent", "failed"},
         read : BOOLEAN]

ASSUME NoneAssumption ==
  None \notin Note \cup [offset : Nat, pc : {"save", "commit"}]

Unused(n) == notes[n] = None

NewNote(source) ==
  [source |-> source, run |-> restarts, status |-> "pending", read |-> FALSE]

Holding(pc) == handling # None /\ handling.pc = pc

\* Some notification was saved for the message at offset o.
Notified(o) == \E n \in Notifications : notes[n] # None /\ notes[n].source = o

TypeOK ==
  /\ topic \in Seq({"alert", "garbled"})
  /\ committed \in 0 .. Len(topic)
  /\ fetched \in committed .. Len(topic)
  /\ handling \in [offset : 1 .. fetched, pc : {"save", "commit"}] \cup {None}
  /\ notes \in [Notifications -> Note \cup {None}]
  /\ job \in [Notifications -> {"none", "send", "succeeded", "failed"}]
  /\ restarts \in Nat
  /\ skipped \in SUBSET (1 .. Len(topic))
  /\ abandoned \in SUBSET Notifications

Init ==
  /\ topic = <<>>
  /\ committed = 0
  /\ fetched = 0
  /\ handling = None
  /\ notes = [n \in Notifications |-> None]
  /\ job = [n \in Notifications |-> "none"]
  /\ restarts = 0
  /\ skipped = {}
  /\ abandoned = {}

-----------------------------------------------------------------------------
(* AlertProducer.PublishAlert appends an event; anything else on the topic *)
(* does not decode.                                                        *)

PublishAlert(kind) ==
  /\ Len(topic) < MaxEvents
  /\ topic' = Append(topic, kind)
  /\ UNCHANGED <<consumer, notes, job, restarts, skipped, abandoned>>

-----------------------------------------------------------------------------
(* AlertConsumer.Start.                                                    *)

\* Mutant: kafka-go's ReadMessage, which commits before it returns.
ReadMessage ==
  /\ handling = None
  /\ fetched < Len(topic)
  /\ fetched' = fetched + 1
  /\ committed' = fetched'
  /\ handling' = [offset |-> fetched', pc |-> "save"]
  /\ UNCHANGED <<topic, notes, job, restarts, skipped, abandoned>>

\* Mutant: a message that does not decode is fetched again and again.
FetchUndecoded ==
  /\ handling = None
  /\ fetched < Len(topic)
  /\ topic[fetched + 1] = "alert"
  /\ fetched' = fetched + 1
  /\ handling' = [offset |-> fetched', pc |-> "save"]
  /\ UNCHANGED <<topic, committed, notes, job, restarts, skipped, abandoned>>

\* Mutant: the dispatch of an alert is left to a sweep, which there is not.
SendLater(n) ==
  /\ Holding("save")
  /\ Unused(n)
  /\ notes' = [notes EXCEPT ![n] = NewNote(handling.offset)]
  /\ handling' = [handling EXCEPT !.pc = "commit"]
  /\ UNCHANGED <<topic, committed, fetched, job, restarts, skipped, abandoned>>

\* FetchMessage; a message that does not decode goes straight to its commit.
FetchMessage ==
  /\ handling = None
  /\ fetched < Len(topic)
  /\ fetched' = fetched + 1
  /\ handling' = [offset |-> fetched',
                  pc |-> IF topic[fetched'] = "alert" THEN "save" ELSE "commit"]
  /\ UNCHANGED <<topic, committed, notes, job, restarts, skipped, abandoned>>

\* SendAlertNotification: the row is saved and its dispatch started.
SendAlertNotification(n) ==
  /\ Holding("save")
  /\ Unused(n)
  /\ notes' = [notes EXCEPT ![n] = NewNote(handling.offset)]
  /\ job' = [job EXCEPT ![n] = "send"]
  /\ handling' = [handling EXCEPT !.pc = "commit"]
  /\ UNCHANGED <<topic, committed, fetched, restarts, skipped, abandoned>>

\* Mutant: a failed save is tried again at once.
SaveRetried ==
  /\ Holding("save")
  /\ \E n \in Notifications :
       Unused(n) /\ notes' = [notes EXCEPT ![n] = NewNote(handling.offset)]
  /\ UNCHANGED <<topic, consumer, job, restarts, skipped, abandoned>>

\* Postgres has taken the row, and the caller is told that it has not.
SavedUnseen(n, source) ==
  /\ Unused(n)
  /\ notes' = [notes EXCEPT ![n] = NewNote(source)]
  /\ abandoned' = abandoned \cup {n}

\* Save fails, perhaps after Postgres has taken the row: nothing is dispatched
\* and the loop goes on to the next message without a commit.
SaveFails ==
  /\ Holding("save")
  /\ \/ notes' = notes /\ abandoned' = abandoned
     \/ \E n \in Notifications : SavedUnseen(n, handling.offset)
  /\ skipped' = skipped \cup {handling.offset}
  /\ handling' = None
  /\ UNCHANGED <<topic, committed, fetched, job, restarts>>

\* CommitMessages sets the group's offset past this message, and so past every
\* earlier one.
CommitMessages ==
  /\ Holding("commit")
  /\ committed' = handling.offset
  /\ handling' = None
  /\ UNCHANGED <<topic, fetched, notes, job, restarts, skipped, abandoned>>

\* The commit fails, which is logged; the reader moves on.
CommitFails ==
  /\ Holding("commit")
  /\ handling' = None
  /\ UNCHANGED <<topic, committed, fetched, notes, job, restarts, skipped, abandoned>>

-----------------------------------------------------------------------------
(* NotificationService: the API, and dispatch in its goroutine.            *)

\* Send: POST /notifications saves a row and starts its dispatch.
Send(n) ==
  /\ Unused(n)
  /\ notes' = [notes EXCEPT ![n] = NewNote(0)]
  /\ job' = [job EXCEPT ![n] = "send"]
  /\ UNCHANGED <<topic, consumer, restarts, skipped, abandoned>>

\* The save fails after the row was taken: there is no dispatch.
SendFails(n) ==
  /\ SavedUnseen(n, 0)
  /\ UNCHANGED <<topic, consumer, job, restarts, skipped>>

\* Dispatcher.Dispatch returns without an error.
DispatchSucceeds(n) ==
  /\ job[n] = "send"
  /\ job' = [job EXCEPT ![n] = "succeeded"]
  /\ UNCHANGED <<topic, consumer, notes, restarts, skipped, abandoned>>

\* It returns an error, perhaps after the message was taken.
DispatchFails(n) ==
  /\ job[n] = "send"
  /\ job' = [job EXCEPT ![n] = "failed"]
  /\ UNCHANGED <<topic, consumer, notes, restarts, skipped, abandoned>>

\* The status dispatch gives its own copy of the notification.
Outcome(n) == IF job[n] = "succeeded" THEN "sent" ELSE "failed"

\* Mutant: the whole copy is written back, as it was before anyone read it.
UpdateWholeRow(n) ==
  /\ job[n] \in {"succeeded", "failed"}
  /\ notes' = [notes EXCEPT ![n].status = Outcome(n), ![n].read = FALSE]
  /\ job' = [job EXCEPT ![n] = "none"]
  /\ UNCHANGED <<topic, consumer, restarts, skipped, abandoned>>

\* NotificationRepo.Update writes status, retries, sent_at and error_msg only.
UpdateNotification(n) ==
  /\ job[n] \in {"succeeded", "failed"}
  /\ notes' = [notes EXCEPT ![n].status = Outcome(n)]
  /\ job' = [job EXCEPT ![n] = "none"]
  /\ UNCHANGED <<topic, consumer, restarts, skipped, abandoned>>

\* The update fails, which is logged: the row keeps its status.
UpdateFails(n) ==
  /\ job[n] \in {"succeeded", "failed"}
  /\ job' = [job EXCEPT ![n] = "none"]
  /\ abandoned' = abandoned \cup {n}
  /\ UNCHANGED <<topic, consumer, notes, restarts, skipped>>

\* NotificationRepo.MarkRead and MarkAllRead: one row, or all of them.
MarkRead(ns) ==
  /\ ns # {}
  /\ notes' = [n \in Notifications |->
                 IF n \in ns THEN [notes[n] EXCEPT !.read = TRUE] ELSE notes[n]]
  /\ UNCHANGED <<topic, consumer, job, restarts, skipped, abandoned>>

\* The process dies: its goroutines are gone, its dispatches with them, and
\* the new reader starts from the committed offset.
Restart ==
  /\ restarts < MaxRestarts
  /\ restarts' = restarts + 1
  /\ fetched' = committed
  /\ handling' = None
  /\ job' = [n \in Notifications |-> "none"]
  /\ UNCHANGED <<topic, committed, notes, skipped, abandoned>>

-----------------------------------------------------------------------------
Saved == {n \in Notifications : notes[n] # None}

ConsumerStep ==
  \/ FetchMessage
  \/ \E n \in Notifications : SendAlertNotification(n)
  \/ SaveFails
  \/ CommitMessages
  \/ CommitFails

Dispatch(n) ==
  DispatchSucceeds(n) \/ DispatchFails(n) \/ UpdateNotification(n) \/ UpdateFails(n)

Next ==
  \/ \E kind \in {"alert", "garbled"} : PublishAlert(kind)
  \/ ConsumerStep
  \/ \E n \in Notifications : Send(n) \/ SendFails(n) \/ Dispatch(n)
  \/ \E ns \in {{n} : n \in Saved} \cup {Saved} : MarkRead(ns)
  \/ Restart

\* The consumer loop and the dispatch goroutines keep running (their calls
\* have deadlines); nobody is obliged to publish, send, read or restart.
Fairness ==
  /\ WF_vars(ConsumerStep)
  /\ \A n \in Notifications : WF_vars(Dispatch(n))

Spec == Init /\ [][Next]_vars /\ Fairness

-----------------------------------------------------------------------------
(* Properties.                                                             *)

\* AlertConsumer.Start commits after saving: whatever fails or dies in
\* between, an alert below the committed offset has its notification, unless
\* its save was the one that failed.
CommittedIsNotified ==
  \A o \in 1 .. committed : topic[o] = "alert" => Notified(o) \/ o \in skipped

\* Delivery is at least once, and a second notification for an event needs a
\* restart between the two: within one life of the service no event is saved
\* twice, failed saves and failed commits included.
OncePerRun ==
  \A m, n \in Notifications :
    /\ notes[m] # None /\ notes[n] # None
    /\ notes[m].source # 0
    /\ notes[m].source = notes[n].source /\ notes[m].run = notes[n].run
    => m = n

\* MarkRead races dispatch on the same row: the status update, made from a copy
\* read before, never takes the read mark away.
ReadStaysRead ==
  [][\A n \in Notifications :
       notes[n] # None /\ notes[n].read => notes'[n] # None /\ notes'[n].read]_vars

\* AlertConsumer.Start never stalls, on a garbled message or a failing store:
\* every alert published is in the end notified or given up.
AlertsHandled ==
  \A o \in 1 .. MaxEvents :
    (o <= Len(topic) /\ topic[o] = "alert") ~> (Notified(o) \/ o \in skipped)

\* SendAlertNotification and Send leave the dispatch to a goroutine: whether it
\* succeeds or not, the row does not stay pending, unless its save or its update
\* reported an error or the service was restarted since, which nothing repairs.
NotificationsSettle ==
  \A n \in Notifications :
    notes[n] # None ~> \/ notes[n] # None /\ notes[n].status # "pending"
                       \/ n \in abandoned
                       \/ notes[n] # None /\ notes[n].run < restarts

-----------------------------------------------------------------------------
(* What a comment promises and the code does not keep.                     *)

\* alert_consumer.go: "skipping commit to allow retry".  The message is fetched
\* again only by a restart, and the next message's commit covers it.
SkippedWillBeRetried ==
  \A o \in skipped : topic[o] = "alert" => Notified(o) \/ o > committed
=============================================================================
