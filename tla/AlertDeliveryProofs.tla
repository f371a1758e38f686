------------------------- MODULE AlertDeliveryProofs -------------------------
(***************************************************************************)
(* Proofs about AlertDelivery, for any numbers of notifications, events    *)
(* and restarts.                                                           *)
(***************************************************************************)
EXTENDS AlertDelivery, TLAPS

LEMMA NoteMade ==
  ASSUME NEW source \in Nat, restarts \in Nat
  PROVE  NewNote(source) \in Note
BY DEF NewNote, Note

\* What is written to a row that is there.
LEMMA NoteChanged ==
  ASSUME NEW x \in Note, NEW s \in {"pending", "sent", "failed"}
  PROVE  /\ [x EXCEPT !.status = s] \in Note /\ [x EXCEPT !.status = s].read = x.read
         /\ [x EXCEPT !.read = TRUE] \in Note /\ [x EXCEPT !.read = TRUE].read = TRUE
         /\ [x EXCEPT !.status = s].source = x.source /\ [x EXCEPT !.status = s].run = x.run
         /\ [x EXCEPT !.read = TRUE].source = x.source /\ [x EXCEPT !.read = TRUE].run = x.run
BY DEF Note

LEMMA NoteIsSome == \A x \in Note : x # None
BY NoneAssumption DEF NoneAssumption

LEMMA HandlingTyped ==
  ASSUME TypeOK, NEW pc, Holding(pc)
  PROVE  /\ handling \in [offset : 1 .. fetched, pc : {"save", "commit"}]
         /\ handling.pc = pc /\ handling.offset \in 1 .. fetched
BY DEF TypeOK, Holding

\* TypeOK is inductive, but needs that a goroutine which has an outcome to write
\* has a row to write it to.
TypeInv == TypeOK /\ \A n \in Notifications : job[n] # "none" => notes[n] # None

LEMMA TypeInit == Init => TypeInv
BY BoundsAssumption DEF Init, TypeOK, TypeInv, BoundsAssumption

\* A step that gives rows to unused ids, or rewrites rows that are there.
LEMMA NotesStep ==
  ASSUME TypeInv, NEW n \in Notifications, NEW x \in Note, notes' = [notes EXCEPT ![n] = x],
         job' \in [Notifications -> {"none", "send", "succeeded", "failed"}],
         \A k \in Notifications \ {n} : job'[k] = job[k]
  PROVE  /\ notes' \in [Notifications -> Note \cup {None}]
         /\ \A k \in Notifications : job'[k] # "none" => notes'[k] # None
BY NoteIsSome DEF TypeInv, TypeOK

LEMMA TypeStep == TypeInv /\ [Next]_vars => TypeInv'
<1> SUFFICES ASSUME TypeInv, [Next]_vars PROVE TypeInv'
  OBVIOUS
<1> USE DEF consumer
<1>1. TypeOK
  BY DEF TypeInv
<1>2. ASSUME NEW kind \in {"alert", "garbled"}, PublishAlert(kind)
      PROVE  TypeInv'
  BY <1>2 DEF PublishAlert, TypeInv, TypeOK
<1>3. CASE FetchMessage
  BY <1>3, NoneAssumption DEF FetchMessage, TypeInv, TypeOK, NoneAssumption
<1>4. ASSUME NEW n \in Notifications, SendAlertNotification(n)
      PROVE  TypeInv'
  <2>1. handling \in [offset : 1 .. fetched, pc : {"save", "commit"}] /\ handling.offset \in 1 .. fetched
    BY <1>1, <1>4, HandlingTyped DEF SendAlertNotification
  <2>2. NewNote(handling.offset) \in Note
    BY <1>1, <2>1, NoteMade DEF TypeOK
  <2>3. /\ notes' \in [Notifications -> Note \cup {None}]
        /\ \A k \in Notifications : job'[k] # "none" => notes'[k] # None
    BY <1>1, <1>4, <2>2, NotesStep DEF SendAlertNotification, TypeOK
  <2>4. handling' \in [offset : 1 .. fetched, pc : {"save", "commit"}]
    BY <1>4, <2>1 DEF SendAlertNotification
  <2>5. QED
    BY <1>1, <1>4, <2>3, <2>4 DEF SendAlertNotification, TypeInv, TypeOK
<1>5. CASE SaveFails
  <2>1. handling.offset \in 1 .. fetched /\ handling.offset \in Nat
    BY <1>1, <1>5, HandlingTyped DEF SaveFails, TypeOK
  <2>2. /\ notes' \in [Notifications -> Note \cup {None}] /\ abandoned' \in SUBSET Notifications
        /\ \A k \in Notifications : job[k] # "none" => notes'[k] # None
    <3>1. ASSUME NEW n \in Notifications, SavedUnseen(n, handling.offset)
          PROVE  /\ notes' \in [Notifications -> Note \cup {None}] /\ abandoned' \in SUBSET Notifications
                 /\ \A k \in Notifications : job[k] # "none" => notes'[k] # None
      <4>1. NewNote(handling.offset) \in Note
        BY <1>1, <2>1, NoteMade DEF TypeOK
      <4>2. QED
        BY <1>1, <1>5, <3>1, <4>1, NotesStep DEF SavedUnseen, SaveFails, TypeOK
    <3>2. QED
      BY <1>1, <1>5, <3>1 DEF SaveFails, TypeInv, TypeOK
  <2>3. /\ topic' = topic /\ committed' = committed /\ fetched' = fetched /\ job' = job
        /\ restarts' = restarts /\ handling' = None /\ skipped' = skipped \cup {handling.offset}
    BY <1>5 DEF SaveFails
  <2>4. handling.offset \in 1 .. Len(topic)
    BY <1>1, <2>1 DEF TypeOK
  <2>5. QED
    BY <1>1, <2>2, <2>3, <2>4 DEF TypeInv, TypeOK
<1>6. CASE CommitMessages
  <2>1. handling.offset \in 1 .. fetched
    BY <1>1, <1>6, HandlingTyped DEF CommitMessages
  <2>2. QED
    BY <1>1, <1>6, <2>1 DEF CommitMessages, TypeInv, TypeOK
<1>7. CASE CommitFails
  BY <1>7 DEF CommitFails, TypeInv, TypeOK
<1>8. ASSUME NEW n \in Notifications, Send(n)
      PROVE  TypeInv'
  <2>1. NewNote(0) \in Note
    BY <1>1, NoteMade DEF TypeOK
  <2>2. /\ notes' \in [Notifications -> Note \cup {None}]
        /\ \A k \in Notifications : job'[k] # "none" => notes'[k] # None
    BY <1>1, <1>8, <2>1, NotesStep DEF Send, TypeOK
  <2>3. QED
    BY <1>1, <1>8, <2>2 DEF Send, TypeInv, TypeOK
<1>9. ASSUME NEW n \in Notifications, SendFails(n)
      PROVE  TypeInv'
  <2>1. NewNote(0) \in Note
    BY <1>1, NoteMade DEF TypeOK
  <2>2. /\ notes' \in [Notifications -> Note \cup {None}]
        /\ \A k \in Notifications : job'[k] # "none" => notes'[k] # None
    BY <1>1, <1>9, <2>1, NotesStep DEF SendFails, SavedUnseen, TypeOK
  <2>3. QED
    BY <1>1, <1>9, <2>2 DEF SendFails, SavedUnseen, TypeInv, TypeOK
<1>10. ASSUME NEW n \in Notifications, DispatchSucceeds(n) \/ DispatchFails(n) \/ UpdateFails(n)
       PROVE  TypeInv'
  BY <1>10 DEF DispatchSucceeds, DispatchFails, UpdateFails, TypeInv, TypeOK
<1>11. ASSUME NEW n \in Notifications, UpdateNotification(n)
       PROVE  TypeInv'
  <2>1. notes[n] \in Note /\ Outcome(n) \in {"pending", "sent", "failed"}
    BY <1>11 DEF UpdateNotification, Outcome, TypeInv, TypeOK
  <2> DEFINE x == [notes[n] EXCEPT !.status = Outcome(n)]
  <2>2. x \in Note /\ notes' = [notes EXCEPT ![n] = x]
    BY <1>11, <2>1, NoteChanged DEF UpdateNotification
  <2> HIDE DEF x
  <2>3. /\ notes' \in [Notifications -> Note \cup {None}]
        /\ \A k \in Notifications : job'[k] # "none" => notes'[k] # None
    BY <1>1, <1>11, <2>2, NotesStep DEF UpdateNotification, TypeOK
  <2>4. QED
    BY <1>1, <1>11, <2>3 DEF UpdateNotification, TypeInv, TypeOK
<1>12. ASSUME NEW ns \in SUBSET Saved, MarkRead(ns)
       PROVE  TypeInv'
  <2>1. \A n \in ns : notes[n] \in Note
    BY <1>1 DEF Saved, TypeOK
  <2>2. \A n \in ns : [notes[n] EXCEPT !.read = TRUE] \in Note
    BY <2>1, NoteChanged
  <2>3. /\ notes' \in [Notifications -> Note \cup {None}]
        /\ \A n \in Notifications : notes[n] # None => notes'[n] # None
    BY <1>1, <1>12, <2>2, NoteIsSome DEF MarkRead, TypeOK
  <2>4. QED
    BY <1>1, <1>12, <2>3 DEF MarkRead, TypeInv, TypeOK
<1>13. CASE Restart
  BY <1>13 DEF Restart, TypeInv, TypeOK
<1>14. CASE UNCHANGED vars
  BY <1>14 DEF vars, TypeInv, TypeOK
<1>15. QED
  BY <1>2, <1>3, <1>4, <1>5, <1>6, <1>7, <1>8, <1>9, <1>10, <1>11, <1>12, <1>13, <1>14
     DEF Next, ConsumerStep, Dispatch, Saved

\* Every variable keeps its shape: what is committed has been fetched, what is
\* in hand has been fetched, and every row is a whole row.
THEOREM TypeCorrect == Spec => []TypeOK
<1>1. TypeInv => TypeOK
  BY DEF TypeInv
<1>2. QED
  BY <1>1, TypeInit, TypeStep, PTL DEF Spec

-----------------------------------------------------------------------------
(* Rows, once saved, stay, and keep where they come from.                  *)

Kept(n) ==
  notes[n] # None =>
    /\ notes'[n] # None
    /\ notes'[n].source = notes[n].source /\ notes'[n].run = notes[n].run
    /\ notes[n].read => notes'[n].read

\* The row of an unused id takes nothing from the others.
LEMMA OthersKept ==
  ASSUME TypeOK, NEW n \in Notifications, Unused(n), NEW x,
         notes' = [notes EXCEPT ![n] = x]
  PROVE  \A k \in Notifications : Kept(k)
BY DEF TypeOK, Unused, Kept

LEMMA RowsStay ==
  ASSUME TypeInv, [Next]_vars
  PROVE  \A k \in Notifications : Kept(k)
<1> USE DEF consumer
<1>1. TypeOK
  BY DEF TypeInv
<1>2. CASE notes' = notes
  BY <1>2 DEF Kept
<1>3. ASSUME NEW n \in Notifications, SendAlertNotification(n) \/ Send(n) \/ SendFails(n)
      PROVE  \A k \in Notifications : Kept(k)
  BY <1>1, <1>3, OthersKept DEF SendAlertNotification, Send, SendFails, SavedUnseen
<1>4. CASE SaveFails
  BY <1>1, <1>2, <1>4, OthersKept DEF SaveFails, SavedUnseen
<1>5. ASSUME NEW n \in Notifications, UpdateNotification(n)
      PROVE  \A k \in Notifications : Kept(k)
  <2>1. notes[n] \in Note /\ Outcome(n) \in {"pending", "sent", "failed"}
    BY <1>5 DEF UpdateNotification, Outcome, TypeInv, TypeOK
  <2> DEFINE x == [notes[n] EXCEPT !.status = Outcome(n)]
  <2>2. /\ x \in Note /\ x.source = notes[n].source /\ x.run = notes[n].run
        /\ x.read = notes[n].read /\ notes' = [notes EXCEPT ![n] = x]
    BY <1>5, <2>1, NoteChanged DEF UpdateNotification
  <2> HIDE DEF x
  <2>3. QED
    BY <1>1, <2>2, NoteIsSome DEF Kept, TypeOK
<1>6. ASSUME NEW ns \in SUBSET Saved, MarkRead(ns)
      PROVE  \A k \in Notifications : Kept(k)
  <2>1. ASSUME NEW k \in Notifications, notes[k] # None
        PROVE  Kept(k)
    <3>1. notes[k] \in Note
      BY <1>1, <2>1 DEF TypeOK
    <3> DEFINE x == [notes[k] EXCEPT !.read = TRUE]
    <3>2. x \in Note /\ x.source = notes[k].source /\ x.run = notes[k].run /\ x.read = TRUE
      BY <3>1, NoteChanged
    <3>3. notes'[k] = x \/ notes'[k] = notes[k]
      BY <1>6 DEF MarkRead
    <3> HIDE DEF x
    <3>4. QED
      BY <2>1, <3>2, <3>3, NoteIsSome DEF Kept
  <2>2. QED
    BY <2>1 DEF Kept
<1>7. QED
  BY <1>2, <1>3, <1>4, <1>5, <1>6
     DEF Next, ConsumerStep, Dispatch, Saved, PublishAlert, FetchMessage, CommitMessages,
         CommitFails, DispatchSucceeds, DispatchFails, UpdateFails, Restart, vars

\* ReadStaysRead, of MarkRead and dispatch on one row, for any number of rows.
THEOREM ReadMarksStay == Spec => ReadStaysRead
<1>1. TypeInv /\ [Next]_vars =>
        [\A n \in Notifications :
           notes[n] # None /\ notes[n].read => notes'[n] # None /\ notes'[n].read]_vars
  BY RowsStay DEF Kept
<1>2. QED
  BY <1>1, TypeInit, TypeStep, PTL DEF Spec, ReadStaysRead

-----------------------------------------------------------------------------
(* What was fetched is notified, left to a retry, or in hand.              *)

Handled(o) == Notified(o) \/ o \in skipped

HandledInv ==
  /\ TypeInv
  /\ \A o \in 1 .. fetched :
       topic[o] = "alert" => Handled(o) \/ (Holding("save") /\ handling.offset = o)
  /\ Holding("save") => committed < handling.offset

LEMMA HandledStays ==
  ASSUME TypeInv, [Next]_vars, NEW o, Handled(o)
  PROVE  Handled(o)'
<1>1. CASE Notified(o)
  BY <1>1, RowsStay DEF Notified, Handled, Kept
<1>2. skipped \subseteq skipped'
  BY DEF Next, ConsumerStep, Dispatch, PublishAlert, FetchMessage, SendAlertNotification,
         SaveFails, CommitMessages, CommitFails, Send, SendFails, DispatchSucceeds,
         DispatchFails, UpdateNotification, UpdateFails, MarkRead, Restart, vars
<1>3. QED
  BY <1>1, <1>2 DEF Handled

\* A step that leaves the consumer where it is.
LEMMA ConsumerRests ==
  ASSUME HandledInv, [Next]_vars, UNCHANGED consumer,
         topic' = topic \/ \E kind \in {"alert", "garbled"} : topic' = Append(topic, kind)
  PROVE  /\ \A o \in 1 .. fetched' :
              topic'[o] = "alert" => Handled(o)' \/ (Holding("save")' /\ handling'.offset = o)
         /\ Holding("save")' => committed' < handling'.offset
<1>1. TypeInv /\ fetched \in 0 .. Len(topic) /\ topic \in Seq({"alert", "garbled"})
  BY DEF HandledInv, TypeInv, TypeOK
<1>2. \A o \in 1 .. fetched : topic'[o] = topic[o]
  BY <1>1
<1>3. QED
  BY <1>1, <1>2, HandledStays DEF HandledInv, consumer, Holding

LEMMA HandledStep == HandledInv /\ [Next]_vars => HandledInv'
<1> SUFFICES ASSUME HandledInv, [Next]_vars PROVE HandledInv'
  OBVIOUS
<1>1. TypeInv /\ TypeInv' /\ TypeOK
  BY TypeStep DEF HandledInv, TypeInv
<1>2. committed \in Nat /\ fetched \in Nat /\ committed <= fetched
  BY <1>1 DEF TypeOK
<1>3. \A o \in 1 .. fetched :
        topic[o] = "alert" => Handled(o)' \/ (Holding("save") /\ handling.offset = o)
  BY <1>1, HandledStays DEF HandledInv
<1>4. CASE FetchMessage
  <2>1. /\ fetched' = fetched + 1 /\ topic' = topic /\ committed' = committed
        /\ handling = None /\ handling' # None /\ handling'.offset = fetched'
        /\ handling'.pc = IF topic[fetched'] = "alert" THEN "save" ELSE "commit"
    BY <1>4, NoneAssumption, <1>2, <1>1 DEF FetchMessage, NoneAssumption, TypeOK
  <2>2. ASSUME NEW o \in 1 .. fetched', topic'[o] = "alert"
        PROVE  Handled(o)' \/ (Holding("save")' /\ handling'.offset = o)
    <3>1. CASE o = fetched'
      BY <2>1, <2>2, <3>1 DEF Holding
    <3>2. CASE o \in 1 .. fetched
      BY <1>3, <2>1, <2>2, <3>2 DEF Holding
    <3>3. QED
      BY <1>2, <2>1, <3>1, <3>2
  <2>3. QED
    BY <1>1, <1>2, <2>1, <2>2 DEF HandledInv
<1>5. ASSUME NEW n \in Notifications, SendAlertNotification(n)
      PROVE  HandledInv'
  <2>1. /\ topic' = topic /\ fetched' = fetched /\ ~Holding("save")'
        /\ handling.offset \in 1 .. fetched
    BY <1>1, <1>5, HandlingTyped DEF SendAlertNotification, Holding
  <2> PICK o \in 1 .. fetched : o = handling.offset
    BY <2>1
  <2>2. Handled(o)'
    <3>1. NewNote(handling.offset) \in Note /\ NewNote(handling.offset).source = handling.offset
      BY <1>1, <1>2, <2>1, NoteMade DEF NewNote, TypeOK
    <3>2. notes'[n] # None /\ notes'[n].source = o
      BY <1>1, <1>5, <3>1, NoteIsSome DEF SendAlertNotification, TypeOK
    <3>3. QED
      BY <3>2 DEF Handled, Notified
  <2>3. QED
    BY <1>1, <1>3, <2>1, <2>2 DEF HandledInv
<1>6. CASE SaveFails
  <2> PICK o : o = handling.offset
    OBVIOUS
  <2>1. topic' = topic /\ fetched' = fetched /\ ~Holding("save")' /\ Handled(o)'
    BY <1>6 DEF SaveFails, Holding, Handled
  <2>2. QED
    BY <1>1, <1>3, <2>1 DEF HandledInv
<1>7. CASE CommitMessages \/ CommitFails
  <2>1. topic' = topic /\ fetched' = fetched /\ ~Holding("save") /\ ~Holding("save")'
    BY <1>7 DEF CommitMessages, CommitFails, Holding
  <2>2. QED
    BY <1>1, <1>3, <2>1 DEF HandledInv
<1>8. CASE Restart
  <2>1. topic' = topic /\ fetched' = committed /\ ~Holding("save")'
    BY <1>8 DEF Restart, Holding
  <2>2. ASSUME NEW o \in 1 .. committed, topic[o] = "alert"
        PROVE  Handled(o)'
    <3>1. o \in 1 .. fetched /\ o <= committed /\ o \in Int
      BY <1>2
    <3>2. CASE Holding("save") /\ handling.offset = o
      BY <1>2, <3>1, <3>2 DEF HandledInv
    <3>3. QED
      BY <1>3, <2>2, <3>1, <3>2
  <2>3. QED
    BY <1>1, <2>1, <2>2 DEF HandledInv
<1>9. CASE UNCHANGED consumer /\
           (topic' = topic \/ \E kind \in {"alert", "garbled"} : topic' = Append(topic, kind))
  BY <1>1, <1>9, ConsumerRests DEF HandledInv
<1>10. QED
  BY <1>4, <1>5, <1>6, <1>7, <1>8, <1>9
     DEF Next, ConsumerStep, Dispatch, PublishAlert, Send, SendFails, DispatchSucceeds,
         DispatchFails, UpdateNotification, UpdateFails, MarkRead, vars, consumer

\* CommittedIsNotified, of AlertConsumer.Start, for any number of events, failed
\* calls and restarts.
THEOREM CommittedAlertsAreNotified == Spec => []CommittedIsNotified
<1>1. Init => HandledInv
  BY TypeInit DEF Init, HandledInv, Holding
<1>2. HandledInv => CommittedIsNotified
  <2> SUFFICES ASSUME HandledInv, NEW o \in 1 .. committed, topic[o] = "alert"
               PROVE  Notified(o) \/ o \in skipped
    BY DEF CommittedIsNotified
  <2>1. committed \in Nat /\ fetched \in Nat /\ committed <= fetched
    BY DEF HandledInv, TypeInv, TypeOK
  <2>2. o \in 1 .. fetched /\ o <= committed /\ o \in Int
    BY <2>1
  <2>3. ~(Holding("save") /\ handling.offset = o)
    BY <2>1, <2>2 DEF HandledInv
  <2>4. QED
    BY <2>2, <2>3 DEF HandledInv, Handled
<1>3. QED
  BY <1>1, <1>2, HandledStep, PTL DEF Spec

-----------------------------------------------------------------------------
(* One notification for an event in one life of the service.               *)

\* A row of this life was made from a message that has been handed out, and not
\* from the one that is still to be saved.
Earlier(n) ==
  notes[n] # None /\ notes[n].source # 0 =>
    /\ notes[n].run <= restarts
    /\ notes[n].run = restarts => /\ notes[n].source <= fetched
                                  /\ Holding("save") => notes[n].source # handling.offset

OnceInv ==
  /\ TypeInv
  /\ handling # None => handling.offset = fetched
  /\ \A n \in Notifications : Earlier(n)
  /\ OncePerRun

\* A new row for the message in hand, after which that message is not in hand
\* for a save any more, or for the API.
LEMMA OneMore ==
  ASSUME OnceInv, TypeInv', NEW n \in Notifications, NEW source \in Nat, Unused(n),
         notes' = [notes EXCEPT ![n] = NewNote(source)], UNCHANGED <<fetched, restarts>>,
         source = 0 \/ (Holding("save") /\ source = handling.offset /\ ~Holding("save")'),
         ~Holding("save")' \/ handling' = handling,
         handling' # None => handling'.offset = fetched
  PROVE  OnceInv'
<1>1. TypeOK /\ restarts \in Nat /\ fetched \in Nat
  BY DEF OnceInv, TypeInv, TypeOK
<1>2. /\ NewNote(source) # None
      /\ NewNote(source).source = source /\ NewNote(source).run = restarts
  BY <1>1, NoteMade, NoteIsSome DEF NewNote
<1> DEFINE x == NewNote(source)
<1>3. /\ notes'[n] = x /\ x.source = source /\ x.run = restarts
      /\ \A k \in Notifications \ {n} : notes'[k] = notes[k]
  BY <1>1, <1>2 DEF TypeOK
<1> HIDE DEF x
<1>4. source # 0 => source = fetched
  BY <1>1 DEF OnceInv, Holding
<1>5. \A k \in Notifications : Earlier(k)'
  <2>1. Earlier(n)'
    BY <1>1, <1>3, <1>4 DEF Earlier
  <2>2. ASSUME NEW k \in Notifications \ {n}
        PROVE  Earlier(k)'
    BY <1>1, <1>3, <2>2 DEF Earlier, OnceInv, Holding
  <2>3. QED
    BY <2>1, <2>2
<1>6. \A k \in Notifications \ {n} :
        notes[k] # None /\ notes[k].source # 0 /\ source # 0
          => ~(notes[k].source = source /\ notes[k].run = restarts)
  BY DEF OnceInv, Earlier
<1>7. OncePerRun'
  BY <1>3, <1>6 DEF OnceInv, OncePerRun
<1>8. QED
  BY <1>5, <1>7 DEF OnceInv

\* A step that makes no row.
LEMMA NoneMore ==
  ASSUME OnceInv, [Next]_vars, \A n \in Notifications : notes[n] = None => notes'[n] = None
  PROVE  OncePerRun'
BY RowsStay DEF OnceInv, OncePerRun, Kept

LEMMA OnceStep == OnceInv /\ [Next]_vars => OnceInv'
<1> SUFFICES ASSUME OnceInv, [Next]_vars PROVE OnceInv'
  OBVIOUS
<1>1. TypeInv /\ TypeInv' /\ TypeOK
  BY TypeStep DEF OnceInv, TypeInv
<1>2. fetched \in Nat /\ committed \in Nat /\ committed <= fetched /\ restarts \in Nat
  BY <1>1 DEF TypeOK
<1>3. ASSUME NEW n \in Notifications, SendAlertNotification(n)
      PROVE  OnceInv'
  <2>1. handling.offset \in 1 .. fetched /\ handling.offset \in Nat
    BY <1>1, <1>2, <1>3, HandlingTyped DEF SendAlertNotification
  <2>2. ~Holding("save")' /\ handling'.offset = fetched
    BY <1>1, <1>3, HandlingTyped DEF SendAlertNotification, OnceInv, Holding
  <2>3. QED
    BY <1>1, <1>3, <2>1, <2>2, OneMore DEF SendAlertNotification
<1>4. ASSUME NEW n \in Notifications, Send(n) \/ SendFails(n)
      PROVE  OnceInv'
  BY <1>1, <1>4, OneMore DEF Send, SendFails, SavedUnseen, consumer, OnceInv
<1>5. CASE SaveFails
  <2>1. handling.offset \in Nat /\ ~Holding("save")' /\ handling' = None
    BY <1>1, <1>2, <1>5, HandlingTyped DEF SaveFails, Holding
  <2>2. CASE notes' = notes
    BY <1>1, <1>5, <2>1, <2>2 DEF SaveFails, OnceInv, OncePerRun, Earlier
  <2>3. ASSUME NEW n \in Notifications, SavedUnseen(n, handling.offset)
        PROVE  OnceInv'
    BY <1>1, <1>5, <2>1, <2>3, OneMore DEF SaveFails, SavedUnseen
  <2>4. QED
    BY <1>5, <2>2, <2>3 DEF SaveFails
<1>6. CASE FetchMessage
  <2>1. /\ fetched' = fetched + 1 /\ handling' # None /\ handling'.offset = fetched'
        /\ notes' = notes /\ restarts' = restarts
    BY <1>1, <1>2, <1>6, NoneAssumption DEF FetchMessage, NoneAssumption, TypeOK
  <2>2. \A n \in Notifications : notes[n] # None => notes[n].source \in Nat
    BY <1>1 DEF TypeOK, Note
  <2>3. \A n \in Notifications : Earlier(n)'
    BY <1>2, <2>1, <2>2 DEF OnceInv, Earlier
  <2>4. QED
    BY <1>1, <2>1, <2>3 DEF OnceInv, OncePerRun
<1>7. CASE Restart
  <2>1. \A n \in Notifications : notes[n] # None => notes[n].run \in Nat
    BY <1>1 DEF TypeOK, Note
  <2>2. \A n \in Notifications : Earlier(n)'
    BY <1>2, <1>7, <2>1 DEF Restart, OnceInv, Earlier
  <2>3. QED
    BY <1>1, <1>7, <2>2 DEF Restart, OnceInv, OncePerRun
<1>8. CASE /\ \A n \in Notifications : notes[n] = None => notes'[n] = None
           /\ UNCHANGED <<fetched, restarts>> /\ (handling' = handling \/ handling' = None)
  <2>1. \A n \in Notifications : Earlier(n)'
    BY <1>1, <1>8, RowsStay DEF OnceInv, Earlier, Kept, Holding
  <2>2. QED
    BY <1>1, <1>8, <2>1, NoneMore DEF OnceInv
<1>9. ASSUME NEW n \in Notifications, UpdateNotification(n)
      PROVE  OnceInv'
  <2>1. notes[n] # None
    BY <1>9 DEF UpdateNotification, TypeInv, OnceInv
  <2>2. QED
    BY <1>1, <1>8, <1>9, <2>1 DEF UpdateNotification, consumer, TypeOK
<1>10. ASSUME NEW ns \in SUBSET Saved, MarkRead(ns)
       PROVE  OnceInv'
  BY <1>8, <1>10 DEF MarkRead, Saved, consumer
<1>11. QED
  BY <1>3, <1>4, <1>5, <1>6, <1>7, <1>8, <1>9, <1>10
     DEF Next, ConsumerStep, Dispatch, Saved, PublishAlert, CommitMessages, CommitFails,
         DispatchSucceeds, DispatchFails, UpdateFails, vars, consumer

\* OncePerRun: however saves and commits fail, a second notification of an event
\* needs a restart in between.
THEOREM EventsNotifiedOnce == Spec => []OncePerRun
<1>1. Init => OnceInv
  BY TypeInit DEF Init, OnceInv, OncePerRun, Earlier
<1>2. OnceInv => OncePerRun
  BY DEF OnceInv
<1>3. QED
  BY <1>1, <1>2, OnceStep, PTL DEF Spec
=============================================================================
