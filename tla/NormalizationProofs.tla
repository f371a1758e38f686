------------------------- MODULE NormalizationProofs -------------------------
(***************************************************************************)
(* Proofs about Normalization, for any numbers of replicas, points,        *)
(* records and moves.                                                      *)
(***************************************************************************)
EXTENDS Normalization, TLAPS

LEMMA NoneIsNoHand ==
  ASSUME NEW h \in Hand
  PROVE  h # None
<1>1. h \in [offset : Nat, pc : {"commit", "write", "publish"}]
  BY DEF Hand
<1>2. QED
  BY <1>1, NoneAssumption DEF NoneAssumption

\* What moving a message on changes in the hand that has it.
LEMMA HandMoved ==
  ASSUME NEW h \in Hand, NEW pc \in {"commit", "write", "publish"}
  PROVE  /\ [h EXCEPT !.pc = pc] \in Hand
         /\ [h EXCEPT !.pc = pc].offset = h.offset
         /\ [h EXCEPT !.pc = pc].pc = pc
BY DEF Hand

\* TypeOK (the shape of every variable, and that what reaches InfluxDB decoded)
\* is inductive: Init establishes it and every step keeps it.
LEMMA TypeInit == Init => TypeOK
<1> SUFFICES ASSUME Init PROVE TypeOK
  OBVIOUS
<1>1. raw \in Seq(Points \cup {None}) /\ Len(raw) = 0 /\ normalized \in Seq(1 .. Len(raw))
  BY DEF Init
<1>2. rebalanced \in BOOLEAN
  BY Zenon DEF Init
<1>3. QED
  BY <1>1, <1>2 DEF Init, TypeOK, At

LEMMA RebalancedStep == rebalanced \in BOOLEAN /\ [Next]_vars => rebalanced' \in BOOLEAN
<1> SUFFICES ASSUME rebalanced \in BOOLEAN, [Next]_vars PROVE rebalanced' \in BOOLEAN
  OBVIOUS
<1>1. ASSUME NEW i \in Replicas, Rebalance(i)
      PROVE  rebalanced' \in BOOLEAN
  BY <1>1, Zenon DEF Rebalance
<1>2. ASSUME NEW i \in Replicas, NEW j \in Replicas, Restart(i, j)
      PROVE  rebalanced' \in BOOLEAN
  BY <1>2, Zenon DEF Restart
<1>3. ASSUME NEW i \in Replicas, Process(i)
      PROVE  rebalanced' \in BOOLEAN
  BY <1>3, Zenon DEF Process, FetchMessage, CommitMessage, CommitFails, WritePoint, WriteFails,
                     PublishReading, PublishFails
<1>4. QED
  BY <1>1, <1>2, <1>3, Zenon DEF Next, PublishRaw, vars

\* TypeOK but for rebalanced, which SMT handles badly.
Shape ==
  /\ raw \in Seq(Points \cup {None})
  /\ committed \in 0 .. Len(raw)
  /\ holder \in Replicas
  /\ fetched \in 0 .. Len(raw)
  /\ hand \in [Replicas -> Hand \cup {None}]
  /\ \A i \in Replicas : At(i, "write") \/ At(i, "publish") => raw[hand[i].offset] # None
  /\ stored \in [Points -> 0 .. Len(raw)]
  /\ normalized \in Seq(1 .. Len(raw))
  /\ moves \in Nat
  /\ lost \subseteq 1 .. Len(raw)

Hands ==
  /\ hand \in [Replicas -> Hand \cup {None}]
  /\ \A i \in Replicas : At(i, "write") \/ At(i, "publish") => raw[hand[i].offset] # None

\* A message given up leaves the hands and the lost messages in shape.
LEMMA DropShape ==
  ASSUME Shape, NEW i \in Replicas, hand[i] # None, Drop(i), raw' = raw
  PROVE  Hands' /\ lost' \subseteq 1 .. Len(raw')
<1>1. hand[i] \in Hand /\ hand' = [hand EXCEPT ![i] = None] /\ lost' = lost \cup {hand[i].offset}
  BY DEF Shape, Drop
<1>2. hand[i].offset \in 1 .. Len(raw)
  BY <1>1 DEF Hand
<1>3. QED
  BY <1>1, <1>2, NoneIsNoHand DEF Shape, Hands, At, Hand

\* So does moving one on that decodes.
LEMMA MoveShape ==
  ASSUME Shape, NEW i \in Replicas, hand[i] # None, raw[hand[i].offset] # None, raw' = raw,
         NEW pc \in {"write", "publish"}, hand' = [hand EXCEPT ![i].pc = pc]
  PROVE  Hands'
<1>1. hand[i] \in Hand /\ hand' = [hand EXCEPT ![i] = [hand[i] EXCEPT !.pc = pc]]
  BY DEF Shape
<1>2. hand'[i] \in Hand /\ hand'[i].offset = hand[i].offset
  <2>1. hand'[i] = [hand[i] EXCEPT !.pc = pc]
    BY <1>1 DEF Shape
  <2>2. /\ [hand[i] EXCEPT !.pc = pc] \in Hand
        /\ [hand[i] EXCEPT !.pc = pc].offset = hand[i].offset
    <3>1. pc \in {"commit", "write", "publish"}
      OBVIOUS
    <3>2. QED
      BY <1>1, <3>1, HandMoved, Zenon
  <2>3. QED
    BY <2>1, <2>2
<1>3. \A j \in Replicas : j # i => hand'[j] = hand[j]
  BY <1>1 DEF Shape
<1>4. hand' \in [Replicas -> Hand' \cup {None}]
  BY <1>1, <1>2, <1>3 DEF Shape, Hand
<1>5. QED
  BY <1>2, <1>3, <1>4 DEF Shape, Hands, At

LEMMA TypeStep == TypeOK /\ [Next]_vars => TypeOK'
<1> USE BoundsAssumption, NoneAssumption, NoneIsNoHand DEF BoundsAssumption, NoneAssumption
<1> SUFFICES ASSUME Shape, [Next]_vars PROVE Shape'
  BY RebalancedStep, Zenon DEF TypeOK, Shape
<1> USE DEF Shape, At, Hand
<1>1. ASSUME NEW p \in Points \cup {None}, PublishRaw(p)
      PROVE  Shape'
  <2>1. raw' = Append(raw, p) /\ UNCHANGED <<worker, stored, normalized, moves, rebalanced, lost>>
    BY <1>1 DEF PublishRaw
  <2>2. raw' \in Seq(Points \cup {None}) /\ Len(raw') = Len(raw) + 1
        /\ \A o \in 1 .. Len(raw) : raw'[o] = raw[o]
    BY <2>1
  <2>3. normalized' \in Seq(1 .. Len(raw'))
    <3>1. \A k \in 1 .. Len(normalized) : normalized[k] \in 1 .. Len(raw')
      BY <2>2
    <3>2. QED
      BY <2>1, <3>1
  <2>4. hand' \in [Replicas -> Hand' \cup {None}]
    BY <2>1, <2>2 DEF worker
  <2>5. \A i \in Replicas : (At(i, "write") \/ At(i, "publish"))' => raw'[hand'[i].offset] # None
    BY <2>1, <2>2 DEF worker
  <2>6. QED
    BY <2>1, <2>2, <2>3, <2>4, <2>5 DEF worker
<1>2. ASSUME NEW i \in Replicas, FetchMessage(i)
      PROVE  Shape'
  BY <1>2 DEF FetchMessage
<1>3. ASSUME NEW i \in Replicas, CommitMessage(i)
      PROVE  Shape'
  <2>1. hand[i] \in Hand
    BY <1>3 DEF CommitMessage
  <2>2. CASE raw[hand[i].offset] = None
    <3>1. Hands' /\ lost' \subseteq 1 .. Len(raw')
      BY <1>3, <2>2, DropShape DEF CommitMessage
    <3>2. QED
      BY <1>3, <2>1, <3>1 DEF CommitMessage, Hands
  <2>3. CASE raw[hand[i].offset] # None
    <3>1. Hands'
      BY <1>3, <2>3, MoveShape DEF CommitMessage
    <3>2. QED
      BY <1>3, <2>1, <2>3, <3>1 DEF CommitMessage, Hands
  <2>4. QED
    BY <2>2, <2>3
<1>4. ASSUME NEW i \in Replicas, CommitFails(i)
      PROVE  Shape'
  <2>1. Hands' /\ lost' \subseteq 1 .. Len(raw')
    BY <1>4, DropShape DEF CommitFails
  <2>2. hand[i].offset \in 0 .. Len(raw)
    BY <1>4 DEF CommitFails
  <2>3. QED
    BY <1>4, <2>1, <2>2 DEF CommitFails, Hands
<1>5. ASSUME NEW i \in Replicas, WritePoint(i)
      PROVE  Shape'
  <2>1. Hands'
    BY <1>5, MoveShape DEF WritePoint
  <2>2. stored' \in [Points -> 0 .. Len(raw)]
    BY <1>5 DEF WritePoint, Upserted, PointOf
  <2>3. QED
    BY <1>5, <2>1, <2>2 DEF WritePoint, Hands
<1>6. ASSUME NEW i \in Replicas, WriteFails(i)
      PROVE  Shape'
  <2>1. Hands' /\ lost' \subseteq 1 .. Len(raw')
    BY <1>6, DropShape DEF WriteFails
  <2>2. stored' \in [Points -> 0 .. Len(raw)]
    BY <1>6 DEF WriteFails, Upserted, PointOf
  <2>3. QED
    BY <1>6, <2>1, <2>2 DEF WriteFails, Hands
<1>7. ASSUME NEW i \in Replicas, PublishReading(i)
      PROVE  Shape'
  BY <1>7 DEF PublishReading
<1>8. ASSUME NEW i \in Replicas, PublishFails(i)
      PROVE  Shape'
  <2>1. Hands' /\ lost' \subseteq 1 .. Len(raw')
    BY <1>8, DropShape DEF PublishFails
  <2>2. normalized' \in Seq(1 .. Len(raw))
    <3>1. hand[i].offset \in 1 .. Len(raw)
      BY <1>8 DEF PublishFails
    <3>2. Append(normalized, hand[i].offset) \in Seq(1 .. Len(raw))
      BY <3>1
    <3>3. QED
      BY <1>8, <3>2 DEF PublishFails
  <2>3. QED
    BY <1>8, <2>1, <2>2 DEF PublishFails, Hands
<1>9. ASSUME NEW i \in Replicas, Rebalance(i)
      PROVE  Shape'
  <2>1. /\ UNCHANGED <<raw, committed, hand, stored, normalized, lost>>
        /\ holder' = i /\ fetched' = committed /\ moves' = moves + 1
    BY <1>9 DEF Rebalance, Move
  <2>2. QED
    BY <2>1
<1>10. ASSUME NEW i \in Replicas, NEW j \in Replicas, Restart(i, j)
       PROVE  Shape'
  <2>1. /\ UNCHANGED <<raw, committed, stored, normalized>>
        /\ hand' = [hand EXCEPT ![i] = None]
        /\ lost' = IF hand[i] = None THEN lost ELSE lost \cup {hand[i].offset}
        /\ moves' = moves + 1
        /\ \/ holder' = j /\ fetched' = committed
           \/ UNCHANGED <<holder, fetched>>
    BY <1>10 DEF Restart, Move
  <2>2. lost' \subseteq 1 .. Len(raw)
    BY <2>1
  <2>3. QED
    BY <2>1, <2>2
<1>11. CASE UNCHANGED vars
  BY <1>11 DEF vars, worker
<1>12. QED
  BY <1>1, <1>2, <1>3, <1>4, <1>5, <1>6, <1>7, <1>8, <1>9, <1>10, <1>11 DEF Next, Process

\* The shape of every variable, and that what reaches InfluxDB decoded.
THEOREM TypeCorrect == Spec => []TypeOK
BY TypeInit, TypeStep, PTL DEF Spec

-----------------------------------------------------------------------------
(* CommittedIsAccounted.  Not inductive as it stands: after a rebalance a   *)
(* commit may set the group back, or forward past what the new holder has   *)
(* done, so everything up to any message in hand must be accounted for too, *)
(* and so must everything the reader has handed out.                        *)

Accounted == Offsets(normalized) \cup lost \cup Held

AccountedInv ==
  /\ TypeOK
  /\ 1 .. fetched \subseteq Accounted
  /\ 1 .. committed \subseteq Accounted
  /\ \A i \in Replicas : hand[i] # None => 1 .. hand[i].offset \subseteq Accounted

LEMMA AppendedOffsets ==
  ASSUME NEW S, NEW n \in Seq(S), NEW o \in S
  PROVE  Offsets(Append(n, o)) = Offsets(n) \cup {o}
<1>1. /\ Len(Append(n, o)) = Len(n) + 1
      /\ \A k \in 1 .. Len(n) : Append(n, o)[k] = n[k]
      /\ Append(n, o)[Len(n) + 1] = o
  OBVIOUS
<1>2. Len(n) \in Nat /\ 1 .. Len(n) + 1 = (1 .. Len(n)) \cup {Len(n) + 1}
  OBVIOUS
<1>3. QED
  BY <1>1, <1>2 DEF Offsets

\* What a step of replica i does with the message it has in hand: it keeps it,
\* publishes it or gives it up, and takes no other.
Carried(i) ==
  /\ Offsets(normalized) \subseteq Offsets(normalized')
  /\ lost \subseteq lost'
  /\ \A j \in Replicas : j # i => hand'[j] = hand[j]
  /\ \/ hand'[i] # None /\ hand[i] # None /\ hand'[i].offset = hand[i].offset
     \/ hand'[i] = None /\ (hand[i] # None => hand[i].offset \in Offsets(normalized') \cup lost')

LEMMA CarriedIsAccounted ==
  ASSUME NEW i \in Replicas, Carried(i)
  PROVE  Accounted \subseteq Accounted'
<1> SUFFICES ASSUME NEW o \in Accounted PROVE o \in Accounted'
  OBVIOUS
<1>1. CASE o \in Offsets(normalized) \cup lost
  BY <1>1 DEF Carried, Accounted
<1>2. CASE o \in Held
  <2>1. PICK j \in Replicas : hand[j] # None /\ hand[j].offset = o
    BY <1>2 DEF Held
  <2>2. o \in Offsets(normalized') \cup lost' \/ (hand'[j] # None /\ hand'[j].offset = o)
    BY <2>1 DEF Carried
  <2>3. QED
    BY <2>2 DEF Accounted, Held
<1>3. QED
  BY <1>1, <1>2 DEF Accounted

\* Every step of a loop but the fetch.
LEMMA WorkIsCarried ==
  ASSUME TypeOK, NEW i \in Replicas,
         \/ CommitMessage(i) \/ CommitFails(i) \/ WritePoint(i) \/ WriteFails(i)
         \/ PublishReading(i) \/ PublishFails(i)
  PROVE  Carried(i) /\ fetched' = fetched
<1>1. hand \in [Replicas -> Hand \cup {None}] /\ normalized \in Seq(1 .. Len(raw))
  BY DEF TypeOK
<1>2. hand[i] # None => hand[i] \in Hand /\ hand[i].offset \in 1 .. Len(raw)
  BY <1>1 DEF Hand
<1>3. ASSUME NEW pc \in {"write", "publish"}, hand[i] # None, hand' = [hand EXCEPT ![i].pc = pc],
             UNCHANGED <<normalized, lost>>
      PROVE  Carried(i)
  <2>1. hand'[i] = [hand[i] EXCEPT !.pc = pc] /\ \A j \in Replicas : j # i => hand'[j] = hand[j]
    BY <1>1, <1>3
  <2>2. /\ [hand[i] EXCEPT !.pc = pc] \in Hand
        /\ [hand[i] EXCEPT !.pc = pc].offset = hand[i].offset
    BY <1>2, <1>3, HandMoved
  <2>3. hand'[i] # None /\ hand'[i].offset = hand[i].offset
    BY <2>1, <2>2, NoneIsNoHand
  <2>4. Offsets(normalized') = Offsets(normalized) /\ lost' = lost
    BY <1>3 DEF Offsets
  <2>5. QED
    BY <1>3, <2>1, <2>3, <2>4 DEF Carried
<1>4. ASSUME hand[i] # None, Drop(i), Offsets(normalized) \subseteq Offsets(normalized')
      PROVE  Carried(i)
  BY <1>1, <1>4 DEF Carried, Drop
<1>5. hand[i] # None => Offsets(Append(normalized, hand[i].offset)) = Offsets(normalized) \cup {hand[i].offset}
  BY <1>1, <1>2, AppendedOffsets
<1>6. CASE CommitMessage(i)
  BY <1>3, <1>4, <1>6 DEF CommitMessage, At
<1>7. CASE CommitFails(i)
  BY <1>4, <1>7 DEF CommitFails, At
<1>8. CASE WritePoint(i)
  BY <1>3, <1>8 DEF WritePoint, At
<1>9. CASE WriteFails(i)
  BY <1>4, <1>9 DEF WriteFails, At
<1>10. CASE PublishReading(i)
  BY <1>1, <1>5, <1>10 DEF PublishReading, At, Carried
<1>11. CASE PublishFails(i)
  BY <1>4, <1>5, <1>11 DEF PublishFails, At
<1>12. QED
  BY <1>6, <1>7, <1>8, <1>9, <1>10, <1>11

LEMMA CommitsFromHand ==
  ASSUME NEW i \in Replicas,
         \/ CommitMessage(i) \/ CommitFails(i) \/ WritePoint(i) \/ WriteFails(i)
         \/ PublishReading(i) \/ PublishFails(i)
  PROVE  committed' = committed \/ (hand[i] # None /\ committed' = hand[i].offset)
BY DEF CommitMessage, CommitFails, WritePoint, WriteFails, PublishReading, PublishFails, At

LEMMA AccountedInit == Init => AccountedInv
<1> SUFFICES ASSUME Init PROVE AccountedInv
  OBVIOUS
<1>1. 1 .. fetched = {} /\ 1 .. committed = {} /\ \A i \in Replicas : hand[i] = None
  BY DEF Init
<1>2. QED
  BY <1>1, TypeInit DEF AccountedInv

LEMMA AccountedStep == AccountedInv /\ [Next]_vars => AccountedInv'
<1> SUFFICES ASSUME AccountedInv, [Next]_vars PROVE AccountedInv'
  OBVIOUS
<1>1. TypeOK /\ TypeOK'
  BY TypeStep DEF AccountedInv
<1>2. /\ hand \in [Replicas -> Hand \cup {None}]
      /\ fetched \in Nat /\ Len(raw) \in Nat
  BY <1>1 DEF TypeOK
<1>3. ASSUME NEW i \in Replicas,
             \/ CommitMessage(i) \/ CommitFails(i) \/ WritePoint(i) \/ WriteFails(i)
             \/ PublishReading(i) \/ PublishFails(i)
      PROVE  AccountedInv'
  <2>1. Carried(i) /\ fetched' = fetched
    BY <1>1, <1>3, WorkIsCarried
  <2>2. Accounted \subseteq Accounted'
    BY <2>1, CarriedIsAccounted
  <2>3. committed' = committed \/ (hand[i] # None /\ committed' = hand[i].offset)
    BY <1>3, CommitsFromHand
  <2>4. \A j \in Replicas :
          hand'[j] # None => hand[j] # None /\ hand'[j].offset = hand[j].offset
    BY <2>1 DEF Carried
  <2>5. QED
    BY <1>1, <2>1, <2>2, <2>3, <2>4 DEF AccountedInv
<1>4. ASSUME NEW i \in Replicas, FetchMessage(i)
      PROVE  AccountedInv'
  <2> DEFINE h == [offset |-> fetched + 1, pc |-> "commit"]
  <2>1. /\ hand[i] = None /\ fetched < Len(raw) /\ fetched' = fetched + 1
        /\ hand' = [hand EXCEPT ![i] = h]
        /\ UNCHANGED <<committed, normalized, lost>>
    BY <1>4 DEF FetchMessage
  <2>2. h \in Hand /\ h # None /\ h.offset = fetched + 1
    <3>1. h \in Hand /\ h.offset = fetched + 1
      BY <1>2, <2>1 DEF Hand
    <3>2. QED
      BY <3>1, NoneIsNoHand
  <2> HIDE DEF h
  <2>3. hand'[i] = h /\ \A j \in Replicas : j # i => hand'[j] = hand[j]
    BY <1>2, <2>1
  <2>4. fetched + 1 \in Accounted'
    BY <2>2, <2>3 DEF Accounted, Held
  <2>5. Accounted \subseteq Accounted'
    BY <2>1, <2>3 DEF Accounted, Held
  <2>6. 1 .. fetched' = (1 .. fetched) \cup {fetched + 1}
    BY <1>2, <2>1
  <2>7. 1 .. fetched' \subseteq Accounted'
    BY <2>4, <2>5, <2>6 DEF AccountedInv
  <2>8. ASSUME NEW j \in Replicas, hand'[j] # None
        PROVE  1 .. hand'[j].offset \subseteq Accounted'
    BY <2>1, <2>2, <2>3, <2>5, <2>7, <2>8 DEF AccountedInv
  <2>9. QED
    BY <1>1, <2>1, <2>5, <2>7, <2>8 DEF AccountedInv
<1>5. ASSUME NEW i \in Replicas, Rebalance(i)
      PROVE  AccountedInv'
  <2>1. UNCHANGED <<committed, normalized, hand, lost>> /\ fetched' = committed
    BY <1>5 DEF Rebalance, Move
  <2>2. Accounted' = Accounted
    BY <2>1 DEF Accounted, Offsets, Held
  <2>3. QED
    BY <1>1, <2>1, <2>2 DEF AccountedInv
<1>6. ASSUME NEW i \in Replicas, NEW j \in Replicas, Restart(i, j)
      PROVE  AccountedInv'
  <2>1. /\ UNCHANGED <<committed, normalized>>
        /\ fetched' = committed \/ fetched' = fetched
        /\ hand' = [hand EXCEPT ![i] = None]
        /\ lost' = IF hand[i] = None THEN lost ELSE lost \cup {hand[i].offset}
    BY <1>6 DEF Restart, Move
  <2>2. Carried(i)
    BY <1>2, <2>1 DEF Carried
  <2>3. Accounted \subseteq Accounted'
    BY <2>2, CarriedIsAccounted
  <2>4. \A k \in Replicas : hand'[k] # None => hand[k] # None /\ hand'[k] = hand[k]
    BY <1>2, <2>1
  <2>5. QED
    BY <1>1, <2>1, <2>3, <2>4 DEF AccountedInv
<1>7. CASE UNCHANGED worker /\ UNCHANGED <<normalized, lost>>
  <2>1. UNCHANGED <<committed, fetched, hand, normalized, lost>>
    BY <1>7 DEF worker
  <2>2. Accounted' = Accounted
    BY <2>1 DEF Accounted, Offsets, Held
  <2>3. QED
    BY <1>1, <2>1, <2>2 DEF AccountedInv
<1>8. QED
  BY <1>3, <1>4, <1>5, <1>6, <1>7 DEF Next, Process, PublishRaw, vars

\* ReadMessage commits before the work, and still no message below the
\* committed offset is silently gone: it was published, was given up, or is in
\* the hand of a replica.
THEOREM CommitsAreAccounted == Spec => []CommittedIsAccounted
<1>1. AccountedInv => CommittedIsAccounted
  BY DEF AccountedInv, Accounted, CommittedIsAccounted
<1>2. QED
  BY <1>1, AccountedInit, AccountedStep, PTL DEF Spec

-----------------------------------------------------------------------------
(* NormalizedIsStored and NormalizedInOrder.                               *)

\* What a step may do to the log and to the store: a point that holds a reading
\* goes on holding one.
LEMMA StoreKeeps ==
  ASSUME TypeOK, [Next]_vars
  PROVE  /\ \A o \in 1 .. Len(raw) : raw'[o] = raw[o]
         /\ \A p \in Points : stored[p] # 0 => stored'[p] # 0
<1>1. raw \in Seq(Points \cup {None}) /\ stored \in [Points -> 0 .. Len(raw)]
  BY DEF TypeOK
<1>2. ASSUME NEW p \in Points \cup {None}, PublishRaw(p)
      PROVE  (\A o \in 1 .. Len(raw) : raw'[o] = raw[o]) /\ stored' = stored
  BY <1>1, <1>2 DEF PublishRaw
<1>3. ASSUME NEW i \in Replicas, WritePoint(i) \/ WriteFails(i)
      PROVE  raw' = raw /\ \A p \in Points : stored[p] # 0 => stored'[p] # 0
  <2>1. hand[i] # None /\ raw' = raw
    BY <1>3 DEF WritePoint, WriteFails, At
  <2>2. hand[i].offset \in 1 .. Len(raw)
    BY <2>1 DEF TypeOK, Hand
  <2>3. stored' = stored \/ stored' = [stored EXCEPT ![raw[hand[i].offset]] = hand[i].offset]
    BY <1>3 DEF WritePoint, WriteFails, Upserted, PointOf
  <2>4. QED
    BY <1>1, <2>1, <2>2, <2>3
<1>4. CASE UNCHANGED <<raw, stored>>
  BY <1>4
<1>5. QED
  BY <1>2, <1>3, <1>4
     DEF Next, Process, FetchMessage, CommitMessage, CommitFails, PublishReading, PublishFails,
         Rebalance, Restart, Move, vars

\* What reaches normalized.sensor was at its publication.
LEMMA OnlyPublished ==
  ASSUME TypeOK, [Next]_vars
  PROVE  \/ normalized' = normalized
         \/ \E i \in Replicas : /\ At(i, "publish")
                               /\ normalized' = Append(normalized, hand[i].offset)
                               /\ UNCHANGED <<raw, committed, stored>>
<1>1. ASSUME NEW i \in Replicas, PublishReading(i) \/ PublishFails(i)
      PROVE  /\ At(i, "publish") /\ UNCHANGED <<raw, committed, stored>>
             /\ normalized' = normalized \/ normalized' = Append(normalized, hand[i].offset)
  BY <1>1 DEF PublishReading, PublishFails
<1>2. CASE UNCHANGED normalized
  BY <1>2
<1>3. QED
  BY <1>1, <1>2
     DEF Next, Process, PublishRaw, FetchMessage, CommitMessage, CommitFails, WritePoint,
         WriteFails, Rebalance, Restart, Move, vars

\* A message at its publication was there before, or was written by this step.
LEMMA OnlyWritten ==
  ASSUME TypeOK, [Next]_vars, NEW i \in Replicas, At(i, "publish")'
  PROVE  \/ At(i, "publish") /\ hand'[i] = hand[i]
         \/ /\ At(i, "write") /\ hand'[i].offset = hand[i].offset
            /\ stored' = Upserted(hand[i].offset)
            /\ UNCHANGED <<raw, committed, holder, fetched, normalized>>
<1> USE DEF At
<1>1. hand \in [Replicas -> Hand \cup {None}]
  BY DEF TypeOK
<1>2. ASSUME NEW j \in Replicas, NEW pc \in {"write", "publish"}, hand[j] # None,
             hand' = [hand EXCEPT ![j].pc = pc], j # i \/ pc = "write"
      PROVE  At(i, "publish") /\ hand'[i] = hand[i]
  <2>1. CASE j # i
    BY <1>1, <1>2, <2>1
  <2>2. CASE j = i /\ pc = "write"
    <3>1. hand'[i] = [hand[i] EXCEPT !.pc = "write"] /\ hand[i] \in Hand
      BY <1>1, <1>2, <2>2
    <3>2. hand'[i].pc = "write"
      BY <3>1, HandMoved
    <3>3. QED
      BY <3>2
  <2>3. QED
    BY <1>2, <2>1, <2>2
<1>3. ASSUME NEW j \in Replicas, hand' = [hand EXCEPT ![j] = None]
      PROVE  At(i, "publish") /\ hand'[i] = hand[i]
  BY <1>1, <1>3
<1>4. ASSUME NEW j \in Replicas, FetchMessage(j)
      PROVE  At(i, "publish") /\ hand'[i] = hand[i]
  BY <1>1, <1>4 DEF FetchMessage
<1>5. ASSUME NEW j \in Replicas, CommitMessage(j)
      PROVE  At(i, "publish") /\ hand'[i] = hand[i]
  BY <1>2, <1>3, <1>5 DEF CommitMessage, Drop
<1>6. ASSUME NEW j \in Replicas, CommitFails(j) \/ WriteFails(j) \/ PublishReading(j) \/ PublishFails(j)
      PROVE  At(i, "publish") /\ hand'[i] = hand[i]
  BY <1>3, <1>6 DEF CommitFails, WriteFails, PublishReading, PublishFails, Drop
<1>7. ASSUME NEW j \in Replicas, WritePoint(j), j # i
      PROVE  At(i, "publish") /\ hand'[i] = hand[i]
  BY <1>2, <1>7 DEF WritePoint
<1>8. ASSUME WritePoint(i)
      PROVE  /\ At(i, "write") /\ hand'[i].offset = hand[i].offset
             /\ stored' = Upserted(hand[i].offset)
             /\ UNCHANGED <<raw, committed, holder, fetched, normalized>>
  <2>1. hand'[i] = [hand[i] EXCEPT !.pc = "publish"] /\ hand[i] \in Hand
    BY <1>1, <1>8 DEF WritePoint
  <2>2. hand'[i].offset = hand[i].offset
    BY <2>1, HandMoved
  <2>3. QED
    BY <1>8, <2>2 DEF WritePoint
<1>9. ASSUME NEW j \in Replicas, NEW k \in Replicas, Restart(j, k)
      PROVE  At(i, "publish") /\ hand'[i] = hand[i]
  BY <1>3, <1>9 DEF Restart
<1>10. CASE UNCHANGED hand
  BY <1>10
<1>11. QED
  BY <1>4, <1>5, <1>6, <1>7, <1>8, <1>9, <1>10 DEF Next, Process, PublishRaw, Rebalance, vars, worker

\* NormalizedIsStored but for the comparison, which rebalances spoil: what was
\* published, or is about to be, is a reading whose point is in the store.
StoredInv ==
  /\ TypeOK
  /\ \A k \in 1 .. Len(normalized) : raw[normalized[k]] # None /\ stored[raw[normalized[k]]] # 0
  /\ \A i \in Replicas : At(i, "publish") => stored[raw[hand[i].offset]] # 0

LEMMA StoredStep == StoredInv /\ [Next]_vars => StoredInv'
<1> SUFFICES ASSUME StoredInv, [Next]_vars PROVE StoredInv'
  OBVIOUS
<1>1. TypeOK /\ TypeOK'
  BY TypeStep DEF StoredInv
<1>2. /\ raw \in Seq(Points \cup {None}) /\ normalized \in Seq(1 .. Len(raw))
      /\ stored \in [Points -> 0 .. Len(raw)] /\ hand \in [Replicas -> Hand \cup {None}]
  BY <1>1 DEF TypeOK
<1>3. ASSUME NEW o \in 1 .. Len(raw), raw[o] # None, stored[raw[o]] # 0
      PROVE  raw'[o] = raw[o] /\ stored'[raw'[o]] # 0
  BY <1>1, <1>2, <1>3, StoreKeeps
<1>4. ASSUME NEW k \in 1 .. Len(normalized')
      PROVE  raw'[normalized'[k]] # None /\ stored'[raw'[normalized'[k]]] # 0
  <2>1. CASE normalized' = normalized
    BY <1>2, <1>3, <1>4, <2>1 DEF StoredInv
  <2>2. ASSUME NEW i \in Replicas, At(i, "publish"),
               normalized' = Append(normalized, hand[i].offset), UNCHANGED <<raw, committed, stored>>
        PROVE  raw'[normalized'[k]] # None /\ stored'[raw'[normalized'[k]]] # 0
    <3>1. hand[i].offset \in 1 .. Len(raw) /\ raw[hand[i].offset] # None
      BY <1>1, <1>2, <2>2 DEF At, Hand, TypeOK
    <3>2. stored[raw[hand[i].offset]] # 0
      BY <2>2 DEF StoredInv
    <3>3. normalized'[k] = hand[i].offset \/ (k \in 1 .. Len(normalized) /\ normalized'[k] = normalized[k])
      BY <1>2, <1>4, <2>2, <3>1
    <3>4. QED
      BY <2>2, <3>1, <3>2, <3>3 DEF StoredInv
  <2>3. QED
    BY <1>1, <2>1, <2>2, OnlyPublished
<1>5. ASSUME NEW i \in Replicas, At(i, "publish")'
      PROVE  stored'[raw'[hand'[i].offset]] # 0
  <2>1. CASE At(i, "publish") /\ hand'[i] = hand[i]
    <3>1. hand[i].offset \in 1 .. Len(raw) /\ raw[hand[i].offset] # None
      BY <1>1, <1>2, <2>1 DEF At, Hand, TypeOK
    <3>2. QED
      BY <1>3, <2>1, <3>1 DEF StoredInv
  <2>2. CASE /\ At(i, "write") /\ hand'[i].offset = hand[i].offset
             /\ stored' = Upserted(hand[i].offset) /\ raw' = raw
    <3>1. hand[i].offset \in 1 .. Len(raw) /\ raw[hand[i].offset] # None
      BY <1>1, <1>2, <2>2 DEF At, Hand, TypeOK
    <3>2. raw[hand[i].offset] \in Points
      BY <1>2, <3>1
    <3>3. QED
      BY <1>2, <2>2, <3>1, <3>2 DEF Upserted, PointOf
  <2>3. QED
    BY <1>1, <1>5, <2>1, <2>2, OnlyWritten
<1>6. QED
  BY <1>1, <1>4, <1>5 DEF StoredInv

LEMMA StoredInit == Init => StoredInv
<1> SUFFICES ASSUME Init PROVE StoredInv
  OBVIOUS
<1>1. Len(normalized) = 0 /\ \A i \in Replicas : hand[i] = None
  BY DEF Init
<1>2. QED
  BY <1>1, TypeInit DEF StoredInv, At

\* What holds of a replica that has a message in hand while nothing has been
\* rebalanced: it holds the partition, the message is the last one fetched, it
\* is above the committed offset until its commit, and above whatever was
\* published until it is published itself.
HandAlone(i) ==
  hand[i] # None =>
    /\ i = holder
    /\ hand[i].offset = fetched
    /\ hand[i].pc = "commit" => committed < fetched
    /\ hand[i].pc # "commit" =>
         committed = fetched /\ \A k \in 1 .. Len(normalized) : normalized[k] < fetched
    /\ hand[i].pc = "publish" => stored[raw[fetched]] >= fetched

AloneInv ==
  /\ committed <= fetched
  /\ \A i \in Replicas : HandAlone(i)
  /\ \A k \in 1 .. Len(normalized) :
       normalized[k] <= committed /\ stored[raw[normalized[k]]] >= normalized[k]
  /\ \A k, l \in 1 .. Len(normalized) : k < l => normalized[k] < normalized[l]

OrderInv == StoredInv /\ (~rebalanced => AloneInv)

\* A step of replica i puts h in its hand and leaves the others': AloneInv is
\* kept if it is for the counters, the log and h.
LEMMA HandKept ==
  ASSUME TypeOK, AloneInv, NEW i \in Replicas, NEW h, i = holder,
         hand' = [hand EXCEPT ![i] = h], UNCHANGED <<raw, holder>>, HandAlone(i)'
  PROVE  \A j \in Replicas : HandAlone(j)'
<1>1. hand \in [Replicas -> Hand \cup {None}]
  BY DEF TypeOK
<1>2. ASSUME NEW j \in Replicas, j # i
      PROVE  hand'[j] = None
  BY <1>1, <1>2 DEF AloneInv, HandAlone
<1>3. QED
  BY <1>2 DEF HandAlone

LEMMA AloneWork ==
  ASSUME StoredInv, AloneInv, NEW i \in Replicas, Process(i)
  PROVE  AloneInv'
<1>1. TypeOK
  BY DEF StoredInv
<1>2. /\ raw \in Seq(Points \cup {None}) /\ normalized \in Seq(1 .. Len(raw))
      /\ stored \in [Points -> 0 .. Len(raw)] /\ hand \in [Replicas -> Hand \cup {None}]
      /\ committed \in 0 .. Len(raw) /\ fetched \in 0 .. Len(raw) /\ Len(raw) \in Nat
  BY <1>1 DEF TypeOK
<1>3. hand[i] # None =>
        /\ hand[i] \in Hand /\ i = holder
        /\ hand[i].offset = fetched /\ fetched \in 1 .. Len(raw)
  BY <1>2 DEF AloneInv, HandAlone, Hand
<1>4. CASE FetchMessage(i)
  <2> DEFINE h == [offset |-> fetched + 1, pc |-> "commit"]
  <2>1. /\ i = holder /\ fetched' = fetched + 1 /\ hand' = [hand EXCEPT ![i] = h]
        /\ UNCHANGED <<raw, committed, holder, stored, normalized>>
    BY <1>4 DEF FetchMessage
  <2>2. h.offset = fetched + 1 /\ h.pc = "commit"
    OBVIOUS
  <2> HIDE DEF h
  <2>3. hand'[i] = h
    BY <1>2, <2>1
  <2>4. HandAlone(i)'
    BY <1>2, <2>1, <2>2, <2>3 DEF AloneInv, HandAlone
  <2>5. \A j \in Replicas : HandAlone(j)'
    BY <1>1, <2>1, <2>4, HandKept
  <2>6. QED
    BY <1>2, <2>1, <2>5 DEF AloneInv
<1>5. ASSUME Drop(i), hand[i] # None, UNCHANGED <<raw, holder, fetched>>
      PROVE  \A j \in Replicas : HandAlone(j)'
  <2>1. hand' = [hand EXCEPT ![i] = None] /\ hand'[i] = None
    BY <1>2, <1>5 DEF Drop
  <2>2. HandAlone(i)'
    BY <2>1 DEF HandAlone
  <2>3. QED
    BY <1>1, <1>3, <1>5, <2>1, <2>2, HandKept
<1>6. CASE CommitMessage(i) \/ CommitFails(i)
  <2>1. /\ hand[i] # None /\ hand[i].pc = "commit" /\ committed' \in {committed, fetched}
        /\ committed < fetched
        /\ UNCHANGED <<raw, holder, fetched, stored, normalized>>
    BY <1>3, <1>6 DEF CommitMessage, CommitFails, At, AloneInv, HandAlone
  <2>2. \A j \in Replicas : HandAlone(j)'
    <3>1. CASE Drop(i)
      BY <1>5, <2>1, <3>1
    <3>2. CASE hand' = [hand EXCEPT ![i].pc = "write"] /\ committed' = hand[i].offset
      <4>1. hand' = [hand EXCEPT ![i] = [hand[i] EXCEPT !.pc = "write"]]
            /\ hand'[i] = [hand[i] EXCEPT !.pc = "write"]
        BY <1>2, <3>2
      <4>2. hand'[i].offset = fetched /\ hand'[i].pc = "write"
        <5>1. /\ [hand[i] EXCEPT !.pc = "write"].offset = hand[i].offset
              /\ [hand[i] EXCEPT !.pc = "write"].pc = "write"
          BY <1>3, <2>1, HandMoved
        <5>2. QED
          BY <1>3, <2>1, <4>1, <5>1
      <4>3. \A k \in 1 .. Len(normalized) : normalized[k] < fetched
        BY <1>2, <2>1 DEF AloneInv
      <4>4. HandAlone(i)'
        BY <1>3, <2>1, <3>2, <4>2, <4>3 DEF HandAlone
      <4>5. QED
        BY <1>1, <1>3, <2>1, <4>1, <4>4, HandKept
    <3>3. QED
      BY <1>6, <3>1, <3>2 DEF CommitMessage, CommitFails
  <2>3. \A k \in 1 .. Len(normalized) : normalized[k] <= committed'
    BY <1>2, <2>1 DEF AloneInv
  <2>4. QED
    BY <1>2, <2>1, <2>2, <2>3 DEF AloneInv
<1>7. CASE WritePoint(i) \/ WriteFails(i)
  <2>1. /\ hand[i] # None /\ hand[i].pc = "write"
        /\ committed = fetched /\ \A k \in 1 .. Len(normalized) : normalized[k] < fetched
        /\ UNCHANGED <<raw, holder, committed, fetched, normalized>>
    BY <1>7 DEF WritePoint, WriteFails, At, AloneInv, HandAlone
  <2>2. raw[fetched] \in Points /\ Upserted(hand[i].offset) = [stored EXCEPT ![raw[fetched]] = fetched]
    <3>1. raw[fetched] # None
      BY <1>1, <1>3, <2>1 DEF TypeOK, At
    <3>2. raw[fetched] \in Points
      BY <1>2, <1>3, <2>1, <3>1
    <3>3. QED
      BY <1>3, <2>1, <3>2 DEF Upserted, PointOf
  <2>3. stored' = stored \/ stored' = [stored EXCEPT ![raw[fetched]] = fetched]
    BY <1>7, <2>2 DEF WritePoint, WriteFails
  <2>4. ASSUME NEW k \in 1 .. Len(normalized)
        PROVE  stored'[raw[normalized[k]]] >= normalized[k]
    <3>1. normalized[k] \in 1 .. Len(raw) /\ normalized[k] < fetched
      BY <1>2, <2>1
    <3>2. raw[normalized[k]] \in Points /\ stored[raw[normalized[k]]] >= normalized[k]
      <4>1. raw[normalized[k]] # None /\ stored[raw[normalized[k]]] >= normalized[k]
        BY <2>4 DEF StoredInv, AloneInv
      <4>2. QED
        BY <1>2, <3>1, <4>1
    <3>3. stored'[raw[normalized[k]]] = stored[raw[normalized[k]]]
          \/ stored'[raw[normalized[k]]] = fetched
      BY <1>2, <2>2, <2>3, <3>2
    <3>4. stored[raw[normalized[k]]] \in Nat /\ normalized[k] \in Nat
      BY <1>2, <3>1, <3>2
    <3>5. QED
      BY <1>2, <3>1, <3>2, <3>3, <3>4
  <2>5. \A j \in Replicas : HandAlone(j)'
    <3>1. CASE Drop(i)
      BY <1>5, <2>1, <3>1
    <3>2. CASE hand' = [hand EXCEPT ![i].pc = "publish"] /\ stored' = Upserted(hand[i].offset)
      <4>1. hand' = [hand EXCEPT ![i] = [hand[i] EXCEPT !.pc = "publish"]]
            /\ hand'[i] = [hand[i] EXCEPT !.pc = "publish"]
        BY <1>2, <3>2
      <4>2. hand'[i].offset = fetched /\ hand'[i].pc = "publish"
        <5>1. /\ [hand[i] EXCEPT !.pc = "publish"].offset = hand[i].offset
              /\ [hand[i] EXCEPT !.pc = "publish"].pc = "publish"
          BY <1>3, <2>1, HandMoved
        <5>2. QED
          BY <1>3, <2>1, <4>1, <5>1
      <4>3. stored'[raw[fetched]] = fetched
        BY <1>2, <2>2, <3>2
      <4>4. HandAlone(i)'
        BY <1>2, <1>3, <2>1, <4>2, <4>3 DEF HandAlone
      <4>5. QED
        BY <1>1, <1>3, <2>1, <4>1, <4>4, HandKept
    <3>3. QED
      BY <1>7, <3>1, <3>2 DEF WritePoint, WriteFails
  <2>6. QED
    BY <2>1, <2>4, <2>5 DEF AloneInv
<1>8. CASE PublishReading(i) \/ PublishFails(i)
  <2>1. /\ hand[i] # None /\ hand[i].pc = "publish"
        /\ committed = fetched /\ \A k \in 1 .. Len(normalized) : normalized[k] < fetched
        /\ stored[raw[fetched]] >= fetched
        /\ UNCHANGED <<raw, holder, committed, fetched, stored>>
    BY <1>8 DEF PublishReading, PublishFails, At, AloneInv, HandAlone
  <2>2. normalized' = normalized \/ normalized' = Append(normalized, fetched)
    BY <1>3, <1>8, <2>1 DEF PublishReading, PublishFails
  <2>3. hand' = [hand EXCEPT ![i] = None] /\ hand'[i] = None
    BY <1>2, <1>8 DEF PublishReading, PublishFails, Drop
  <2>4. \A j \in Replicas : HandAlone(j)'
    <3>1. HandAlone(i)'
      BY <2>3 DEF HandAlone
    <3>2. QED
      BY <1>1, <1>3, <2>1, <2>3, <3>1, HandKept
  <2>5. CASE normalized' = normalized
    BY <2>1, <2>4, <2>5 DEF AloneInv
  <2>6. CASE normalized' = Append(normalized, fetched)
    <3>1. /\ Len(normalized') = Len(normalized) + 1 /\ Len(normalized) \in Nat
          /\ normalized'[Len(normalized) + 1] = fetched
          /\ \A k \in 1 .. Len(normalized) : normalized'[k] = normalized[k]
      BY <1>2, <1>3, <2>1, <2>6
    <3>2. \A k \in 1 .. Len(normalized') :
            k = Len(normalized) + 1 \/ k \in 1 .. Len(normalized)
      BY <3>1
    <3>3. \A k \in 1 .. Len(normalized') :
            normalized'[k] <= committed' /\ stored'[raw'[normalized'[k]]] >= normalized'[k]
      BY <1>2, <2>1, <3>1, <3>2 DEF AloneInv
    <3>4. ASSUME NEW k \in 1 .. Len(normalized'), NEW l \in 1 .. Len(normalized'), k < l
          PROVE  normalized'[k] < normalized'[l]
      <4>1. k \in 1 .. Len(normalized) /\ normalized'[k] = normalized[k]
        BY <3>1, <3>4
      <4>2. CASE l = Len(normalized) + 1
        BY <2>1, <3>1, <4>1, <4>2
      <4>3. CASE l \in 1 .. Len(normalized)
        <5>1. normalized[k] < normalized[l]
          BY <3>4, <4>1, <4>3 DEF AloneInv
        <5>2. QED
          BY <3>1, <4>1, <4>3, <5>1
      <4>4. QED
        BY <3>2, <4>2, <4>3
    <3>5. QED
      BY <2>1, <2>4, <3>3, <3>4 DEF AloneInv
  <2>7. QED
    BY <2>2, <2>5, <2>6
<1>9. QED
  BY <1>4, <1>6, <1>7, <1>8 DEF Process

\* Without a rebalance, a replica that restarts gets its own partition back.
LEMMA AloneRestart ==
  ASSUME TypeOK, AloneInv, NEW i \in Replicas, NEW j \in Replicas, Restart(i, j), holder = i => i = j
  PROVE  AloneInv'
<1>1. /\ UNCHANGED <<raw, committed, stored, normalized>>
      /\ hand' = [hand EXCEPT ![i] = None]
      /\ \/ holder = i /\ holder' = i /\ fetched' = committed
         \/ holder # i /\ UNCHANGED <<holder, fetched>>
  BY DEF Restart, Move
<1>2. hand \in [Replicas -> Hand \cup {None}] /\ committed \in Nat /\ Len(raw) \in Nat
  BY DEF TypeOK
<1>3. hand'[i] = None /\ \A k \in Replicas : k # i => hand'[k] = hand[k]
  BY <1>1, <1>2
<1>4. CASE holder = i
  <2>1. \A k \in Replicas : hand'[k] = None
    BY <1>3, <1>4 DEF AloneInv, HandAlone
  <2>2. QED
    BY <1>1, <1>2, <1>4, <2>1 DEF AloneInv, HandAlone
<1>5. CASE holder # i
  BY <1>1, <1>3, <1>5 DEF AloneInv, HandAlone
<1>6. QED
  BY <1>4, <1>5

LEMMA AlonePublish ==
  ASSUME StoredInv, AloneInv, NEW p \in Points \cup {None}, PublishRaw(p)
  PROVE  AloneInv'
<1>1. /\ raw \in Seq(Points \cup {None}) /\ normalized \in Seq(1 .. Len(raw))
      /\ hand \in [Replicas -> Hand \cup {None}]
  BY DEF StoredInv, TypeOK
<1>2. /\ raw' = Append(raw, p)
      /\ UNCHANGED <<committed, holder, fetched, hand, stored, normalized>>
  BY DEF PublishRaw, worker
<1>3. \A o \in 1 .. Len(raw) : raw'[o] = raw[o]
  BY <1>1, <1>2
<1>4. ASSUME NEW i \in Replicas
      PROVE  HandAlone(i)'
  <2>1. hand[i] # None => fetched \in 1 .. Len(raw)
    BY <1>1 DEF AloneInv, HandAlone, Hand
  <2>2. QED
    BY <1>2, <1>3, <2>1 DEF AloneInv, HandAlone
<1>5. \A k \in 1 .. Len(normalized) : raw'[normalized[k]] = raw[normalized[k]]
  BY <1>1, <1>3
<1>6. QED
  BY <1>2, <1>4, <1>5 DEF AloneInv

\* A step that leaves rebalanced FALSE is of a loop, of the publisher, or the
\* restart of a replica that keeps its partition.
LEMMA NotRebalanced ==
  ASSUME [Next]_vars, ~rebalanced'
  PROVE  /\ ~rebalanced
         /\ \/ \E p \in Points \cup {None} : PublishRaw(p)
            \/ \E i \in Replicas : Process(i)
            \/ \E i, j \in Replicas : Restart(i, j) /\ (holder = i => i = j)
            \/ UNCHANGED vars
<1>1. ASSUME NEW i \in Replicas, Rebalance(i)
      PROVE  FALSE
  BY <1>1 DEF Rebalance
<1>2. ASSUME NEW i \in Replicas, NEW j \in Replicas, Restart(i, j)
      PROVE  ~rebalanced /\ (holder = i => i = j)
  <2>1. CASE holder # i /\ rebalanced' = rebalanced
    BY <2>1, Zenon
  <2>2. CASE holder = i /\ rebalanced' = (rebalanced \/ i # j)
    BY <2>2
  <2>3. QED
    BY <1>2, <2>1, <2>2, Zenon DEF Restart
<1>3. ASSUME NEW i \in Replicas, Process(i)
      PROVE  ~rebalanced
  BY <1>3, Zenon DEF Process, FetchMessage, CommitMessage, CommitFails, WritePoint, WriteFails,
                     PublishReading, PublishFails
<1>4. ASSUME NEW p \in Points \cup {None}, PublishRaw(p)
      PROVE  ~rebalanced
  BY <1>4, Zenon DEF PublishRaw
<1>5. UNCHANGED vars => ~rebalanced
  BY Zenon DEF vars
<1>6. QED
  BY <1>1, <1>2, <1>3, <1>4, <1>5, Zenon DEF Next

LEMMA OrderInit == Init => OrderInv
<1> SUFFICES ASSUME Init PROVE OrderInv
  OBVIOUS
<1>1. /\ committed = 0 /\ fetched = 0 /\ Len(normalized) = 0
      /\ \A i \in Replicas : hand[i] = None
  BY DEF Init
<1>2. AloneInv
  BY <1>1 DEF AloneInv, HandAlone
<1>3. QED
  BY <1>2, StoredInit, Zenon DEF OrderInv

LEMMA OrderStep == OrderInv /\ [Next]_vars => OrderInv'
<1> SUFFICES ASSUME OrderInv, [Next]_vars PROVE OrderInv'
  OBVIOUS
<1>1. StoredInv /\ TypeOK
  BY Zenon DEF OrderInv, StoredInv
<1>2. ASSUME AloneInv, UNCHANGED vars
      PROVE  AloneInv'
  BY <1>2 DEF AloneInv, HandAlone, vars, worker
<1>3. ASSUME ~rebalanced'
      PROVE  AloneInv'
  <2>1. AloneInv
    BY <1>3, NotRebalanced, Zenon DEF OrderInv
  <2>2. QED
    BY <1>1, <1>2, <1>3, <2>1, NotRebalanced, AlonePublish, AloneWork, AloneRestart, Zenon
<1>4. QED
  BY <1>1, <1>3, StoredStep, Zenon DEF OrderInv

\* Whatever is found in normalized.sensor has its point in InfluxDB, written
\* before it was published; until a rebalance, the point holds that reading or
\* a later one.
THEOREM PublicationsAreStored == Spec => []NormalizedIsStored
<1>1. ASSUME StoredInv, NEW o \in Offsets(normalized)
      PROVE  stored[PointOf(o)] # 0
  BY <1>1 DEF StoredInv, Offsets, PointOf
<1>2. ASSUME AloneInv, NEW o \in Offsets(normalized)
      PROVE  stored[PointOf(o)] >= o
  BY <1>2 DEF AloneInv, Offsets, PointOf
<1>3. OrderInv => NormalizedIsStored
  BY <1>1, <1>2, Zenon DEF OrderInv, NormalizedIsStored
<1>4. QED
  BY <1>3, OrderInit, OrderStep, PTL DEF Spec

\* Until a rebalance, readings of a channel reach normalized.sensor at most once
\* and in the order of raw.sensor.ingest, whatever call fails, with or without
\* effect, and whichever replica restarts.
THEOREM PublicationsAreInOrder == Spec => []NormalizedInOrder
<1>1. AloneInv => \A k, l \in 1 .. Len(normalized) : k < l => normalized[k] < normalized[l]
  BY DEF AloneInv
<1>2. OrderInv => NormalizedInOrder
  BY <1>1, Zenon DEF OrderInv, NormalizedInOrder
<1>3. QED
  BY <1>2, OrderInit, OrderStep, PTL DEF Spec
=============================================================================
