-------------------------- MODULE RealtimeHubProofs --------------------------
(***************************************************************************)
(* Proofs about RealtimeHub, for any numbers of connections, channels,     *)
(* subscriptions and broadcasts and any capacities of the buffers.         *)
(***************************************************************************)
EXTENDS RealtimeHub, SequenceTheorems, TLAPS

(* Types.                                                                  *)

SubSet == [conn : Conns \cup {Nobody}, channel : Channels \cup {Nobody},
           buffer : BoundedSeq(Messages, SendBuffer), closed : BOOLEAN]

ForwarderSet == [state : {"none", "waiting", "holding", "ended"},
                 holds : BoundedSeq(Messages, 1)]

ConnSet == [pc : {"reading", "cleanup", "closed", "returned"},
            subs : SUBSET Subs, closing : SUBSET Subs,
            out : BoundedSeq(Sent, ConnBuffer), outClosed : BOOLEAN,
            pump : {"running", "ended"}]

ConsumerSet == [n : 0 .. MaxBroadcasts, fetched : BOOLEAN,
                channel : Channels \cup {Nobody}, targets : SUBSET Subs]

TypeInv == TypeOK /\ wire \in [Conns -> Seq(Sent)]

LEMMA Bounded ==
  ASSUME NEW S, NEW n \in Nat, NEW q
  PROVE  q \in BoundedSeq(S, n) <=> q \in Seq(S) /\ Len(q) <= n
<1>1. ASSUME q \in BoundedSeq(S, n) PROVE q \in Seq(S) /\ Len(q) <= n
  <2>1. PICK m \in 0 .. n : q \in [1 .. m -> S]
    BY <1>1 DEF BoundedSeq, SeqOf
  <2>2. q \in Seq(S) /\ Len(q) = m
    BY <2>1, IsASeq
  <2>3. QED
    BY <2>1, <2>2
<1>2. ASSUME q \in Seq(S), Len(q) <= n PROVE q \in BoundedSeq(S, n)
  <2>1. Len(q) \in 0 .. n /\ q \in [1 .. Len(q) -> S]
    BY <1>2, LenProperties
  <2>2. QED
    BY <2>1 DEF BoundedSeq, SeqOf
<1>3. QED
  BY <1>1, <1>2

LEMMA Buffers ==
  /\ <<>> \in BoundedSeq(Messages, SendBuffer)
  /\ <<>> \in BoundedSeq(Messages, 1)
  /\ <<>> \in BoundedSeq(Sent, ConnBuffer)
  /\ \A x \in Messages : <<x>> \in BoundedSeq(Messages, 1)
<1>1. \A S, q : \A n \in Nat : q \in Seq(S) /\ Len(q) <= n => q \in BoundedSeq(S, n)
  BY Bounded
<1>2. SendBuffer \in Nat /\ ConnBuffer \in Nat /\ 1 \in Nat
  BY BuffersNat
<1>3. \A n \in Nat : /\ <<>> \in Seq(Messages) /\ <<>> \in Seq(Sent) /\ Len(<<>>) <= n
                     /\ \A x \in Messages : <<x>> \in Seq(Messages) /\ Len(<<x>>) <= 1
  OBVIOUS
<1>4. QED
  BY <1>1, <1>2, <1>3, Zenon

\* What TypeOK says of one subscription, one forwarder, one connection.
LEMMA SubTyped ==
  ASSUME TypeOK, NEW s \in Subs
  PROVE  /\ sub[s] \in SubSet
         /\ sub[s].conn \in Conns \cup {Nobody} /\ sub[s].channel \in Channels \cup {Nobody}
         /\ sub[s].buffer \in Seq(Messages) /\ Len(sub[s].buffer) <= SendBuffer
         /\ sub[s].closed \in BOOLEAN
<1>1. sub[s] \in SubSet
  BY DEF TypeOK, SubSet
<1>2. QED
  BY <1>1, Bounded, BuffersNat DEF SubSet

LEMMA ForwarderTyped ==
  ASSUME TypeOK, NEW s \in Subs
  PROVE  /\ forwarder[s] \in ForwarderSet
         /\ forwarder[s].state \in {"none", "waiting", "holding", "ended"}
         /\ forwarder[s].holds \in Seq(Messages) /\ Len(forwarder[s].holds) <= 1
<1>1. forwarder[s] \in ForwarderSet
  BY DEF TypeOK, ForwarderSet
<1>2. QED
  BY <1>1, Bounded DEF ForwarderSet

LEMMA ConnTyped ==
  ASSUME TypeOK, NEW c \in Conns
  PROVE  /\ conn[c] \in ConnSet
         /\ conn[c].pc \in {"reading", "cleanup", "closed", "returned"}
         /\ conn[c].subs \subseteq Subs /\ conn[c].closing \subseteq Subs
         /\ conn[c].out \in Seq(Sent) /\ Len(conn[c].out) <= ConnBuffer
         /\ conn[c].outClosed \in BOOLEAN /\ conn[c].pump \in {"running", "ended"}
<1>1. conn[c] \in ConnSet
  BY DEF TypeOK, ConnSet
<1>2. QED
  BY <1>1, Bounded, BuffersNat DEF ConnSet

LEMMA AllTyped ==
  TypeInv <=> /\ sub \in [Subs -> SubSet] /\ forwarder \in [Subs -> ForwarderSet]
              /\ conn \in [Conns -> ConnSet] /\ wire \in [Conns -> Seq(Sent)]
              /\ hub \subseteq Subs /\ panicked \in BOOLEAN /\ consumer \in ConsumerSet
BY Zenon DEF TypeInv, TypeOK, SubSet, ForwarderSet, ConnSet, ConsumerSet

LEMMA TypeInit == Init => TypeInv
<1> SUFFICES ASSUME Init PROVE TypeInv
  OBVIOUS
<1>1. Unused \in SubSet
  BY Buffers DEF Unused, SubSet
<1>2. [state |-> "none", holds |-> <<>>] \in ForwarderSet
  BY Buffers DEF ForwarderSet
<1>3. [pc |-> "reading", subs |-> {}, closing |-> {}, out |-> <<>>, outClosed |-> FALSE,
       pump |-> "running"] \in ConnSet
  BY Buffers DEF ConnSet
<1>4. 0 \in 0 .. MaxBroadcasts
  BY BuffersNat
<1>5. sub \in [Subs -> SubSet] /\ forwarder \in [Subs -> ForwarderSet] /\ conn \in [Conns -> ConnSet]
  BY <1>1, <1>2, <1>3 DEF Init
<1>6. consumer \in ConsumerSet
  BY <1>4 DEF Init, ConsumerSet
<1>7. wire \in [Conns -> Seq(Sent)] /\ hub \subseteq Subs
  <2>1. <<>> \in Seq(Sent)
    OBVIOUS
  <2>2. QED
    BY <2>1 DEF Init
<1>8. panicked \in BOOLEAN
  BY Zenon DEF Init
<1>9. QED
  BY <1>5, <1>6, <1>7, <1>8, AllTyped, Zenon

\* A step that changes one subscription, one forwarder or one connection.
LEMMA TypesKept ==
  ASSUME TypeInv, hub' \subseteq Subs, panicked' \in BOOLEAN,
         sub' \in [Subs -> SubSet], forwarder' \in [Subs -> ForwarderSet],
         conn' \in [Conns -> ConnSet], consumer' = consumer, wire' \in [Conns -> Seq(Sent)]
  PROVE  TypeInv'
BY DEF TypeInv, TypeOK, SubSet, ForwarderSet, ConnSet

LEMMA BufferSet ==
  ASSUME NEW x \in SubSet, NEW q \in BoundedSeq(Messages, SendBuffer)
  PROVE  [x EXCEPT !.buffer = q] \in SubSet
BY DEF SubSet

LEMMA BufferAppend ==
  ASSUME TypeOK, NEW s \in Subs, NEW n \in Messages, Len(sub[s].buffer) # SendBuffer
  PROVE  Append(sub[s].buffer, n) \in BoundedSeq(Messages, SendBuffer)
<1>1. sub[s].buffer \in Seq(Messages) /\ Len(sub[s].buffer) <= SendBuffer /\ SendBuffer \in Nat
  BY SubTyped, BuffersNat
<1>2. /\ Append(sub[s].buffer, n) \in Seq(Messages)
      /\ Len(Append(sub[s].buffer, n)) <= SendBuffer
  BY <1>1, AppendProperties
<1>3. QED
  BY <1>1, <1>2, Bounded

LEMMA BufferTail ==
  ASSUME TypeOK, NEW s \in Subs, sub[s].buffer # <<>>
  PROVE  /\ Head(sub[s].buffer) \in Messages
         /\ Tail(sub[s].buffer) \in BoundedSeq(Messages, SendBuffer)
<1>1. sub[s].buffer \in Seq(Messages) /\ Len(sub[s].buffer) <= SendBuffer /\ SendBuffer \in Nat
  BY SubTyped, BuffersNat
<1>2. /\ Head(sub[s].buffer) \in Messages /\ Tail(sub[s].buffer) \in Seq(Messages)
      /\ Len(Tail(sub[s].buffer)) <= SendBuffer
  BY <1>1, HeadTailProperties
<1>3. QED
  BY <1>1, <1>2, Bounded

LEMMA OutAppend ==
  ASSUME TypeOK, NEW c \in Conns, NEW m \in Sent, Len(conn[c].out) # ConnBuffer
  PROVE  Append(conn[c].out, m) \in BoundedSeq(Sent, ConnBuffer)
<1>1. conn[c].out \in Seq(Sent) /\ Len(conn[c].out) <= ConnBuffer /\ ConnBuffer \in Nat
  BY ConnTyped, BuffersNat
<1>2. Append(conn[c].out, m) \in Seq(Sent) /\ Len(Append(conn[c].out, m)) <= ConnBuffer
  BY <1>1, AppendProperties
<1>3. QED
  BY <1>1, <1>2, Bounded

LEMMA OutTail ==
  ASSUME TypeOK, NEW c \in Conns
  PROVE  /\ SubSeq(conn[c].out, 2, Len(conn[c].out)) \in BoundedSeq(Sent, ConnBuffer)
         /\ conn[c].out # <<>> => /\ Head(conn[c].out) \in Sent
                                  /\ Tail(conn[c].out) \in BoundedSeq(Sent, ConnBuffer)
<1>1. conn[c].out \in Seq(Sent) /\ Len(conn[c].out) <= ConnBuffer /\ ConnBuffer \in Nat
  BY ConnTyped, BuffersNat
<1>2. /\ SubSeq(conn[c].out, 2, Len(conn[c].out)) \in Seq(Sent)
      /\ Len(SubSeq(conn[c].out, 2, Len(conn[c].out))) <= ConnBuffer
  BY <1>1, SubSeqProperties
<1>3. conn[c].out # <<>> => /\ Head(conn[c].out) \in Sent /\ Tail(conn[c].out) \in Seq(Sent)
                            /\ Len(Tail(conn[c].out)) <= ConnBuffer
  BY <1>1, HeadTailProperties
<1>4. QED
  BY <1>1, <1>2, <1>3, Bounded

\* Needed to keep the types: the consumer's number is that of a message once there
\* is something to write, and a forwarder that holds a message has somewhere to
\* send it.
Countable == consumer.fetched \/ consumer.targets # {} => consumer.n \in Messages

Addressed ==
  \A s \in Subs :
    /\ forwarder[s].state = "holding" <=> forwarder[s].holds # <<>>
    /\ forwarder[s].state # "none" => sub[s].conn \in Conns

TypedInv == TypeInv /\ Countable /\ Addressed

\* The steps of the handlers, the forwarders and the pumps: the consumer is at rest.
LEMMA TypedElsewhere ==
  ASSUME TypedInv, hub' \subseteq Subs, panicked' \in BOOLEAN, consumer' = consumer,
         sub' \in [Subs -> SubSet], forwarder' \in [Subs -> ForwarderSet],
         conn' \in [Conns -> ConnSet], wire' \in [Conns -> Seq(Sent)], Addressed'
  PROVE  TypedInv'
BY TypesKept DEF TypedInv, Countable

\* The steps of the consumer.
LEMMA ConsumerMoves ==
  ASSUME TypedInv, consumer' \in ConsumerSet, consumer'.n \in Messages, Addressed',
         sub' \in [Subs -> SubSet], UNCHANGED <<hub, forwarder, conn, panicked, wire>>
  PROVE  TypedInv'
<1>1. TypeInv'
  <2>1. /\ sub' \in [Subs -> SubSet] /\ forwarder' \in [Subs -> ForwarderSet]
        /\ conn' \in [Conns -> ConnSet] /\ wire' \in [Conns -> Seq(Sent)]
        /\ hub' \subseteq Subs /\ panicked' \in BOOLEAN /\ consumer' \in ConsumerSet
    BY AllTyped DEF TypedInv
  <2>2. QED
    BY <2>1, Zenon DEF TypeInv, TypeOK, SubSet, ForwarderSet, ConnSet, ConsumerSet
<1>2. QED
  BY <1>1 DEF TypedInv, Countable

LEMMA TypedStep == TypedInv /\ [Next]_vars => TypedInv'
<1> SUFFICES ASSUME TypedInv, [Next]_vars PROVE TypedInv'
  OBVIOUS
<1>1. TypeInv /\ TypeOK /\ Countable /\ Addressed
  BY DEF TypedInv, TypeInv
<1>2. /\ sub \in [Subs -> SubSet] /\ forwarder \in [Subs -> ForwarderSet]
      /\ conn \in [Conns -> ConnSet] /\ wire \in [Conns -> Seq(Sent)]
      /\ hub \subseteq Subs /\ panicked \in BOOLEAN
  BY <1>1, AllTyped
<1>3. consumer \in ConsumerSet
  BY <1>1, AllTyped
<1>4. \A s \in Subs, q \in BoundedSeq(Messages, SendBuffer) :
        /\ [sub EXCEPT ![s].buffer = q] \in [Subs -> SubSet]
        /\ \A t \in Subs : [sub EXCEPT ![s].buffer = q][t].conn = sub[t].conn
  BY <1>2 DEF SubSet
<1>5. ASSUME NEW ch \in Channels, FetchMessage(ch) PROVE TypedInv'
  <2>1. consumer' \in ConsumerSet
        /\ consumer'.n \in Messages
    <3>1. consumer.n \in 0 .. MaxBroadcasts /\ consumer.n < MaxBroadcasts
      BY <1>3, <1>5 DEF FetchMessage, ConsumerSet
    <3>2. consumer.n + 1 \in 0 .. MaxBroadcasts /\ consumer.n + 1 \in 1 .. MaxBroadcasts
      BY <3>1, BuffersNat
    <3>3. QED
      BY <1>3, <1>5, <3>2 DEF FetchMessage, Messages, ConsumerSet
  <2>2. QED
    BY <1>1, <1>2, <1>5, <2>1, ConsumerMoves DEF FetchMessage, Addressed
<1>6. ASSUME Broadcast PROVE TypedInv'
  <2>1. consumer' \in ConsumerSet
        /\ consumer'.n = consumer.n
    BY <1>2, <1>3, <1>6 DEF Broadcast, ConsumerSet
  <2>2. QED
    BY <1>1, <1>2, <1>6, <2>1, ConsumerMoves DEF Broadcast, Countable, Addressed
<1>7. ASSUME NEW s \in Subs, Write(s) PROVE TypedInv'
  <2>1. consumer' \in ConsumerSet
        /\ consumer'.n = consumer.n /\ consumer.n \in Messages
    BY <1>1, <1>3, <1>7 DEF Write, Countable, ConsumerSet
  <2> DEFINE q == IF sub[s].closed \/ Len(sub[s].buffer) = SendBuffer THEN sub[s].buffer
                  ELSE Append(sub[s].buffer, consumer.n)
  <2>2. sub' = [sub EXCEPT ![s].buffer = q]
    BY <1>7 DEF Write
  <2>3. q \in BoundedSeq(Messages, SendBuffer)
    BY <1>1, <2>1, SubTyped, BufferAppend DEF SubSet
  <2> HIDE DEF q
  <2>4. sub' \in [Subs -> SubSet] /\ \A t \in Subs : sub'[t].conn = sub[t].conn
    BY <1>4, <2>2, <2>3
  <2>5. Addressed'
    BY <1>1, <1>7, <2>4 DEF Addressed, Write
  <2>6. QED
    BY <1>1, <1>2, <1>7, <2>1, <2>4, <2>5, ConsumerMoves DEF Write
<1>8. ASSUME NEW c \in Conns, NEW ch \in Channels, NEW s \in Subs, Register(c, ch, s)
      PROVE  /\ hub' \subseteq Subs /\ sub' \in [Subs -> SubSet] /\ conn' \in [Conns -> ConnSet]
             /\ sub'[s].conn = c /\ \A t \in Subs \ {s} : sub'[t] = sub[t]
  <2>1. [Unused EXCEPT !.conn = c, !.channel = ch] \in SubSet
        /\ [Unused EXCEPT !.conn = c, !.channel = ch].conn = c
    BY Buffers DEF Unused, SubSet
  <2>2. [conn[c] EXCEPT !.subs = @ \cup {s}] \in ConnSet
    BY <1>2 DEF ConnSet
  <2>3. conn' = [conn EXCEPT ![c] = [conn[c] EXCEPT !.subs = @ \cup {s}]]
    BY <1>2, <1>8 DEF Register
  <2>4. QED
    BY <1>2, <1>8, <2>1, <2>2, <2>3 DEF Register
<1>9. ASSUME NEW c \in Conns, NEW ch \in Channels, NEW s \in Subs,
             Subscribe(c, ch, s) \/ OpenStream(c, ch, s)
      PROVE  TypedInv'
  <2>1. Register(c, ch, s)
    BY <1>9 DEF Subscribe, OpenStream
  <2>2. /\ forwarder' \in [Subs -> ForwarderSet]
        /\ \A t \in Subs : /\ forwarder'[t].holds = forwarder[t].holds
                           /\ forwarder'[t].state = forwarder[t].state \/ (t = s /\ forwarder'[t].state = "waiting")
    <3> DEFINE f == [forwarder[s] EXCEPT !.state = "waiting"]
    <3>1. forwarder' = forwarder \/ forwarder' = [forwarder EXCEPT ![s] = f]
      BY <1>9 DEF Subscribe, OpenStream
    <3>2. f \in ForwarderSet /\ f.holds = forwarder[s].holds /\ f.state = "waiting"
      <4>1. forwarder[s] \in ForwarderSet
        BY <1>2
      <4>2. QED
        BY <4>1 DEF ForwarderSet
    <3> HIDE DEF f
    <3>3. QED
      BY <1>2, <3>1, <3>2
  <2>3. forwarder[s].state = "none"
    <3>1. sub[s].conn = Nobody
      BY <2>1 DEF Register, Unused
    <3>2. QED
      BY <1>1, <3>1, ConnsDisjoint DEF Addressed
  <2>4. Addressed'
    BY <1>1, <1>8, <2>1, <2>2, <2>3 DEF Addressed
  <2>5. QED
    BY <1>2, <1>8, <1>9, <2>1, <2>2, <2>4, TypedElsewhere DEF Subscribe, OpenStream
<1>10. ASSUME NEW c \in Conns, NEW r \in ConnSet, conn' = [conn EXCEPT ![c] = r],
              UNCHANGED <<sub, forwarder, consumer, panicked, wire>>, hub' \subseteq Subs
       PROVE  TypedInv'
  <2>1. conn' \in [Conns -> ConnSet] /\ Addressed'
    BY <1>1, <1>2, <1>10 DEF Addressed
  <2>2. QED
    BY <1>2, <1>10, <2>1, TypedElsewhere
<1>11. \A c \in Conns : conn[c] \in ConnSet
  BY <1>2
<1>12. ASSUME NEW c \in Conns, NEW s \in Subs, Unsubscribe(c, s) PROVE TypedInv'
  <2>1. [conn[c] EXCEPT !.closing = {s}] \in ConnSet
    BY <1>11 DEF ConnSet
  <2>2. QED
    BY <1>2, <1>10, <1>12, <2>1 DEF Unsubscribe
<1>13. ASSUME NEW c \in Conns, NEW s \in Subs, Close(c, s) PROVE TypedInv'
  <2>1. [conn[c] EXCEPT !.closing = {}, !.subs = @ \ {s}] \in ConnSet
    BY <1>11 DEF ConnSet
  <2>2. conn' = [conn EXCEPT ![c] = [conn[c] EXCEPT !.closing = {}, !.subs = @ \ {s}]]
    BY <1>2, <1>13 DEF Close
  <2>3. sub' \in [Subs -> SubSet] /\ \A t \in Subs : sub'[t].conn = sub[t].conn
    BY <1>2, <1>13 DEF Close, SubSet
  <2>4. conn' \in [Conns -> ConnSet]
    BY <1>2, <2>1, <2>2
  <2>5. Addressed'
    BY <1>1, <1>13, <2>3 DEF Addressed, Close
  <2>6. QED
    BY <1>2, <1>13, <2>3, <2>4, <2>5, TypedElsewhere DEF Close
<1>14. ASSUME NEW c \in Conns, ClientGone(c) \/ CloseConnSend(c) \/ Return(c) PROVE TypedInv'
  <2>1. /\ [conn[c] EXCEPT !.pc = "cleanup"] \in ConnSet
        /\ [conn[c] EXCEPT !.pc = "returned"] \in ConnSet
        /\ [conn[c] EXCEPT !.outClosed = TRUE, !.pc = "closed"] \in ConnSet
    BY <1>11 DEF ConnSet
  <2>2. [conn EXCEPT ![c].outClosed = TRUE, ![c].pc = "closed"]
          = [conn EXCEPT ![c] = [conn[c] EXCEPT !.outClosed = TRUE, !.pc = "closed"]]
    BY <1>2
  <2>3. QED
    BY <1>2, <1>10, <1>14, <2>1, <2>2 DEF ClientGone, CloseConnSend, Return
<1>15. ASSUME NEW s \in Subs, Receive(s) PROVE TypedInv'
  <2> DEFINE q == Tail(sub[s].buffer)
             f == [state |-> "holding", holds |-> <<Head(sub[s].buffer)>>]
  <2>1. q \in BoundedSeq(Messages, SendBuffer) /\ Head(sub[s].buffer) \in Messages
    BY <1>1, <1>15, BufferTail DEF Receive
  <2>2. f \in ForwarderSet /\ f.state = "holding" /\ f.holds # <<>>
    BY <2>1, Buffers DEF ForwarderSet
  <2>3. sub' = [sub EXCEPT ![s].buffer = q] /\ forwarder' = [forwarder EXCEPT ![s] = f]
    BY <1>15 DEF Receive
  <2> HIDE DEF q, f
  <2>4. sub' \in [Subs -> SubSet] /\ \A t \in Subs : sub'[t].conn = sub[t].conn
    BY <1>4, <2>1, <2>3
  <2>5. /\ forwarder' \in [Subs -> ForwarderSet] /\ forwarder'[s] = f
        /\ \A t \in Subs \ {s} : forwarder'[t] = forwarder[t]
    BY <1>2, <2>2, <2>3
  <2>6. sub[s].conn \in Conns
    BY <1>1, <1>15 DEF Receive, Addressed
  <2>7. Addressed'
    BY <1>1, <2>2, <2>4, <2>5, <2>6 DEF Addressed
  <2>8. QED
    BY <1>2, <1>15, <2>4, <2>5, <2>7, TypedElsewhere DEF Receive
<1>16. ASSUME NEW s \in Subs, Forward(s) PROVE TypedInv'
  <2> DEFINE c == sub[s].conn
             m == [n |-> Head(forwarder[s].holds), from |-> s]
             q == IF Len(conn[c].out) = ConnBuffer THEN conn[c].out ELSE Append(conn[c].out, m)
             r == [conn[c] EXCEPT !.out = q]
             f == [state |-> "waiting", holds |-> <<>>]
  <2>1. c \in Conns /\ forwarder[s].holds # <<>>
    BY <1>1, <1>16 DEF Forward, Addressed
  <2>2. m \in Sent
    BY <1>1, <2>1, ForwarderTyped, HeadTailProperties DEF Sent
  <2>3. q \in BoundedSeq(Sent, ConnBuffer)
    BY <1>1, <1>11, <2>1, <2>2, OutAppend DEF ConnSet
  <2> HIDE DEF q, m
  <2>4. r \in ConnSet
    BY <1>11, <2>1, <2>3 DEF ConnSet
  <2>5. conn' = [conn EXCEPT ![c] = r] /\ forwarder' = [forwarder EXCEPT ![s] = f]
    BY <1>2, <1>16, <2>1 DEF Forward, m, q
  <2>6. f \in ForwarderSet /\ f.state = "waiting" /\ f.holds = <<>>
    BY Buffers DEF ForwarderSet
  <2> HIDE DEF f, r, c
  <2>7. /\ forwarder' \in [Subs -> ForwarderSet] /\ conn' \in [Conns -> ConnSet]
        /\ forwarder'[s] = f /\ \A t \in Subs \ {s} : forwarder'[t] = forwarder[t]
    BY <1>2, <2>1, <2>4, <2>5, <2>6
  <2>8. Addressed'
    BY <1>1, <1>16, <2>1, <2>6, <2>7 DEF Addressed, Forward, c
  <2>9. panicked' \in BOOLEAN
    BY <1>2, <1>16, <2>1, ConnTyped, <1>1 DEF Forward, c
  <2>10. QED
    BY <1>2, <1>16, <2>7, <2>8, <2>9, TypedElsewhere DEF Forward
<1>17. ASSUME NEW s \in Subs, ForwarderEnds(s) PROVE TypedInv'
  <2>1. /\ forwarder' \in [Subs -> ForwarderSet]
        /\ \A t \in Subs \ {s} : forwarder'[t] = forwarder[t]
        /\ forwarder'[s].state = "ended" /\ forwarder'[s].holds = forwarder[s].holds
    BY <1>2, <1>17 DEF ForwarderEnds, ForwarderSet
  <2>2. Addressed'
    BY <1>1, <1>17, <2>1 DEF Addressed, ForwarderEnds
  <2>3. QED
    BY <1>2, <1>17, <2>1, <2>2, TypedElsewhere DEF ForwarderEnds
<1>18. ASSUME NEW c \in Conns, NEW q \in BoundedSeq(Sent, ConnBuffer), NEW p \in {"running", "ended"}
       PROVE  [conn[c] EXCEPT !.out = q, !.pump = p] \in ConnSet /\ [conn[c] EXCEPT !.out = q] \in ConnSet
              /\ [conn[c] EXCEPT !.pump = p] \in ConnSet
  BY <1>11 DEF ConnSet
<1>19. ASSUME NEW c \in Conns, PumpWrites(c) PROVE TypedInv'
  <2>1. Head(conn[c].out) \in Sent /\ Tail(conn[c].out) \in BoundedSeq(Sent, ConnBuffer)
    BY <1>1, <1>19, OutTail DEF PumpWrites
  <2>2. conn' \in [Conns -> ConnSet]
    BY <1>2, <1>18, <1>19, <2>1 DEF PumpWrites
  <2>3. Append(wire[c], Head(conn[c].out)) \in Seq(Sent)
    BY <1>2, <2>1, AppendProperties
  <2>4. wire' \in [Conns -> Seq(Sent)]
    BY <1>2, <1>19, <2>3 DEF PumpWrites
  <2>5. QED
    BY <1>1, <1>2, <1>19, <2>2, <2>4, TypedElsewhere DEF PumpWrites, Addressed
<1>20. ASSUME NEW c \in Conns, PumpFails(c) PROVE TypedInv'
  <2>1. PICK q \in {conn[c].out, SubSeq(conn[c].out, 2, Len(conn[c].out))} :
          conn' = [conn EXCEPT ![c].pump = "ended", ![c].out = q]
    BY <1>20 DEF PumpFails
  <2>2. q \in BoundedSeq(Sent, ConnBuffer)
    BY <1>1, <1>11, OutTail DEF ConnSet
  <2>3. conn' = [conn EXCEPT ![c] = [conn[c] EXCEPT !.out = q, !.pump = "ended"]]
    BY <1>2, <2>1 DEF ConnSet
  <2>4. QED
    BY <1>2, <1>10, <1>18, <1>20, <2>2, <2>3 DEF PumpFails
<1>21. ASSUME NEW c \in Conns, PumpEnds(c) PROVE TypedInv'
  BY <1>2, <1>10, <1>18, <1>11, <1>21, Buffers DEF PumpEnds
<1>22. ASSUME NEW c \in Conns, StreamWrites(c) PROVE TypedInv'
  <2>1. PICK s \in conn[c].subs :
          /\ sub[s].buffer # <<>>
          /\ wire' = [wire EXCEPT ![c] = Append(@, [n |-> Head(sub[s].buffer), from |-> s])]
          /\ sub' = [sub EXCEPT ![s].buffer = Tail(@)]
          /\ UNCHANGED <<hub, forwarder, conn, consumer, panicked>>
    BY <1>22 DEF StreamWrites
  <2>2. s \in Subs
    BY <1>1, ConnTyped
  <2>3. Head(sub[s].buffer) \in Messages /\ Tail(sub[s].buffer) \in BoundedSeq(Messages, SendBuffer)
    BY <1>1, <2>1, <2>2, BufferTail
  <2>4. sub' \in [Subs -> SubSet] /\ \A t \in Subs : sub'[t].conn = sub[t].conn
    BY <1>4, <2>1, <2>2, <2>3
  <2>5. Append(wire[c], [n |-> Head(sub[s].buffer), from |-> s]) \in Seq(Sent)
    BY <1>2, <2>2, <2>3, AppendProperties DEF Sent
  <2>6. wire' \in [Conns -> Seq(Sent)]
    BY <1>2, <2>1, <2>5
  <2>7. Addressed'
    BY <1>1, <2>1, <2>4 DEF Addressed
  <2>8. QED
    BY <1>2, <2>1, <2>4, <2>6, <2>7, TypedElsewhere
<1>23. CASE UNCHANGED vars
  BY <1>1, <1>23 DEF vars, TypedInv, TypeInv, TypeOK, Countable, Addressed
<1>24. QED
  BY <1>5, <1>6, <1>7, <1>9, <1>12, <1>13, <1>14, <1>15, <1>16, <1>17, <1>19, <1>20, <1>21,
     <1>22, <1>23
     DEF Next, Broadcasting, Commands, Cleanup, Pump, Forwarding, Conns

LEMMA TypedInit == Init => TypedInv
<1> SUFFICES ASSUME Init PROVE TypedInv
  OBVIOUS
<1>1. Countable /\ Addressed
  BY DEF Init, Countable, Addressed
<1>2. QED
  BY <1>1, TypeInit DEF TypedInv

\* Every variable keeps its shape; the buffers never hold more than the code's
\* make(chan, n) gives them, and no forwarder more than one message.
THEOREM TypeCorrect == Spec => []TypeOK
<1>1. TypedInv => TypeOK
  BY DEF TypedInv, TypeInv
<1>2. QED
  BY <1>1, TypedInit, TypedStep, PTL DEF Spec

-----------------------------------------------------------------------------
(* What the steps of a handler do to each subscription and connection.     *)

LEMMA RegisterEffect ==
  ASSUME TypedInv, NEW c \in Conns, NEW ch \in Channels, NEW s \in Subs, Register(c, ch, s)
  PROVE  /\ sub[s].conn = Nobody /\ sub[s].buffer = <<>> /\ forwarder[s].state = "none"
         /\ sub'[s].conn = c /\ sub'[s].channel = ch /\ sub'[s].buffer = <<>> /\ ~sub'[s].closed
         /\ \A t \in Subs \ {s} : sub'[t] = sub[t]
         /\ hub' = hub \cup {s}
         /\ conn'[c].subs = conn[c].subs \cup {s}
         /\ conn'[c].pc = conn[c].pc /\ conn'[c].closing = conn[c].closing
         /\ conn'[c].out = conn[c].out /\ conn'[c].outClosed = conn[c].outClosed
         /\ conn'[c].pump = conn[c].pump
         /\ \A d \in Conns \ {c} : conn'[d] = conn[d]
<1>1. sub \in [Subs -> SubSet] /\ conn \in [Conns -> ConnSet]
  BY AllTyped DEF TypedInv
<1>2. sub[s] = Unused /\ Unused.conn = Nobody /\ Unused.buffer = <<>>
  BY DEF Register, Unused
<1>3. forwarder[s].state = "none"
  BY <1>2, ConnsDisjoint DEF TypedInv, Addressed
<1>4. sub'[s] = [Unused EXCEPT !.conn = c, !.channel = ch]
      /\ \A t \in Subs \ {s} : sub'[t] = sub[t]
  BY <1>1 DEF Register
<1>5. sub'[s].conn = c /\ sub'[s].channel = ch /\ sub'[s].buffer = <<>> /\ ~sub'[s].closed
  BY <1>4 DEF Unused
<1>6. conn' = [conn EXCEPT ![c] = [conn[c] EXCEPT !.subs = @ \cup {s}]]
  BY <1>1 DEF Register
<1>7. QED
  BY <1>1, <1>2, <1>3, <1>4, <1>5, <1>6 DEF Register, ConnSet

LEMMA UnsubscribeEffect ==
  ASSUME TypedInv, NEW c \in Conns, NEW s \in Subs, Unsubscribe(c, s)
  PROVE  /\ s \in conn[c].subs /\ conn[c].closing = {} /\ conn'[c].closing = {s}
         /\ hub' = hub \ {s}
         /\ conn'[c].subs = conn[c].subs /\ conn'[c].pc = conn[c].pc
         /\ conn'[c].out = conn[c].out /\ conn'[c].outClosed = conn[c].outClosed
         /\ conn'[c].pump = conn[c].pump
         /\ \A d \in Conns \ {c} : conn'[d] = conn[d]
<1>1. conn \in [Conns -> ConnSet]
  BY AllTyped DEF TypedInv
<1>2. QED
  BY <1>1 DEF Unsubscribe, ConnSet

LEMMA CloseEffect ==
  ASSUME TypedInv, NEW c \in Conns, NEW s \in Subs, Close(c, s)
  PROVE  /\ s \in conn[c].closing /\ conn'[c].closing = {}
         /\ conn'[c].subs = conn[c].subs \ {s} /\ conn'[c].pc = conn[c].pc
         /\ conn'[c].out = conn[c].out /\ conn'[c].outClosed = conn[c].outClosed
         /\ conn'[c].pump = conn[c].pump
         /\ \A d \in Conns \ {c} : conn'[d] = conn[d]
         /\ sub'[s].closed
         /\ sub'[s].conn = sub[s].conn /\ sub'[s].channel = sub[s].channel
         /\ sub'[s].buffer = sub[s].buffer
         /\ \A t \in Subs \ {s} : sub'[t] = sub[t]
<1>1. sub \in [Subs -> SubSet] /\ conn \in [Conns -> ConnSet]
  BY AllTyped DEF TypedInv
<1>2. conn' = [conn EXCEPT ![c] = [conn[c] EXCEPT !.closing = {}, !.subs = @ \ {s}]]
  BY <1>1 DEF Close
<1>3. sub' = [sub EXCEPT ![s] = [sub[s] EXCEPT !.closed = TRUE]]
  BY <1>1 DEF Close
<1>4. s \in conn[c].closing
  BY DEF Close
<1>5. QED
  BY <1>1, <1>2, <1>3, <1>4 DEF ConnSet, SubSet

\* The handler goes on to its next part; nothing else of the connection changes.
LEMMA PartEffect ==
  ASSUME TypedInv, NEW c \in Conns, ClientGone(c) \/ CloseConnSend(c) \/ Return(c)
  PROVE  /\ conn'[c].subs = conn[c].subs /\ conn'[c].closing = conn[c].closing
         /\ conn'[c].out = conn[c].out /\ conn'[c].pump = conn[c].pump
         /\ \A d \in Conns \ {c} : conn'[d] = conn[d]
         /\ ClientGone(c) => conn'[c].pc = "cleanup" /\ conn'[c].outClosed = conn[c].outClosed
         /\ CloseConnSend(c) => conn'[c].pc = "closed" /\ conn'[c].outClosed
         /\ Return(c) => conn'[c].pc = "returned" /\ conn'[c].outClosed = conn[c].outClosed
<1>1. conn \in [Conns -> ConnSet]
  BY AllTyped DEF TypedInv
<1>2. CASE ClientGone(c)
  <2>1. conn' = [conn EXCEPT ![c] = [conn[c] EXCEPT !.pc = "cleanup"]] /\ conn[c].pc = "reading"
    BY <1>1, <1>2 DEF ClientGone, AtCommand
  <2>2. ~CloseConnSend(c) /\ ~Return(c)
    BY <2>1 DEF CloseConnSend, Return
  <2>3. QED
    BY <1>1, <2>1, <2>2 DEF ConnSet
<1>3. CASE CloseConnSend(c)
  <2>1. conn' = [conn EXCEPT ![c] = [conn[c] EXCEPT !.outClosed = TRUE, !.pc = "closed"]]
        /\ conn[c].pc = "cleanup" /\ c \in Sockets
    BY <1>1, <1>3 DEF CloseConnSend
  <2>2. ~ClientGone(c) /\ ~Return(c)
    BY <2>1 DEF ClientGone, AtCommand, Return
  <2>3. QED
    BY <1>1, <2>1, <2>2 DEF ConnSet
<1>4. CASE Return(c)
  <2>1. conn' = [conn EXCEPT ![c] = [conn[c] EXCEPT !.pc = "returned"]]
        /\ conn[c].pc # "reading" /\ (c \in Sockets => conn[c].pc = "closed")
    BY <1>1, <1>4 DEF Return
  <2>2. ~ClientGone(c) /\ ~CloseConnSend(c)
    BY <2>1 DEF ClientGone, AtCommand, CloseConnSend
  <2>3. QED
    BY <1>1, <2>1, <2>2 DEF ConnSet
<1>5. QED
  BY <1>2, <1>3, <1>4

-----------------------------------------------------------------------------
(* The same for the consumer, the forwarders and the pumps.                *)

\* Only the buffer of s changes.
BufferBecomes(s, q) ==
  /\ sub'[s].buffer = q
  /\ sub'[s].conn = sub[s].conn /\ sub'[s].channel = sub[s].channel
  /\ sub'[s].closed = sub[s].closed
  /\ \A t \in Subs \ {s} : sub'[t] = sub[t]

LEMMA BufferEffect ==
  ASSUME TypedInv, NEW s \in Subs, NEW q, sub' = [sub EXCEPT ![s].buffer = q]
  PROVE  BufferBecomes(s, q)
<1>1. sub \in [Subs -> SubSet]
  BY AllTyped DEF TypedInv
<1>2. QED
  BY <1>1 DEF BufferBecomes, SubSet

\* Only the outbound buffer of c changes.
OutBecomes(c, q) ==
  /\ conn'[c].out = q
  /\ conn'[c].pc = conn[c].pc /\ conn'[c].subs = conn[c].subs
  /\ conn'[c].closing = conn[c].closing /\ conn'[c].outClosed = conn[c].outClosed
  /\ \A d \in Conns \ {c} : conn'[d] = conn[d]

LEMMA WriteEffect ==
  ASSUME TypedInv, NEW s \in Subs, Write(s)
  PROVE  /\ consumer'.targets = consumer.targets \ {s} /\ consumer'.n = consumer.n
         /\ consumer'.fetched = consumer.fetched /\ consumer'.channel = consumer.channel
         /\ \/ BufferBecomes(s, sub[s].buffer)
            \/ BufferBecomes(s, Append(sub[s].buffer, consumer.n))
<1>1. consumer \in ConsumerSet
  BY AllTyped DEF TypedInv
<1>2. CASE sub[s].closed \/ Len(sub[s].buffer) = SendBuffer
  <2>1. sub' = [sub EXCEPT ![s].buffer = sub[s].buffer]
    BY <1>2 DEF Write
  <2>2. QED
    BY <1>1, <2>1, BufferEffect DEF Write, ConsumerSet
<1>3. CASE ~(sub[s].closed \/ Len(sub[s].buffer) = SendBuffer)
  <2>1. sub' = [sub EXCEPT ![s].buffer = Append(sub[s].buffer, consumer.n)]
    BY <1>3 DEF Write
  <2>2. QED
    BY <1>1, <2>1, BufferEffect DEF Write, ConsumerSet
<1>4. QED
  BY <1>2, <1>3

LEMMA ReceiveEffect ==
  ASSUME TypedInv, NEW s \in Subs, Receive(s)
  PROVE  /\ BufferBecomes(s, Tail(sub[s].buffer))
         /\ forwarder'[s].state = "holding" /\ forwarder'[s].holds = <<Head(sub[s].buffer)>>
         /\ \A t \in Subs \ {s} : forwarder'[t] = forwarder[t]
<1>1. forwarder \in [Subs -> ForwarderSet] /\ sub' = [sub EXCEPT ![s].buffer = Tail(sub[s].buffer)]
  BY AllTyped DEF TypedInv, Receive
<1>2. QED
  BY <1>1, BufferEffect DEF Receive

LEMMA ForwardEffect ==
  ASSUME TypedInv, NEW s \in Subs, Forward(s), NEW c, c = sub[s].conn
  PROVE  /\ c \in Conns /\ conn'[c].pump = conn[c].pump
         /\ \/ OutBecomes(c, conn[c].out)
            \/ OutBecomes(c, Append(conn[c].out, [n |-> Head(forwarder[s].holds), from |-> s]))
         /\ forwarder'[s].state = "waiting" /\ forwarder'[s].holds = <<>>
         /\ \A t \in Subs \ {s} : forwarder'[t] = forwarder[t]
<1>1. forwarder \in [Subs -> ForwarderSet] /\ conn \in [Conns -> ConnSet]
  BY AllTyped DEF TypedInv
<1>2. c \in Conns
  BY DEF TypedInv, Addressed, Forward
<1>3. ASSUME NEW q, conn' = [conn EXCEPT ![c].out = q]
      PROVE  OutBecomes(c, q) /\ conn'[c].pump = conn[c].pump
  BY <1>1, <1>2, <1>3 DEF OutBecomes, ConnSet
<1>4. \/ conn' = [conn EXCEPT ![c].out = conn[c].out]
      \/ conn' = [conn EXCEPT ![c].out =
                    Append(conn[c].out, [n |-> Head(forwarder[s].holds), from |-> s])]
  BY DEF Forward
<1>5. QED
  BY <1>1, <1>2, <1>3, <1>4 DEF Forward

LEMMA ForwarderEndsEffect ==
  ASSUME TypedInv, NEW s \in Subs, ForwarderEnds(s)
  PROVE  /\ forwarder'[s].state = "ended" /\ forwarder'[s].holds = forwarder[s].holds
         /\ \A t \in Subs \ {s} : forwarder'[t] = forwarder[t]
<1>1. forwarder \in [Subs -> ForwarderSet]
  BY AllTyped DEF TypedInv
<1>2. QED
  BY <1>1 DEF ForwarderEnds, ForwarderSet

LEMMA PumpEffect ==
  ASSUME TypedInv, NEW c \in Conns, Pump(c)
  PROVE  /\ conn[c].pump = "running" /\ c \in Sockets
         /\ PumpWrites(c) => OutBecomes(c, Tail(conn[c].out)) /\ conn'[c].pump = "running"
         /\ ~PumpWrites(c) =>
              /\ conn'[c].pump = "ended" /\ wire' = wire
              /\ \/ OutBecomes(c, conn[c].out)
                 \/ OutBecomes(c, SubSeq(conn[c].out, 2, Len(conn[c].out)))
<1>1. conn \in [Conns -> ConnSet]
  BY AllTyped DEF TypedInv
<1>2. CASE PumpWrites(c)
  BY <1>1, <1>2 DEF PumpWrites, OutBecomes, ConnSet
<1>3. CASE PumpFails(c) /\ ~PumpWrites(c)
  <2>1. PICK q \in {conn[c].out, SubSeq(conn[c].out, 2, Len(conn[c].out))} :
          conn' = [conn EXCEPT ![c].pump = "ended", ![c].out = q]
    BY <1>3 DEF PumpFails
  <2>2. conn' = [conn EXCEPT ![c] = [conn[c] EXCEPT !.pump = "ended", !.out = q]]
    BY <1>1, <2>1
  <2>3. OutBecomes(c, q) /\ conn'[c].pump = "ended"
    BY <1>1, <2>2 DEF OutBecomes, ConnSet
  <2>4. QED
    BY <1>3, <2>3 DEF PumpFails
<1>4. CASE PumpEnds(c) /\ ~PumpWrites(c)
  <2>1. conn' = [conn EXCEPT ![c] = [conn[c] EXCEPT !.pump = "ended"]]
    BY <1>1, <1>4 DEF PumpEnds
  <2>2. OutBecomes(c, conn[c].out) /\ conn'[c].pump = "ended"
    BY <1>1, <2>1 DEF OutBecomes, ConnSet
  <2>3. QED
    BY <1>4, <2>2 DEF PumpEnds
<1>5. QED
  BY <1>2, <1>3, <1>4 DEF Pump

-----------------------------------------------------------------------------
(* Who is registered, and what the end of a handler leaves.                *)

Shape ==
  /\ \A c \in Conns : /\ conn[c].closing \subseteq conn[c].subs
                      /\ \A s \in conn[c].subs : sub[s].conn = c
  /\ \A s \in hub : /\ sub[s].conn \in Conns
                    /\ s \in conn[sub[s].conn].subs \ conn[sub[s].conn].closing
  /\ \A c \in Conns : \A s \in Of(c) : s \in conn[c].subs \/ sub[s].closed
  /\ \A c \in Streams : \A s \in Of(c) : forwarder[s].state = "none"

AllEnded(c) == \A s \in Of(c) : forwarder[s].state = "ended"

Ending ==
  /\ \A c \in Conns : conn[c].outClosed => c \in Sockets /\ conn[c].pc \in {"closed", "returned"}
  /\ \A c \in Conns : conn[c].pc \in {"closed", "returned"} => conn[c].subs = {}
  /\ \A c \in Sockets : conn[c].pc \in {"closed", "returned"} => AllEnded(c)
  /\ \A c \in Sockets : conn[c].pc = "returned" => conn[c].pump = "ended"
  /\ ~panicked

HubInv == TypedInv /\ Shape /\ Ending

LEMMA HubInit == Init => HubInv
<1> SUFFICES ASSUME Init PROVE HubInv
  OBVIOUS
<1>1. \A s \in Subs : sub[s].conn = Nobody
  BY DEF Init, Unused
<1>2. \A c \in Conns : Of(c) = {}
  BY <1>1, ConnsDisjoint DEF Of
<1>3. \A c \in Conns : conn[c].pc = "reading" /\ conn[c].subs = {} /\ conn[c].closing = {}
                       /\ ~conn[c].outClosed
  BY DEF Init
<1>4. Shape
  BY <1>2, <1>3 DEF Init, Shape, Conns
<1>5. Ending
  BY <1>3 DEF Init, Ending, Conns
<1>6. QED
  BY <1>4, <1>5, TypedInit DEF HubInv

\* A step that leaves who is registered, and at what part each handler is, as it
\* was, and starts or ends no forwarder but one that has nothing to do.
Quiet ==
  /\ hub' = hub
  /\ \A s \in Subs : /\ sub'[s].conn = sub[s].conn /\ sub'[s].closed = sub[s].closed
                     /\ forwarder[s].state \in {"none", "ended"} => forwarder'[s] = forwarder[s]
  /\ \A c \in Conns : /\ conn'[c].subs = conn[c].subs /\ conn'[c].closing = conn[c].closing
                      /\ conn'[c].pc = conn[c].pc /\ conn'[c].outClosed = conn[c].outClosed
                      /\ conn[c].pump = "ended" => conn'[c].pump = "ended"

LEMMA QuietKeepsShape ==
  ASSUME HubInv, TypedInv', Quiet, ~panicked'
  PROVE  HubInv'
<1>1. \A c \in Conns : conn[c].subs \subseteq Subs
  BY ConnTyped DEF HubInv, TypedInv, TypeInv
<1>2. hub \subseteq Subs
  BY AllTyped DEF HubInv, TypedInv
<1>3. \A c \in Conns : Of(c)' = Of(c)
  BY DEF Of, Quiet
<1>4. Shape'
  BY <1>1, <1>2, <1>3 DEF HubInv, Shape, Quiet, Of, Conns
<1>5. Ending'
  BY <1>3 DEF HubInv, Ending, AllEnded, Quiet, Of, Conns
<1>6. QED
  BY <1>4, <1>5 DEF HubInv

LEMMA HubStep == HubInv /\ [Next]_vars => HubInv'
<1> SUFFICES ASSUME HubInv, [Next]_vars PROVE HubInv'
  OBVIOUS
<1>1. TypedInv /\ TypedInv' /\ Shape /\ Ending /\ ~panicked
  BY TypedStep DEF HubInv, Ending
<1>2. /\ \A c \in Conns : conn[c].subs \subseteq Subs /\ conn[c].closing \subseteq Subs
      /\ hub \subseteq Subs /\ Nobody \notin Conns /\ Sockets \cap Streams = {}
      /\ \A c \in Conns : Of(c) \subseteq Subs
  BY <1>1, ConnTyped, AllTyped, ConnsDisjoint DEF TypedInv, TypeInv, Of
<1>3. ASSUME Quiet, ~panicked' PROVE HubInv'
  BY <1>1, <1>3, QuietKeepsShape
<1>4. ASSUME NEW c \in Conns, NEW ch \in Channels, NEW s \in Subs,
             (c \in Sockets /\ Subscribe(c, ch, s)) \/ (c \in Streams /\ OpenStream(c, ch, s))
      PROVE  HubInv'
  <2>1. Register(c, ch, s) /\ conn[c].pc = "reading"
    BY <1>4 DEF Subscribe, OpenStream, AtCommand
  <2>2. \A d \in Conns : \A t \in Of(d) : t # s /\ t \in Subs /\ sub'[t] = sub[t]
    BY <1>1, <1>2, <2>1, RegisterEffect DEF Of
  <2>3. Of(c)' = Of(c) \cup {s} /\ \A d \in Conns \ {c} : Of(d)' = Of(d)
    BY <1>1, <1>2, <2>1, RegisterEffect DEF Of
  <2>4. /\ \A t \in Subs \ {s} : forwarder'[t] = forwarder[t]
        /\ c \in Streams => forwarder'[s] = forwarder[s]
    BY <1>1, <1>2, <1>4 DEF Subscribe, OpenStream, TypedInv, TypeInv, TypeOK
  <2>5. panicked' = panicked /\ s \notin hub /\ \A d \in Conns : s \notin conn[d].subs
    BY <1>1, <1>2, <1>4, <2>1, RegisterEffect DEF Subscribe, OpenStream, Shape
  <2>6. Shape'
    <3>1. \A d \in Conns : /\ conn'[d].closing \subseteq conn'[d].subs
                           /\ \A t \in conn'[d].subs : sub'[t].conn = d
      BY <1>1, <1>2, <2>1, <2>5, RegisterEffect DEF Shape
    <3>2. \A t \in hub' : sub'[t].conn \in Conns
                          /\ t \in conn'[sub'[t].conn].subs \ conn'[sub'[t].conn].closing
      BY <1>1, <1>2, <2>1, <2>5, RegisterEffect DEF Shape
    <3>3. \A d \in Conns : \A t \in Of(d)' : t \in conn'[d].subs \/ sub'[t].closed
      <4>1. s \in conn'[c].subs /\ \A d \in Conns : conn[d].subs \subseteq conn'[d].subs
        BY <1>1, <2>1, RegisterEffect
      <4>2. QED
        BY <1>1, <2>2, <2>3, <4>1 DEF Shape
    <3>4. \A d \in Streams : \A t \in Of(d)' : forwarder'[t].state = "none"
      <4>1. c \in Streams => forwarder'[s].state = "none"
        BY <1>1, <2>1, <2>4, RegisterEffect
      <4>2. \A d \in Streams : \A t \in Of(d) : forwarder'[t].state = "none"
        BY <1>1, <2>2, <2>4 DEF Shape, Conns
      <4>3. QED
        BY <2>3, <4>1, <4>2 DEF Conns
    <3>5. QED
      BY <3>1, <3>2, <3>3, <3>4 DEF Shape
  <2>7. Ending'
    <3>1. \A d \in Conns : /\ conn'[d].pc = conn[d].pc /\ conn'[d].outClosed = conn[d].outClosed
                           /\ conn'[d].pump = conn[d].pump
                           /\ d # c => conn'[d].subs = conn[d].subs
      BY <1>1, <2>1, RegisterEffect
    <3>2. \A d \in Sockets : conn'[d].pc \in {"closed", "returned"} => AllEnded(d)'
      <4>1. \A d \in Sockets : conn[d].pc \in {"closed", "returned"} => d # c /\ AllEnded(d)
        BY <1>1, <2>1 DEF Ending
      <4>2. \A d \in Sockets : d # c => s \notin Of(d)
        BY <1>1, <1>2, <2>1, RegisterEffect DEF Of, Conns
      <4>3. \A d \in Sockets : d # c /\ AllEnded(d) => AllEnded(d)'
        BY <1>2, <2>3, <2>4, <4>2 DEF AllEnded, Conns
      <4>4. QED
        BY <3>1, <4>1, <4>3 DEF Conns
    <3>3. QED
      BY <1>1, <2>1, <2>5, <3>1, <3>2 DEF Ending, Conns
  <2>8. QED
    BY <1>1, <2>6, <2>7 DEF HubInv
<1>5. ASSUME NEW c \in Conns, NEW s \in Subs, Unsubscribe(c, s) PROVE HubInv'
  <2>1. UNCHANGED <<sub, forwarder, panicked>> /\ s \in conn[c].subs
    BY <1>5 DEF Unsubscribe
  <2>2. \A d \in Conns : Of(d)' = Of(d) /\ AllEnded(d)' = AllEnded(d)
    BY <2>1 DEF Of, AllEnded
  <2>3. \A d \in Conns : /\ conn'[d].subs = conn[d].subs /\ conn'[d].pc = conn[d].pc
                         /\ conn'[d].outClosed = conn[d].outClosed /\ conn'[d].pump = conn[d].pump
    BY <1>1, <1>5, UnsubscribeEffect
  <2>4. Shape'
    <3>1. \A d \in Conns : /\ conn'[d].closing \subseteq conn'[d].subs
                           /\ \A t \in conn'[d].subs : sub'[t].conn = d
      BY <1>1, <1>2, <1>5, <2>1, UnsubscribeEffect DEF Shape
    <3>2. \A t \in hub' : sub'[t].conn \in Conns
                          /\ t \in conn'[sub'[t].conn].subs \ conn'[sub'[t].conn].closing
      BY <1>1, <1>2, <1>5, <2>1, UnsubscribeEffect DEF Shape
    <3>3. QED
      BY <1>1, <2>1, <2>2, <2>3, <3>1, <3>2 DEF Shape, Conns
  <2>5. Ending'
    BY <1>1, <2>1, <2>2, <2>3 DEF Ending, Conns
  <2>6. QED
    BY <1>1, <2>4, <2>5 DEF HubInv
<1>6. ASSUME NEW c \in Conns, NEW s \in Subs, Close(c, s) PROVE HubInv'
  <2>1. UNCHANGED <<hub, forwarder, panicked>> /\ s \in conn[c].closing /\ s \in conn[c].subs
    BY <1>1, <1>6 DEF Close, Shape
  <2>2. \A d \in Conns : Of(d)' = Of(d)
    BY <1>1, <1>6, CloseEffect DEF Of
  <2>3. \A d \in Conns : /\ conn'[d].pc = conn[d].pc /\ conn'[d].subs \subseteq conn[d].subs
                         /\ conn'[d].outClosed = conn[d].outClosed /\ conn'[d].pump = conn[d].pump
                         /\ AllEnded(d)' = AllEnded(d)
    BY <1>1, <1>6, <2>1, <2>2, CloseEffect DEF AllEnded
  <2>4. \A t \in Subs : sub'[t].conn = sub[t].conn
    BY <1>1, <1>6, CloseEffect
  <2>5. Shape'
    <3>1. \A d \in Conns : conn'[d].closing \subseteq conn'[d].subs
      <4>1. conn[c].closing = {s} \/ conn'[c].closing = {}
        BY <1>1, <1>6, CloseEffect
      <4>2. QED
        BY <1>1, <1>6, CloseEffect DEF Shape
    <3>2. \A d \in Conns : \A t \in conn'[d].subs : sub'[t].conn = d
      BY <1>1, <1>2, <2>3, <2>4 DEF Shape
    <3>3. \A t \in hub' : sub'[t].conn \in Conns
                          /\ t \in conn'[sub'[t].conn].subs \ conn'[sub'[t].conn].closing
      <4>1. s \notin hub
        BY <1>1, <2>1 DEF Shape
      <4>2. QED
        BY <1>1, <1>2, <1>6, <2>1, <2>4, <4>1, CloseEffect DEF Shape
    <3>4. \A d \in Conns : \A t \in Of(d)' : t \in conn'[d].subs \/ sub'[t].closed
      BY <1>1, <1>2, <1>6, <2>2, CloseEffect DEF Shape
    <3>5. QED
      BY <1>1, <2>1, <2>2, <3>1, <3>2, <3>3, <3>4 DEF Shape, Conns
  <2>6. Ending'
    <3>1. \A d \in Conns : conn[d].subs = {} => conn'[d].subs = {}
      BY <2>3
    <3>2. QED
      BY <1>1, <2>1, <2>3, <3>1 DEF Ending, Conns
  <2>7. QED
    BY <1>1, <2>5, <2>6 DEF HubInv
<1>7. ASSUME NEW c \in Conns, ClientGone(c) \/ CloseConnSend(c) \/ Return(c) PROVE HubInv'
  <2>1. UNCHANGED <<hub, sub, forwarder, panicked>>
    BY <1>7 DEF ClientGone, CloseConnSend, Return
  <2>2. \A d \in Conns : /\ conn'[d].subs = conn[d].subs /\ conn'[d].closing = conn[d].closing
                         /\ conn'[d].pump = conn[d].pump
                         /\ Of(d)' = Of(d) /\ AllEnded(d)' = AllEnded(d)
    BY <1>1, <1>7, <2>1, PartEffect DEF Of, AllEnded
  <2>3. Shape'
    BY <1>1, <2>1, <2>2 DEF Shape, Conns
  <2>4. CASE ClientGone(c)
    <3>1. conn'[c].pc = "cleanup" /\ conn'[c].outClosed = conn[c].outClosed /\ conn[c].pc = "reading"
      BY <1>1, <2>4, PartEffect DEF ClientGone, AtCommand
    <3>2. \A d \in Conns \ {c} : conn'[d] = conn[d]
      BY <1>1, <1>7, PartEffect
    <3>3. Ending'
      BY <1>1, <2>1, <2>2, <3>1, <3>2 DEF Ending, Conns
    <3>4. QED
      BY <1>1, <2>3, <3>3 DEF HubInv
  <2>5. CASE CloseConnSend(c)
    <3>1. /\ conn'[c].pc = "closed" /\ c \in Sockets /\ conn[c].subs = {} /\ AllEnded(c)
          /\ \A d \in Conns \ {c} : conn'[d] = conn[d]
      BY <1>1, <2>5, PartEffect DEF CloseConnSend, AllEnded
    <3>2. Ending'
      BY <1>1, <2>1, <2>2, <3>1 DEF Ending, Conns
    <3>3. QED
      BY <1>1, <2>3, <3>2 DEF HubInv
  <2>6. CASE Return(c)
    <3>1. /\ conn'[c].pc = "returned" /\ conn'[c].outClosed = conn[c].outClosed
          /\ \A d \in Conns \ {c} : conn'[d] = conn[d]
      BY <1>1, <2>6, PartEffect
    <3>2. IF c \in Sockets THEN conn[c].pc = "closed" /\ conn[c].pump = "ended"
                           ELSE conn[c].subs = {}
      BY <2>6 DEF Return
    <3>3. Ending'
      BY <1>1, <2>1, <2>2, <3>1, <3>2 DEF Ending, Conns
    <3>4. QED
      BY <1>1, <2>3, <3>3 DEF HubInv
  <2>7. QED
    BY <1>7, <2>4, <2>5, <2>6
<1>8. ASSUME NEW s \in Subs, Write(s) PROVE HubInv'
  BY <1>1, <1>3, <1>8, WriteEffect DEF Write, Quiet, BufferBecomes
<1>9. ASSUME NEW s \in Subs, Receive(s) PROVE HubInv'
  <2>1. UNCHANGED <<hub, conn, panicked>> /\ forwarder[s].state = "waiting"
    BY <1>9 DEF Receive
  <2>2. QED
    BY <1>1, <1>3, <1>9, <2>1, ReceiveEffect DEF Quiet, BufferBecomes
<1>10. ASSUME NEW s \in Subs, Forward(s) PROVE HubInv'
  <2> DEFINE c == sub[s].conn
  <2>1. UNCHANGED <<hub, sub>> /\ forwarder[s].state = "holding" /\ c \in Conns
        /\ (panicked' <=> (panicked \/ conn[c].outClosed))
    BY <1>1, <1>10, ForwardEffect, Zenon DEF Forward
  <2>2. s \in Of(c) /\ ~conn[c].outClosed
    BY <1>1, <2>1 DEF Of, Ending, AllEnded
  <2>3. /\ OutBecomes(c, conn[c].out)
           \/ OutBecomes(c, Append(conn[c].out, [n |-> Head(forwarder[s].holds), from |-> s]))
        /\ conn'[c].pump = conn[c].pump
        /\ \A t \in Subs \ {s} : forwarder'[t] = forwarder[t]
    BY <1>1, <1>10, ForwardEffect
  <2>4. Quiet
    <3>1. \A t \in Subs : forwarder[t].state \in {"none", "ended"} => forwarder'[t] = forwarder[t]
      BY <2>1, <2>3
    <3>2. \A d \in Conns \ {c} : conn'[d] = conn[d]
      BY <2>3 DEF OutBecomes
    <3>3. /\ conn'[c].subs = conn[c].subs /\ conn'[c].closing = conn[c].closing
          /\ conn'[c].pc = conn[c].pc /\ conn'[c].outClosed = conn[c].outClosed
      BY <2>3 DEF OutBecomes
    <3>4. QED
      BY <2>1, <2>3, <3>1, <3>2, <3>3 DEF Quiet
  <2>5. QED
    BY <1>1, <1>3, <2>1, <2>2, <2>4
<1>11. ASSUME NEW s \in Subs, ForwarderEnds(s) PROVE HubInv'
  <2>1. UNCHANGED <<hub, sub, conn, panicked>> /\ forwarder[s].state = "waiting"
    BY <1>11 DEF ForwarderEnds
  <2>2. QED
    BY <1>1, <1>3, <1>11, <2>1, ForwarderEndsEffect DEF Quiet
<1>12. ASSUME NEW c \in Conns, Pump(c) PROVE HubInv'
  <2>1. UNCHANGED <<hub, sub, forwarder, panicked>>
    BY <1>12 DEF Pump, PumpWrites, PumpFails, PumpEnds
  <2>2. Quiet
    BY <1>1, <1>12, <2>1, PumpEffect DEF Quiet, OutBecomes
  <2>3. QED
    BY <1>1, <1>3, <2>1, <2>2
<1>13. ASSUME NEW c \in Conns, StreamWrites(c) PROVE HubInv'
  <2>1. PICK s \in conn[c].subs :
          /\ sub' = [sub EXCEPT ![s].buffer = Tail(sub[s].buffer)]
          /\ UNCHANGED <<hub, forwarder, conn, panicked>>
    BY <1>13 DEF StreamWrites
  <2>2. QED
    BY <1>1, <1>2, <1>3, <2>1, BufferEffect DEF Quiet, BufferBecomes
<1>14. ASSUME UNCHANGED <<hub, sub, forwarder, conn, panicked>> PROVE HubInv'
  BY <1>1, <1>3, <1>14 DEF Quiet
<1>15. QED
  BY <1>4, <1>5, <1>6, <1>7, <1>8, <1>9, <1>10, <1>11, <1>12, <1>13, <1>14
     DEF Next, Broadcasting, FetchMessage, Broadcast, Commands, Cleanup, Forwarding, vars

\* NoPanic: connSend is closed only when all forwarders of the connection have
\* ended, and none is started after that.
THEOREM NothingSentOnClosed == Spec => []NoPanic
<1>1. HubInv => NoPanic
  BY DEF HubInv, Ending, NoPanic
<1>2. QED
  BY <1>1, HubInit, HubStep, PTL DEF Spec

\* NothingLeftBehind: whoever unsubscribes, fails or goes when, a handler that has
\* returned leaves no registration, no open subscription and no goroutine.
THEOREM HandlersLeaveNothing == Spec => []NothingLeftBehind
<1>1. HubInv => NothingLeftBehind
  <2> SUFFICES ASSUME HubInv, NEW c \in Conns, conn[c].pc = "returned"
               PROVE  /\ c \in Sockets => conn[c].pump = "ended"
                      /\ \A s \in Of(c) : /\ s \notin hub /\ sub[s].closed
                                          /\ forwarder[s].state \in {"none", "ended"}
    BY DEF NothingLeftBehind
  <2>1. conn[c].subs = {} /\ (c \in Sockets => conn[c].pump = "ended" /\ AllEnded(c))
    BY DEF HubInv, Ending
  <2>2. ASSUME NEW s \in Of(c) PROVE s \notin hub /\ sub[s].closed
    <3>1. s \in Subs /\ sub[s].conn = c
      BY <2>2 DEF Of
    <3>2. QED
      BY <2>1, <2>2, <3>1, SubTyped DEF HubInv, Shape, TypedInv, TypeInv
  <2>3. \A s \in Of(c) : forwarder[s].state \in {"none", "ended"}
    BY <2>1 DEF HubInv, Shape, AllEnded, Conns
  <2>4. QED
    BY <2>1, <2>2, <2>3
<1>2. QED
  BY <1>1, HubInit, HubStep, PTL DEF Spec

-----------------------------------------------------------------------------
(* A connection has one subscription to a channel at a time.               *)

OnePerChannel ==
  \A c \in Conns : \A s, t \in conn[c].subs : sub[s].channel = sub[t].channel => s = t

LEMMA OnePerChannelStep == HubInv /\ OnePerChannel /\ [Next]_vars => OnePerChannel'
<1> SUFFICES ASSUME HubInv, OnePerChannel, [Next]_vars PROVE OnePerChannel'
  OBVIOUS
<1>1. TypedInv /\ Shape /\ \A c \in Conns : conn[c].subs \subseteq Subs
  BY ConnTyped DEF HubInv, TypedInv, TypeInv
<1>2. ASSUME \A c \in Conns : conn'[c].subs \subseteq conn[c].subs,
             \A s \in Subs : sub'[s].channel = sub[s].channel
      PROVE  OnePerChannel'
  BY <1>1, <1>2 DEF OnePerChannel
<1>3. ASSUME NEW c \in Conns, NEW ch \in Channels, NEW s \in Subs,
             (c \in Sockets /\ Subscribe(c, ch, s)) \/ (c \in Streams /\ OpenStream(c, ch, s))
      PROVE  OnePerChannel'
  <2>1. Register(c, ch, s)
    BY <1>3 DEF Subscribe, OpenStream
  <2>2. \A t \in conn[c].subs : sub[t].channel # ch
    <3>1. CASE Subscribe(c, ch, s)
      BY <3>1 DEF Subscribe
    <3>2. CASE OpenStream(c, ch, s)
      BY <1>1, <3>2 DEF OpenStream, Shape, Of
    <3>3. QED
      BY <1>3, <3>1, <3>2
  <2>3. \A d \in Conns : s \notin conn[d].subs
    BY <1>1, <2>1, RegisterEffect, ConnsDisjoint DEF Shape
  <2>4. QED
    BY <1>1, <2>1, <2>2, <2>3, RegisterEffect DEF OnePerChannel
<1>4. ASSUME NEW c \in Conns, NEW s \in Subs, Unsubscribe(c, s) PROVE OnePerChannel'
  <2>1. sub' = sub
    BY <1>4 DEF Unsubscribe
  <2>2. QED
    BY <1>1, <1>2, <1>4, <2>1, UnsubscribeEffect
<1>5. ASSUME NEW c \in Conns, NEW s \in Subs, Close(c, s) PROVE OnePerChannel'
  BY <1>1, <1>2, <1>5, CloseEffect
<1>6. ASSUME NEW c \in Conns, ClientGone(c) \/ CloseConnSend(c) \/ Return(c) PROVE OnePerChannel'
  <2>1. sub' = sub
    BY <1>6 DEF ClientGone, CloseConnSend, Return
  <2>2. QED
    BY <1>1, <1>2, <1>6, <2>1, PartEffect
<1>7. ASSUME NEW s \in Subs, Write(s) \/ Receive(s) PROVE OnePerChannel'
  <2>1. conn' = conn
    BY <1>7 DEF Write, Receive
  <2>2. \A t \in Subs : sub'[t].channel = sub[t].channel
    BY <1>1, <1>7, WriteEffect, ReceiveEffect DEF BufferBecomes
  <2>3. QED
    BY <1>2, <2>1, <2>2
<1>8. ASSUME NEW s \in Subs, Forward(s) PROVE OnePerChannel'
  <2>1. sub' = sub
    BY <1>8 DEF Forward
  <2>2. \A c \in Conns : conn'[c].subs = conn[c].subs
    BY <1>1, <1>8, ForwardEffect DEF OutBecomes
  <2>3. QED
    BY <1>2, <2>1, <2>2
<1>9. ASSUME NEW c \in Conns, Pump(c) PROVE OnePerChannel'
  <2>1. sub' = sub
    BY <1>9 DEF Pump, PumpWrites, PumpFails, PumpEnds
  <2>2. \A d \in Conns : conn'[d].subs = conn[d].subs
    BY <1>1, <1>9, PumpEffect DEF OutBecomes
  <2>3. QED
    BY <1>2, <2>1, <2>2
<1>10. ASSUME NEW c \in Conns, StreamWrites(c) PROVE OnePerChannel'
  <2>1. PICK s \in conn[c].subs : sub' = [sub EXCEPT ![s].buffer = Tail(sub[s].buffer)] /\ conn' = conn
    BY <1>10 DEF StreamWrites
  <2>2. QED
    BY <1>1, <1>2, <2>1, BufferEffect DEF BufferBecomes
<1>11. ASSUME UNCHANGED <<sub, conn>> PROVE OnePerChannel'
  BY <1>11 DEF OnePerChannel
<1>12. QED
  BY <1>3, <1>4, <1>5, <1>6, <1>7, <1>8, <1>9, <1>10, <1>11
     DEF Next, Broadcasting, FetchMessage, Broadcast, Commands, Cleanup, Forwarding,
         ForwarderEnds, vars

-----------------------------------------------------------------------------
(* Where the copies of a subscription's messages are, from the wire back.  *)

CopyAt(k, s, x) ==
  \/ k = 1 /\ \E c \in Conns : [n |-> x, from |-> s] \in ToSet(wire[c])
  \/ k = 2 /\ \E c \in Conns : [n |-> x, from |-> s] \in ToSet(conn[c].out)
  \/ k = 3 /\ x \in ToSet(forwarder[s].holds)
  \/ k = 4 /\ x \in ToSet(sub[s].buffer)

Places == 1 .. 4

Has(s, x) == \E k \in Places : CopyAt(k, s, x)

\* What is nearer to the client was broadcast before.
Chain ==
  \A s \in Subs, x, y \in Messages, j, k \in Places :
    j < k /\ CopyAt(j, s, x) /\ CopyAt(k, s, y) => x < y

SentInOrder(q) == \A i, j \in 1 .. Len(q) : i < j /\ q[i].from = q[j].from => q[i].n < q[j].n
Rising(q) == \A i, j \in 1 .. Len(q) : i < j => q[i] < q[j]

\* Each sequence by itself is in order.
Sorted ==
  /\ \A c \in Conns : SentInOrder(wire[c]) /\ SentInOrder(conn[c].out)
  /\ \A s \in Subs : Rising(sub[s].buffer)

\* A connection carries what its own subscriptions got; a stream has no out buffer.
AtHome ==
  \A c \in Conns :
    /\ \A m \in ToSet(wire[c]) : sub[m.from].conn = c
    /\ \A m \in ToSet(conn[c].out) : c \in Sockets /\ sub[m.from].conn = c

\* A broadcast comes to a connection once: it has one target there.
Once ==
  /\ \A s \in Subs, x \in Messages : Has(s, x) =>
       /\ x <= consumer.n
       /\ consumer.fetched \/ s \in consumer.targets => x < consumer.n
  /\ \A s, t \in Subs, x \in Messages :
       s # t /\ sub[s].conn = sub[t].conn /\ Has(s, x) => ~Has(t, x)
  /\ \A s \in consumer.targets :
       /\ sub[s].conn \in Conns
       /\ \A t \in Subs \ {s} : sub[t].conn = sub[s].conn =>
            t \notin consumer.targets /\ \A x \in Messages : Has(t, x) => x < consumer.n
  /\ consumer.fetched => consumer.targets = {}

OrderInv == HubInv /\ OnePerChannel /\ Chain /\ Sorted /\ AtHome /\ Once

\* The items of a sequence after its first is taken off, or one is put behind it.
LEMMA ItemsAppended ==
  ASSUME NEW S, NEW q \in Seq(S), NEW m \in S
  PROVE  ToSet(Append(q, m)) = ToSet(q) \cup {m}
<1>1. Append(q, m) \in Seq(S) /\ Len(Append(q, m)) = Len(q) + 1 /\ Len(q) \in Nat
  BY AppendProperties
<1>2. /\ \A i \in 1 .. Len(q) : Append(q, m)[i] = q[i]
      /\ Append(q, m)[Len(q) + 1] = m
  BY AppendProperties
<1>3. DOMAIN Append(q, m) = 1 .. Len(q) + 1 /\ DOMAIN q = 1 .. Len(q)
  BY <1>1, LenProperties
<1>4. 1 .. Len(q) + 1 = (1 .. Len(q)) \cup {Len(q) + 1}
  BY <1>1
<1>5. QED
  BY <1>2, <1>3, <1>4 DEF ToSet

LEMMA OnlyItem == \A m : ToSet(<<m>>) = {m}
BY DEF ToSet

LEMMA ItemsOf ==
  ASSUME NEW S, NEW q \in Seq(S)
  PROVE  /\ ToSet(<<>>) = {} /\ ToSet(q) \subseteq S
         /\ ToSet(SubSeq(q, 2, Len(q))) \subseteq ToSet(q)
         /\ q # <<>> => ToSet(Tail(q)) \subseteq ToSet(q) /\ Head(q) \in ToSet(q)
<1>1. ToSet(<<>>) = {} /\ ToSet(q) \subseteq S
  BY DEF ToSet
<1>2. ToSet(SubSeq(q, 2, Len(q))) \subseteq ToSet(q)
  BY SubSeqProperties DEF ToSet
<1>3. q # <<>> => ToSet(Tail(q)) \subseteq ToSet(q) /\ Head(q) \in ToSet(q)
  BY HeadTailProperties, LenProperties DEF ToSet
<1>4. QED
  BY <1>1, <1>2, <1>3

\* Ordered sequences stay so.
LEMMA RisingKept ==
  ASSUME NEW q \in Seq(Messages), Rising(q)
  PROVE  /\ q # <<>> => Rising(Tail(q)) /\ \A x \in ToSet(Tail(q)) : Head(q) < x
         /\ \A m \in Messages : (\A x \in ToSet(q) : x < m) => Rising(Append(q, m))
<1>1. ASSUME q # <<>> PROVE Rising(Tail(q)) /\ \A x \in ToSet(Tail(q)) : Head(q) < x
  <2>1. /\ Tail(q) \in Seq(Messages) /\ Len(Tail(q)) = Len(q) - 1 /\ Head(q) = q[1]
        /\ \A i \in 1 .. Len(q) - 1 : Tail(q)[i] = q[i + 1]
    BY <1>1, HeadTailProperties
  <2>2. DOMAIN Tail(q) = 1 .. Len(q) - 1
    BY <2>1, LenProperties
  <2>3. QED
    BY <1>1, <2>1, <2>2 DEF Rising, ToSet
<1>2. ASSUME NEW m \in Messages, \A x \in ToSet(q) : x < m PROVE Rising(Append(q, m))
  <2>1. /\ Len(Append(q, m)) = Len(q) + 1 /\ Append(q, m)[Len(q) + 1] = m
        /\ \A i \in 1 .. Len(q) : Append(q, m)[i] = q[i] /\ q[i] < m
    BY <1>2, AppendProperties, LenProperties DEF ToSet
  <2>2. QED
    BY <2>1 DEF Rising
<1>3. QED
  BY <1>1, <1>2

LEMMA SentKept ==
  ASSUME NEW q \in Seq(Sent), SentInOrder(q)
  PROVE  /\ q # <<>> => /\ SentInOrder(Tail(q))
                        /\ \A x \in ToSet(Tail(q)) : x.from = Head(q).from => Head(q).n < x.n
         /\ SentInOrder(SubSeq(q, 2, Len(q)))
         /\ \A m \in Sent : (\A x \in ToSet(q) : x.from = m.from => x.n < m.n) =>
              SentInOrder(Append(q, m))
<1>1. ASSUME q # <<>>
      PROVE  SentInOrder(Tail(q)) /\ \A x \in ToSet(Tail(q)) : x.from = Head(q).from => Head(q).n < x.n
  <2>1. /\ Tail(q) \in Seq(Sent) /\ Len(Tail(q)) = Len(q) - 1 /\ Head(q) = q[1]
        /\ \A i \in 1 .. Len(q) - 1 : Tail(q)[i] = q[i + 1]
    BY <1>1, HeadTailProperties
  <2>2. DOMAIN Tail(q) = 1 .. Len(q) - 1
    BY <2>1, LenProperties
  <2>3. QED
    BY <1>1, <2>1, <2>2 DEF SentInOrder, ToSet
<1>2. SentInOrder(SubSeq(q, 2, Len(q)))
  <2>1. /\ Len(q) \in Nat
        /\ Len(SubSeq(q, 2, Len(q))) = IF Len(q) = 0 THEN 0 ELSE Len(q) - 1
        /\ \A i \in 1 .. Len(SubSeq(q, 2, Len(q))) : SubSeq(q, 2, Len(q))[i] = q[i + 1]
    BY SubSeqProperties
  <2>2. QED
    BY <2>1 DEF SentInOrder
<1>3. ASSUME NEW m \in Sent, \A x \in ToSet(q) : x.from = m.from => x.n < m.n
      PROVE  SentInOrder(Append(q, m))
  <2>1. /\ Len(Append(q, m)) = Len(q) + 1 /\ Append(q, m)[Len(q) + 1] = m
        /\ \A i \in 1 .. Len(q) : Append(q, m)[i] = q[i] /\ (q[i].from = m.from => q[i].n < m.n)
    BY <1>3, AppendProperties, LenProperties DEF ToSet
  <2>2. QED
    BY <2>1 DEF SentInOrder
<1>4. QED
  BY <1>1, <1>2, <1>3

\* A copy of m of subscription s moves from place k to place j, over empty places.
LEMMA ChainMoves ==
  ASSUME Chain, NEW s \in Subs, NEW m \in Messages, NEW j \in Places, NEW k \in Places,
         j < k, CopyAt(k, s, m),
         \A t \in Subs, x \in Messages, i \in Places : CopyAt(i, t, x)' =>
           CopyAt(i, t, x) \/ (i = j /\ t = s /\ x = m),
         \A x \in Messages, i \in Places : j < i /\ i <= k /\ CopyAt(i, s, x)' => m < x
  PROVE  Chain'
<1> SUFFICES ASSUME NEW t \in Subs, NEW x \in Messages, NEW y \in Messages,
                    NEW a \in Places, NEW b \in Places,
                    a < b, CopyAt(a, t, x)', CopyAt(b, t, y)'
             PROVE  x < y
  BY DEF Chain
<1>1. CASE CopyAt(a, t, x) /\ CopyAt(b, t, y)
  BY <1>1 DEF Chain
<1>2. CASE a = j /\ t = s /\ x = m
  <2>1. CASE b <= k
    BY <1>2, <2>1
  <2>2. CASE b > k
    <3>1. CopyAt(b, s, y)
      BY <1>2, <2>2 DEF Places
    <3>2. QED
      BY <1>2, <2>2, <3>1 DEF Chain
  <2>3. QED
    BY <2>1, <2>2 DEF Places
<1>3. CASE b = j /\ t = s /\ y = m
  <2>1. CopyAt(a, s, x) /\ a < k
    BY <1>3 DEF Places
  <2>2. QED
    BY <1>3, <2>1 DEF Chain
<1>4. QED
  BY <1>1, <1>2, <1>3

\* A step that makes no new copy: what any subscription has it had before.
LEMMA OnceKept ==
  ASSUME OrderInv, HubInv', UNCHANGED consumer,
         \A s \in Subs : \/ sub'[s].conn = sub[s].conn
                         \/ s \notin consumer.targets /\ \A x \in Messages : ~Has(s, x)',
         \A s \in Subs, x \in Messages : Has(s, x)' => Has(s, x)
  PROVE  Once'
<1>1. consumer.targets \subseteq Subs
  BY AllTyped DEF OrderInv, HubInv, TypedInv, ConsumerSet
<1>2. consumer.targets # {} => consumer.n \in Messages
  BY DEF OrderInv, HubInv, TypedInv, Countable
<1>3. \A s \in Subs, x \in Messages : Has(s, x)' => sub'[s].conn = sub[s].conn
  OBVIOUS
<1>4. \A s \in Subs, x \in Messages : Has(s, x)' =>
        /\ x <= consumer'.n
        /\ consumer'.fetched \/ s \in consumer'.targets => x < consumer'.n
  BY DEF OrderInv, Once
<1>5. \A s, t \in Subs, x \in Messages :
        s # t /\ sub'[s].conn = sub'[t].conn /\ Has(s, x)' => ~Has(t, x)'
  BY <1>3 DEF OrderInv, Once
<1>6. ASSUME NEW s \in consumer.targets
      PROVE  /\ sub'[s].conn \in Conns
             /\ \A t \in Subs \ {s} : sub'[t].conn = sub'[s].conn =>
                  t \notin consumer.targets /\ \A x \in Messages : Has(t, x)' => x < consumer.n
  <2>1. s \in Subs /\ sub'[s].conn = sub[s].conn /\ sub[s].conn \in Conns
    BY <1>1 DEF OrderInv, Once
  <2>2. ASSUME NEW t \in Subs \ {s}, sub'[t].conn = sub'[s].conn
        PROVE  t \notin consumer.targets /\ \A x \in Messages : Has(t, x)' => x < consumer.n
    BY <2>1, <2>2, <1>3 DEF OrderInv, Once
  <2>3. QED
    BY <2>1, <2>2
<1>7. QED
  BY <1>4, <1>5, <1>6 DEF OrderInv, Once

\* Nothing moves, and copies are dropped at most; a subscription may be registered.
Dwindling ==
  /\ wire' = wire
  /\ \A c \in Conns : conn'[c].out = conn[c].out \/ conn'[c].out = SubSeq(conn[c].out, 2, Len(conn[c].out))
  /\ \A s \in Subs : forwarder'[s].holds = forwarder[s].holds \/ forwarder'[s].holds = <<>>
  /\ \A s \in Subs : sub'[s].buffer = sub[s].buffer
  /\ \A s \in Subs : sub'[s].conn = sub[s].conn \/ (sub[s].conn = Nobody /\ sub[s].buffer = <<>>)

LEMMA CopiesDwindle ==
  ASSUME OrderInv, HubInv', Dwindling
  PROVE  /\ \A s \in Subs, x \in Messages, k \in Places : CopyAt(k, s, x)' => CopyAt(k, s, x)
         /\ Chain' /\ Sorted' /\ AtHome'
         /\ \A s \in Subs : \/ sub'[s].conn = sub[s].conn
                            \/ s \notin consumer.targets /\ \A x \in Messages : ~Has(s, x)'
<1>1. HubInv /\ TypedInv /\ TypeInv /\ TypeOK /\ Addressed
  BY DEF OrderInv, HubInv, TypedInv, TypeInv
<1>2. \A c \in Conns : wire[c] \in Seq(Sent) /\ conn[c].out \in Seq(Sent)
  BY <1>1, AllTyped, ConnTyped
<1>3. \A c \in Conns : ToSet(conn'[c].out) \subseteq ToSet(conn[c].out) /\ ToSet(conn[c].out) \subseteq Sent
                       /\ ToSet(wire[c]) \subseteq Sent
  BY <1>2, ItemsOf DEF Dwindling
<1>4. \A s \in Subs : ToSet(forwarder'[s].holds) \subseteq ToSet(forwarder[s].holds)
  <2>1. ToSet(<<>>) = {}
    BY DEF ToSet
  <2>2. QED
    BY <2>1 DEF Dwindling
<1>5. ASSUME NEW s \in Subs, NEW x \in Messages, NEW k \in Places, CopyAt(k, s, x)'
      PROVE  CopyAt(k, s, x)
  BY <1>3, <1>4, <1>5 DEF CopyAt, Dwindling
<1>6. Chain'
  BY <1>5 DEF OrderInv, Chain
<1>7. Sorted'
  <2>1. \A c \in Conns : SentInOrder(conn[c].out) /\ SentInOrder(SubSeq(conn[c].out, 2, Len(conn[c].out)))
    BY <1>2, SentKept DEF OrderInv, Sorted
  <2>2. \A c \in Conns : SentInOrder(conn'[c].out)
    BY <2>1 DEF Dwindling
  <2>3. \A c \in Conns : SentInOrder(wire'[c])
    BY DEF OrderInv, Sorted, Dwindling
  <2>4. \A s \in Subs : Rising(sub'[s].buffer)
    BY DEF OrderInv, Sorted, Dwindling
  <2>5. QED
    BY <2>2, <2>3, <2>4 DEF Sorted
<1>8. AtHome'
  <2>1. \A c \in Conns : c # Nobody
    BY ConnsDisjoint
  <2>2. \A m \in Sent : m.from \in Subs
    BY DEF Sent
  <2>3. ASSUME NEW t \in Subs, sub[t].conn # Nobody PROVE sub'[t].conn = sub[t].conn
    BY <2>3 DEF Dwindling
  <2>4. ASSUME NEW c \in Conns, NEW m \in ToSet(wire'[c]) PROVE sub'[m.from].conn = c
    <3>1. m \in ToSet(wire[c]) /\ m \in Sent
      BY <1>3, <2>4 DEF Dwindling
    <3>2. sub[m.from].conn = c
      BY <3>1 DEF OrderInv, AtHome
    <3>3. QED
      BY <2>1, <2>2, <2>3, <3>1, <3>2
  <2>5. ASSUME NEW c \in Conns, NEW m \in ToSet(conn'[c].out)
        PROVE  c \in Sockets /\ sub'[m.from].conn = c
    <3>1. m \in ToSet(conn[c].out) /\ m \in Sent
      BY <1>3, <2>5
    <3>2. c \in Sockets /\ sub[m.from].conn = c
      BY <3>1 DEF OrderInv, AtHome
    <3>3. QED
      BY <2>1, <2>2, <2>3, <3>1, <3>2
  <2>6. QED
    BY <2>4, <2>5 DEF AtHome
<1>9. ASSUME NEW s \in Subs, sub[s].conn = Nobody, sub[s].buffer = <<>>
      PROVE  s \notin consumer.targets /\ \A x \in Messages : ~Has(s, x)'
  <2>1. s \notin consumer.targets
    BY <1>9, ConnsDisjoint DEF OrderInv, Once
  <2>2. ASSUME NEW x \in Messages PROVE ~CopyAt(1, s, x) /\ ~CopyAt(2, s, x)
    BY <1>9, ConnsDisjoint DEF OrderInv, AtHome, CopyAt
  <2>3. ToSet(forwarder[s].holds) = {}
    BY <1>1, <1>9, ForwarderTyped, ConnsDisjoint DEF Addressed, ToSet
  <2>4. ToSet(sub[s].buffer) = {}
    BY <1>9 DEF ToSet
  <2>5. \A x \in Messages : ~CopyAt(3, s, x) /\ ~CopyAt(4, s, x)
    BY <2>3, <2>4 DEF CopyAt
  <2>6. QED
    BY <1>5, <2>1, <2>2, <2>5 DEF Has, Places
<1>10. QED
  BY <1>5, <1>6, <1>7, <1>8, <1>9 DEF Dwindling

LEMMA DwindlingKeepsOrder ==
  ASSUME OrderInv, HubInv', OnePerChannel', Dwindling, consumer' = consumer
  PROVE  OrderInv'
<1>1. \A s \in Subs, x \in Messages : Has(s, x)' => Has(s, x)
  BY CopiesDwindle DEF Has
<1>2. Once'
  BY <1>1, CopiesDwindle, OnceKept
<1>3. QED
  BY <1>2, CopiesDwindle DEF OrderInv


\* The steps of a message on its way: it leaves one place for the next.
LEMMA MoveKeepsOrder ==
  ASSUME OrderInv, HubInv', OnePerChannel', consumer' = consumer,
         \A t \in Subs : sub'[t].conn = sub[t].conn,
         NEW s \in Subs, NEW m \in Messages, NEW j \in Places, NEW k \in Places,
         j < k, CopyAt(k, s, m),
         \A t \in Subs, x \in Messages, i \in Places : CopyAt(i, t, x)' =>
           CopyAt(i, t, x) \/ (i = j /\ t = s /\ x = m),
         \A x \in Messages, i \in Places : j < i /\ i <= k /\ CopyAt(i, s, x)' => m < x,
         Sorted', AtHome'
  PROVE  OrderInv'
<1>1. Chain'
  BY ChainMoves DEF OrderInv
<1>2. \A t \in Subs, x \in Messages : Has(t, x)' => Has(t, x)
  BY DEF Has
<1>3. Once'
  BY <1>2, OnceKept
<1>4. QED
  BY <1>1, <1>3 DEF OrderInv

LEMMA ReceiveKeepsOrder ==
  ASSUME OrderInv, HubInv', OnePerChannel', NEW s \in Subs, Receive(s)
  PROVE  OrderInv'
<1> DEFINE m == Head(sub[s].buffer)
<1>1. HubInv /\ TypedInv /\ TypeInv /\ TypeOK /\ Addressed
  BY DEF OrderInv, HubInv, TypedInv, TypeInv
<1>2. sub[s].buffer \in Seq(Messages) /\ sub[s].buffer # <<>> /\ m \in Messages
  BY <1>1, SubTyped, HeadTailProperties DEF Receive
<1>3. /\ BufferBecomes(s, Tail(sub[s].buffer)) /\ forwarder'[s].holds = <<m>>
      /\ \A t \in Subs \ {s} : forwarder'[t] = forwarder[t]
      /\ UNCHANGED <<hub, conn, consumer, panicked, wire>>
  BY <1>1, ReceiveEffect DEF Receive
<1>4. /\ ToSet(Tail(sub[s].buffer)) \subseteq ToSet(sub[s].buffer) /\ m \in ToSet(sub[s].buffer)
      /\ ToSet(<<m>>) = {m}
  BY <1>2, ItemsOf, OnlyItem
<1>5. Rising(Tail(sub[s].buffer)) /\ \A x \in ToSet(Tail(sub[s].buffer)) : m < x
  BY <1>2, RisingKept DEF OrderInv, Sorted
<1> HIDE DEF m
<1>7. CopyAt(4, s, m)
  BY <1>4 DEF CopyAt
<1>8. ASSUME NEW t \in Subs, NEW x \in Messages, NEW i \in Places, CopyAt(i, t, x)'
      PROVE  CopyAt(i, t, x) \/ (i = 3 /\ t = s /\ x = m)
  BY <1>3, <1>4, <1>8 DEF CopyAt, BufferBecomes
<1>9. ASSUME NEW x \in Messages, NEW i \in Places, 3 < i, i <= 4, CopyAt(i, s, x)' PROVE m < x
  <2>1. x \in ToSet(sub'[s].buffer)
    BY <1>9 DEF CopyAt
  <2>2. QED
    BY <1>3, <1>5, <2>1 DEF BufferBecomes
<1>10. Sorted' /\ AtHome' /\ \A t \in Subs : sub'[t].conn = sub[t].conn
  <2>1. \A t \in Subs : sub'[t].conn = sub[t].conn
    BY <1>3 DEF BufferBecomes
  <2>2. \A c \in Conns : ToSet(wire[c]) \subseteq Sent /\ ToSet(conn[c].out) \subseteq Sent
    BY <1>1, AllTyped, ConnTyped, ItemsOf
  <2>3. AtHome'
    BY <1>3, <2>1, <2>2 DEF OrderInv, AtHome, Sent
  <2>4. Sorted'
    BY <1>3, <1>5 DEF OrderInv, Sorted, BufferBecomes
  <2>5. QED
    BY <2>1, <2>3, <2>4
<1>11. QED
  <2>1. 3 \in Places /\ 4 \in Places /\ 3 < 4
    BY DEF Places
  <2>2. QED
    BY <1>2, <1>3, <1>7, <1>8, <1>9, <1>10, <2>1, MoveKeepsOrder

\* What the connections carry after one outbound buffer or one wire has changed.
LEMMA CarriedAfter ==
  ASSUME NEW c \in Conns, NEW q
  PROVE  /\ OutBecomes(c, q) =>
              \A d \in Conns : /\ d = c => ToSet(conn'[d].out) = ToSet(q) /\ (SentInOrder(q) => SentInOrder(conn'[d].out))
                               /\ d # c => conn'[d].out = conn[d].out
         /\ wire'[c] = q /\ (\A d \in Conns \ {c} : wire'[d] = wire[d]) =>
              \A d \in Conns : /\ d = c => ToSet(wire'[d]) = ToSet(q) /\ (SentInOrder(q) => SentInOrder(wire'[d]))
                               /\ d # c => wire'[d] = wire[d]
BY DEF OutBecomes

LEMMA ForwardKeepsOrder ==
  ASSUME OrderInv, HubInv', OnePerChannel', NEW s \in Subs, Forward(s)
  PROVE  OrderInv'
<1> DEFINE m == Head(forwarder[s].holds)
           c == sub[s].conn
           r == [n |-> m, from |-> s]
<1>1. HubInv /\ TypedInv /\ TypeInv /\ TypeOK /\ Addressed /\ Shape
  BY DEF OrderInv, HubInv, TypedInv, TypeInv
<1>2. forwarder[s].holds = <<m>> /\ m \in Messages /\ ToSet(<<m>>) = {m}
  <2>1. /\ forwarder[s].holds \in Seq(Messages) /\ Len(forwarder[s].holds) <= 1
        /\ forwarder[s].holds # <<>>
    BY <1>1, ForwarderTyped DEF Forward, Addressed
  <2>2. m \in Messages /\ forwarder[s].holds = <<m>>
    BY <2>1
  <2>3. QED
    BY <2>2, OnlyItem
<1>3. c \in Sockets /\ c \in Conns
  <2>1. c \in Conns
    BY <1>1, ForwardEffect
  <2>2. s \in Of(c) /\ forwarder[s].state = "holding"
    BY DEF Forward, Of
  <2>3. c \notin Streams
    BY <1>1, <2>2 DEF Shape
  <2>4. QED
    BY <2>1, <2>3 DEF Conns
<1>4. /\ OutBecomes(c, conn[c].out) \/ OutBecomes(c, Append(conn[c].out, r))
      /\ forwarder'[s].holds = <<>> /\ \A t \in Subs \ {s} : forwarder'[t] = forwarder[t]
      /\ UNCHANGED <<hub, sub, consumer, wire>>
  BY <1>1, ForwardEffect DEF Forward
<1> HIDE DEF m
<1>5. CASE OutBecomes(c, conn[c].out)
  <2>1. Dwindling
    BY <1>4, <1>5 DEF Dwindling, OutBecomes
  <2>2. QED
    BY <1>4, <2>1, DwindlingKeepsOrder
<1>6. CASE OutBecomes(c, Append(conn[c].out, r))
  <2>1. r \in Sent /\ \A d \in Conns : conn[d].out \in Seq(Sent) /\ wire[d] \in Seq(Sent)
    BY <1>1, <1>2, AllTyped, ConnTyped DEF Sent
  <2> HIDE DEF r
  <2>2. /\ ToSet(Append(conn[c].out, r)) = ToSet(conn[c].out) \cup {r} /\ ToSet(<<>>) = {}
        /\ \A d \in Conns : ToSet(conn[d].out) \subseteq Sent /\ ToSet(wire[d]) \subseteq Sent
    <3>1. conn[c].out \in Seq(Sent)
      BY <1>3, <2>1
    <3>2. ToSet(Append(conn[c].out, r)) = ToSet(conn[c].out) \cup {r}
      BY <2>1, <3>1, ItemsAppended
    <3>3. \A d \in Conns : ToSet(conn[d].out) \subseteq Sent /\ ToSet(wire[d]) \subseteq Sent
      BY <2>1, ItemsOf
    <3>4. ToSet(<<>>) = {}
      BY DEF ToSet
    <3>5. QED
      BY <3>2, <3>3, <3>4
  <2>3. CopyAt(3, s, m) /\ \A x \in Messages : CopyAt(3, s, x) => x = m
    BY <1>2 DEF CopyAt
  <2>4. ASSUME NEW t \in Subs, NEW x \in Messages, NEW i \in Places, CopyAt(i, t, x)'
        PROVE  CopyAt(i, t, x) \/ (i = 2 /\ t = s /\ x = m)
    <3>1. \A d \in Conns : \A y \in ToSet(conn'[d].out) : y \in ToSet(conn[d].out) \/ y = r
      BY <1>3, <1>6, <2>2, CarriedAfter
    <3>2. ToSet(forwarder'[t].holds) \subseteq ToSet(forwarder[t].holds)
      BY <1>4, <2>2
    <3>3. QED
      BY <1>4, <2>4, <3>1, <3>2 DEF CopyAt, r
  <2>5. ASSUME NEW x \in Messages, NEW i \in Places, 2 < i, i <= 3, CopyAt(i, s, x)' PROVE m < x
    BY <1>4, <2>2, <2>5 DEF CopyAt
  <2>6. Sorted'
    <3>1. \A x \in ToSet(conn[c].out) : x.from = r.from => x.n < r.n
      <4>1. SUFFICES ASSUME NEW x \in ToSet(conn[c].out), x.from = s PROVE x.n < m
        BY DEF r
      <4>2. x \in Sent /\ x.n \in Messages /\ x = [n |-> x.n, from |-> s]
        BY <1>3, <2>2, <4>1 DEF Sent
      <4>3. CopyAt(2, s, x.n)
        BY <1>3, <4>1, <4>2 DEF CopyAt
      <4>4. 2 \in Places /\ 3 \in Places /\ 2 < 3
        BY DEF Places
      <4>5. QED
        BY <1>2, <2>3, <4>2, <4>3, <4>4 DEF OrderInv, Chain
    <3>2. SentInOrder(Append(conn[c].out, r))
      BY <1>3, <2>1, <3>1, SentKept DEF OrderInv, Sorted
    <3>3. \A d \in Conns : SentInOrder(conn'[d].out)
      BY <1>3, <1>6, <3>2, CarriedAfter DEF OrderInv, Sorted
    <3>4. QED
      BY <1>4, <3>3 DEF OrderInv, Sorted
  <2>7. AtHome'
    <3>1. \A d \in Conns : \A y \in ToSet(conn'[d].out) : d \in Sockets /\ sub[y.from].conn = d
      <4>1. r.from = s
        BY DEF r
      <4>2. QED
        BY <1>3, <1>6, <2>2, <4>1, CarriedAfter DEF OrderInv, AtHome
    <3>2. QED
      BY <1>4, <3>1 DEF OrderInv, AtHome
  <2>8. 2 \in Places /\ 3 \in Places /\ 2 < 3
    BY DEF Places
  <2>9. QED
    BY <1>2, <1>4, <2>3, <2>4, <2>5, <2>6, <2>7, <2>8, MoveKeepsOrder
<1>7. QED
  BY <1>4, <1>5, <1>6

LEMMA PumpKeepsOrder ==
  ASSUME OrderInv, HubInv', OnePerChannel', NEW c \in Conns, Pump(c)
  PROVE  OrderInv'
<1>1. HubInv /\ TypedInv /\ TypeInv /\ TypeOK
  BY DEF OrderInv, HubInv, TypedInv, TypeInv
<1>2. UNCHANGED <<hub, sub, forwarder, consumer, panicked>>
  BY DEF Pump, PumpWrites, PumpFails, PumpEnds
<1>3. CASE ~PumpWrites(c)
  <2>1. Dwindling
    BY <1>1, <1>2, <1>3, PumpEffect DEF Dwindling, OutBecomes
  <2>2. QED
    BY <1>2, <2>1, DwindlingKeepsOrder
<1>4. CASE PumpWrites(c)
  <2>1. /\ conn[c].out # <<>> /\ conn[c].out \in Seq(Sent) /\ Head(conn[c].out) \in Sent
    BY <1>1, <1>4, ConnTyped, HeadTailProperties DEF PumpWrites
  <2> PICK r \in Sent : r = Head(conn[c].out)
    BY <2>1
  <2>2. /\ OutBecomes(c, Tail(conn[c].out)) /\ conn[c].out # <<>>
        /\ wire' = [wire EXCEPT ![c] = Append(wire[c], r)]
    BY <1>1, <1>4, PumpEffect DEF PumpWrites
  <2>3. /\ \A d \in Conns : conn[d].out \in Seq(Sent) /\ wire[d] \in Seq(Sent)
        /\ wire \in [Conns -> Seq(Sent)]
    BY <1>1, AllTyped, ConnTyped
  <2>4. /\ ToSet(Tail(conn[c].out)) \subseteq ToSet(conn[c].out) /\ r \in ToSet(conn[c].out)
        /\ \A d \in Conns : ToSet(conn[d].out) \subseteq Sent /\ ToSet(wire[d]) \subseteq Sent
        /\ ToSet(Append(wire[c], r)) = ToSet(wire[c]) \cup {r}
    <3>2. ToSet(Tail(conn[c].out)) \subseteq ToSet(conn[c].out) /\ r \in ToSet(conn[c].out)
      BY <2>2, <2>3, ItemsOf
    <3>3. \A d \in Conns : ToSet(conn[d].out) \subseteq Sent /\ ToSet(wire[d]) \subseteq Sent
      BY <2>3, ItemsOf
    <3>4. wire[c] \in Seq(Sent)
      BY <2>3
    <3>5. ToSet(Append(wire[c], r)) = ToSet(wire[c]) \cup {r}
      BY <3>4, ItemsAppended
    <3>6. QED
      BY <3>2, <3>3, <3>5
  <2>5. /\ SentInOrder(Tail(conn[c].out))
        /\ \A x \in ToSet(Tail(conn[c].out)) : x.from = r.from => r.n < x.n
    BY <2>2, <2>3, SentKept DEF OrderInv, Sorted
  <2>6. wire'[c] = Append(wire[c], r) /\ \A d \in Conns \ {c} : wire'[d] = wire[d]
    BY <2>2, <2>3
  <2>7. \A d \in Conns : /\ d = c => ToSet(conn'[d].out) = ToSet(Tail(conn[c].out))
                         /\ d # c => conn'[d].out = conn[d].out
    BY <2>2, CarriedAfter
  <2>8. \A d \in Conns : /\ d = c => ToSet(wire'[d]) = ToSet(Append(wire[c], r))
                         /\ d # c => wire'[d] = wire[d]
    BY <2>6
  <2>9. r.n \in Messages /\ r.from \in Subs /\ r = [n |-> r.n, from |-> r.from]
    BY DEF Sent
  <2>10. CopyAt(2, r.from, r.n)
    BY <2>4, <2>9 DEF CopyAt
  <2>11. ASSUME NEW t \in Subs, NEW x \in Messages, NEW i \in Places, CopyAt(i, t, x)'
        PROVE  CopyAt(i, t, x) \/ (i = 1 /\ t = r.from /\ x = r.n)
    <3>1. \A d \in Conns : ToSet(conn'[d].out) \subseteq ToSet(conn[d].out)
      BY <2>4, <2>7
    <3>2. \A d \in Conns : \A y \in ToSet(wire'[d]) : y \in ToSet(wire[d]) \/ y = r
      BY <2>4, <2>8
    <3>3. QED
      BY <1>2, <2>11, <3>1, <3>2 DEF CopyAt
  <2>12. ASSUME NEW x \in Messages, NEW i \in Places, 1 < i, i <= 2, CopyAt(i, r.from, x)'
        PROVE  r.n < x
    <3>1. PICK d \in Conns : [n |-> x, from |-> r.from] \in ToSet(conn'[d].out)
      BY <2>12 DEF CopyAt
    <3>2. ToSet(conn'[d].out) \subseteq ToSet(conn[d].out)
      BY <2>4, <2>7
    <3>3. sub[r.from].conn = c
      BY <2>4 DEF OrderInv, AtHome
    <3>4. d = c
      BY <3>1, <3>2, <3>3 DEF OrderInv, AtHome
    <3>5. [n |-> x, from |-> r.from] \in ToSet(Tail(conn[c].out))
      BY <2>7, <3>1, <3>4
    <3>6. QED
      BY <2>5, <3>5
  <2>13. Sorted'
    <3>1. \A x \in ToSet(wire[c]) : x.from = r.from => x.n < r.n
      <4>1. SUFFICES ASSUME NEW x \in ToSet(wire[c]), x.from = r.from PROVE x.n < r.n
        OBVIOUS
      <4>2. x \in Sent /\ x.n \in Messages /\ x = [n |-> x.n, from |-> r.from]
        BY <2>4, <4>1 DEF Sent
      <4>3. CopyAt(1, r.from, x.n)
        BY <4>1, <4>2 DEF CopyAt
      <4>4. 1 \in Places /\ 2 \in Places /\ 1 < 2
        BY DEF Places
      <4>5. QED
        BY <2>9, <2>10, <4>2, <4>3, <4>4 DEF OrderInv, Chain
    <3>2. SentInOrder(Append(wire[c], r))
      BY <2>3, <2>4, <3>1, SentKept DEF OrderInv, Sorted
    <3>3. \A d \in Conns : SentInOrder(conn'[d].out) /\ SentInOrder(wire'[d])
      BY <2>2, <2>5, <2>6, <3>2, CarriedAfter DEF OrderInv, Sorted
    <3>4. QED
      BY <1>2, <3>3 DEF OrderInv, Sorted
  <2>14. AtHome'
    <3>1. \A d \in Conns : \A y \in ToSet(conn'[d].out) : d \in Sockets /\ sub[y.from].conn = d
      BY <2>4, <2>7 DEF OrderInv, AtHome
    <3>2. \A d \in Conns : \A y \in ToSet(wire'[d]) : sub[y.from].conn = d
      BY <2>4, <2>8 DEF OrderInv, AtHome
    <3>3. QED
      BY <1>2, <3>1, <3>2 DEF AtHome
  <2>15. 1 \in Places /\ 2 \in Places /\ 1 < 2
    BY DEF Places
  <2>16. QED
    BY <1>2, <2>9, <2>10, <2>11, <2>12, <2>13, <2>14, <2>15, MoveKeepsOrder
<1>5. QED
  BY <1>3, <1>4

LEMMA StreamKeepsOrder ==
  ASSUME OrderInv, HubInv', OnePerChannel', NEW c \in Conns, StreamWrites(c)
  PROVE  OrderInv'
<1>1. HubInv /\ TypedInv /\ TypeInv /\ TypeOK /\ Addressed /\ Shape
  BY DEF OrderInv, HubInv, TypedInv, TypeInv
<1>2. PICK s \in conn[c].subs :
        /\ c \in Streams /\ sub[s].buffer # <<>>
        /\ wire' = [wire EXCEPT ![c] = Append(wire[c], [n |-> Head(sub[s].buffer), from |-> s])]
        /\ sub' = [sub EXCEPT ![s].buffer = Tail(sub[s].buffer)]
        /\ UNCHANGED <<hub, forwarder, conn, consumer, panicked>>
  BY DEF StreamWrites
<1>3. s \in Subs /\ sub[s].conn = c /\ sub[s].buffer \in Seq(Messages)
      /\ Head(sub[s].buffer) \in Messages
  BY <1>1, <1>2, ConnTyped, SubTyped, HeadTailProperties DEF Shape
<1>4. PICK m \in Messages : m = Head(sub[s].buffer)
  BY <1>3
<1>5. PICK r \in Sent : r = [n |-> m, from |-> s]
  BY <1>3 DEF Sent
<1>6. /\ BufferBecomes(s, Tail(sub[s].buffer))
      /\ wire'[c] = Append(wire[c], r) /\ \A d \in Conns \ {c} : wire'[d] = wire[d]
  BY <1>1, <1>2, <1>3, <1>4, <1>5, AllTyped, BufferEffect
<1>7. /\ ToSet(Tail(sub[s].buffer)) \subseteq ToSet(sub[s].buffer) /\ m \in ToSet(sub[s].buffer)
  BY <1>2, <1>3, <1>4, ItemsOf
<1>8. Rising(Tail(sub[s].buffer)) /\ \A x \in ToSet(Tail(sub[s].buffer)) : m < x
  BY <1>2, <1>3, <1>4, RisingKept DEF OrderInv, Sorted
<1>9. \A d \in Conns : wire[d] \in Seq(Sent) /\ ToSet(wire[d]) \subseteq Sent
                       /\ ToSet(conn[d].out) \subseteq Sent
  BY <1>1, AllTyped, ConnTyped, ItemsOf
<1>10. ToSet(Append(wire[c], r)) = ToSet(wire[c]) \cup {r}
  <2>1. wire[c] \in Seq(Sent)
    BY <1>9
  <2>2. QED
    BY <2>1, ItemsAppended
<1>11. \A d \in Conns : /\ d = c => ToSet(wire'[d]) = ToSet(wire[c]) \cup {r}
                        /\ d # c => wire'[d] = wire[d]
  <2>1. ToSet(wire'[c]) = ToSet(Append(wire[c], r))
    BY <1>6
  <2>2. QED
    BY <1>6, <1>10, <2>1
<1>12. CopyAt(4, s, m)
  BY <1>7 DEF CopyAt
<1>13. \A x \in Messages : ~CopyAt(2, s, x) /\ ~CopyAt(3, s, x)
  <2>1. forwarder[s].state = "none" /\ forwarder[s].holds = <<>>
    BY <1>1, <1>2, <1>3 DEF Shape, Of, Addressed
  <2>2. ToSet(forwarder[s].holds) = {}
    BY <2>1 DEF ToSet
  <2>3. c \notin Sockets
    BY <1>2, ConnsDisjoint
  <2>4. QED
    BY <1>3, <2>2, <2>3 DEF CopyAt, OrderInv, AtHome
<1>14. ASSUME NEW t \in Subs, NEW x \in Messages, NEW i \in Places, CopyAt(i, t, x)'
       PROVE  CopyAt(i, t, x) \/ (i = 1 /\ t = s /\ x = m)
  <2>1. ToSet(sub'[t].buffer) \subseteq ToSet(sub[t].buffer)
    BY <1>6, <1>7 DEF BufferBecomes
  <2>2. \A d \in Conns : \A y \in ToSet(wire'[d]) : y \in ToSet(wire[d]) \/ y = r
    BY <1>11
  <2>3. QED
    BY <1>2, <1>5, <1>14, <2>1, <2>2 DEF CopyAt
<1>15. ASSUME NEW x \in Messages, NEW i \in Places, 1 < i, i <= 4, CopyAt(i, s, x)' PROVE m < x
  <2>1. CASE i = 4
    <3>1. x \in ToSet(sub'[s].buffer)
      BY <1>15, <2>1 DEF CopyAt
    <3>2. QED
      BY <1>6, <1>8, <3>1 DEF BufferBecomes
  <2>2. CASE i \in {2, 3}
    BY <1>3, <1>13, <1>14, <1>15, <2>2
  <2>3. QED
    BY <1>15, <2>1, <2>2 DEF Places
<1>16. \A t \in Subs : sub'[t].conn = sub[t].conn
  BY <1>6 DEF BufferBecomes
<1>17. AtHome'
  <2>1. \A d \in Conns : \A y \in ToSet(wire'[d]) : y \in Sent /\ sub[y.from].conn = d
    BY <1>3, <1>5, <1>9, <1>11 DEF OrderInv, AtHome
  <2>2. \A d \in Conns : \A y \in ToSet(conn[d].out) : y \in Sent /\ d \in Sockets /\ sub[y.from].conn = d
    BY <1>9 DEF OrderInv, AtHome
  <2>3. QED
    BY <1>2, <1>16, <2>1, <2>2 DEF AtHome, Sent
<1>18. Sorted'
  <2>1. \A x \in ToSet(wire[c]) : x.from = r.from => x.n < r.n
    <3>1. SUFFICES ASSUME NEW x \in ToSet(wire[c]), x.from = s PROVE x.n < m
      BY <1>5
    <3>2. x \in Sent /\ x.n \in Messages /\ x = [n |-> x.n, from |-> s]
      BY <1>9, <3>1 DEF Sent
    <3>3. CopyAt(1, s, x.n)
      BY <3>1, <3>2 DEF CopyAt
    <3>4. 1 \in Places /\ 4 \in Places /\ 1 < 4
      BY DEF Places
    <3>5. QED
      BY <1>3, <1>12, <3>2, <3>3, <3>4 DEF OrderInv, Chain
  <2>2. SentInOrder(Append(wire[c], r))
    BY <1>9, <2>1, SentKept DEF OrderInv, Sorted
  <2>3. \A d \in Conns : SentInOrder(wire'[d])
    BY <1>6, <2>2, CarriedAfter DEF OrderInv, Sorted
  <2>4. \A t \in Subs : Rising(sub'[t].buffer)
    BY <1>6, <1>8 DEF BufferBecomes, OrderInv, Sorted
  <2>5. QED
    BY <1>2, <2>3, <2>4 DEF OrderInv, Sorted
<1>19. QED
  <2>1. 1 \in Places /\ 4 \in Places /\ 1 < 4
    BY DEF Places
  <2>2. QED
    BY <1>2, <1>3, <1>12, <1>14, <1>15, <1>16, <1>17, <1>18, <2>1, MoveKeepsOrder

\* The consumer's steps.
LEMMA FetchKeepsOrder ==
  ASSUME OrderInv, HubInv', OnePerChannel', NEW ch \in Channels, FetchMessage(ch)
  PROVE  OrderInv'
<1>1. Dwindling
  BY DEF FetchMessage, Dwindling
<1>2. \A s \in Subs, x \in Messages : Has(s, x)' => Has(s, x)
  BY <1>1, CopiesDwindle DEF Has
<1>3. consumer \in ConsumerSet
  BY AllTyped DEF OrderInv, HubInv, TypedInv
<1>4. consumer'.targets = {} /\ consumer'.n = consumer.n + 1 /\ consumer.n \in Nat /\ sub' = sub
  BY <1>3, BuffersNat DEF FetchMessage, ConsumerSet
<1>5. \A s \in Subs, x \in Messages : Has(s, x) => x < consumer'.n /\ x <= consumer'.n
  BY <1>4 DEF OrderInv, Once, Messages
<1>6. Once'
  BY <1>2, <1>4, <1>5 DEF OrderInv, Once
<1>7. QED
  BY <1>1, <1>6, CopiesDwindle DEF OrderInv

LEMMA BroadcastKeepsOrder ==
  ASSUME OrderInv, HubInv', OnePerChannel', Broadcast
  PROVE  OrderInv'
<1>1. Dwindling
  BY DEF Broadcast, Dwindling
<1>2. \A s \in Subs, x \in Messages : Has(s, x)' => Has(s, x)
  BY <1>1, CopiesDwindle DEF Has
<1>3. consumer \in ConsumerSet /\ hub \subseteq Subs
  BY AllTyped DEF OrderInv, HubInv, TypedInv
<1>4. /\ consumer.fetched /\ ~consumer'.fetched /\ consumer'.n = consumer.n /\ sub' = sub
      /\ consumer'.targets = {s \in hub : sub[s].channel = consumer.channel}
  BY <1>3 DEF Broadcast, ConsumerSet
<1>5. \A s \in Subs, x \in Messages : Has(s, x) => x <= consumer.n /\ x < consumer.n
  BY <1>4 DEF OrderInv, Once
<1>6. ASSUME NEW s \in consumer'.targets
      PROVE  /\ sub[s].conn \in Conns
             /\ \A t \in Subs \ {s} : sub[t].conn = sub[s].conn =>
                  t \notin consumer'.targets /\ \A x \in Messages : Has(t, x) => x < consumer.n
  <2>1. s \in hub /\ sub[s].conn \in Conns /\ s \in conn[sub[s].conn].subs
    BY <1>4 DEF OrderInv, HubInv, Shape
  <2>2. ASSUME NEW t \in Subs \ {s}, sub[t].conn = sub[s].conn, t \in consumer'.targets PROVE FALSE
    <3>1. t \in hub /\ t \in conn[sub[s].conn].subs /\ sub[t].channel = sub[s].channel
      BY <1>4, <2>1, <2>2 DEF OrderInv, HubInv, Shape
    <3>2. QED
      BY <2>1, <2>2, <3>1 DEF OrderInv, OnePerChannel
  <2>3. QED
    BY <1>5, <2>1, <2>2
<1>7. Once'
  <2>1. \A s \in Subs, x \in Messages : Has(s, x)' =>
          /\ x <= consumer'.n
          /\ consumer'.fetched \/ s \in consumer'.targets => x < consumer'.n
    BY <1>2, <1>4, <1>5
  <2>2. \A s, t \in Subs, x \in Messages :
          s # t /\ sub'[s].conn = sub'[t].conn /\ Has(s, x)' => ~Has(t, x)'
    BY <1>2, <1>4 DEF OrderInv, Once
  <2>3. \A s \in consumer'.targets :
          /\ sub'[s].conn \in Conns
          /\ \A t \in Subs \ {s} : sub'[t].conn = sub'[s].conn =>
               t \notin consumer'.targets /\ \A x \in Messages : Has(t, x)' => x < consumer'.n
    BY <1>2, <1>4, <1>6
  <2>4. QED
    BY <1>4, <2>1, <2>2, <2>3 DEF Once
<1>8. QED
  BY <1>1, <1>7, CopiesDwindle DEF OrderInv

LEMMA WriteKeepsOrder ==
  ASSUME OrderInv, HubInv', OnePerChannel', NEW s \in Subs, Write(s)
  PROVE  OrderInv'
<1>1. HubInv /\ TypedInv /\ TypeInv /\ TypeOK
  BY DEF OrderInv, HubInv, TypedInv, TypeInv
<1>2. s \in consumer.targets /\ UNCHANGED <<hub, forwarder, conn, panicked, wire>>
  BY DEF Write
<1>3. /\ consumer'.targets = consumer.targets \ {s} /\ consumer'.n = consumer.n
      /\ consumer'.fetched = consumer.fetched /\ ~consumer.fetched
      /\ consumer.targets \subseteq Subs
  BY <1>1, <1>2, WriteEffect, AllTyped DEF OrderInv, Once, ConsumerSet
<1>4. PICK m \in Messages : m = consumer.n
  BY <1>1, <1>2 DEF TypedInv, Countable
<1>5. BufferBecomes(s, sub[s].buffer) \/ BufferBecomes(s, Append(sub[s].buffer, m))
  BY <1>1, <1>4, WriteEffect
<1>6. \A t \in Subs : sub'[t].conn = sub[t].conn
  BY <1>5 DEF BufferBecomes
<1>7. ASSUME \A t \in Subs, x \in Messages : Has(t, x)' => Has(t, x) \/ (t = s /\ x = m)
      PROVE  Once'
  <2>1. \A t \in Subs, x \in Messages : Has(t, x)' =>
          /\ x <= consumer'.n
          /\ consumer'.fetched \/ t \in consumer'.targets => x < consumer'.n
    <3>1. \A t \in Subs, x \in Messages : Has(t, x) =>
            x <= consumer.n /\ (t \in consumer.targets => x < consumer.n)
      BY DEF OrderInv, Once
    <3>2. m <= m
      BY DEF Messages
    <3>3. QED
      BY <1>3, <1>4, <1>7, <3>1, <3>2
  <2>2. \A t \in Subs \ {s} : sub[t].conn = sub[s].conn => ~Has(t, m)
    <3>1. ~(m < m)
      BY DEF Messages
    <3>2. QED
      BY <1>2, <1>4, <3>1 DEF OrderInv, Once
  <2>3. \A t, u \in Subs, x \in Messages :
          t # u /\ sub'[t].conn = sub'[u].conn /\ Has(t, x)' => ~Has(u, x)'
    BY <1>6, <1>7, <2>2 DEF OrderInv, Once
  <2>4. ASSUME NEW t \in consumer'.targets
        PROVE  /\ sub'[t].conn \in Conns
               /\ \A u \in Subs \ {t} : sub'[u].conn = sub'[t].conn =>
                    u \notin consumer'.targets /\ \A x \in Messages : Has(u, x)' => x < consumer'.n
    <3>1. t \in consumer.targets /\ t \in Subs /\ t # s /\ sub[t].conn \in Conns
      BY <1>3 DEF OrderInv, Once
    <3>2. ASSUME NEW u \in Subs \ {t}, sub[u].conn = sub[t].conn
          PROVE  u # s /\ u \notin consumer.targets /\ \A x \in Messages : Has(u, x) => x < consumer.n
      BY <1>2, <3>1, <3>2 DEF OrderInv, Once
    <3>3. QED
      BY <1>3, <1>6, <1>7, <3>1, <3>2
  <2>5. QED
    BY <1>3, <2>1, <2>3, <2>4 DEF Once
<1>8. CASE BufferBecomes(s, sub[s].buffer)
  <2>1. Dwindling
    BY <1>2, <1>8 DEF Dwindling, BufferBecomes
  <2>2. \A t \in Subs, x \in Messages : Has(t, x)' => Has(t, x)
    BY <2>1, CopiesDwindle DEF Has
  <2>3. QED
    BY <1>7, <2>1, <2>2, CopiesDwindle DEF OrderInv
<1>9. CASE BufferBecomes(s, Append(sub[s].buffer, m))
  <2>1. sub[s].buffer \in Seq(Messages)
    BY <1>1, SubTyped
  <2>2. ToSet(Append(sub[s].buffer, m)) = ToSet(sub[s].buffer) \cup {m}
    BY <2>1, ItemsAppended
  <2>3. ToSet(sub'[s].buffer) = ToSet(Append(sub[s].buffer, m))
        /\ \A t \in Subs \ {s} : sub'[t].buffer = sub[t].buffer
    BY <1>9 DEF BufferBecomes
  <2>4. ASSUME NEW t \in Subs, NEW x \in Messages, NEW i \in Places, CopyAt(i, t, x)'
        PROVE  CopyAt(i, t, x) \/ (i = 4 /\ t = s /\ x = m)
    BY <1>2, <2>2, <2>3, <2>4 DEF CopyAt
  <2>5. \A x \in Messages : Has(s, x) => x < m
    BY <1>2, <1>4 DEF OrderInv, Once
  <2>6. Chain'
    <3>1. SUFFICES ASSUME NEW t \in Subs, NEW x \in Messages, NEW y \in Messages,
                          NEW j \in Places, NEW k \in Places,
                          j < k, CopyAt(j, t, x)', CopyAt(k, t, y)'
                   PROVE  x < y
      BY DEF Chain
    <3>2. CopyAt(j, t, x)
      BY <2>4, <3>1 DEF Places
    <3>3. CASE CopyAt(k, t, y)
      BY <3>1, <3>2, <3>3 DEF OrderInv, Chain
    <3>4. CASE t = s /\ y = m
      BY <2>5, <3>2, <3>4 DEF Has
    <3>5. QED
      BY <2>4, <3>1, <3>3, <3>4
  <2>7. Sorted'
    <3>1. \A x \in ToSet(sub[s].buffer) : x < m
      <4>1. ToSet(sub[s].buffer) \subseteq Messages
        BY <2>1, ItemsOf
      <4>2. \A x \in ToSet(sub[s].buffer) : Has(s, x)
        BY DEF Has, CopyAt, Places
      <4>3. QED
        BY <2>5, <4>1, <4>2
    <3>2. Rising(Append(sub[s].buffer, m))
      BY <2>1, <3>1, RisingKept DEF OrderInv, Sorted
    <3>3. \A t \in Subs : Rising(sub'[t].buffer)
      BY <1>9, <3>2 DEF BufferBecomes, OrderInv, Sorted
    <3>4. QED
      BY <1>2, <3>3 DEF OrderInv, Sorted
  <2>8. AtHome'
    <3>1. \A c \in Conns : ToSet(wire[c]) \subseteq Sent /\ ToSet(conn[c].out) \subseteq Sent
      BY <1>1, AllTyped, ConnTyped, ItemsOf
    <3>2. QED
      BY <1>2, <1>6, <3>1 DEF OrderInv, AtHome, Sent
  <2>9. \A t \in Subs, x \in Messages : Has(t, x)' => Has(t, x) \/ (t = s /\ x = m)
    BY <2>4 DEF Has
  <2>10. QED
    BY <1>7, <2>6, <2>7, <2>8, <2>9 DEF OrderInv
<1>10. QED
  BY <1>5, <1>8, <1>9

LEMMA OrderInit == Init => OrderInv
<1> SUFFICES ASSUME Init PROVE OrderInv
  OBVIOUS
<1>1. ToSet(<<>>) = {}
  BY DEF ToSet
<1>2. \A s \in Subs, x \in Messages, k \in Places : ~CopyAt(k, s, x)
  <2>1. /\ \A c \in Conns : ToSet(wire[c]) = {} /\ ToSet(conn[c].out) = {}
        /\ \A s \in Subs : ToSet(forwarder[s].holds) = {} /\ ToSet(sub[s].buffer) = {}
    BY <1>1 DEF Init, Unused
  <2>2. QED
    BY <2>1 DEF CopyAt
<1>3. Chain /\ Once
  BY <1>2 DEF Init, Chain, Once, Has
<1>4. Sorted
  <2>1. SentInOrder(<<>>) /\ Rising(<<>>)
    BY DEF SentInOrder, Rising
  <2>2. QED
    BY <2>1 DEF Init, Sorted, Unused
<1>5. AtHome
  BY <1>1 DEF Init, AtHome
<1>6. OnePerChannel
  BY DEF Init, OnePerChannel
<1>7. QED
  BY <1>3, <1>4, <1>5, <1>6, HubInit DEF OrderInv

LEMMA OrderStep == OrderInv /\ [Next]_vars => OrderInv'
<1> SUFFICES ASSUME OrderInv, [Next]_vars PROVE OrderInv'
  OBVIOUS
<1>1. HubInv' /\ OnePerChannel' /\ TypedInv
  BY HubStep, OnePerChannelStep DEF OrderInv, HubInv
<1>2. ASSUME Dwindling, consumer' = consumer PROVE OrderInv'
  BY <1>1, <1>2, DwindlingKeepsOrder
<1>3. ASSUME NEW c \in Conns, NEW ch \in Channels, NEW s \in Subs,
             Subscribe(c, ch, s) \/ OpenStream(c, ch, s)
      PROVE  OrderInv'
  <2>1. Register(c, ch, s)
    BY <1>3 DEF Subscribe, OpenStream
  <2>2. \A t \in Subs : forwarder'[t].holds = forwarder[t].holds
    <3> DEFINE f == [forwarder[s] EXCEPT !.state = "waiting"]
    <3>1. forwarder' = forwarder \/ forwarder' = [forwarder EXCEPT ![s] = f]
      BY <1>3 DEF Subscribe, OpenStream
    <3>2. forwarder \in [Subs -> ForwarderSet]
      BY <1>1, AllTyped DEF TypedInv
    <3>3. f.holds = forwarder[s].holds
      <4>1. forwarder[s] \in ForwarderSet
        BY <3>2
      <4>2. QED
        BY <4>1 DEF ForwarderSet
    <3> HIDE DEF f
    <3>4. QED
      BY <3>1, <3>2, <3>3
  <2>3. wire' = wire /\ consumer' = consumer
    BY <1>3 DEF Subscribe, OpenStream
  <2>4. Dwindling
    BY <1>1, <2>1, <2>2, <2>3, RegisterEffect DEF Dwindling
  <2>5. QED
    BY <1>2, <2>3, <2>4
<1>4. ASSUME NEW c \in Conns, NEW s \in Subs, Unsubscribe(c, s) PROVE OrderInv'
  <2>1. UNCHANGED <<sub, forwarder, wire, consumer>>
    BY <1>4 DEF Unsubscribe
  <2>2. Dwindling
    BY <1>1, <1>4, <2>1, UnsubscribeEffect DEF Dwindling
  <2>3. QED
    BY <1>2, <2>1, <2>2
<1>5. ASSUME NEW c \in Conns, NEW s \in Subs, Close(c, s) PROVE OrderInv'
  <2>1. UNCHANGED <<forwarder, wire, consumer>>
    BY <1>5 DEF Close
  <2>2. Dwindling
    BY <1>1, <1>5, <2>1, CloseEffect DEF Dwindling
  <2>3. QED
    BY <1>2, <2>1, <2>2
<1>6. ASSUME NEW c \in Conns, ClientGone(c) \/ CloseConnSend(c) \/ Return(c) PROVE OrderInv'
  <2>1. UNCHANGED <<sub, forwarder, wire, consumer>>
    BY <1>6 DEF ClientGone, CloseConnSend, Return
  <2>2. Dwindling
    BY <1>1, <1>6, <2>1, PartEffect DEF Dwindling
  <2>3. QED
    BY <1>2, <2>1, <2>2
<1>7. ASSUME NEW s \in Subs, ForwarderEnds(s) PROVE OrderInv'
  <2>1. UNCHANGED <<sub, conn, wire, consumer>>
    BY <1>7 DEF ForwarderEnds
  <2>2. Dwindling
    BY <1>1, <1>7, <2>1, ForwarderEndsEffect DEF Dwindling
  <2>3. QED
    BY <1>2, <2>1, <2>2
<1>8. ASSUME UNCHANGED vars PROVE OrderInv'
  BY <1>2, <1>8 DEF Dwindling, vars
<1>9. ASSUME NEW c \in Conns,
             Commands(c) \/ ClientGone(c) \/ Cleanup(c) \/ Pump(c) \/ StreamWrites(c)
      PROVE  OrderInv'
  BY <1>1, <1>3, <1>4, <1>5, <1>6, <1>9, PumpKeepsOrder, StreamKeepsOrder DEF Commands, Cleanup
<1>10. ASSUME NEW s \in Subs, Forwarding(s) PROVE OrderInv'
  BY <1>1, <1>7, <1>10, ReceiveKeepsOrder, ForwardKeepsOrder DEF Forwarding
<1>11. ASSUME NEW ch \in Channels, FetchMessage(ch) PROVE OrderInv'
  BY <1>1, <1>11, FetchKeepsOrder
<1>12. ASSUME Broadcasting PROVE OrderInv'
  BY <1>1, <1>12, BroadcastKeepsOrder, WriteKeepsOrder DEF Broadcasting
<1>13. QED
  BY <1>8, <1>9, <1>10, <1>11, <1>12 DEF Next

\* InOrder: through both buffers, whatever each drops and however a client
\* unsubscribes and subscribes again meanwhile, the messages of a subscription
\* arrive in the order of their broadcasts and a client gets none twice.
THEOREM ArrivalsInOrder == Spec => []InOrder
<1>1. OrderInv => InOrder
  <2> SUFFICES ASSUME OrderInv, NEW c \in Conns, NEW i \in 1 .. Len(wire[c]),
                      NEW j \in 1 .. Len(wire[c]), i < j
               PROVE  /\ wire[c][i].n # wire[c][j].n
                      /\ wire[c][i].from = wire[c][j].from => wire[c][i].n < wire[c][j].n
    BY DEF InOrder
  <2>1. wire[c] \in Seq(Sent)
    BY AllTyped DEF OrderInv, HubInv, TypedInv
  <2>2. PICK a \in Sent : a = wire[c][i]
    BY <2>1, ElementOfSeq
  <2>3. PICK b \in Sent : b = wire[c][j]
    BY <2>1, ElementOfSeq
  <2>4. a.from = b.from => a.n < b.n
    BY <2>2, <2>3 DEF OrderInv, Sorted, SentInOrder
  <2>5. a \in ToSet(wire[c]) /\ b \in ToSet(wire[c])
    BY <2>1, <2>2, <2>3, LenProperties DEF ToSet
  <2>6. /\ a.n \in Messages /\ b.n \in Messages /\ a.from \in Subs /\ b.from \in Subs
        /\ a = [n |-> a.n, from |-> a.from] /\ b = [n |-> b.n, from |-> b.from]
    BY DEF Sent
  <2>7. sub[a.from].conn = c /\ sub[b.from].conn = c
    BY <2>5 DEF OrderInv, AtHome
  <2>8. Has(a.from, a.n) /\ Has(b.from, b.n)
    BY <2>5, <2>6 DEF Has, CopyAt, Places
  <2>9. a.from # b.from => a.n # b.n
    BY <2>6, <2>7, <2>8 DEF OrderInv, Once
  <2>10. a.n < b.n => a.n # b.n
    BY <2>6 DEF Messages
  <2>11. QED
    BY <2>2, <2>3, <2>4, <2>9, <2>10
<1>2. QED
  BY <1>1, OrderInit, OrderStep, PTL DEF Spec

-----------------------------------------------------------------------------
(* The hub implements Feed: each of its steps is one of the feed's, or none. *)

\* x is on its way to subscription s.
Due(s, x) ==
  \/ s \in consumer.targets /\ x = consumer.n
  \/ CopyAt(2, s, x) \/ CopyAt(3, s, x) \/ CopyAt(4, s, x)

LEMMA OwedIsDue ==
  \A s \in Subs : /\ Owed(s) = {x \in Messages : Due(s, x)}
                  /\ Owed(s)' = {x \in Messages : Due(s, x)'}
<1>1. ASSUME NEW s \in Subs, NEW x
      PROVE  Due(s, x) <=> \/ s \in consumer.targets /\ x = consumer.n
                           \/ x \in ToSet(sub[s].buffer) \cup ToSet(forwarder[s].holds)
                           \/ \E c \in Conns : [n |-> x, from |-> s] \in ToSet(conn[c].out)
  BY DEF Due, CopyAt
<1>2. ASSUME NEW s \in Subs, NEW x
      PROVE  Due(s, x)' <=> \/ s \in consumer'.targets /\ x = consumer'.n
                            \/ x \in ToSet(sub'[s].buffer) \cup ToSet(forwarder'[s].holds)
                            \/ \E c \in Conns : [n |-> x, from |-> s] \in ToSet(conn'[c].out)
  BY DEF Due, CopyAt
<1>3. QED
  BY <1>1, <1>2 DEF Owed

\* The clients, what they follow and the number of the last message stay.
SameFollowing ==
  /\ hub' = hub /\ Published' = Published
  /\ \A s \in Subs : sub'[s].conn = sub[s].conn /\ sub'[s].channel = sub[s].channel

LEMMA FeedStutters ==
  ASSUME SameFollowing, wire' = wire, \A s \in Subs, x \in Messages : Due(s, x)' <=> Due(s, x)
  PROVE  UNCHANGED Feeding!feedVars
<1>1. \A s \in Subs : Owed(s)' = Owed(s)
  BY OwedIsDue
<1>2. [s \in Subs |-> Owed(s)]' = [s \in Subs |-> Owed(s)]
  BY <1>1
<1>3. /\ [s \in Subs |-> sub[s].conn]' = [s \in Subs |-> sub[s].conn]
      /\ [s \in Subs |-> sub[s].channel]' = [s \in Subs |-> sub[s].channel]
  BY DEF SameFollowing
<1>4. QED
  BY <1>2, <1>3 DEF Feeding!feedVars, SameFollowing

\* What is left of what the feed owes when m is taken from it.
LEMMA OwedLess ==
  ASSUME NEW s \in Subs, NEW m \in Messages, Due(s, m),
         \A t \in Subs, x \in Messages : Due(t, x)' <=> Due(t, x) /\ ~(t = s /\ x = m)
  PROVE  /\ m \in [t \in Subs |-> Owed(t)][s]
         /\ [t \in Subs |-> Owed(t)]' = [[t \in Subs |-> Owed(t)] EXCEPT ![s] = @ \ {m}]
<1>1. m \in Owed(s) /\ Owed(s)' = Owed(s) \ {m} /\ \A t \in Subs \ {s} : Owed(t)' = Owed(t)
  BY OwedIsDue
<1>2. QED
  BY <1>1

LEMMA FeedLoses ==
  ASSUME SameFollowing, wire' = wire, NEW s \in Subs, NEW m \in Messages, Due(s, m),
         \A t \in Subs, x \in Messages : Due(t, x)' <=> Due(t, x) /\ ~(t = s /\ x = m)
  PROVE  Feeding!FeedNext
<1>1. /\ [t \in Subs |-> sub[t].conn]' = [t \in Subs |-> sub[t].conn]
      /\ [t \in Subs |-> sub[t].channel]' = [t \in Subs |-> sub[t].channel]
  BY DEF SameFollowing
<1>2. Feeding!Lose(s, m)
  BY <1>1, OwedLess DEF Feeding!Lose, SameFollowing
<1>3. QED
  BY <1>2 DEF Feeding!FeedNext, Messages

LEMMA FeedDelivers ==
  ASSUME SameFollowing, NEW s \in Subs, NEW m \in Messages, Due(s, m),
         \A x \in Messages : Due(s, x) => m <= x,
         \A t \in Subs, x \in Messages : Due(t, x)' <=> Due(t, x) /\ ~(t = s /\ x = m),
         wire' = [wire EXCEPT ![sub[s].conn] = Append(@, [n |-> m, from |-> s])]
  PROVE  Feeding!FeedNext
<1>1. /\ [t \in Subs |-> sub[t].conn]' = [t \in Subs |-> sub[t].conn]
      /\ [t \in Subs |-> sub[t].channel]' = [t \in Subs |-> sub[t].channel]
  BY DEF SameFollowing
<1>2. \A k \in [t \in Subs |-> Owed(t)][s] : m <= k
  BY OwedIsDue
<1>3. [t \in Subs |-> sub[t].conn][s] = sub[s].conn
  OBVIOUS
<1>4. Feeding!Deliver(s, m)
  BY <1>1, <1>2, <1>3, OwedLess DEF Feeding!Deliver, SameFollowing
<1>5. QED
  BY <1>4 DEF Feeding!FeedNext, Messages

\* A step beside the consumer that moves no copy.
LEMMA NothingMoves ==
  ASSUME SameFollowing, wire' = wire, consumer' = consumer,
         \A s \in Subs, x \in Messages : /\ CopyAt(2, s, x)' <=> CopyAt(2, s, x)
                                         /\ CopyAt(3, s, x)' <=> CopyAt(3, s, x)
                                         /\ CopyAt(4, s, x)' <=> CopyAt(4, s, x)
  PROVE  UNCHANGED Feeding!feedVars
<1>1. \A s \in Subs, x \in Messages : Due(s, x)' <=> Due(s, x)
  BY DEF Due
<1>2. QED
  BY <1>1, FeedStutters

\* A sequence without its first item.
LEMMA ItemsSplit ==
  ASSUME NEW S, NEW q \in Seq(S)
  PROVE  /\ q # <<>> => ToSet(q) = {Head(q)} \cup ToSet(Tail(q))
         /\ q # <<>> => ToSet(SubSeq(q, 2, Len(q))) = ToSet(Tail(q))
         /\ q = <<>> => ToSet(SubSeq(q, 2, Len(q))) = {}
<1>1. ASSUME q # <<>>
      PROVE  ToSet(q) = {Head(q)} \cup ToSet(Tail(q)) /\ ToSet(SubSeq(q, 2, Len(q))) = ToSet(Tail(q))
  <2>1. /\ Len(q) \in Nat /\ Len(q) # 0 /\ DOMAIN q = 1 .. Len(q)
        /\ Tail(q) \in Seq(S) /\ Len(Tail(q)) = Len(q) - 1 /\ Head(q) = q[1]
        /\ \A i \in 1 .. Len(q) - 1 : Tail(q)[i] = q[i + 1]
    BY <1>1, HeadTailProperties, LenProperties
  <2>2. DOMAIN Tail(q) = 1 .. Len(q) - 1
    BY <2>1, LenProperties
  <2>3. ToSet(q) \subseteq {Head(q)} \cup ToSet(Tail(q))
    <3>1. ASSUME NEW i \in 1 .. Len(q) PROVE q[i] \in {Head(q)} \cup ToSet(Tail(q))
      <4>1. CASE i = 1
        BY <2>1, <4>1
      <4>2. CASE i # 1
        <5>1. i - 1 \in 1 .. Len(q) - 1 /\ Tail(q)[i - 1] = q[i]
          BY <2>1, <4>2
        <5>2. QED
          BY <2>2, <5>1 DEF ToSet
      <4>3. QED
        BY <4>1, <4>2
    <3>2. QED
      BY <2>1, <3>1 DEF ToSet
  <2>4. {Head(q)} \cup ToSet(Tail(q)) \subseteq ToSet(q)
    BY <1>1, ItemsOf
  <2>5. /\ SubSeq(q, 2, Len(q)) \in Seq(S) /\ Len(SubSeq(q, 2, Len(q))) = Len(q) - 1
        /\ \A i \in 1 .. Len(q) - 1 : SubSeq(q, 2, Len(q))[i] = q[i + 1]
    BY <2>1, SubSeqProperties
  <2>6. SubSeq(q, 2, Len(q)) = Tail(q)
    BY <2>1, <2>5, SeqEqual
  <2>7. QED
    BY <2>3, <2>4, <2>6
<1>2. ASSUME q = <<>> PROVE ToSet(SubSeq(q, 2, Len(q))) = {}
  BY <1>2 DEF ToSet
<1>3. QED
  BY <1>1, <1>2

LEMMA FetchIsHidden ==
  ASSUME OrderInv, NEW ch \in Channels, FetchMessage(ch)
  PROVE  UNCHANGED Feeding!feedVars
<1>1. consumer \in ConsumerSet
  BY AllTyped DEF OrderInv, HubInv, TypedInv
<1>2. /\ consumer'.n = consumer.n + 1 /\ consumer'.fetched /\ ~consumer.fetched
      /\ consumer'.targets = {} /\ consumer.targets = {}
      /\ UNCHANGED <<hub, sub, forwarder, conn, wire>>
  BY <1>1 DEF FetchMessage, ConsumerSet
<1>3. SameFollowing
  BY <1>1, <1>2 DEF SameFollowing, Published, ConsumerSet
<1>4. \A s \in Subs, x \in Messages : Due(s, x)' <=> Due(s, x)
  BY <1>2 DEF Due, CopyAt
<1>5. QED
  BY <1>2, <1>3, <1>4, FeedStutters

\* The channel of a record that has been fetched.
ChannelKnown == consumer.fetched => consumer.channel \in Channels

LEMMA ChannelStep == TypedInv /\ ChannelKnown /\ [Next]_vars => ChannelKnown'
<1> SUFFICES ASSUME TypedInv, ChannelKnown, [Next]_vars PROVE ChannelKnown'
  OBVIOUS
<1>1. consumer \in ConsumerSet
  BY AllTyped DEF TypedInv
<1>2. CASE \E ch \in Channels : FetchMessage(ch)
  BY <1>1, <1>2 DEF FetchMessage, ChannelKnown, ConsumerSet
<1>3. CASE Broadcast
  BY <1>1, <1>3 DEF Broadcast, ChannelKnown, ConsumerSet
<1>4. CASE \E s \in Subs : Write(s)
  BY <1>4, WriteEffect DEF ChannelKnown
<1>5. CASE consumer' = consumer
  BY <1>5 DEF ChannelKnown
<1>6. QED
  BY <1>2, <1>3, <1>4, <1>5
     DEF Next, Broadcasting, Commands, Subscribe, OpenStream, Unsubscribe, ClientGone, Cleanup,
         Close, CloseConnSend, Return, Pump, PumpWrites, PumpFails, PumpEnds, StreamWrites,
         Forwarding, Receive, Forward, ForwarderEnds, vars

LEMMA BroadcastPublishes ==
  ASSUME OrderInv, ChannelKnown, Broadcast
  PROVE  Feeding!FeedNext
<1> DEFINE ch == consumer.channel
           owed == [s \in Subs |-> Owed(s)]
           chan == [s \in Subs |-> sub[s].channel]
<1>1. consumer \in ConsumerSet /\ hub \subseteq Subs /\ consumer.fetched /\ consumer.n \in Messages
  BY AllTyped DEF OrderInv, HubInv, TypedInv, Countable, Broadcast
<1>2. /\ consumer'.n = consumer.n /\ ~consumer'.fetched
      /\ consumer'.targets = {s \in hub : chan[s] = ch}
      /\ UNCHANGED <<hub, sub, forwarder, conn, wire>>
  BY <1>1 DEF Broadcast, ConsumerSet
<1>3. consumer.targets = {} /\ ch \in Channels
  BY <1>1 DEF OrderInv, Once, ChannelKnown
<1>4. Published < MaxBroadcasts /\ Published' = Published + 1 /\ Published + 1 = consumer.n
  BY <1>1, <1>2, BuffersNat DEF Published, Messages
<1>5. ASSUME NEW s \in Subs
      PROVE  Owed(s)' = IF s \in hub /\ chan[s] = ch THEN owed[s] \cup {Published + 1} ELSE owed[s]
  <2>1. \A x \in Messages : Due(s, x)' <=> \/ s \in hub /\ chan[s] = ch /\ x = consumer.n
                                           \/ Due(s, x)
    BY <1>2, <1>3 DEF Due, CopyAt
  <2>2. owed[s] = Owed(s)
    OBVIOUS
  <2> HIDE DEF owed, chan
  <2>3. QED
    BY <1>1, <1>4, <2>1, <2>2, OwedIsDue
<1>6. owed' = [s \in Subs |-> IF s \in hub /\ chan[s] = ch THEN owed[s] \cup {Published + 1} ELSE owed[s]]
  BY <1>5
<1>7. Feeding!Publish(ch)
  BY <1>2, <1>4, <1>6 DEF Feeding!Publish
<1>8. QED
  BY <1>3, <1>7 DEF Feeding!FeedNext

LEMMA WriteOwes ==
  ASSUME OrderInv, NEW s \in Subs, Write(s)
  PROVE  Feeding!FeedNext \/ UNCHANGED Feeding!feedVars
<1> DEFINE m == consumer.n
<1>1. TypedInv /\ TypeOK
  BY DEF OrderInv, HubInv, TypedInv, TypeInv
<1>2. /\ s \in consumer.targets /\ m \in Messages
      /\ sub[s].buffer \in Seq(Messages)
      /\ UNCHANGED <<hub, forwarder, conn, wire>>
  BY <1>1, SubTyped DEF Write, TypedInv, Countable
<1>3. /\ consumer'.targets = consumer.targets \ {s} /\ consumer'.n = m
      /\ consumer'.fetched = consumer.fetched
  BY <1>1, WriteEffect
<1>4. BufferBecomes(s, sub[s].buffer) \/ BufferBecomes(s, Append(sub[s].buffer, m))
  BY <1>1, WriteEffect
<1>5. SameFollowing
  BY <1>2, <1>3, <1>4 DEF SameFollowing, Published, BufferBecomes
<1>6. ASSUME NEW x \in Messages, NEW k \in Places, CopyAt(k, s, x) PROVE x # m
  <2>1. Has(s, x)
    BY <1>6 DEF Has
  <2>2. x < m
    BY <1>2, <2>1 DEF OrderInv, Once
  <2>3. QED
    BY <1>2, <2>2 DEF Messages
<1>7. \A t \in Subs, x \in Messages :
        (CopyAt(2, t, x)' <=> CopyAt(2, t, x)) /\ (CopyAt(3, t, x)' <=> CopyAt(3, t, x))
  BY <1>2 DEF CopyAt
<1>8. \A t \in Subs, x \in Messages : t # s => (Due(t, x)' <=> Due(t, x))
  <2>1. \A t \in Subs, x \in Messages : t # s => (CopyAt(4, t, x)' <=> CopyAt(4, t, x))
    BY <1>4 DEF CopyAt, BufferBecomes
  <2>2. QED
    BY <1>3, <1>7, <2>1 DEF Due
<1>9. CASE BufferBecomes(s, sub[s].buffer)
  <2>1. \A x \in Messages : CopyAt(4, s, x)' <=> CopyAt(4, s, x)
    BY <1>9 DEF CopyAt, BufferBecomes
  <2>2. Due(s, m) /\ \A x \in Messages : Due(s, x)' <=> Due(s, x) /\ x # m
    BY <1>2, <1>3, <1>6, <1>7, <2>1 DEF Due, Places
  <2> HIDE DEF m
  <2>3. QED
    BY <1>2, <1>5, <1>8, <2>2, FeedLoses
<1>10. CASE BufferBecomes(s, Append(sub[s].buffer, m))
  <2>1. ToSet(sub'[s].buffer) = ToSet(sub[s].buffer) \cup {m}
    BY <1>2, <1>10, ItemsAppended DEF BufferBecomes
  <2>2. \A x \in Messages : CopyAt(4, s, x)' <=> CopyAt(4, s, x) \/ x = m
    BY <2>1 DEF CopyAt
  <2>3. \A x \in Messages : Due(s, x)' <=> Due(s, x)
    BY <1>2, <1>3, <1>7, <2>2 DEF Due
  <2>4. QED
    BY <1>2, <1>5, <1>8, <2>3, FeedStutters
<1>11. QED
  BY <1>4, <1>9, <1>10

LEMMA ReceiveIsHidden ==
  ASSUME OrderInv, NEW s \in Subs, Receive(s)
  PROVE  UNCHANGED Feeding!feedVars
<1> DEFINE q == sub[s].buffer
<1>1. TypedInv /\ TypeOK /\ Addressed
  BY DEF OrderInv, HubInv, TypedInv, TypeInv
<1>2. /\ BufferBecomes(s, Tail(q)) /\ forwarder'[s].holds = <<Head(q)>>
      /\ \A t \in Subs \ {s} : forwarder'[t] = forwarder[t]
      /\ UNCHANGED <<hub, conn, consumer, wire>>
  BY <1>1, ReceiveEffect DEF Receive
<1>3. q \in Seq(Messages) /\ q # <<>> /\ forwarder[s].holds = <<>>
  BY <1>1, SubTyped DEF Receive, Addressed
<1>4. SameFollowing
  BY <1>2 DEF SameFollowing, Published, BufferBecomes
<1>5. \A t \in Subs, x \in Messages : CopyAt(2, t, x)' <=> CopyAt(2, t, x)
  BY <1>2 DEF CopyAt
<1>6. \A t \in Subs, x \in Messages :
        t # s => (CopyAt(3, t, x)' <=> CopyAt(3, t, x)) /\ (CopyAt(4, t, x)' <=> CopyAt(4, t, x))
  BY <1>2 DEF CopyAt, BufferBecomes
<1>7. ASSUME NEW x \in Messages
      PROVE  CopyAt(3, s, x)' \/ CopyAt(4, s, x)' <=> CopyAt(3, s, x) \/ CopyAt(4, s, x)
  <2>1. ToSet(q) = {Head(q)} \cup ToSet(Tail(q)) /\ ToSet(<<>>) = {} /\ ToSet(<<Head(q)>>) = {Head(q)}
    BY <1>3, ItemsSplit, ItemsOf, OnlyItem
  <2>2. /\ CopyAt(3, s, x)' <=> x = Head(q)
        /\ CopyAt(4, s, x)' <=> x \in ToSet(Tail(q))
    BY <1>2, <2>1 DEF CopyAt, BufferBecomes
  <2>3. /\ ~CopyAt(3, s, x)
        /\ CopyAt(4, s, x) <=> x \in ToSet(q)
    BY <1>3, <2>1 DEF CopyAt
  <2>4. QED
    BY <2>1, <2>2, <2>3
<1>8. \A t \in Subs, x \in Messages : Due(t, x)' <=> Due(t, x)
  BY <1>2, <1>5, <1>6, <1>7 DEF Due
<1>9. QED
  BY <1>2, <1>4, <1>8, FeedStutters

\* What the outbound buffers carry before and after one of them has changed.
LEMMA OutCopies ==
  ASSUME NEW c \in Conns, NEW q, OutBecomes(c, q), NEW t \in Subs, NEW x
  PROVE  /\ CopyAt(2, t, x) <=> \/ [n |-> x, from |-> t] \in ToSet(conn[c].out)
                                \/ \E d \in Conns \ {c} : [n |-> x, from |-> t] \in ToSet(conn[d].out)
         /\ CopyAt(2, t, x)' <=> \/ [n |-> x, from |-> t] \in ToSet(q)
                                 \/ \E d \in Conns \ {c} : [n |-> x, from |-> t] \in ToSet(conn[d].out)
<1>1. conn'[c].out = q /\ \A d \in Conns \ {c} : conn'[d] = conn[d]
  BY DEF OutBecomes
<1>2. CopyAt(2, t, x) <=> \E d \in Conns : [n |-> x, from |-> t] \in ToSet(conn[d].out)
  BY DEF CopyAt
<1>3. CopyAt(2, t, x)' <=> \E d \in Conns : [n |-> x, from |-> t] \in ToSet(conn'[d].out)
  BY DEF CopyAt
<1>4. QED
  BY <1>1, <1>2, <1>3

\* When two sent messages are the same.
LEMMA SameSent ==
  ASSUME NEW x, NEW t, NEW m, NEW s
  PROVE  [n |-> x, from |-> t] = [n |-> m, from |-> s] <=> x = m /\ t = s
<1>1. [n |-> x, from |-> t].n = x /\ [n |-> x, from |-> t].from = t
      /\ [n |-> m, from |-> s].n = m /\ [n |-> m, from |-> s].from = s
  OBVIOUS
<1>2. ASSUME [n |-> x, from |-> t] = [n |-> m, from |-> s] PROVE x = m /\ t = s
  BY <1>1, <1>2, Zenon
<1>3. ASSUME x = m, t = s PROVE [n |-> x, from |-> t] = [n |-> m, from |-> s]
  BY <1>3, Zenon
<1>4. QED
  BY <1>2, <1>3

\* One copy of a message that is on its way is the only one.
LEMMA OneCopy ==
  ASSUME OrderInv, NEW s \in Subs, NEW m \in Messages, NEW k \in 2 .. 4, CopyAt(k, s, m)
  PROVE  /\ \A j \in 2 .. 4 : CopyAt(j, s, m) => j = k
         /\ ~(s \in consumer.targets /\ m = consumer.n)
         /\ Due(s, m)
<1>1. \A j \in Places : CopyAt(j, s, m) => ~(j < k) /\ ~(k < j)
  <2>1. ~(m < m) /\ k \in Places
    BY DEF Messages, Places
  <2>2. QED
    BY <2>1 DEF OrderInv, Chain
<1>2. ASSUME s \in consumer.targets PROVE m # consumer.n
  <2>1. Has(s, m)
    BY DEF Has, Places
  <2>2. m < consumer.n
    BY <1>2, <2>1 DEF OrderInv, Once
  <2>3. QED
    BY <2>2 DEF Messages
<1>3. QED
  BY <1>1, <1>2 DEF Due, Places

LEMMA ForwardOwes ==
  ASSUME OrderInv, NEW s \in Subs, Forward(s)
  PROVE  Feeding!FeedNext \/ UNCHANGED Feeding!feedVars
<1> DEFINE m == Head(forwarder[s].holds)
           c == sub[s].conn
           r == [n |-> m, from |-> s]
<1>1. TypedInv /\ TypeOK /\ Addressed
  BY DEF OrderInv, HubInv, TypedInv, TypeInv
<1>2. forwarder[s].holds = <<m>> /\ m \in Messages
  <2>1. /\ forwarder[s].holds \in Seq(Messages) /\ Len(forwarder[s].holds) <= 1
        /\ forwarder[s].holds # <<>>
    BY <1>1, ForwarderTyped DEF Forward, Addressed
  <2>2. QED
    BY <2>1
<1>3. /\ c \in Conns
      /\ OutBecomes(c, conn[c].out) \/ OutBecomes(c, Append(conn[c].out, r))
      /\ forwarder'[s].holds = <<>> /\ \A t \in Subs \ {s} : forwarder'[t] = forwarder[t]
  BY <1>1, ForwardEffect
<1>4. UNCHANGED <<hub, sub, consumer, wire>>
  BY DEF Forward
<1>5. SameFollowing
  BY <1>4 DEF SameFollowing, Published
<1>6. conn[c].out \in Seq(Sent) /\ r \in Sent
  BY <1>1, <1>2, <1>3, ConnTyped DEF Sent
<1> HIDE DEF m, c
<1>7. \A t \in Subs, x \in Messages :
        /\ CopyAt(4, t, x)' <=> CopyAt(4, t, x)
        /\ t # s => (CopyAt(3, t, x)' <=> CopyAt(3, t, x))
  BY <1>3, <1>4 DEF CopyAt
<1>8. \A x \in Messages : (CopyAt(3, s, x) <=> x = m) /\ ~CopyAt(3, s, x)'
  <2>1. ToSet(<<m>>) = {m} /\ ToSet(<<>>) = {}
    BY OnlyItem DEF ToSet
  <2>2. QED
    BY <1>2, <1>3, <2>1 DEF CopyAt
<1>9. /\ ~CopyAt(2, s, m) /\ ~CopyAt(4, s, m) /\ ~(s \in consumer.targets /\ m = consumer.n)
      /\ Due(s, m)
  <2>1. CopyAt(3, s, m)
    BY <1>2, <1>8
  <2>2. QED
    BY <1>2, <2>1, OneCopy
<1>10. CASE OutBecomes(c, conn[c].out)
  <2>1. \A t \in Subs, x \in Messages : CopyAt(2, t, x)' <=> CopyAt(2, t, x)
    BY <1>3, <1>10, OutCopies
  <2>2. \A t \in Subs, x \in Messages : Due(t, x)' <=> Due(t, x) /\ ~(t = s /\ x = m)
    BY <1>4, <1>7, <1>8, <1>9, <2>1 DEF Due
  <2>3. QED
    BY <1>2, <1>4, <1>5, <1>9, <2>2, FeedLoses
<1>11. CASE OutBecomes(c, Append(conn[c].out, r))
  <2>1. ToSet(Append(conn[c].out, r)) = ToSet(conn[c].out) \cup {r}
    BY <1>6, ItemsAppended
  <2>2. ASSUME NEW t \in Subs, NEW x \in Messages
        PROVE  CopyAt(2, t, x)' <=> CopyAt(2, t, x) \/ (t = s /\ x = m)
    <3> DEFINE y == [n |-> x, from |-> t]
               others == \E d \in Conns \ {c} : y \in ToSet(conn[d].out)
    <3>1. /\ CopyAt(2, t, x) <=> y \in ToSet(conn[c].out) \/ others
          /\ CopyAt(2, t, x)' <=> y \in ToSet(Append(conn[c].out, r)) \/ others
      BY <1>3, <1>11, OutCopies
    <3>2. y = r <=> x = m /\ t = s
      BY SameSent
    <3> HIDE DEF y, r, others
    <3>3. QED
      BY <2>1, <3>1, <3>2
  <2>3. \A t \in Subs, x \in Messages : Due(t, x)' <=> Due(t, x)
    BY <1>4, <1>7, <1>8, <2>2 DEF Due
  <2>4. QED
    BY <1>4, <1>5, <2>3, FeedStutters
<1>12. QED
  BY <1>3, <1>10, <1>11

\* The oldest message of an outbound buffer is taken from what is on its way.
LEMMA HeadLeaves ==
  ASSUME OrderInv, NEW c \in Sockets, conn[c].out # <<>>, NEW q, OutBecomes(c, q),
         ToSet(q) = ToSet(Tail(conn[c].out)),
         UNCHANGED <<hub, sub, forwarder, consumer>>
  PROVE  LET r == Head(conn[c].out) IN
         /\ r.from \in Subs /\ r.n \in Messages /\ r = [n |-> r.n, from |-> r.from]
         /\ sub[r.from].conn = c
         /\ Due(r.from, r.n)
         /\ \A x \in Messages : Due(r.from, x) => r.n <= x
         /\ \A t \in Subs, x \in Messages : Due(t, x)' <=> Due(t, x) /\ ~(t = r.from /\ x = r.n)
<1> DEFINE out == conn[c].out
           s == Head(out).from
           m == Head(out).n
<1>1. c \in Conns /\ TypedInv /\ TypeOK
  BY DEF Conns, OrderInv, HubInv, TypedInv, TypeInv
<1>2. out \in Seq(Sent) /\ SentInOrder(out)
  BY <1>1, ConnTyped DEF OrderInv, Sorted
<1>3. ToSet(out) = {Head(out)} \cup ToSet(Tail(out)) /\ ToSet(out) \subseteq Sent
  BY <1>2, ItemsSplit, ItemsOf
<1>4. /\ s \in Subs /\ m \in Messages /\ Head(out) = [n |-> m, from |-> s]
      /\ Head(out) \in ToSet(out)
  BY <1>3 DEF Sent
<1>5. sub[s].conn = c
  BY <1>1, <1>4 DEF OrderInv, AtHome
<1>6. \A x \in ToSet(Tail(out)) : x.from = s => m < x.n
  BY <1>2, SentKept
<1>7. CopyAt(2, s, m)
  BY <1>1, <1>4 DEF CopyAt
<1>8. \A x \in Messages : CopyAt(2, s, x) <=> [n |-> x, from |-> s] \in ToSet(out)
  BY <1>1, <1>4, <1>5 DEF CopyAt, OrderInv, AtHome
<1> HIDE DEF out, s, m
<1>9. ASSUME NEW x \in Messages, Due(s, x) PROVE m <= x
  <2>1. CASE CopyAt(2, s, x)
    <3>1. [n |-> x, from |-> s] = Head(out) \/ [n |-> x, from |-> s] \in ToSet(Tail(out))
      BY <1>3, <1>8, <2>1
    <3>2. x = m \/ m < x
      BY <1>4, <1>6, <3>1, SameSent
    <3>3. QED
      BY <1>4, <3>2 DEF Messages
  <2>2. CASE CopyAt(3, s, x) \/ CopyAt(4, s, x)
    <3>1. m < x
      BY <1>4, <1>7, <2>2 DEF OrderInv, Chain, Places
    <3>2. QED
      BY <1>4, <3>1 DEF Messages
  <2>3. CASE s \in consumer.targets /\ x = consumer.n
    <3>1. Has(s, m)
      BY <1>7 DEF Has, Places
    <3>2. m < x
      BY <1>4, <2>3, <3>1 DEF OrderInv, Once
    <3>3. QED
      BY <1>4, <3>2 DEF Messages
  <2>4. QED
    BY <1>9, <2>1, <2>2, <2>3 DEF Due
<1>10. /\ ~CopyAt(3, s, m) /\ ~CopyAt(4, s, m) /\ ~(s \in consumer.targets /\ m = consumer.n)
       /\ Due(s, m)
  BY <1>4, <1>7, OneCopy
<1>11. ASSUME NEW t \in Subs, NEW x \in Messages
       PROVE  CopyAt(2, t, x)' <=> CopyAt(2, t, x) /\ ~(t = s /\ x = m)
  <2>1. [n |-> x, from |-> t] \in ToSet(q) <=>
          [n |-> x, from |-> t] \in ToSet(out) /\ [n |-> x, from |-> t] # Head(out)
    <3>1. Head(out) \notin ToSet(Tail(out))
      BY <1>4, <1>6 DEF Messages
    <3>2. QED
      BY <1>3, <3>1 DEF out
  <2>2. [n |-> x, from |-> t] = Head(out) <=> t = s /\ x = m
    BY <1>4, SameSent
  <2>3. \A d \in Conns \ {c} : ~([n |-> m, from |-> s] \in ToSet(conn[d].out))
    <3>1. ASSUME NEW d \in Conns, [n |-> m, from |-> s] \in ToSet(conn[d].out) PROVE d = c
      <4>1. sub[[n |-> m, from |-> s].from].conn = d
        BY <3>1 DEF OrderInv, AtHome
      <4>2. QED
        BY <1>5, <4>1
    <3>2. QED
      BY <3>1
  <2>4. /\ CopyAt(2, t, x) <=> \/ [n |-> x, from |-> t] \in ToSet(out)
                               \/ \E d \in Conns \ {c} : [n |-> x, from |-> t] \in ToSet(conn[d].out)
        /\ CopyAt(2, t, x)' <=> \/ [n |-> x, from |-> t] \in ToSet(q)
                                \/ \E d \in Conns \ {c} : [n |-> x, from |-> t] \in ToSet(conn[d].out)
    BY <1>1, OutCopies DEF out
  <2>5. QED
    BY <2>1, <2>2, <2>3, <2>4
<1>12. ASSUME NEW t \in Subs, NEW x \in Messages
       PROVE  Due(t, x)' <=> Due(t, x) /\ ~(t = s /\ x = m)
  <2>1. (CopyAt(3, t, x)' <=> CopyAt(3, t, x)) /\ (CopyAt(4, t, x)' <=> CopyAt(4, t, x))
    BY DEF CopyAt
  <2>2. QED
    BY <1>10, <1>11, <2>1 DEF Due
<1>13. QED
  BY <1>4, <1>5, <1>9, <1>10, <1>12 DEF out, s, m

LEMMA PumpOwes ==
  ASSUME OrderInv, NEW c \in Conns, Pump(c)
  PROVE  Feeding!FeedNext \/ UNCHANGED Feeding!feedVars
<1> DEFINE q == conn[c].out
           r == Head(q)
<1>1. TypedInv /\ TypeOK
  BY DEF OrderInv, HubInv, TypedInv, TypeInv
<1>2. c \in Sockets /\ UNCHANGED <<hub, sub, forwarder, consumer>>
  BY <1>1, PumpEffect DEF Pump, PumpWrites, PumpFails, PumpEnds
<1>3. SameFollowing
  BY <1>2 DEF SameFollowing, Published
<1>4. q \in Seq(Sent)
  BY <1>1, ConnTyped
<1>5. CASE PumpWrites(c)
  <2>1. q # <<>> /\ OutBecomes(c, Tail(q)) /\ wire' = [wire EXCEPT ![c] = Append(@, r)]
    BY <1>1, <1>5, PumpEffect DEF PumpWrites
  <2>2. /\ r.from \in Subs /\ r.n \in Messages /\ r = [n |-> r.n, from |-> r.from]
        /\ sub[r.from].conn = c /\ Due(r.from, r.n)
        /\ \A x \in Messages : Due(r.from, x) => r.n <= x
        /\ \A t \in Subs, x \in Messages : Due(t, x)' <=> Due(t, x) /\ ~(t = r.from /\ x = r.n)
    BY <1>2, <2>1, HeadLeaves
  <2>3. wire' = [wire EXCEPT ![sub[r.from].conn] = Append(@, [n |-> r.n, from |-> r.from])]
    BY <2>1, <2>2
  <2> HIDE DEF r
  <2>4. QED
    BY <1>3, <2>2, <2>3, FeedDelivers
<1>6. CASE ~PumpWrites(c) /\ (OutBecomes(c, q) \/ q = <<>>)
  <2>1. wire' = wire /\ (OutBecomes(c, q) \/ OutBecomes(c, SubSeq(q, 2, Len(q))))
    BY <1>1, <1>6, PumpEffect
  <2>2. PICK p : OutBecomes(c, p) /\ ToSet(p) = ToSet(q)
    <3>1. q = <<>> => ToSet(SubSeq(q, 2, Len(q))) = ToSet(q)
      BY <1>4, ItemsSplit, ItemsOf
    <3>2. QED
      BY <1>6, <2>1, <3>1
  <2>3. \A t \in Subs, x \in Messages : CopyAt(2, t, x)' <=> CopyAt(2, t, x)
    BY <2>2, OutCopies
  <2>4. \A t \in Subs, x \in Messages : /\ CopyAt(3, t, x)' <=> CopyAt(3, t, x)
                                        /\ CopyAt(4, t, x)' <=> CopyAt(4, t, x)
    BY <1>2 DEF CopyAt
  <2>5. QED
    BY <1>2, <1>3, <2>1, <2>3, <2>4, NothingMoves
<1>7. CASE ~PumpWrites(c) /\ ~OutBecomes(c, q) /\ q # <<>>
  <2> DEFINE p == SubSeq(q, 2, Len(q))
  <2>1. wire' = wire /\ OutBecomes(c, p)
    BY <1>1, <1>7, PumpEffect
  <2>2. ToSet(p) = ToSet(Tail(q))
    BY <1>4, <1>7, ItemsSplit
  <2> HIDE DEF p
  <2>3. /\ r.from \in Subs /\ r.n \in Messages /\ Due(r.from, r.n)
        /\ \A t \in Subs, x \in Messages : Due(t, x)' <=> Due(t, x) /\ ~(t = r.from /\ x = r.n)
    BY <1>2, <1>7, <2>1, <2>2, HeadLeaves
  <2> HIDE DEF r
  <2>4. QED
    BY <1>3, <2>1, <2>3, FeedLoses
<1>8. QED
  BY <1>5, <1>6, <1>7

LEMMA StreamOwes ==
  ASSUME OrderInv, NEW c \in Conns, StreamWrites(c)
  PROVE  Feeding!FeedNext
<1>1. TypedInv /\ TypeOK /\ Addressed /\ Shape
  BY DEF OrderInv, HubInv, TypedInv, TypeInv
<1>2. PICK s \in conn[c].subs :
        /\ c \in Streams /\ sub[s].buffer # <<>>
        /\ wire' = [wire EXCEPT ![c] = Append(@, [n |-> Head(sub[s].buffer), from |-> s])]
        /\ sub' = [sub EXCEPT ![s].buffer = Tail(sub[s].buffer)]
        /\ UNCHANGED <<hub, forwarder, conn, consumer>>
  BY DEF StreamWrites
<1> DEFINE q == sub[s].buffer
           m == Head(q)
<1>3. s \in Subs /\ sub[s].conn = c /\ forwarder[s].state = "none"
  <2>1. s \in Subs /\ sub[s].conn = c
    BY <1>1, ConnTyped DEF Shape
  <2>2. s \in Of(c)
    BY <2>1 DEF Of
  <2>3. QED
    BY <1>1, <1>2, <2>1, <2>2 DEF Shape
<1>4. BufferBecomes(s, Tail(q))
  BY <1>1, <1>2, <1>3, BufferEffect
<1>5. q \in Seq(Messages) /\ Rising(q) /\ forwarder[s].holds = <<>>
  BY <1>1, <1>3, SubTyped DEF Addressed, OrderInv, Sorted
<1>6. /\ ToSet(q) = {m} \cup ToSet(Tail(q)) /\ ToSet(q) \subseteq Messages
      /\ \A x \in ToSet(Tail(q)) : m < x
  BY <1>2, <1>5, ItemsSplit, ItemsOf, RisingKept
<1>7. m \in Messages
  BY <1>6
<1>8. SameFollowing
  BY <1>2, <1>4 DEF SameFollowing, Published, BufferBecomes
<1>9. \A x \in Messages : /\ ~CopyAt(2, s, x) /\ ~CopyAt(3, s, x)
                          /\ CopyAt(4, s, x) <=> x \in ToSet(q)
                          /\ CopyAt(4, s, x)' <=> x \in ToSet(Tail(q))
  <2>1. \A x \in Messages : ~CopyAt(3, s, x)
    BY <1>5, ItemsOf DEF CopyAt
  <2>2. ASSUME NEW x \in Messages, CopyAt(2, s, x) PROVE FALSE
    <3>1. PICK d \in Conns : [n |-> x, from |-> s] \in ToSet(conn[d].out)
      BY <2>2 DEF CopyAt
    <3>2. d \in Sockets /\ sub[[n |-> x, from |-> s].from].conn = d
      BY <3>1 DEF OrderInv, AtHome
    <3>3. QED
      BY <1>2, <1>3, <3>2, ConnsDisjoint
  <2>3. QED
    BY <1>4, <2>1, <2>2 DEF CopyAt, BufferBecomes
<1>10. \A t \in Subs, x \in Messages :
         /\ (CopyAt(2, t, x)' <=> CopyAt(2, t, x)) /\ (CopyAt(3, t, x)' <=> CopyAt(3, t, x))
         /\ t # s => (CopyAt(4, t, x)' <=> CopyAt(4, t, x))
  BY <1>2, <1>4 DEF CopyAt, BufferBecomes
<1> HIDE DEF q, m
<1>11. CopyAt(4, s, m) /\ Due(s, m) /\ ~(s \in consumer.targets /\ m = consumer.n)
  <2>1. CopyAt(4, s, m)
    BY <1>6, <1>7, <1>9
  <2>2. QED
    BY <1>3, <1>7, <2>1, OneCopy
<1>12. ASSUME NEW x \in Messages, Due(s, x) PROVE m <= x
  <2>1. CASE CopyAt(4, s, x)
    <3>1. x = m \/ m < x
      BY <1>6, <1>9, <2>1
    <3>2. QED
      BY <1>7, <3>1 DEF Messages
  <2>2. CASE s \in consumer.targets /\ x = consumer.n
    <3>1. Has(s, m)
      BY <1>11 DEF Has, Places
    <3>2. m < x
      BY <1>3, <1>7, <2>2, <3>1 DEF OrderInv, Once
    <3>3. QED
      BY <1>7, <3>2 DEF Messages
  <2>3. QED
    BY <1>9, <1>12, <2>1, <2>2 DEF Due
<1>13. ASSUME NEW t \in Subs, NEW x \in Messages
       PROVE  Due(t, x)' <=> Due(t, x) /\ ~(t = s /\ x = m)
  <2>1. CASE t # s
    BY <1>2, <1>10, <2>1 DEF Due
  <2>2. CASE t = s
    <3>1. x \in ToSet(Tail(q)) <=> x \in ToSet(q) /\ x # m
      <4>1. m \notin ToSet(Tail(q))
        BY <1>6, <1>7 DEF Messages
      <4>2. QED
        BY <1>6, <4>1
    <3>2. Due(s, x)' <=> (s \in consumer.targets /\ x = consumer.n) \/ x \in ToSet(Tail(q))
      <4>1. ~CopyAt(2, s, x)' /\ ~CopyAt(3, s, x)' /\ (CopyAt(4, s, x)' <=> x \in ToSet(Tail(q)))
        BY <1>3, <1>9, <1>10
      <4>2. consumer' = consumer
        BY <1>2
      <4>3. QED
        BY <4>1, <4>2 DEF Due
    <3>3. Due(s, x) <=> (s \in consumer.targets /\ x = consumer.n) \/ x \in ToSet(q)
      BY <1>9 DEF Due
    <3>4. QED
      BY <1>11, <2>2, <3>1, <3>2, <3>3
  <2>3. QED
    BY <2>1, <2>2
<1>14. wire' = [wire EXCEPT ![sub[s].conn] = Append(@, [n |-> m, from |-> s])]
  BY <1>2, <1>3 DEF m, q
<1>15. QED
  BY <1>3, <1>7, <1>8, <1>11, <1>12, <1>13, <1>14, FeedDelivers

\* What a handler does is subscribing, unsubscribing, or none of the feed's business.
LEMMA RegisterFollows ==
  ASSUME OrderInv, NEW c \in Conns, NEW ch \in Channels, NEW s \in Subs,
         Subscribe(c, ch, s) \/ OpenStream(c, ch, s)
  PROVE  Feeding!FeedNext
<1> DEFINE client == [t \in Subs |-> sub[t].conn]
           channel == [t \in Subs |-> sub[t].channel]
           owed == [t \in Subs |-> Owed(t)]
<1>1. TypedInv /\ TypeOK /\ Shape /\ hub \subseteq Subs
  BY AllTyped DEF OrderInv, HubInv, TypedInv, TypeInv
<1>2. Register(c, ch, s) /\ UNCHANGED <<consumer, wire>>
  BY DEF Subscribe, OpenStream
<1>3. /\ sub[s].conn = Nobody /\ sub[s].buffer = <<>> /\ sub'[s].buffer = <<>>
      /\ sub'[s].conn = c /\ sub'[s].channel = ch
      /\ \A t \in Subs \ {s} : sub'[t] = sub[t]
      /\ hub' = hub \cup {s}
      /\ conn'[c].out = conn[c].out /\ \A d \in Conns \ {c} : conn'[d] = conn[d]
  BY <1>1, <1>2, RegisterEffect
<1>4. ASSUME NEW t \in Subs PROVE forwarder'[t].holds = forwarder[t].holds
  <2> DEFINE f == [forwarder[s] EXCEPT !.state = "waiting"]
  <2>1. forwarder' = forwarder \/ forwarder' = [forwarder EXCEPT ![s] = f]
    BY DEF Subscribe, OpenStream
  <2>2. f.holds = forwarder[s].holds /\ forwarder \in [Subs -> ForwarderSet]
    BY <1>1, ForwarderTyped, AllTyped DEF ForwarderSet, TypedInv
  <2> HIDE DEF f
  <2>3. QED
    BY <2>1, <2>2
<1>5. ~\E t \in hub : sub[t].conn = c /\ sub[t].channel = ch
  <2> SUFFICES ASSUME NEW t \in hub, sub[t].conn = c, sub[t].channel = ch PROVE FALSE
    OBVIOUS
  <2>1. t \in conn[c].subs
    BY <1>1 DEF Shape
  <2>2. t \in Of(c)
    BY <1>1 DEF Of
  <2>3. QED
    BY <2>1, <2>2 DEF Subscribe, OpenStream
<1>6. ASSUME NEW t \in Subs PROVE Owed(t)' = Owed(t)
  <2>1. ASSUME NEW x \in Messages PROVE Due(t, x)' <=> Due(t, x)
    <3>1. sub'[t].buffer = sub[t].buffer /\ \A d \in Conns : conn'[d].out = conn[d].out
      BY <1>3
    <3>2. QED
      BY <1>2, <1>4, <3>1 DEF Due, CopyAt
  <2>2. QED
    BY <2>1, OwedIsDue
<1>7. owed' = owed
  BY <1>6
<1>8. client' = [client EXCEPT ![s] = c] /\ channel' = [channel EXCEPT ![s] = ch]
  BY <1>3
<1>9. client[s] = Nobody /\ ~\E t \in hub : client[t] = c /\ channel[t] = ch
  BY <1>1, <1>3, <1>5
<1>10. Published' = Published
  BY <1>2 DEF Published
<1>11. Feeding!Follow(c, ch, s)
  BY <1>2, <1>3, <1>7, <1>8, <1>9, <1>10 DEF Feeding!Follow
<1>12. QED
  BY <1>11 DEF Feeding!FeedNext

LEMMA UnsubscribeUnfollows ==
  ASSUME OrderInv, NEW c \in Conns, NEW s \in Subs, Unsubscribe(c, s)
  PROVE  Feeding!FeedNext \/ UNCHANGED Feeding!feedVars
<1>1. TypedInv
  BY DEF OrderInv, HubInv
<1>2. /\ hub' = hub \ {s} /\ UNCHANGED <<sub, forwarder, consumer, wire>>
      /\ \A d \in Conns : conn'[d].out = conn[d].out
  BY <1>1, UnsubscribeEffect DEF Unsubscribe
<1>3. \A t \in Subs, x \in Messages : Due(t, x)' <=> Due(t, x)
  BY <1>2 DEF Due, CopyAt
<1>4. Published' = Published
  BY <1>2 DEF Published
<1>5. CASE s \in hub
  <2>1. [t \in Subs |-> Owed(t)]' = [t \in Subs |-> Owed(t)]
    BY <1>3, OwedIsDue
  <2>2. Feeding!Unfollow(s)
    BY <1>2, <1>4, <1>5, <2>1 DEF Feeding!Unfollow
  <2>3. QED
    BY <2>2 DEF Feeding!FeedNext
<1>6. CASE s \notin hub
  <2>1. SameFollowing
    BY <1>2, <1>4, <1>6 DEF SameFollowing
  <2>2. QED
    BY <1>2, <1>3, <2>1, FeedStutters
<1>7. QED
  BY <1>5, <1>6

\* The end of a subscription, of a handler and of a forwarder.
LEMMA EndIsHidden ==
  ASSUME OrderInv,
         \/ \E c \in Conns, s \in Subs : Close(c, s)
         \/ \E c \in Conns : ClientGone(c) \/ CloseConnSend(c) \/ Return(c)
         \/ \E s \in Subs : ForwarderEnds(s)
  PROVE  UNCHANGED Feeding!feedVars
<1>1. TypedInv
  BY DEF OrderInv, HubInv
<1>2. ASSUME UNCHANGED <<hub, consumer, wire>>,
             \A s \in Subs : /\ sub'[s].conn = sub[s].conn /\ sub'[s].channel = sub[s].channel
                             /\ sub'[s].buffer = sub[s].buffer
                             /\ forwarder'[s].holds = forwarder[s].holds,
             \A c \in Conns : conn'[c].out = conn[c].out
      PROVE  UNCHANGED Feeding!feedVars
  <2>1. SameFollowing
    BY <1>2 DEF SameFollowing, Published
  <2>2. \A s \in Subs, x \in Messages : Due(s, x)' <=> Due(s, x)
    BY <1>2 DEF Due, CopyAt
  <2>3. QED
    BY <1>2, <2>1, <2>2, FeedStutters
<1>3. ASSUME NEW c \in Conns, NEW s \in Subs, Close(c, s) PROVE UNCHANGED Feeding!feedVars
  <2>1. UNCHANGED <<hub, forwarder, consumer, wire>>
    BY <1>3 DEF Close
  <2>2. /\ sub'[s].conn = sub[s].conn /\ sub'[s].channel = sub[s].channel
        /\ sub'[s].buffer = sub[s].buffer /\ \A t \in Subs \ {s} : sub'[t] = sub[t]
        /\ conn'[c].out = conn[c].out /\ \A d \in Conns \ {c} : conn'[d] = conn[d]
    BY <1>1, <1>3, CloseEffect
  <2>3. QED
    BY <1>2, <2>1, <2>2
<1>4. ASSUME NEW c \in Conns, ClientGone(c) \/ CloseConnSend(c) \/ Return(c)
      PROVE  UNCHANGED Feeding!feedVars
  <2>1. UNCHANGED <<hub, sub, forwarder, consumer, wire>>
    BY <1>4 DEF ClientGone, CloseConnSend, Return
  <2>2. \A d \in Conns : conn'[d].out = conn[d].out
    BY <1>1, <1>4, PartEffect
  <2>3. QED
    BY <1>2, <2>1, <2>2
<1>5. ASSUME NEW s \in Subs, ForwarderEnds(s) PROVE UNCHANGED Feeding!feedVars
  <2>1. UNCHANGED <<hub, sub, conn, consumer, wire>>
    BY <1>5 DEF ForwarderEnds
  <2>2. \A t \in Subs : forwarder'[t].holds = forwarder[t].holds
    BY <1>1, <1>5, ForwarderEndsEffect
  <2>3. QED
    BY <1>2, <2>1, <2>2
<1>6. QED
  BY <1>3, <1>4, <1>5

LEMMA FeedInitial == Init => Feeding!FeedInit
<1> SUFFICES ASSUME Init PROVE Feeding!FeedInit
  OBVIOUS
<1>1. \A s \in Subs : sub[s] = Unused
  BY DEF Init
<1>2. \A s \in Subs : sub[s].conn = Nobody /\ sub[s].channel = Nobody /\ sub[s].buffer = <<>>
  BY <1>1 DEF Unused
<1>3. \A s \in Subs : Owed(s) = {}
  <2>1. ToSet(<<>>) = {}
    BY DEF ToSet
  <2>2. /\ consumer.targets = {} /\ \A s \in Subs : forwarder[s].holds = <<>>
        /\ \A c \in Conns : conn[c].out = <<>>
    BY DEF Init
  <2>3. QED
    BY <1>2, <2>1, <2>2 DEF Owed
<1>4. Published = 0
  BY DEF Init, Published
<1>5. QED
  BY <1>2, <1>3, <1>4 DEF Init, Feeding!FeedInit

LEMMA FeedStep ==
  OrderInv /\ ChannelKnown /\ [Next]_vars => [Feeding!FeedNext]_(Feeding!feedVars)
<1> SUFFICES ASSUME OrderInv, ChannelKnown, [Next]_vars
             PROVE  Feeding!FeedNext \/ UNCHANGED Feeding!feedVars
  OBVIOUS
<1>1. CASE \E c \in Conns : Commands(c)
  <2>1. PICK c \in Conns : Commands(c)
    BY <1>1
  <2>2. CASE \E ch \in Channels, s \in Subs :
               Subscribe(c, ch, s) \/ OpenStream(c, ch, s)
    BY <2>2, RegisterFollows
  <2>3. CASE \E s \in Subs : Unsubscribe(c, s)
    BY <2>3, UnsubscribeUnfollows
  <2>4. QED
    BY <2>1, <2>2, <2>3 DEF Commands
<1>2. CASE \E c \in Conns : Cleanup(c)
  <2>1. PICK c \in Conns : Cleanup(c)
    BY <1>2
  <2>2. CASE \E s \in Subs : Unsubscribe(c, s)
    BY <2>2, UnsubscribeUnfollows
  <2>3. CASE (\E s \in Subs : Close(c, s)) \/ CloseConnSend(c) \/ Return(c)
    BY <2>3, EndIsHidden
  <2>4. QED
    BY <2>1, <2>2, <2>3 DEF Cleanup
<1>3. CASE \E s \in Subs : Forwarding(s)
  BY <1>3, ReceiveIsHidden, ForwardOwes, EndIsHidden DEF Forwarding
<1>4. CASE Broadcasting
  BY <1>4, BroadcastPublishes, WriteOwes DEF Broadcasting
<1>5. CASE \E c \in Conns : ClientGone(c) \/ Pump(c) \/ StreamWrites(c)
  BY <1>5, EndIsHidden, PumpOwes, StreamOwes
<1>6. CASE \E ch \in Channels : FetchMessage(ch)
  BY <1>6, FetchIsHidden
<1>7. CASE UNCHANGED vars
  <2>1. SameFollowing
    BY <1>7 DEF vars, SameFollowing, Published
  <2>2. \A s \in Subs, x \in Messages : Due(s, x)' <=> Due(s, x)
    BY <1>7 DEF vars, Due, CopyAt
  <2>3. QED
    BY <1>7, <2>1, <2>2, FeedStutters DEF vars
<1>8. QED
  BY <1>1, <1>2, <1>3, <1>4, <1>5, <1>6, <1>7 DEF Next

\* For any sockets, streams, channels and capacities the hub implements Feed:
\* Broadcast publishes at the instant of its snapshot, and its goroutines and
\* buffers hold what the feed owes, lose of it, and deliver the oldest first.
THEOREM HubImplementsFeed == Spec => ImplementsFeed
<1>1. Init => OrderInv /\ ChannelKnown
  BY OrderInit DEF Init, ChannelKnown
<1>2. OrderInv /\ ChannelKnown /\ [Next]_vars => (OrderInv /\ ChannelKnown)'
  BY OrderStep, ChannelStep DEF OrderInv, HubInv
<1>3. QED
  BY <1>1, <1>2, FeedInitial, FeedStep, PTL DEF Spec, ImplementsFeed, Feeding!FeedSpec

=============================================================================
