----------------------------- MODULE RealtimeHub -----------------------------
(***************************************************************************)
(* The realtime hub of query-realtime.  One goroutine reads normalized     *)
(* readings from Kafka and broadcasts each to the subscriptions of its     *)
(* channel.  A WebSocket handler multiplexes its channels: every           *)
(* subscription has a buffer and a forwarder goroutine that moves messages *)
(* to the connection's outbound buffer, which a write pump drains.  An SSE *)
(* handler reads the buffer of its only subscription itself.  Messages are *)
(* numbered by their broadcast; a record Kafka delivers again is a new one.*)
(***************************************************************************)
EXTENDS Naturals, Sequences, FiniteSets, SequencesExt

CONSTANTS
  Sockets,        \* WebSocket connections
  Streams,        \* SSE connections
  Channels,
  Subs,           \* subscriptions ever created
  SendBuffer,     \* capacity of Subscription.Send (256 in the code)
  ConnBuffer,     \* capacity of connSend (512 in the code)
  MaxBroadcasts   \* bound: records the consumer fetches

Conns == Sockets \cup Streams

Nobody == "nobody"

ASSUME ConnsDisjoint == Sockets \cap Streams = {} /\ Nobody \notin Conns
ASSUME BuffersNat ==
  SendBuffer \in Nat \ {0} /\ ConnBuffer \in Nat \ {0} /\ MaxBroadcasts \in Nat

VARIABLES
  hub,       \* Hub.subscriptions: the registered subscriptions
  sub,       \* each subscription: its connection, channel, buffer, isClosed
  forwarder, \* each subscription's forwarder goroutine and the message it holds
  conn,      \* each connection's handler, its subs map and its write pump
  consumer,  \* the Kafka reader's goroutine
  panicked,  \* a goroutine sent on a closed Go channel
  wire       \* history: what each connection's client received, in order

vars == <<hub, sub, forwarder, conn, consumer, panicked, wire>>

Messages == 1 .. MaxBroadcasts
Sent == [n : Messages, from : Subs]

Unused == [conn |-> Nobody, channel |-> Nobody, buffer |-> <<>>, closed |-> FALSE]

Of(c) == {s \in Subs : sub[s].conn = c}

Init ==
  /\ hub = {}
  /\ sub = [s \in Subs |-> Unused]
  /\ forwarder = [s \in Subs |-> [state |-> "none", holds |-> <<>>]]
  /\ conn = [c \in Conns |-> [pc |-> "reading", subs |-> {}, closing |-> {},
                              out |-> <<>>, outClosed |-> FALSE, pump |-> "running"]]
  /\ consumer = [n |-> 0, fetched |-> FALSE, channel |-> Nobody, targets |-> {}]
  /\ panicked = FALSE
  /\ wire = [c \in Conns |-> <<>>]

-----------------------------------------------------------------------------
(* The consumer: fetch, snapshot under the read lock, one Write a target.  *)

FetchMessage(ch) ==
  /\ ~consumer.fetched /\ consumer.targets = {} /\ consumer.n < MaxBroadcasts
  /\ consumer' = [consumer EXCEPT !.n = @ + 1, !.fetched = TRUE, !.channel = ch]
  /\ UNCHANGED <<hub, sub, forwarder, conn, panicked, wire>>

\* Mutant: one set of subscriptions for all channels.
BroadcastToAll ==
  /\ consumer.fetched
  /\ consumer' = [consumer EXCEPT !.fetched = FALSE, !.targets = hub]
  /\ UNCHANGED <<hub, sub, forwarder, conn, panicked, wire>>

Broadcast ==
  /\ consumer.fetched
  /\ consumer' = [consumer EXCEPT !.fetched = FALSE,
                                  !.targets = {s \in hub : sub[s].channel = consumer.channel}]
  /\ UNCHANGED <<hub, sub, forwarder, conn, panicked, wire>>

\* Mutant: no default case: Write waits for room.
WriteWaits(s) ==
  /\ s \in consumer.targets
  /\ sub[s].closed \/ Len(sub[s].buffer) < SendBuffer
  /\ consumer' = [consumer EXCEPT !.targets = @ \ {s}]
  /\ sub' = [sub EXCEPT ![s].buffer = IF sub[s].closed THEN @ ELSE Append(@, consumer.n)]
  /\ UNCHANGED <<hub, forwarder, conn, panicked, wire>>

Write(s) ==
  /\ s \in consumer.targets
  /\ consumer' = [consumer EXCEPT !.targets = @ \ {s}]
  /\ sub' = [sub EXCEPT ![s].buffer =
               IF sub[s].closed \/ Len(@) = SendBuffer THEN @ ELSE Append(@, consumer.n)]
  /\ UNCHANGED <<hub, forwarder, conn, panicked, wire>>

-----------------------------------------------------------------------------
(* The handlers.  A socket's commands and its cleanup run in its read pump. *)

AtCommand(c) == conn[c].pc = "reading" /\ conn[c].closing = {}

Register(c, ch, s) ==
  /\ sub[s] = Unused
  /\ hub' = hub \cup {s}
  /\ sub' = [sub EXCEPT ![s] = [Unused EXCEPT !.conn = c, !.channel = ch]]
  /\ conn' = [conn EXCEPT ![c].subs = @ \cup {s}]

Subscribe(c, ch, s) ==
  /\ AtCommand(c)
  /\ \A t \in conn[c].subs : sub[t].channel # ch
  /\ Register(c, ch, s)
  /\ forwarder' = [forwarder EXCEPT ![s].state = "waiting"]
  /\ UNCHANGED <<consumer, panicked, wire>>

(* SSE subscribes its only channel once, when the stream begins. *)
OpenStream(c, ch, s) ==
  /\ conn[c].pc = "reading" /\ Of(c) = {}
  /\ Register(c, ch, s)
  /\ UNCHANGED <<forwarder, consumer, panicked, wire>>

\* Mutant: only closes the subscription.
UnsubscribeForgetsHub(c, s) ==
  /\ s \in conn[c].subs /\ conn[c].closing = {}
  /\ c \in Sockets \/ conn[c].pc = "cleanup"
  /\ conn' = [conn EXCEPT ![c].closing = {s}]
  /\ UNCHANGED <<hub, sub, forwarder, consumer, panicked, wire>>

(* Hub.Unsubscribe; Subscription.Close follows, under the subscription's own lock. *)
Unsubscribe(c, s) ==
  /\ s \in conn[c].subs /\ conn[c].closing = {}
  /\ c \in Sockets \/ conn[c].pc = "cleanup"
  /\ hub' = hub \ {s}
  /\ conn' = [conn EXCEPT ![c].closing = {s}]
  /\ UNCHANGED <<sub, forwarder, consumer, panicked, wire>>

\* Mutant: takes the subscription out of subs and leaves Send open.
CloseForgetsSend(c, s) ==
  /\ s \in conn[c].closing
  /\ conn' = [conn EXCEPT ![c].closing = {}, ![c].subs = @ \ {s}]
  /\ UNCHANGED <<hub, sub, forwarder, consumer, panicked, wire>>

Close(c, s) ==
  /\ s \in conn[c].closing
  /\ sub' = [sub EXCEPT ![s].closed = TRUE]
  /\ conn' = [conn EXCEPT ![c].closing = {}, ![c].subs = @ \ {s}]
  /\ UNCHANGED <<hub, forwarder, consumer, panicked, wire>>

(* ReadMessage fails, or the SSE request's context is cancelled. *)
ClientGone(c) ==
  /\ AtCommand(c) /\ (c \in Streams => Of(c) # {})
  /\ conn' = [conn EXCEPT ![c].pc = "cleanup"]
  /\ UNCHANGED <<hub, sub, forwarder, consumer, panicked, wire>>

\* Mutant: no wg.Wait.
CloseConnSendAtOnce(c) ==
  /\ c \in Sockets
  /\ conn[c].pc = "cleanup" /\ conn[c].subs = {}
  /\ conn' = [conn EXCEPT ![c].outClosed = TRUE, ![c].pc = "closed"]
  /\ UNCHANGED <<hub, sub, forwarder, consumer, panicked, wire>>

(* wg.Wait, then close(connSend). *)
CloseConnSend(c) ==
  /\ c \in Sockets
  /\ conn[c].pc = "cleanup" /\ conn[c].subs = {}
  /\ \A s \in Of(c) : forwarder[s].state = "ended"
  /\ conn' = [conn EXCEPT ![c].outClosed = TRUE, ![c].pc = "closed"]
  /\ UNCHANGED <<hub, sub, forwarder, consumer, panicked, wire>>

Return(c) ==
  /\ IF c \in Sockets THEN conn[c].pc = "closed" /\ conn[c].pump = "ended"
                      ELSE conn[c].pc = "cleanup" /\ conn[c].subs = {}
  /\ conn' = [conn EXCEPT ![c].pc = "returned"]
  /\ UNCHANGED <<hub, sub, forwarder, consumer, panicked, wire>>

-----------------------------------------------------------------------------
(* A forwarder ranges over Send; a closed Send is drained before it ends.  *)

Receive(s) ==
  /\ forwarder[s].state = "waiting" /\ sub[s].buffer # <<>>
  /\ forwarder' = [forwarder EXCEPT ![s] = [state |-> "holding", holds |-> <<Head(sub[s].buffer)>>]]
  /\ sub' = [sub EXCEPT ![s].buffer = Tail(@)]
  /\ UNCHANGED <<hub, conn, consumer, panicked, wire>>

\* Mutant: a message that finds connSend full goes back to Send.
ForwardPutsBack(s) ==
  LET c == sub[s].conn
      full == Len(conn[c].out) = ConnBuffer
      n == Head(forwarder[s].holds) IN
  /\ forwarder[s].state = "holding" /\ ~conn[c].outClosed
  /\ conn' = [conn EXCEPT ![c].out = IF full THEN @ ELSE Append(@, [n |-> n, from |-> s])]
  /\ sub' = [sub EXCEPT ![s].buffer =
               IF full /\ ~sub[s].closed /\ Len(@) < SendBuffer THEN Append(@, n) ELSE @]
  /\ forwarder' = [forwarder EXCEPT ![s] = [state |-> "waiting", holds |-> <<>>]]
  /\ UNCHANGED <<hub, consumer, panicked, wire>>

Forward(s) ==
  LET c == sub[s].conn IN
  /\ forwarder[s].state = "holding"
  /\ panicked' = (panicked \/ conn[c].outClosed)
  /\ conn' = [conn EXCEPT ![c].out =
                IF Len(@) = ConnBuffer THEN @
                ELSE Append(@, [n |-> Head(forwarder[s].holds), from |-> s])]
  /\ forwarder' = [forwarder EXCEPT ![s] = [state |-> "waiting", holds |-> <<>>]]
  /\ UNCHANGED <<hub, sub, consumer, wire>>

ForwarderEnds(s) ==
  /\ forwarder[s].state = "waiting" /\ sub[s].buffer = <<>> /\ sub[s].closed
  /\ forwarder' = [forwarder EXCEPT ![s].state = "ended"]
  /\ UNCHANGED <<hub, sub, conn, consumer, panicked, wire>>

(* The write pump; a failed message or ping write ends it. *)
PumpWrites(c) ==
  /\ c \in Sockets /\ conn[c].pump = "running" /\ conn[c].out # <<>>
  /\ wire' = [wire EXCEPT ![c] = Append(@, Head(conn[c].out))]
  /\ conn' = [conn EXCEPT ![c].out = Tail(@)]
  /\ UNCHANGED <<hub, sub, forwarder, consumer, panicked>>

PumpFails(c) ==
  /\ c \in Sockets /\ conn[c].pump = "running"
  /\ \E unsent \in {conn[c].out, SubSeq(conn[c].out, 2, Len(conn[c].out))} :
       conn' = [conn EXCEPT ![c].pump = "ended", ![c].out = unsent]
  /\ UNCHANGED <<hub, sub, forwarder, consumer, panicked, wire>>

PumpEnds(c) ==
  /\ c \in Sockets /\ conn[c].pump = "running" /\ conn[c].outClosed /\ conn[c].out = <<>>
  /\ conn' = [conn EXCEPT ![c].pump = "ended"]
  /\ UNCHANGED <<hub, sub, forwarder, consumer, panicked, wire>>

(* SSEvent writes straight from the subscription's buffer. *)
StreamWrites(c) ==
  \E s \in conn[c].subs :
    /\ c \in Streams /\ conn[c].pc = "reading" /\ sub[s].buffer # <<>>
    /\ wire' = [wire EXCEPT ![c] = Append(@, [n |-> Head(sub[s].buffer), from |-> s])]
    /\ sub' = [sub EXCEPT ![s].buffer = Tail(@)]
    /\ UNCHANGED <<hub, forwarder, conn, consumer, panicked>>

-----------------------------------------------------------------------------
(* Next is split by process, as fairness needs it.  Only a socket's cleanup *)
(* unsubscribes of its own accord.                                          *)

Commands(c) ==
  \/ c \in Sockets /\ \E ch \in Channels, s \in Subs : Subscribe(c, ch, s)
  \/ c \in Streams /\ \E ch \in Channels, s \in Subs : OpenStream(c, ch, s)
  \/ conn[c].pc = "reading" /\ \E s \in Subs : Unsubscribe(c, s)

Cleanup(c) ==
  \/ conn[c].pc = "cleanup" /\ \E s \in Subs : Unsubscribe(c, s)
  \/ \E s \in Subs : Close(c, s)
  \/ CloseConnSend(c)
  \/ Return(c)

Pump(c) == PumpWrites(c) \/ PumpFails(c) \/ PumpEnds(c)

Forwarding(s) == Receive(s) \/ Forward(s) \/ ForwarderEnds(s)

Broadcasting == Broadcast \/ \E s \in Subs : Write(s)

Next ==
  \/ \E ch \in Channels : FetchMessage(ch)
  \/ Broadcasting
  \/ \E c \in Conns : Commands(c) \/ ClientGone(c) \/ Cleanup(c) \/ Pump(c) \/ StreamWrites(c)
  \/ \E s \in Subs : Forwarding(s)

Spec == Init /\ [][Next]_vars

(* Clients may stay for ever and an SSE write has no deadline.  A socket's  *)
(* write has one of 10 s; without pings there are no pongs, so that its     *)
(* reads meet their deadline of 60 s.                                       *)
FairSpec ==
  /\ Spec
  /\ WF_vars(Broadcasting)
  /\ \A s \in Subs : WF_vars(Forwarding(s))
  /\ \A c \in Conns : WF_vars(Cleanup(c)) /\ WF_vars(Pump(c))
  /\ \A c \in Sockets : WF_vars(conn[c].pump = "ended" /\ ClientGone(c))

-----------------------------------------------------------------------------
(* Types and the capacities of the buffers (the code's make(chan, n)).      *)
TypeOK ==
  /\ hub \subseteq Subs
  /\ sub \in [Subs -> [conn : Conns \cup {Nobody}, channel : Channels \cup {Nobody},
                       buffer : BoundedSeq(Messages, SendBuffer), closed : BOOLEAN]]
  /\ forwarder \in [Subs -> [state : {"none", "waiting", "holding", "ended"},
                             holds : BoundedSeq(Messages, 1)]]
  /\ conn \in [Conns -> [pc : {"reading", "cleanup", "closed", "returned"},
                         subs : SUBSET Subs, closing : SUBSET Subs,
                         out : BoundedSeq(Sent, ConnBuffer), outClosed : BOOLEAN,
                         pump : {"running", "ended"}]]
  /\ consumer \in [n : 0 .. MaxBroadcasts, fetched : BOOLEAN,
                   channel : Channels \cup {Nobody}, targets : SUBSET Subs]
  /\ panicked \in BOOLEAN

(* No goroutine sends on a closed Go channel, which would end the process:  *)
(* connSend is closed only after every forwarder has drained and ended      *)
(* (WebSocket's cleanup), and Write looks at isClosed under the lock.       *)
NoPanic == ~panicked

(* The messages of one subscription arrive in the order of their broadcasts *)
(* through both buffers, whatever is dropped on the way; and a client gets  *)
(* a broadcast at most once, however it unsubscribes and subscribes again   *)
(* while Broadcast works on its snapshot.                                   *)
InOrder ==
  \A c \in Conns : \A i, j \in 1 .. Len(wire[c]) : i < j =>
    /\ wire[c][i].n # wire[c][j].n
    /\ wire[c][i].from = wire[c][j].from => wire[c][i].n < wire[c][j].n

(* A handler that has returned has left nothing behind: no registration in  *)
(* the hub, no open subscription, no goroutine that still runs.             *)
NothingLeftBehind ==
  \A c \in Conns : conn[c].pc = "returned" =>
    /\ c \in Sockets => conn[c].pump = "ended"
    /\ \A s \in Of(c) :
         s \notin hub /\ sub[s].closed /\ forwarder[s].state \in {"none", "ended"}

(* The consumer, shared by all clients, finishes every broadcast, although  *)
(* a client may never read another byte.                                    *)
ConsumerGoesOn == consumer.fetched ~> (~consumer.fetched /\ consumer.targets = {})

(* The cleanup ends: a handler whose client is gone, or whose write pump    *)
(* has failed, returns, with its forwarders, pump and read pump all waiting *)
(* for one another.                                                         *)
HandlerReturns ==
  \A c \in Conns : (conn[c].pc = "cleanup" \/ conn[c].pump = "ended") ~> conn[c].pc = "returned"

-----------------------------------------------------------------------------
(* A subscription is a follower, and a reading is published when Broadcast  *)
(* has its snapshot.  Owed is what is still to be written to the buffer, in *)
(* it, with the forwarder, or in the connection's outbound buffer.          *)
Published == IF consumer.fetched THEN consumer.n - 1 ELSE consumer.n

Owed(s) ==
  {x \in Messages :
     \/ s \in consumer.targets /\ x = consumer.n
     \/ x \in ToSet(sub[s].buffer) \cup ToSet(forwarder[s].holds)
     \/ \E c \in Conns : [n |-> x, from |-> s] \in ToSet(conn[c].out)}

Feeding == INSTANCE Feed
             WITH Clients <- Conns, Followers <- Subs, MaxMessages <- MaxBroadcasts,
                  latest <- Published, following <- hub,
                  client <- [s \in Subs |-> sub[s].conn],
                  channel <- [s \in Subs |-> sub[s].channel],
                  owed <- [s \in Subs |-> Owed(s)], received <- wire

(* Snapshot, buffers, forwarders and pumps together implement the feed: a   *)
(* broadcast goes to those who are subscribed to its channel when Broadcast *)
(* takes its snapshot and to nobody who comes later, leaving while it is    *)
(* under way only loses it, and what is not lost arrives in order and once. *)
ImplementsFeed == Feeding!FeedSpec

=============================================================================
