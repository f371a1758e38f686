-------------------------------- MODULE Feed --------------------------------
(***************************************************************************)
(* What the realtime hub promises its clients, whatever goroutines, Go     *)
(* channels and buffers it uses.  A message is published at one instant,   *)
(* to exactly those who follow its channel then.  From there on it may be  *)
(* lost for any of them, at any time, and the rest of what a follower is   *)
(* owed is delivered oldest first, each message once.                      *)
(***************************************************************************)
EXTENDS Naturals, Sequences

CONSTANTS Clients, Channels, Followers, MaxMessages, Nobody

VARIABLES latest,     \* the number of the last message published
          following,  \* the followers that follow now
          client,     \* the client a follower follows for
          channel,    \* and the channel it follows
          owed,       \* the messages published to a follower, not delivered, not lost
          received    \* what each client got: messages and the follower each came to

feedVars == <<latest, following, client, channel, owed, received>>

FeedInit ==
  /\ latest = 0
  /\ following = {}
  /\ client = [f \in Followers |-> Nobody] /\ channel = [f \in Followers |-> Nobody]
  /\ owed = [f \in Followers |-> {}]
  /\ received = [c \in Clients |-> <<>>]

\* A follower follows once, and a client has one follower a channel.
Follow(c, ch, f) ==
  /\ client[f] = Nobody
  /\ ~\E g \in following : client[g] = c /\ channel[g] = ch
  /\ following' = following \cup {f}
  /\ client' = [client EXCEPT ![f] = c] /\ channel' = [channel EXCEPT ![f] = ch]
  /\ UNCHANGED <<latest, owed, received>>

\* What is owed to it may still be delivered.
Unfollow(f) ==
  /\ f \in following
  /\ following' = following \ {f}
  /\ UNCHANGED <<latest, client, channel, owed, received>>

Publish(ch) ==
  /\ latest < MaxMessages
  /\ latest' = latest + 1
  /\ owed' = [f \in Followers |-> IF f \in following /\ channel[f] = ch
                                  THEN owed[f] \cup {latest + 1} ELSE owed[f]]
  /\ UNCHANGED <<following, client, channel, received>>

Lose(f, m) ==
  /\ m \in owed[f]
  /\ owed' = [owed EXCEPT ![f] = @ \ {m}]
  /\ UNCHANGED <<latest, following, client, channel, received>>

Deliver(f, m) ==
  /\ m \in owed[f] /\ \A k \in owed[f] : m <= k
  /\ owed' = [owed EXCEPT ![f] = @ \ {m}]
  /\ received' = [received EXCEPT ![client[f]] = Append(@, [n |-> m, from |-> f])]
  /\ UNCHANGED <<latest, following, client, channel>>

FeedNext ==
  \/ \E c \in Clients, ch \in Channels, f \in Followers : Follow(c, ch, f)
  \/ \E f \in Followers : Unfollow(f)
  \/ \E ch \in Channels : Publish(ch)
  \/ \E f \in Followers, m \in 1 .. MaxMessages : Lose(f, m) \/ Deliver(f, m)

FeedSpec == FeedInit /\ [][FeedNext]_feedVars
=============================================================================
