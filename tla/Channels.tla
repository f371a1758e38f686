------------------------------- MODULE Channels -------------------------------
(***************************************************************************)
(* Channels of the device registry and how long their data is kept: a row  *)
(* in Postgres and a bucket in InfluxDB, written one after the other.      *)
(*                                                                         *)
(* The row has a column retention_days that no statement reads or writes:  *)
(* the period lives in the bucket only, and an edit that does not name one *)
(* sends 0, which InfluxDB takes as for ever.                              *)
(***************************************************************************)
EXTENDS Naturals

CONSTANTS
  Ids,          \* channels that may be created: a bound
  Days,         \* the periods a request may name
  DefaultDays,  \* DefaultRetentionDays
  Handlers,     \* HTTP handlers at work
  None

Forever == 0

DaysAssumption == Days \subseteq Nat \ {Forever} /\ DefaultDays \in Nat \ {Forever}

Periods == Days \cup {DefaultDays, Forever}

VARIABLES
  channels,     \* Postgres: "absent", "live" or, softly, "deleted"
  buckets,      \* InfluxDB: the period of each channel's bucket, or None
  edits,        \* what each handler is at, or None
  told          \* history: the periods the last calls have named for the channel,
                \* more than one when they overlapped or failed

vars == <<channels, buckets, edits, told>>

Call == [at : {"row", "find", "post", "patch"}, id : Ids, days : Periods]

NoneAssumption == None \notin Call \cup Periods

TypeOK ==
  /\ channels \in [Ids -> {"absent", "live", "deleted"}]
  /\ buckets \in [Ids -> Periods \cup {None}]
  /\ edits \in [Handlers -> Call \cup {None}]
  /\ told \in [Ids -> SUBSET (Periods \cup {None})]

Init ==
  /\ channels = [c \in Ids |-> "absent"]
  /\ buckets = [c \in Ids |-> None]
  /\ edits = [h \in Handlers |-> None]
  /\ told = [c \in Ids |-> {}]

Busy(c) == \E h \in Handlers : edits[h] # None /\ edits[h].id = c
At(h, at) == edits[h] # None /\ edits[h].at = at
Goto(h, at) == edits' = [edits EXCEPT ![h].at = at]
End(h) == edits' = [edits EXCEPT ![h] = None]

\* The channel that is left to SetRetention has days; the request has named some.
Begin(h, at, c, days, named) ==
  /\ edits[h] = None
  /\ edits' = [edits EXCEPT ![h] = [at |-> at, id |-> c, days |-> days]]
  /\ told' = [told EXCEPT ![c] =
                IF named = Forever THEN @ ELSE IF Busy(c) THEN @ \cup {named} ELSE {named}]

-----------------------------------------------------------------------------
\* CreateChannel up to repo.Create: without a period it takes the default.
CreateChannel(h, c, named) ==
  LET days == IF named = Forever THEN DefaultDays ELSE named IN
  /\ channels[c] = "absent"
  /\ channels' = [channels EXCEPT ![c] = "live"]
  /\ Begin(h, "find", c, days, days)
  /\ UNCHANGED buckets

\* Mutant: a period that is not named is the default one, as for a new channel.
UpdateToDefault(h, c, named) ==
  /\ channels[c] = "live"
  /\ Begin(h, "row", c, IF named = Forever THEN DefaultDays ELSE named, named)
  /\ UNCHANGED <<channels, buckets>>

\* UpdateChannel up to its edits.  GetByID does not select retention_days: the
\* channel it returns has a period of 0 until the request names one.
UpdateChannel(h, c, named) ==
  /\ channels[c] = "live"
  /\ Begin(h, "row", c, named, named)
  /\ UNCHANGED <<channels, buckets>>

\* repo.Update writes none of the columns modelled, on a deleted row as well.
WriteRow(h) ==
  /\ At(h, "row")
  /\ Goto(h, "find")
  /\ UNCHANGED <<channels, buckets, told>>

\* SetRetention looks for the bucket by its name, then changes or creates it.
FindBucket(h) ==
  /\ At(h, "find")
  /\ Goto(h, IF buckets[edits[h].id] = None THEN "post" ELSE "patch")
  /\ UNCHANGED <<channels, buckets, told>>

UpdateBucket(h) ==
  /\ At(h, "patch")
  /\ buckets' = [buckets EXCEPT ![edits[h].id] = edits[h].days]
  /\ End(h)
  /\ UNCHANGED <<channels, told>>

\* The name of a bucket is unique: a second POST is answered with an error.
CreateBucket(h) ==
  /\ At(h, "post")
  /\ buckets' = [buckets EXCEPT ![edits[h].id] = IF @ = None THEN edits[h].days ELSE @]
  /\ End(h)
  /\ UNCHANGED <<channels, told>>

\* A failed statement ends UpdateChannel, a failed SetRetention is a warning.
CallFails(h) ==
  /\ edits[h] # None
  /\ LET c == edits[h].id IN told' = [told EXCEPT ![c] = @ \cup {buckets[c]}]
  /\ End(h)
  /\ UNCHANGED <<channels, buckets>>

\* The row is marked; the bucket stays.
DeleteChannel(c) ==
  /\ channels[c] = "live"
  /\ channels' = [channels EXCEPT ![c] = "deleted"]
  /\ UNCHANGED <<buckets, edits, told>>

Next ==
  \/ \E h \in Handlers :
       \/ \E c \in Ids, named \in Days \cup {Forever} :
            CreateChannel(h, c, named) \/ UpdateChannel(h, c, named)
       \/ WriteRow(h) \/ FindBucket(h) \/ UpdateBucket(h) \/ CreateBucket(h) \/ CallFails(h)
  \/ \E c \in Ids : DeleteChannel(c)

Spec == Init /\ [][Next]_vars

-----------------------------------------------------------------------------
\* CreateChannel, UpdateChannel, SetRetention: a channel at rest has the period
\* its last call has named, or one of them when calls overlapped, or the one
\* before when the call failed.  An edit that names none may lift the limit,
\* but never sets one: no data is dropped sooner than somebody asked for.
RetentionAsTold ==
  \A c \in Ids :
    channels[c] # "absent" /\ ~Busy(c) => buckets[c] \in told[c] \cup {Forever}
=============================================================================
