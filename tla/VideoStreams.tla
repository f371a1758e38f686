----------------------------- MODULE VideoStreams -----------------------------
(***************************************************************************)
(* Video streams of the supporting service: a row in Postgres that names   *)
(* one object of an S3 bucket, which clients put there themselves through  *)
(* a presigned URL.                                                        *)
(*                                                                         *)
(* Row, URL and object are three things without a transaction: an update   *)
(* writes a whole row read earlier, a URL outlives the row it was made     *)
(* for, and an error of the store is logged and passed over.               *)
(***************************************************************************)
CONSTANTS
  Streams,      \* ids of streams: bounds the creations
  StorageKeys,  \* storage keys uuid.New can make: bounds the uploads
  Statuses,
  Pending,      \* the status of a new stream
  Handlers,     \* HTTP handlers at work
  None

PendingAssumption == Pending \in Statuses

VARIABLES
  streams,      \* Postgres: video_streams, or None
  objects,      \* S3: the keys under which there is an object
  urls,         \* upload URLs that are still good, by their keys
  streamCalls,  \* what each handler is at, or None
  created,      \* history: the streams that were ever created
  owner,        \* history: the stream each key was made for, or None
  latest,       \* history: the key of the last URL given out for a stream, or None
  excused       \* history: streams whose row and object came apart in a known way

vars == <<streams, objects, urls, streamCalls, created, owner, latest, excused>>

Row == [key : StorageKeys \cup {None}, status : Statuses]
Call == [op : {"upload", "status", "delete", "drop"}, id : Streams, row : Row]

NoneAssumption == None \notin Row \cup Call \cup StorageKeys \cup Streams

TypeOK ==
  /\ streams \in [Streams -> Row \cup {None}]
  /\ objects \subseteq StorageKeys /\ urls \subseteq StorageKeys
  /\ streamCalls \in [Handlers -> Call \cup {None}]
  /\ created \subseteq Streams /\ excused \subseteq Streams
  /\ owner \in [StorageKeys -> Streams \cup {None}]
  /\ latest \in [Streams -> StorageKeys \cup {None}]

Init ==
  /\ streams = [s \in Streams |-> None]
  /\ objects = {} /\ urls = {}
  /\ streamCalls = [h \in Handlers |-> None]
  /\ created = {} /\ excused = {}
  /\ owner = [k \in StorageKeys |-> None]
  /\ latest = [s \in Streams |-> None]

At(h, op) == streamCalls[h] # None /\ streamCalls[h].op = op
Running(s, ops) == \E h \in Handlers, op \in ops : At(h, op) /\ streamCalls[h].id = s
End(h) == streamCalls' = [streamCalls EXCEPT ![h] = None]

\* GetByID, and what the call makes of the row it got.
Begin(h, op, s, row) ==
  /\ streamCalls[h] = None
  /\ streams[s] # None
  /\ streamCalls' = [streamCalls EXCEPT ![h] = [op |-> op, id |-> s, row |-> row]]

\* StreamRepo.Update writes the whole row, or nothing when it is gone.
Written(c) == IF streams[c.id] = None THEN streams ELSE [streams EXCEPT ![c.id] = c.row]

-----------------------------------------------------------------------------
CreateStream(s) ==
  /\ s \notin created
  /\ created' = created \cup {s}
  /\ streams' = [streams EXCEPT ![s] = [key |-> None, status |-> Pending]]
  /\ UNCHANGED <<objects, urls, streamCalls, owner, latest, excused>>

\* Mutant: the row is built from the request, which has no storage key.
StatusOfNewRow(h, s, status) ==
  /\ Begin(h, "status", s, [key |-> None, status |-> status])
  /\ UNCHANGED <<streams, objects, urls, created, owner, latest, excused>>

UpdateStreamStatus(h, s, status) ==
  /\ Begin(h, "status", s, [streams[s] EXCEPT !.status = status])
  /\ UNCHANGED <<streams, objects, urls, created, owner, latest, excused>>

WriteStatus(h) ==
  /\ At(h, "status")
  /\ streams' = Written(streamCalls[h])
  /\ End(h)
  /\ UNCHANGED <<objects, urls, created, owner, latest, excused>>

\* Every URL is for a new object: the row forgets the one it named before.
GetUploadURL(h, s, k) ==
  /\ owner[k] = None
  /\ owner' = [owner EXCEPT ![k] = s]
  /\ Begin(h, "upload", s, [streams[s] EXCEPT !.key = k])
  /\ UNCHANGED <<streams, objects, urls, created, latest, excused>>

\* An error of the update is logged, and the URL is given out all the same;
\* or the update succeeds and the URL does not get out.  A call that has read
\* the row before holds the key from before.
WriteKey(h) ==
  /\ At(h, "upload")
  /\ LET c == streamCalls[h]
         overtakes == Running(c.id, {"status", "delete", "drop"})
     IN \E saved, given \in BOOLEAN :
          /\ streams' = IF saved THEN Written(c) ELSE streams
          /\ urls' = IF given THEN urls \cup {c.row.key} ELSE urls
          /\ latest' = IF given THEN [latest EXCEPT ![c.id] = c.row.key] ELSE latest
          /\ excused' = IF saved /\ given /\ ~overtakes THEN excused ELSE excused \cup {c.id}
  /\ End(h)
  /\ UNCHANGED <<objects, created, owner>>

\* A client puts its recording, however late.
Upload(k) ==
  /\ k \in urls
  /\ objects' = objects \cup {k}
  /\ LET s == owner[k] IN
     excused' = IF streams[s] = None \/ Running(s, {"delete", "drop"}) THEN excused \cup {s}
                ELSE excused
  /\ UNCHANGED <<streams, urls, streamCalls, created, owner, latest>>

\* WithPresignExpires: a URL is good for fifteen minutes.
Expire(k) ==
  /\ k \in urls
  /\ urls' = urls \ {k}
  /\ UNCHANGED <<streams, objects, streamCalls, created, owner, latest, excused>>

DeleteStream(h, s) ==
  /\ Begin(h, "delete", s, streams[s])
  /\ UNCHANGED <<streams, objects, urls, created, owner, latest, excused>>

\* The object the row named goes first; an error is logged.
DeleteObject(h) ==
  /\ At(h, "delete")
  /\ LET c == streamCalls[h] IN
     \/ objects' = objects \ {c.row.key} /\ excused' = excused
     \/ c.row.key # None /\ objects' = objects /\ excused' = excused \cup {c.id}
  /\ streamCalls' = [streamCalls EXCEPT ![h].op = "drop"]
  /\ UNCHANGED <<streams, urls, created, owner, latest>>

DeleteRow(h) ==
  /\ At(h, "drop")
  /\ streams' = [streams EXCEPT ![streamCalls[h].id] = None]
  /\ End(h)
  /\ UNCHANGED <<objects, urls, created, owner, latest, excused>>

\* A statement fails, or the process dies before it.
CallFails(h) ==
  /\ streamCalls[h] # None
  /\ End(h)
  /\ UNCHANGED <<streams, objects, urls, created, owner, latest, excused>>

Next ==
  \/ \E s \in Streams :
       \/ CreateStream(s)
       \/ \E h \in Handlers :
            \/ \E status \in Statuses : UpdateStreamStatus(h, s, status)
            \/ \E k \in StorageKeys : GetUploadURL(h, s, k)
            \/ DeleteStream(h, s)
  \/ \E k \in StorageKeys : Upload(k) \/ Expire(k)
  \/ \E h \in Handlers : WriteStatus(h) \/ WriteKey(h) \/ DeleteObject(h) \/ DeleteRow(h)
                         \/ CallFails(h)

Spec == Init /\ [][Next]_vars

-----------------------------------------------------------------------------
\* GetUploadURL, UpdateStreamStatus, DeleteStream and the client's PUT, however
\* they overlap: the row of a live stream names the object of the last URL given
\* out, so that GetDownloadURL leads to it, and a deleted stream does not leave
\* it behind.  Excused are a new key that overtook a status or a deletion, an
\* update or removal that failed, and a recording put after the deletion.
RecordingFollowsRow ==
  \A s \in Streams \ excused :
    IF streams[s] # None THEN streams[s].key = latest[s] ELSE latest[s] \notin objects
=============================================================================
