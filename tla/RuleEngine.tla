----------------------------- MODULE RuleEngine -----------------------------
(***************************************************************************)
(* Alert rules, from their rows to the alerts they publish.                *)
(*                                                                         *)
(* The API edits rule rows in Postgres.  Every replica of the service      *)
(* keeps a snapshot of the enabled rules, reloaded by a ticker, and a map  *)
(* of when each rule last fired.  normalized.sensor is keyed by channel,   *)
(* so the readings of a channel are one partition, consumed by one replica *)
(* at a time: readings are evaluated there, each under the snapshot its    *)
(* evaluation began with, and committed when the evaluation is over.       *)
(*                                                                         *)
(* One channel is modelled.  A rule fires when the reading exceeds its     *)
(* threshold; the other conditions differ in the comparison only.          *)
(***************************************************************************)
EXTENDS Integers, Sequences

CONSTANTS
  Rules,        \* rules of the channel, created or not yet
  Admins,       \* handlers of PUT /alert-rules/:id
  Replicas,     \* instances of the service
  Values,       \* the values of readings
  Thresholds,   \* the values of thresholds
  Cooldowns,    \* the values of cooldown_sec
  MaxReadings,  \* bound on the readings published
  MaxTime,      \* bound on the clock
  MaxMoves,     \* bound on rebalances and restarts
  None

VARIABLES
  db,         \* Postgres: alert_rules; None when there is no row
  adm,        \* UpdateRule: the row image each handler has read and changed, or None
  snapshot,   \* RuleEngine.rules of each replica
  loaded,     \* LoadRules: what ListEnabled has answered, or None
  lastFired,  \* RuleEngine.lastFired of each replica
  clock,      \* time.Now, in units that tell cooldowns apart
  readings,   \* Kafka: normalized.sensor; None does not decode
  committed,  \* Kafka: how many readings the group has committed
  holder,     \* the replica the partition is assigned to
  fetched,    \* kafka.Reader of the holder: how many it has handed out
  task,       \* TelemetryConsumer: the reading each replica has in hand
  moves,      \* how often a replica restarted or the partition moved
  life,       \* how often each replica was restarted
  alerts,     \* Kafka: alert.events
  evaluated,  \* history: the readings whose evaluation was completed
  deleted     \* history: the rules that were deleted

rows == <<db, adm, deleted>>
engine == <<snapshot, loaded, lastFired>>
consumer == <<committed, holder, fetched, task, moves, life, evaluated>>
vars == <<rows, engine, clock, readings, consumer, alerts>>

Rule == [enabled : BOOLEAN, threshold : Thresholds, cooldown : Cooldowns]

\* The fields an edit may ask for, None for one it leaves out.
Asked == [enabled : BOOLEAN \cup {None}, threshold : Thresholds \cup {None},
          cooldown : Cooldowns \cup {None}]

\* A reading in hand: the rules Evaluate has found, the ones still to go through,
\* and the one whose alert is to be published, or None.
Task == [offset : Nat, rules : [Rules -> Rule \cup {None}], todo : SUBSET Rules,
         firing : Rules \cup {None}]

ASSUME ConstantsAssumption ==
  /\ Values \cup Thresholds \subseteq Int /\ Cooldowns \subseteq Nat
  /\ MaxReadings \in Nat /\ MaxTime \in Nat /\ MaxMoves \in Nat
  /\ None \notin BOOLEAN /\ None \notin Int
  /\ None \notin Rules /\ None \notin Rule /\ None \notin [Rules -> Rule \cup {None}]
  /\ None \notin Task

\* Rule.Evaluate, for the condition "gt".
Triggers(rule, value) == value > rule.threshold

\* The row image UpdateRule makes of the row: the fields that were asked for.
Patched(rule, asked) ==
  [f \in {"enabled", "threshold", "cooldown"} |->
     IF asked[f] = None THEN rule[f] ELSE asked[f]]

\* RuleRepo.ListEnabled.
EnabledRules == [r \in Rules |-> IF db[r] # None /\ db[r].enabled THEN db[r] ELSE None]

\* A rule that has fired within its cooldown, as the map of replica i tells.
CoolingDown(i, r, rule) ==
  lastFired[i][r] # None /\ clock - lastFired[i][r] < rule.cooldown

TypeOK ==
  /\ db \in [Rules -> Rule \cup {None}]
  /\ adm \in [Admins -> [rule : Rules, image : Rule] \cup {None}]
  /\ snapshot \in [Replicas -> [Rules -> Rule \cup {None}]]
  /\ loaded \in [Replicas -> [Rules -> Rule \cup {None}] \cup {None}]
  /\ lastFired \in [Replicas -> [Rules -> 0 .. clock \cup {None}]]
  /\ clock \in Nat
  /\ readings \in Seq(Values \cup {None})
  /\ committed \in 0 .. Len(readings)
  /\ holder \in Replicas
  /\ fetched \in 0 .. Len(readings)
  /\ \A i \in Replicas : task[i] = None \/
       /\ task[i].offset \in 1 .. Len(readings)
       /\ task[i].rules \in [Rules -> Rule \cup {None}]
       /\ task[i].todo \in SUBSET Rules
       /\ task[i].firing \in Rules \cup {None}
  /\ moves \in Nat /\ life \in [Replicas -> Nat]
  /\ \A k \in 1 .. Len(alerts) : alerts[k].at \in 0 .. clock
  /\ evaluated \in SUBSET (1 .. Len(readings))
  /\ deleted \in SUBSET Rules

Init ==
  /\ db = [r \in Rules |-> None]
  /\ adm = [a \in Admins |-> None]
  /\ snapshot = [i \in Replicas |-> [r \in Rules |-> None]]
  /\ loaded = [i \in Replicas |-> None]
  /\ lastFired = [i \in Replicas |-> [r \in Rules |-> None]]
  /\ clock = 0
  /\ readings = <<>>
  /\ committed = 0
  /\ holder \in Replicas
  /\ fetched = 0
  /\ task = [i \in Replicas |-> None]
  /\ moves = 0
  /\ life = [i \in Replicas |-> 0]
  /\ alerts = <<>>
  /\ evaluated = {}
  /\ deleted = {}

-----------------------------------------------------------------------------
(* AlertService.                                                           *)

\* CreateRule: one INSERT of an enabled rule with an id of its own.
CreateRule(r, rule) ==
  /\ db[r] = None /\ r \notin deleted
  /\ rule.enabled
  /\ db' = [db EXCEPT ![r] = rule]
  /\ UNCHANGED <<adm, deleted, engine, clock, readings, consumer, alerts>>

\* UpdateRule reads the row and changes the fields that were asked for.
UpdateRule(a, r, asked) ==
  /\ adm[a] = None
  /\ db[r] # None
  /\ adm' = [adm EXCEPT ![a] = [rule |-> r, image |-> Patched(db[r], asked)]]
  /\ UNCHANGED <<db, deleted, engine, clock, readings, consumer, alerts>>

\* RuleRepo.Update writes every column of the image, if the row still exists.
WriteRule(a) ==
  /\ adm[a] # None
  /\ db' = IF db[adm[a].rule] = None THEN db
           ELSE [db EXCEPT ![adm[a].rule] = adm[a].image]
  /\ adm' = [adm EXCEPT ![a] = None]
  /\ UNCHANGED <<deleted, engine, clock, readings, consumer, alerts>>

\* The statement fails: UpdateRule returns the error.
WriteRuleFails(a) ==
  /\ adm[a] # None
  /\ adm' = [adm EXCEPT ![a] = None]
  /\ UNCHANGED <<db, deleted, engine, clock, readings, consumer, alerts>>

\* DeleteRule: one DELETE.
DeleteRule(r) ==
  /\ db[r] # None
  /\ db' = [db EXCEPT ![r] = None]
  /\ deleted' = deleted \cup {r}
  /\ UNCHANGED <<adm, engine, clock, readings, consumer, alerts>>

-----------------------------------------------------------------------------
(* RuleEngine.LoadRules, at the start and from StartRuleRefresh's ticker;  *)
(* one goroutine of each replica runs it.  A query that fails changes      *)
(* nothing.                                                                *)

ListEnabled(i) ==
  /\ loaded[i] = None
  /\ loaded' = [loaded EXCEPT ![i] = EnabledRules]
  /\ UNCHANGED <<rows, snapshot, lastFired, clock, readings, consumer, alerts>>

\* Mutant: the rules found are added to the map, not put in its place.
MergeRules(i) ==
  /\ loaded[i] # None
  /\ snapshot' = [snapshot EXCEPT ![i] =
                    [r \in Rules |-> IF loaded[i][r] = None THEN @[r] ELSE loaded[i][r]]]
  /\ loaded' = [loaded EXCEPT ![i] = None]
  /\ UNCHANGED <<rows, lastFired, clock, readings, consumer, alerts>>

SwapRules(i) ==
  /\ loaded[i] # None
  /\ snapshot' = [snapshot EXCEPT ![i] = loaded[i]]
  /\ loaded' = [loaded EXCEPT ![i] = None]
  /\ UNCHANGED <<rows, lastFired, clock, readings, consumer, alerts>>

-----------------------------------------------------------------------------
(* TelemetryConsumer.Start and RuleEngine.Evaluate: one goroutine of each  *)
(* replica.  A replica that has lost the partition still finishes what it  *)
(* has in hand.                                                            *)

\* FetchMessage, then the rules of the channel under the read lock; a message
\* that does not decode is evaluated against no rule.
FetchReading(i) ==
  /\ holder = i /\ task[i] = None
  /\ fetched < Len(readings)
  /\ fetched' = fetched + 1
  /\ task' = [task EXCEPT ![i] =
                [offset |-> fetched', rules |-> snapshot[i], firing |-> None,
                 todo |-> {r \in Rules : readings[fetched'] # None /\ snapshot[i][r] # None}]]
  /\ UNCHANGED <<rows, engine, clock, readings, committed, holder, moves, life, evaluated, alerts>>

Evaluating(i, r) ==
  task[i] # None /\ task[i].firing = None /\ r \in task[i].todo

Fires(i, r) ==
  /\ Triggers(task[i].rules[r], readings[task[i].offset])
  /\ ~CoolingDown(i, r, task[i].rules[r])

\* The reading does not trigger the rule, or the rule is cooling down.
PassOver(i, r) ==
  /\ Evaluating(i, r)
  /\ ~Fires(i, r)
  /\ task' = [task EXCEPT ![i].todo = @ \ {r}]
  /\ UNCHANGED <<rows, engine, clock, readings, committed, holder, fetched, moves, life,
                 evaluated, alerts>>

\* The check of the slot and its reservation, under one lock.
ReserveSlot(i, r) ==
  /\ Evaluating(i, r)
  /\ Fires(i, r)
  /\ lastFired' = [lastFired EXCEPT ![i][r] = clock]
  /\ task' = [task EXCEPT ![i].todo = @ \ {r}, ![i].firing = r]
  /\ UNCHANGED <<rows, snapshot, loaded, clock, readings, committed, holder, fetched, moves,
                 life, evaluated, alerts>>

Publishing(i) == task[i] # None /\ task[i].firing # None

Alert(i) ==
  LET r == task[i].firing
  IN [rule |-> r, run |-> <<i, life[i]>>, at |-> lastFired[i][r],
      cooldown |-> task[i].rules[r].cooldown]

PublishAlert(i) ==
  /\ Publishing(i)
  /\ alerts' = Append(alerts, Alert(i))
  /\ task' = [task EXCEPT ![i].firing = None]
  /\ UNCHANGED <<rows, engine, clock, readings, committed, holder, fetched, moves, life, evaluated>>

\* Mutant: the slot is given back when the publication reports an error.
PublishFailsReleased(i) ==
  /\ Publishing(i)
  /\ alerts' \in {alerts, Append(alerts, Alert(i))}
  /\ lastFired' = [lastFired EXCEPT ![i][task[i].firing] = None]
  /\ task' = [task EXCEPT ![i].firing = None]
  /\ UNCHANGED <<rows, snapshot, loaded, clock, readings, committed, holder, fetched, moves,
                 life, evaluated>>

\* PublishAlert returns an error, perhaps after the broker took the event: the
\* error is logged and the slot stays reserved.
PublishFails(i) ==
  /\ Publishing(i)
  /\ alerts' \in {alerts, Append(alerts, Alert(i))}
  /\ task' = [task EXCEPT ![i].firing = None]
  /\ UNCHANGED <<rows, engine, clock, readings, committed, holder, fetched, moves, life, evaluated>>

Evaluated(i) == task[i] # None /\ task[i].firing = None /\ task[i].todo = {}

\* Mutant: the reading is committed before its rules have been gone through.
CommitEarly(i) ==
  /\ task[i] # None
  /\ committed' = task[i].offset
  /\ evaluated' = IF Evaluated(i) THEN evaluated \cup {task[i].offset} ELSE evaluated
  /\ task' = [task EXCEPT ![i] = IF Evaluated(i) THEN None ELSE @]
  /\ UNCHANGED <<rows, engine, clock, readings, holder, fetched, moves, life, alerts>>

\* CommitMessages after Evaluate; or the commit fails, which is logged.  The
\* group accepts the commit of a member that has lost the partition.
CommitReading(i) ==
  /\ Evaluated(i)
  /\ committed' \in {committed, task[i].offset}
  /\ evaluated' = evaluated \cup {task[i].offset}
  /\ task' = [task EXCEPT ![i] = None]
  /\ UNCHANGED <<rows, engine, clock, readings, holder, fetched, moves, life, alerts>>

-----------------------------------------------------------------------------
(* The environment.                                                        *)

PublishReading(v) ==
  /\ Len(readings) < MaxReadings
  /\ readings' = Append(readings, v)
  /\ UNCHANGED <<rows, engine, clock, consumer, alerts>>

Tick ==
  /\ clock < MaxTime
  /\ clock' = clock + 1
  /\ UNCHANGED <<rows, engine, readings, consumer, alerts>>

Move ==
  /\ moves < MaxMoves
  /\ moves' = moves + 1
  /\ UNCHANGED <<rows, clock, readings, committed, evaluated, alerts>>

\* Mutant: a new reader starts at the end of the partition.
RebalanceToEnd(i) ==
  /\ Move
  /\ holder' = i
  /\ fetched' = Len(readings)
  /\ UNCHANGED <<engine, task, life>>

\* The partition goes to replica i, which resumes from the committed offset.
Rebalance(i) ==
  /\ Move
  /\ holder' = i
  /\ fetched' = committed
  /\ UNCHANGED <<engine, task, life>>

\* Replica i dies and comes back with an empty snapshot and an empty map; if
\* it held the partition, replica j resumes from the committed offset.
Restart(i, j) ==
  /\ Move
  /\ snapshot' = [snapshot EXCEPT ![i] = [r \in Rules |-> None]]
  /\ loaded' = [loaded EXCEPT ![i] = None]
  /\ lastFired' = [lastFired EXCEPT ![i] = [r \in Rules |-> None]]
  /\ task' = [task EXCEPT ![i] = None]
  /\ life' = [life EXCEPT ![i] = @ + 1]
  /\ \/ holder = i /\ holder' = j /\ fetched' = committed
     \/ holder # i /\ i = j /\ UNCHANGED <<holder, fetched>>

-----------------------------------------------------------------------------
AdminStep ==
  \/ \E r \in Rules, rule \in Rule : CreateRule(r, rule)
  \/ \E a \in Admins, r \in Rules, asked \in Asked : UpdateRule(a, r, asked)
  \/ \E a \in Admins : WriteRule(a) \/ WriteRuleFails(a)
  \/ \E r \in Rules : DeleteRule(r)

Refresh(i) == ListEnabled(i) \/ SwapRules(i)

Evaluate(i) ==
  \/ FetchReading(i)
  \/ \E r \in Rules : PassOver(i, r) \/ ReserveSlot(i, r)
  \/ PublishAlert(i)
  \/ PublishFails(i)
  \/ CommitReading(i)

Next ==
  \/ AdminStep
  \/ \E i \in Replicas : Refresh(i) \/ Evaluate(i) \/ Rebalance(i)
  \/ \E i, j \in Replicas : Restart(i, j)
  \/ \E v \in Values \cup {None} : PublishReading(v)
  \/ Tick

\* The refresh ticker and the consumer loop of every replica keep running;
\* nobody is obliged to edit rules, publish readings or restart a replica.
Fairness == \A i \in Replicas : WF_vars(Refresh(i)) /\ WF_vars(Evaluate(i))

Spec == Init /\ [][Next]_vars /\ Fairness

-----------------------------------------------------------------------------
(* Properties.                                                             *)

\* TelemetryConsumer.Start commits after Evaluate: wherever replicas die and
\* the partition moves, no reading is below the committed offset that was not
\* gone through, rule by rule, to the end.
CommittedIsEvaluated == 1 .. committed \subseteq evaluated

\* RuleEngine.Evaluate reserves the slot and never gives it back: in one life
\* of a replica two alerts of a rule are a cooldown apart, although publications
\* fail after the broker took the event and readings are delivered again.
CooldownHolds ==
  \A k, l \in 1 .. Len(alerts) :
    k < l /\ alerts[k].rule = alerts[l].rule /\ alerts[k].run = alerts[l].run
      => alerts[l].at - alerts[k].at >= alerts[l].cooldown

\* StartRuleRefresh: a rule that is deleted or disabled for good disappears
\* from every replica's snapshot, however loads and edits overlap.
DisabledRulesLeave ==
  \A r \in Rules :
    <>[](db[r] = None \/ ~db[r].enabled) => <>[](\A i \in Replicas : snapshot[i][r] = None)

\* TelemetryConsumer.Start with FirstOffset: every reading is evaluated in the
\* end, by one replica or another.
ReadingsEvaluated ==
  \A o \in 1 .. MaxReadings : o <= Len(readings) ~> o \in evaluated

=============================================================================
