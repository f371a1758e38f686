-------------------------- MODULE RuleEngineProofs --------------------------
(***************************************************************************)
(* Proofs about RuleEngine, for any numbers of rules, replicas, readings,  *)
(* moves and values.                                                       *)
(***************************************************************************)
EXTENDS RuleEngine, TLAPS

Snapshot == [Rules -> Rule \cup {None}]
AlertSet == [rule : Rules, run : Replicas \X Nat, at : Nat, cooldown : Cooldowns]

\* What makes TypeOK inductive: a reading in hand is evaluated against rules its
\* snapshot has, and the slot of the rule that fires is reserved.
InHand(i) ==
  task[i] # None =>
    /\ task[i].offset \in 1 .. Len(readings)
    /\ \A r \in task[i].todo : task[i].rules[r] # None
    /\ task[i].firing # None => /\ task[i].rules[task[i].firing] # None
                                /\ lastFired[i][task[i].firing] # None

TypeInv ==
  /\ TypeOK
  /\ task \in [Replicas -> Task \cup {None}]
  /\ \A i \in Replicas : InHand(i)
  /\ alerts \in Seq(AlertSet)

LEMMA PatchedRule ==
  ASSUME NEW rule \in Rule, NEW asked \in Asked
  PROVE  Patched(rule, asked) \in Rule
<1>1. /\ asked["enabled"] \in BOOLEAN \cup {None} /\ rule["enabled"] \in BOOLEAN
      /\ asked["threshold"] \in Thresholds \cup {None} /\ rule["threshold"] \in Thresholds
      /\ asked["cooldown"] \in Cooldowns \cup {None} /\ rule["cooldown"] \in Cooldowns
  BY DEF Asked, Rule
<1>2. /\ Patched(rule, asked)["enabled"] \in BOOLEAN
      /\ Patched(rule, asked)["threshold"] \in Thresholds
      /\ Patched(rule, asked)["cooldown"] \in Cooldowns
  BY <1>1, Zenon DEF Patched
<1>3. QED
  BY <1>2 DEF Patched, Rule

LEMMA NoneIsNothing ==
  /\ None \notin Rules /\ None \notin Rule /\ None \notin Snapshot /\ None \notin Int
BY ConstantsAssumption DEF ConstantsAssumption, Snapshot

LEMMA TaskIsSome == \A t \in Task : t # None
BY ConstantsAssumption DEF ConstantsAssumption

LEMMA EnabledTyped == TypeOK => EnabledRules \in Snapshot
BY DEF TypeOK, EnabledRules, Snapshot

LEMMA TypeInit == Init => TypeInv
BY ConstantsAssumption DEF Init, TypeInv, TypeOK, InHand, Snapshot, ConstantsAssumption

\* What a replica has in hand, and that it stays so when others move.
LEMMA HandTyped ==
  ASSUME TypeInv, NEW i \in Replicas, task[i] # None
  PROVE  /\ task[i] \in Task /\ task[i].rules \in Snapshot /\ task[i].todo \subseteq Rules
         /\ task[i].offset \in 1 .. Len(readings) /\ task[i].firing \in Rules \cup {None}
BY DEF TypeInv, InHand, Task, Snapshot

\* A step of a consumer that leaves the tables, the engine's rules and the
\* environment alone.
Kept ==
  /\ committed' \in 0 .. Len(readings) /\ fetched' \in 0 .. Len(readings)
  /\ evaluated' \in SUBSET (1 .. Len(readings))
  /\ UNCHANGED <<rows, snapshot, loaded, clock, readings, holder, moves, life>>

LEMMA OneTaskMoves ==
  ASSUME TypeInv, NEW i \in Replicas, NEW t \in Task \cup {None},
         task' = [task EXCEPT ![i] = t],
         lastFired' = lastFired \/ \E r \in Rules : lastFired' = [lastFired EXCEPT ![i][r] = clock],
         t # None =>
           /\ t.offset \in 1 .. Len(readings)
           /\ \A r \in t.todo : t.rules[r] # None
           /\ t.firing # None => t.rules[t.firing] # None /\ lastFired'[i][t.firing] # None,
         Kept,
         alerts' = alerts \/ \E a \in AlertSet : a.at \in 0 .. clock /\ alerts' = Append(alerts, a)
  PROVE  TypeInv'
<1> USE DEF Kept
<1>1. lastFired' \in [Replicas -> [Rules -> 0 .. clock \cup {None}]]
  <2>1. clock \in 0 .. clock /\ lastFired \in [Replicas -> [Rules -> 0 .. clock \cup {None}]]
    BY DEF TypeInv, TypeOK
  <2>2. ASSUME NEW r \in Rules, lastFired' = [lastFired EXCEPT ![i][r] = clock]
        PROVE  lastFired' \in [Replicas -> [Rules -> 0 .. clock \cup {None}]]
    <3>1. [lastFired[i] EXCEPT ![r] = clock] \in [Rules -> 0 .. clock \cup {None}]
      BY <2>1
    <3>2. QED
      BY <2>1, <2>2, <3>1
  <2>3. QED
    BY <2>1, <2>2
<1>2. \A j \in Replicas \ {i} : lastFired'[j] = lastFired[j] /\ task'[j] = task[j]
  BY DEF TypeInv, TypeOK
<1>3. task'[i] = t /\ task' \in [Replicas -> Task \cup {None}]
  BY DEF TypeInv
<1>4. \A j \in Replicas : InHand(j)'
  BY <1>2, <1>3 DEF TypeInv, InHand
<1>5. alerts' \in Seq(AlertSet) /\ \A k \in 1 .. Len(alerts') : alerts'[k].at \in 0 .. clock
  <2>1. alerts \in Seq(AlertSet) /\ \A k \in 1 .. Len(alerts) : alerts[k].at \in 0 .. clock
    BY DEF TypeInv, TypeOK
  <2>2. ASSUME NEW a \in AlertSet, a.at \in 0 .. clock, alerts' = Append(alerts, a)
        PROVE  /\ alerts' \in Seq(AlertSet)
               /\ \A k \in 1 .. Len(alerts') : alerts'[k].at \in 0 .. clock
    BY <2>1, <2>2
  <2>3. QED
    BY <2>1, <2>2
<1>6. t # None => t.rules \in Snapshot /\ t.todo \in SUBSET Rules /\ t.firing \in Rules \cup {None}
  BY DEF Task, Snapshot
<1>7. \A j \in Replicas : task'[j] = None \/
        /\ task'[j].offset \in 1 .. Len(readings)
        /\ task'[j].rules \in [Rules -> Rule \cup {None}]
        /\ task'[j].todo \in SUBSET Rules
        /\ task'[j].firing \in Rules \cup {None}
  BY <1>2, <1>3, <1>6 DEF TypeInv, TypeOK, Snapshot
<1>8. QED
  BY <1>1, <1>3, <1>4, <1>5, <1>7 DEF TypeInv, TypeOK, rows

LEMMA TypeStep == TypeInv /\ [Next]_vars => TypeInv'
<1> SUFFICES ASSUME TypeInv, [Next]_vars PROVE TypeInv'
  OBVIOUS
<1> USE DEF rows, engine, consumer
<1>1. TypeOK
  BY DEF TypeInv
<1>2. ASSUME NEW r \in Rules, NEW rule \in Rule, CreateRule(r, rule)
      PROVE  TypeInv'
  BY <1>2 DEF CreateRule, TypeInv, TypeOK, InHand
<1>3. ASSUME NEW a \in Admins, NEW r \in Rules, NEW asked \in Asked, UpdateRule(a, r, asked)
      PROVE  TypeInv'
  <2>1. Patched(db[r], asked) \in Rule
    BY <1>1, <1>3, PatchedRule DEF UpdateRule, TypeOK
  <2>2. adm' \in [Admins -> [rule : Rules, image : Rule] \cup {None}]
    BY <1>1, <1>3, <2>1 DEF UpdateRule, TypeOK
  <2>3. QED
    BY <1>3, <2>2 DEF UpdateRule, TypeInv, TypeOK, InHand
<1>4. ASSUME NEW a \in Admins, WriteRule(a) \/ WriteRuleFails(a)
      PROVE  TypeInv'
  <2>1. adm[a] \in [rule : Rules, image : Rule]
    BY <1>1, <1>4 DEF WriteRule, WriteRuleFails, TypeOK
  <2>2. db' \in [Rules -> Rule \cup {None}] /\ adm' \in [Admins -> [rule : Rules, image : Rule] \cup {None}]
    BY <1>1, <1>4, <2>1 DEF WriteRule, WriteRuleFails, TypeOK
  <2>3. QED
    BY <1>4, <2>2 DEF WriteRule, WriteRuleFails, TypeInv, TypeOK, InHand
<1>5. ASSUME NEW r \in Rules, DeleteRule(r)
      PROVE  TypeInv'
  BY <1>5 DEF DeleteRule, TypeInv, TypeOK, InHand
<1>6. ASSUME NEW i \in Replicas, ListEnabled(i) \/ SwapRules(i)
      PROVE  TypeInv'
  <2>1. EnabledRules \in [Rules -> Rule \cup {None}]
    BY <1>1, EnabledTyped DEF Snapshot
  <2>2. /\ loaded' \in [Replicas -> [Rules -> Rule \cup {None}] \cup {None}]
        /\ snapshot' \in [Replicas -> [Rules -> Rule \cup {None}]]
    BY <1>1, <1>6, <2>1 DEF ListEnabled, SwapRules, TypeOK
  <2>3. QED
    BY <1>6, <2>2 DEF ListEnabled, SwapRules, TypeInv, TypeOK, InHand
<1>7. ASSUME NEW i \in Replicas, FetchReading(i)
      PROVE  TypeInv'
  <2> DEFINE t == [offset |-> fetched', rules |-> snapshot[i], firing |-> None,
                   todo |-> {r \in Rules : readings[fetched'] # None /\ snapshot[i][r] # None}]
  <2>1. fetched' \in 1 .. Len(readings) /\ snapshot[i] \in Snapshot
    BY <1>1, <1>7 DEF FetchReading, TypeOK, Snapshot
  <2>2. t \in Task /\ t.offset \in 1 .. Len(readings) /\ t.firing = None
        /\ \A r \in t.todo : t.rules[r] # None
    BY <2>1 DEF Task, Snapshot
  <2>3. task' = [task EXCEPT ![i] = t]
    BY <1>7 DEF FetchReading
  <2>4. Kept /\ lastFired' = lastFired /\ alerts' = alerts
    BY <1>1, <1>7, <2>1 DEF FetchReading, Kept, TypeOK
  <2> HIDE DEF t
  <2>5. QED
    BY <2>2, <2>3, <2>4, OneTaskMoves
<1>8. ASSUME NEW i \in Replicas, NEW r \in Rules, PassOver(i, r) \/ ReserveSlot(i, r)
      PROVE  TypeInv'
  <2>1. task[i] # None /\ task[i].firing = None /\ r \in task[i].todo
    BY <1>8 DEF PassOver, ReserveSlot, Evaluating
  <2>2. task[i] \in Task /\ InHand(i)
    BY <2>1, HandTyped DEF TypeInv
  <2>3. CASE PassOver(i, r)
    <3> DEFINE t == [task[i] EXCEPT !.todo = @ \ {r}]
    <3>1. /\ t \in Task /\ t.offset = task[i].offset /\ t.firing = None
          /\ t.todo \subseteq task[i].todo /\ t.rules = task[i].rules
      BY <2>1, <2>2 DEF Task
    <3>2. task' = [task EXCEPT ![i] = t]
      BY <2>3 DEF PassOver
    <3>3. Kept /\ lastFired' = lastFired /\ alerts' = alerts
      BY <1>1, <2>3 DEF PassOver, Kept, TypeOK
    <3> HIDE DEF t
    <3>4. QED
      BY <2>1, <2>2, <3>1, <3>2, <3>3, OneTaskMoves DEF InHand
  <2>4. CASE ReserveSlot(i, r)
    <3> DEFINE t == [task[i] EXCEPT !.todo = @ \ {r}, !.firing = r]
    <3>1. /\ t \in Task /\ t.offset = task[i].offset /\ t.firing = r
          /\ t.todo \subseteq task[i].todo /\ t.rules = task[i].rules
      BY <2>1, <2>2 DEF Task
    <3>2. task' = [task EXCEPT ![i] = t]
      BY <2>4 DEF ReserveSlot
    <3>3. lastFired' = [lastFired EXCEPT ![i][r] = clock]
      BY <2>4 DEF ReserveSlot
    <3>4. lastFired'[i][r] = clock /\ clock # None
      BY <1>1, <3>3, NoneIsNothing DEF TypeOK
    <3>5. Kept /\ alerts' = alerts
      BY <1>1, <2>4 DEF ReserveSlot, Kept, TypeOK
    <3> HIDE DEF t
    <3>6. QED
      BY <2>1, <2>2, <3>1, <3>2, <3>3, <3>4, <3>5, OneTaskMoves DEF InHand
  <2>5. QED
    BY <1>8, <2>3, <2>4
<1>9. ASSUME NEW i \in Replicas, PublishAlert(i) \/ PublishFails(i)
      PROVE  TypeInv'
  <2>1. task[i] # None /\ task[i].firing # None
    BY <1>9 DEF PublishAlert, PublishFails, Publishing
  <2>2. task[i] \in Task /\ InHand(i) /\ task[i].firing \in Rules
    BY <2>1, HandTyped DEF TypeInv
  <2>3. /\ task[i].rules[task[i].firing] \in Rule
        /\ lastFired[i][task[i].firing] \in 0 .. clock
    BY <1>1, <2>1, <2>2, HandTyped DEF InHand, Snapshot, TypeOK
  <2>4. Alert(i) \in AlertSet /\ Alert(i).at \in 0 .. clock
    BY <1>1, <2>2, <2>3 DEF Alert, AlertSet, Rule, TypeOK
  <2> DEFINE t == [task[i] EXCEPT !.firing = None]
  <2>5. /\ t \in Task /\ t.offset = task[i].offset /\ t.firing = None
        /\ t.todo = task[i].todo /\ t.rules = task[i].rules
    BY <2>2 DEF Task
  <2>6. task' = [task EXCEPT ![i] = t]
    BY <1>9 DEF PublishAlert, PublishFails
  <2>7. alerts' = alerts \/ alerts' = Append(alerts, Alert(i))
    BY <1>9 DEF PublishAlert, PublishFails
  <2>8. Kept /\ lastFired' = lastFired
    BY <1>1, <1>9 DEF PublishAlert, PublishFails, Kept, TypeOK
  <2> HIDE DEF t
  <2>9. QED
    BY <2>1, <2>2, <2>4, <2>5, <2>6, <2>7, <2>8, OneTaskMoves DEF InHand
<1>10. ASSUME NEW i \in Replicas, CommitReading(i)
       PROVE  TypeInv'
  <2>1. task[i].offset \in 1 .. Len(readings)
    BY <1>10, HandTyped DEF CommitReading, Evaluated
  <2>2. committed' \in 0 .. Len(readings) /\ evaluated' \in SUBSET (1 .. Len(readings))
    <3>1. (committed' = committed \/ committed' = task[i].offset) /\ evaluated' = evaluated \cup {task[i].offset}
      BY <1>10 DEF CommitReading
    <3>2. committed \in 0 .. Len(readings) /\ evaluated \in SUBSET (1 .. Len(readings)) /\ Len(readings) \in Nat
      BY <1>1 DEF TypeOK
    <3>3. committed' \in 0 .. Len(readings)
      BY <2>1, <3>1, <3>2
    <3>4. evaluated' \subseteq 1 .. Len(readings)
      BY <2>1, <3>1, <3>2, Zenon
    <3>5. QED
      BY <3>3, <3>4
  <2>3. lastFired' = lastFired /\ alerts' = alerts /\ task' = [task EXCEPT ![i] = None]
    BY <1>10 DEF CommitReading
  <2>4. Kept
    BY <1>1, <1>10, <2>2 DEF CommitReading, Kept, TypeOK
  <2>5. QED
    BY <2>3, <2>4, OneTaskMoves
<1>11. ASSUME NEW i \in Replicas, Rebalance(i)
       PROVE  TypeInv'
  BY <1>11 DEF Rebalance, Move, TypeInv, TypeOK, InHand
<1>12. ASSUME NEW i \in Replicas, NEW j \in Replicas, Restart(i, j)
       PROVE  TypeInv'
  <2>1. /\ snapshot' \in [Replicas -> [Rules -> Rule \cup {None}]]
        /\ loaded' \in [Replicas -> [Rules -> Rule \cup {None}] \cup {None}]
        /\ lastFired' \in [Replicas -> [Rules -> 0 .. clock \cup {None}]]
        /\ life' \in [Replicas -> Nat] /\ moves' \in Nat
        /\ holder' \in Replicas /\ fetched' \in 0 .. Len(readings)
    BY <1>1, <1>12 DEF Restart, Move, TypeOK
  <2>2. /\ task'[i] = None /\ task' \in [Replicas -> Task \cup {None}]
        /\ \A k \in Replicas \ {i} : task'[k] = task[k] /\ lastFired'[k] = lastFired[k]
    BY <1>1, <1>12 DEF Restart, TypeInv, TypeOK
  <2>3. UNCHANGED <<rows, clock, readings, committed, evaluated, alerts>>
    BY <1>12 DEF Restart, Move
  <2>4. \A k \in Replicas : InHand(k)'
    BY <2>2, <2>3 DEF TypeInv, InHand
  <2>5. QED
    BY <2>1, <2>2, <2>3, <2>4 DEF TypeInv, TypeOK
<1>13. ASSUME NEW v \in Values \cup {None}, PublishReading(v)
       PROVE  TypeInv'
  BY <1>13 DEF PublishReading, TypeInv, TypeOK, InHand
<1>14. CASE Tick
  BY <1>14 DEF Tick, TypeInv, TypeOK, InHand
<1>15. CASE UNCHANGED vars
  BY <1>15 DEF vars, TypeInv, TypeOK, InHand
<1>16. QED
  BY <1>2, <1>3, <1>4, <1>5, <1>6, <1>7, <1>8, <1>9, <1>10, <1>11, <1>12, <1>13, <1>14, <1>15
     DEF Next, AdminStep, Refresh, Evaluate

\* Every variable keeps its shape: a reading in hand was published, no alert is
\* dated in the future, and a rule fires from the snapshot that has it.
THEOREM TypeCorrect == Spec => []TypeOK
<1>1. TypeInv => TypeOK
  BY DEF TypeInv
<1>2. QED
  BY <1>1, TypeInit, TypeStep, PTL DEF Spec

-----------------------------------------------------------------------------
(* What was fetched is evaluated, or in hand.                              *)

Below(o) == \A k \in 1 .. o : k \in evaluated

EvaluatedInv ==
  /\ TypeInv
  /\ Below(committed)
  /\ \A i \in Replicas : task[i] # None => Below(task[i].offset - 1)
  /\ \A k \in 1 .. fetched :
       k \in evaluated \/ (task[holder] # None /\ task[holder].offset = k)

\* A step inside an evaluation, or beside the consumers.
LEMMA EvaluationGoesOn ==
  ASSUME EvaluatedInv, TypeInv', UNCHANGED <<committed, fetched, holder, evaluated>>,
         \A i \in Replicas : /\ task'[i] # None <=> task[i] # None
                             /\ task[i] # None => task'[i].offset = task[i].offset
  PROVE  EvaluatedInv'
BY DEF EvaluatedInv, Below, TypeInv, TypeOK

LEMMA EvaluatedStep == EvaluatedInv /\ [Next]_vars => EvaluatedInv'
<1> SUFFICES ASSUME EvaluatedInv, [Next]_vars PROVE EvaluatedInv'
  OBVIOUS
<1>1. TypeInv /\ TypeInv' /\ TypeOK
  BY TypeStep DEF EvaluatedInv, TypeInv
<1>2. /\ committed \in Nat /\ fetched \in Nat /\ holder \in Replicas /\ holder' \in Replicas
      /\ task \in [Replicas -> Task \cup {None}] /\ task' \in [Replicas -> Task \cup {None}]
  <2>1. task \in [Replicas -> Task \cup {None}] /\ task' \in [Replicas -> Task \cup {None}]
    BY <1>1, Zenon DEF TypeInv
  <2>2. TypeOK'
    BY <1>1, Zenon DEF TypeInv
  <2>3. committed \in Nat /\ fetched \in Nat /\ holder \in Replicas
    BY <1>1 DEF TypeOK
  <2>4. holder' \in Replicas
    BY <2>2, Zenon DEF TypeOK
  <2>5. QED
    BY <2>1, <2>3, <2>4
<1>3. ASSUME NEW i \in Replicas, FetchReading(i)
      PROVE  EvaluatedInv'
  <2> DEFINE t == [offset |-> fetched', rules |-> snapshot[i], firing |-> None,
                   todo |-> {r \in Rules : readings[fetched'] # None /\ snapshot[i][r] # None}]
  <2>1. /\ i = holder /\ task[i] = None /\ fetched' = fetched + 1
        /\ UNCHANGED <<committed, holder, evaluated>> /\ task' = [task EXCEPT ![i] = t]
    BY <1>3 DEF FetchReading
  <2>2. t.offset = fetched + 1 /\ t \in Task
    <3>1. snapshot[i] \in Snapshot
      BY <1>1 DEF TypeOK, Snapshot
    <3>2. QED
      BY <1>2, <2>1, <3>1 DEF Task, Snapshot
  <2> HIDE DEF t
  <2>3. task'[i] = t /\ t # None /\ \A j \in Replicas \ {i} : task'[j] = task[j]
    BY <1>2, <2>1, <2>2, TaskIsSome
  <2>4. Below(fetched)
    BY <2>1 DEF EvaluatedInv, Below
  <2>5. ASSUME NEW j \in Replicas, task'[j] # None
        PROVE  Below(task[j].offset - 1)'
    <3>1. CASE j = i
      <4>1. task'[j].offset - 1 = fetched
        BY <1>2, <2>2, <2>3, <3>1
      <4>2. QED
        BY <2>1, <2>4, <4>1 DEF Below
    <3>2. CASE j # i
      BY <2>1, <2>3, <2>5, <3>2 DEF EvaluatedInv, Below
    <3>3. QED
      BY <3>1, <3>2
  <2>6. \A k \in 1 .. fetched' :
          k \in evaluated' \/ (task'[holder'] # None /\ task'[holder'].offset = k)
    BY <1>2, <2>1, <2>2, <2>3, <2>4 DEF Below
  <2>7. QED
    BY <1>1, <2>1, <2>5, <2>6 DEF EvaluatedInv, Below
<1>4. ASSUME NEW i \in Replicas, CommitReading(i)
      PROVE  EvaluatedInv'
  <2>1. task[i].offset \in 1 .. Len(readings) /\ Len(readings) \in Nat
    BY <1>1, <1>4, HandTyped DEF CommitReading, Evaluated, TypeOK
  <2>2. /\ committed' = committed \/ committed' = task[i].offset
        /\ evaluated' = evaluated \cup {task[i].offset}
        /\ task' = [task EXCEPT ![i] = None] /\ UNCHANGED <<holder, fetched>> /\ task[i] # None
    BY <1>4 DEF CommitReading, Evaluated
  <2>3. \A k \in 1 .. task[i].offset : k \in evaluated'
    BY <1>2, <2>1, <2>2 DEF EvaluatedInv, Below
  <2>4. Below(committed)'
    BY <2>2, <2>3 DEF EvaluatedInv, Below
  <2>5. QED
    BY <1>1, <1>2, <2>2, <2>4 DEF EvaluatedInv, Below
<1>5. ASSUME NEW i \in Replicas, Rebalance(i)
      PROVE  EvaluatedInv'
  BY <1>1, <1>5 DEF Rebalance, Move, EvaluatedInv, Below
<1>6. ASSUME NEW i \in Replicas, NEW j \in Replicas, Restart(i, j)
      PROVE  EvaluatedInv'
  <2>1. /\ task' = [task EXCEPT ![i] = None] /\ UNCHANGED <<committed, evaluated>>
        /\ \/ fetched' = committed
           \/ holder # i /\ UNCHANGED <<holder, fetched>>
    BY <1>6 DEF Restart, Move
  <2>2. QED
    BY <1>1, <1>2, <2>1 DEF EvaluatedInv, Below
<1>7. ASSUME NEW i \in Replicas, NEW r \in Rules, PassOver(i, r) \/ ReserveSlot(i, r)
      PROVE  EvaluatedInv'
  <2>1. task[i] # None /\ task[i] \in Task
    BY <1>2, <1>7 DEF PassOver, ReserveSlot, Evaluating
  <2>2. \E t : t.offset = task[i].offset /\ t \in Task /\ task' = [task EXCEPT ![i] = t]
    <3>1. CASE PassOver(i, r)
      <4> DEFINE t == [task[i] EXCEPT !.todo = @ \ {r}]
      <4>1. t.offset = task[i].offset /\ t \in Task
        BY <2>1 DEF Task
      <4>2. task' = [task EXCEPT ![i] = t]
        BY <3>1 DEF PassOver
      <4> HIDE DEF t
      <4>3. QED
        BY <4>1, <4>2
    <3>2. CASE ReserveSlot(i, r)
      <4> DEFINE t == [task[i] EXCEPT !.todo = @ \ {r}, !.firing = r]
      <4>1. t.offset = task[i].offset /\ t \in Task
        BY <2>1 DEF Task
      <4>2. task' = [task EXCEPT ![i] = t]
        BY <3>2 DEF ReserveSlot
      <4> HIDE DEF t
      <4>3. QED
        BY <4>1, <4>2
    <3>3. QED
      BY <1>7, <3>1, <3>2
  <2>3. UNCHANGED <<committed, fetched, holder, evaluated>>
    BY <1>7 DEF PassOver, ReserveSlot
  <2>4. QED
    BY <1>1, <1>2, <2>1, <2>2, <2>3, TaskIsSome, EvaluationGoesOn
<1>8. ASSUME NEW i \in Replicas, PublishAlert(i) \/ PublishFails(i)
      PROVE  EvaluatedInv'
  <2>1. task[i] # None /\ task[i] \in Task
    BY <1>2, <1>8 DEF PublishAlert, PublishFails, Publishing
  <2> DEFINE t == [task[i] EXCEPT !.firing = None]
  <2>2. t.offset = task[i].offset /\ t \in Task
    BY <2>1 DEF Task
  <2>3. task' = [task EXCEPT ![i] = t] /\ UNCHANGED <<committed, fetched, holder, evaluated>>
    BY <1>8 DEF PublishAlert, PublishFails
  <2> HIDE DEF t
  <2>4. QED
    BY <1>1, <1>2, <2>1, <2>2, <2>3, TaskIsSome, EvaluationGoesOn
<1>9. CASE UNCHANGED consumer
  BY <1>1, <1>9, EvaluationGoesOn DEF consumer
<1>10. QED
  BY <1>3, <1>4, <1>5, <1>6, <1>7, <1>8, <1>9
     DEF Next, AdminStep, Refresh, Evaluate, CreateRule, UpdateRule, WriteRule, WriteRuleFails,
         DeleteRule, ListEnabled, SwapRules, PublishReading, Tick, vars

\* CommittedIsEvaluated: whatever replicas die, lose the partition or commit late,
\* no reading below the committed offset was left half evaluated.
THEOREM CommittedReadingsAreEvaluated == Spec => []CommittedIsEvaluated
<1>1. Init => EvaluatedInv
  BY TypeInit DEF Init, EvaluatedInv, Below
<1>2. EvaluatedInv => CommittedIsEvaluated
  BY DEF EvaluatedInv, Below, CommittedIsEvaluated
<1>3. QED
  BY <1>1, <1>2, EvaluatedStep, PTL DEF Spec

-----------------------------------------------------------------------------
(* Alerts of one life of a replica are a cooldown apart.                   *)

\* An alert a of replica i's present life: the map remembers a firing at least as
\* late, and if the same rule fires again, one that is a cooldown later.
Remembered(a, i) ==
  /\ lastFired[i][a.rule] # None /\ a.at <= lastFired[i][a.rule]
  /\ task[i] # None /\ task[i].firing = a.rule =>
       lastFired[i][a.rule] - a.at >= task[i].rules[a.rule].cooldown

CooldownInv ==
  /\ TypeInv
  /\ \A k \in 1 .. Len(alerts), i \in Replicas :
       alerts[k].run[1] = i =>
         /\ alerts[k].run[2] <= life[i]
         /\ alerts[k].run[2] = life[i] => Remembered(alerts[k], i)
  /\ CooldownHolds

LEMMA AlertTyped ==
  ASSUME TypeInv, NEW k \in 1 .. Len(alerts)
  PROVE  /\ alerts[k] \in AlertSet /\ alerts[k].rule \in Rules /\ alerts[k].at \in Nat
         /\ alerts[k].run = <<alerts[k].run[1], alerts[k].run[2]>>
         /\ alerts[k].run[1] \in Replicas /\ alerts[k].run[2] \in Nat
<1>1. alerts[k] \in AlertSet
  BY DEF TypeInv
<1>2. QED
  BY <1>1 DEF AlertSet

\* A step after which no replica fires that did not fire before.
LEMMA NoneFires ==
  ASSUME CooldownInv, TypeInv', UNCHANGED <<alerts, lastFired, life>>,
         \A i \in Replicas : \/ task'[i] = task[i] \/ task'[i] = None
                             \/ task'[i].firing = None
  PROVE  CooldownInv'
<1>1. \A k \in 1 .. Len(alerts) : alerts[k].rule # None
  BY AlertTyped, NoneIsNothing DEF CooldownInv
<1>2. QED
  BY <1>1 DEF CooldownInv, Remembered, CooldownHolds

LEMMA CooldownStep == CooldownInv /\ [Next]_vars => CooldownInv'
<1> SUFFICES ASSUME CooldownInv, [Next]_vars PROVE CooldownInv'
  OBVIOUS
<1>1. TypeInv /\ TypeInv' /\ TypeOK
  BY TypeStep DEF CooldownInv, TypeInv
<1>2. /\ task \in [Replicas -> Task \cup {None}] /\ clock \in Nat /\ life \in [Replicas -> Nat]
      /\ lastFired \in [Replicas -> [Rules -> 0 .. clock \cup {None}]]
      /\ alerts \in Seq(AlertSet)
  BY <1>1 DEF TypeInv, TypeOK
<1>3. ASSUME NEW i \in Replicas, FetchReading(i) \/ CommitReading(i)
      PROVE  CooldownInv'
  <2>1. \A j \in Replicas : task'[j] = task[j] \/ task'[j] = None \/ task'[j].firing = None
    <3>1. CASE FetchReading(i)
      <4> DEFINE t == [offset |-> fetched', rules |-> snapshot[i], firing |-> None,
                       todo |-> {r \in Rules : readings[fetched'] # None /\ snapshot[i][r] # None}]
      <4>1. task' = [task EXCEPT ![i] = t] /\ t.firing = None
        BY <3>1 DEF FetchReading
      <4> HIDE DEF t
      <4>2. QED
        BY <1>2, <4>1
    <3>2. CASE CommitReading(i)
      BY <1>2, <3>2 DEF CommitReading
    <3>3. QED
      BY <1>3, <3>1, <3>2
  <2>2. UNCHANGED <<alerts, lastFired, life>>
    BY <1>3 DEF FetchReading, CommitReading, engine
  <2>3. QED
    BY <1>1, <2>1, <2>2, NoneFires
<1>4. ASSUME NEW i \in Replicas, NEW r \in Rules, PassOver(i, r)
      PROVE  CooldownInv'
  <2>1. task[i] # None /\ task[i] \in Task /\ task[i].firing = None
    BY <1>2, <1>4 DEF PassOver, Evaluating
  <2> DEFINE t == [task[i] EXCEPT !.todo = @ \ {r}]
  <2>2. t.firing = None /\ task' = [task EXCEPT ![i] = t]
    BY <1>4, <2>1 DEF PassOver, Task
  <2> HIDE DEF t
  <2>3. UNCHANGED <<alerts, lastFired, life>>
    BY <1>4 DEF PassOver, engine
  <2>4. QED
    BY <1>1, <1>2, <2>2, <2>3, NoneFires
<1>5. ASSUME NEW i \in Replicas, NEW r \in Rules, ReserveSlot(i, r)
      PROVE  CooldownInv'
  <2>1. /\ task[i] # None /\ task[i] \in Task /\ ~CoolingDown(i, r, task[i].rules[r])
        /\ r \in task[i].todo
    BY <1>2, <1>5 DEF ReserveSlot, Evaluating, Fires
  <2>2. task[i].rules[r] \in Rule /\ task[i].rules[r].cooldown \in Nat
    <3>1. task[i].rules[r] \in Rule
      BY <1>1, <2>1 DEF TypeInv, InHand, Task
    <3>2. QED
      BY <3>1, ConstantsAssumption DEF Rule, ConstantsAssumption
  <2> DEFINE t == [task[i] EXCEPT !.todo = @ \ {r}, !.firing = r]
  <2>3. t.firing = r /\ t.rules = task[i].rules /\ task' = [task EXCEPT ![i] = t]
    BY <1>5, <2>1 DEF ReserveSlot, Task
  <2> HIDE DEF t
  <2>4. UNCHANGED <<alerts, life>> /\ lastFired' = [lastFired EXCEPT ![i][r] = clock]
    BY <1>5 DEF ReserveSlot
  <2>5. /\ lastFired'[i][r] = clock /\ clock # None
        /\ \A q \in Rules \ {r} : lastFired'[i][q] = lastFired[i][q]
        /\ \A j \in Replicas \ {i} : lastFired'[j] = lastFired[j] /\ task'[j] = task[j]
        /\ task'[i] = t
    BY <1>2, <2>3, <2>4, NoneIsNothing
  <2>6. ASSUME NEW k \in 1 .. Len(alerts), NEW j \in Replicas,
               alerts[k].run[1] = j, alerts[k].run[2] = life[j]
        PROVE  Remembered(alerts[k], j)'
    <3>1. /\ Remembered(alerts[k], j) /\ alerts[k].rule \in Rules /\ alerts[k].at \in Nat
      BY <1>1, <2>6, AlertTyped DEF CooldownInv
    <3>2. CASE j # i
      BY <2>4, <2>5, <3>1, <3>2 DEF Remembered
    <3>3. CASE j = i /\ alerts[k].rule # r
      BY <2>3, <2>4, <2>5, <3>1, <3>3 DEF Remembered
    <3>4. CASE j = i /\ alerts[k].rule = r
      <4>1. lastFired[i][r] \in 0 .. clock /\ clock - lastFired[i][r] >= task[i].rules[r].cooldown
        BY <1>2, <2>1, <2>2, <3>1, <3>4 DEF Remembered, CoolingDown
      <4>2. alerts[k].at <= lastFired[i][r]
        BY <3>1, <3>4 DEF Remembered
      <4>3. clock - alerts[k].at >= task[i].rules[r].cooldown /\ alerts[k].at <= clock
        BY <1>2, <2>2, <3>1, <4>1, <4>2
      <4>4. QED
        BY <2>3, <2>4, <2>5, <3>4, <4>3 DEF Remembered
    <3>5. QED
      BY <3>2, <3>3, <3>4
  <2>7. QED
    BY <1>1, <2>4, <2>6 DEF CooldownInv, CooldownHolds
<1>6. ASSUME NEW i \in Replicas, PublishAlert(i) \/ PublishFails(i)
      PROVE  CooldownInv'
  <2>1. /\ task[i] # None /\ task[i] \in Task /\ task[i].firing \in Rules /\ InHand(i)
    BY <1>1, <1>2, <1>6 DEF PublishAlert, PublishFails, Publishing, TypeInv, Task
  <2> DEFINE t == [task[i] EXCEPT !.firing = None]
  <2>2. t.firing = None /\ task' = [task EXCEPT ![i] = t] /\ UNCHANGED <<lastFired, life>>
    BY <1>6, <2>1 DEF PublishAlert, PublishFails, Task, engine
  <2> HIDE DEF t
  <2>3. CASE alerts' = alerts
    BY <1>1, <1>2, <2>2, <2>3, NoneFires
  <2>4. CASE alerts' = Append(alerts, Alert(i))
    <3> DEFINE a == Alert(i)
    <3>1. /\ a.rule = task[i].firing /\ a.run = <<i, life[i]>>
          /\ a.at = lastFired[i][a.rule] /\ a.cooldown = task[i].rules[a.rule].cooldown
          /\ lastFired[i][a.rule] # None
      BY <2>1, NoneIsNothing DEF Alert, InHand
    <3>2. /\ Len(alerts') = Len(alerts) + 1 /\ Len(alerts) \in Nat /\ alerts'[Len(alerts) + 1] = a
          /\ \A k \in 1 .. Len(alerts) : alerts'[k] = alerts[k]
      BY <1>2, <2>4
    <3>3. a.at \in Nat
      BY <1>2, <2>1, <3>1
    <3> HIDE DEF a
    <3>4. \A j \in Replicas : task'[j] = task[j] \/ task'[j].firing = None
      BY <1>2, <2>2
    <3>5. ASSUME NEW k \in 1 .. Len(alerts'), NEW j \in Replicas, alerts'[k].run[1] = j
          PROVE  /\ alerts'[k].run[2] <= life'[j]
                 /\ alerts'[k].run[2] = life'[j] => Remembered(alerts[k], j)'
      <4>1. CASE k = Len(alerts) + 1
        <5>1. j = i /\ alerts'[k].run[2] = life'[i] /\ life'[i] \in Nat /\ task'[i].firing = None
          BY <1>2, <2>2, <3>1, <3>2, <3>5, <4>1
        <5>2. QED
          BY <2>1, <2>2, <3>1, <3>2, <3>3, <4>1, <5>1, NoneIsNothing DEF Remembered
      <4>2. CASE k \in 1 .. Len(alerts)
        <5>1. alerts[k].rule # None
          BY <1>1, <4>2, AlertTyped, NoneIsNothing
        <5>2. QED
          BY <2>2, <3>2, <3>4, <3>5, <4>2, <5>1 DEF CooldownInv, Remembered
      <4>3. QED
        BY <3>2, <4>1, <4>2
    <3>6. ASSUME NEW k \in 1 .. Len(alerts), alerts[k].rule = a.rule, alerts[k].run = a.run
          PROVE  a.at - alerts[k].at >= a.cooldown
      <4>1. Remembered(alerts[k], i)
        BY <2>1, <3>1, <3>6 DEF CooldownInv
      <4>2. QED
        BY <2>1, <3>1, <3>6, <4>1 DEF Remembered
    <3>7. CooldownHolds'
      <4> SUFFICES ASSUME NEW k \in 1 .. Len(alerts'), NEW l \in 1 .. Len(alerts'), k < l,
                          alerts'[k].rule = alerts'[l].rule, alerts'[k].run = alerts'[l].run
                   PROVE  alerts'[l].at - alerts'[k].at >= alerts'[l].cooldown
        BY DEF CooldownHolds
      <4>1. k \in 1 .. Len(alerts)
        BY <3>2
      <4>2. CASE l = Len(alerts) + 1
        BY <3>2, <3>6, <4>1, <4>2
      <4>3. CASE l \in 1 .. Len(alerts)
        BY <3>2, <4>1, <4>3 DEF CooldownInv, CooldownHolds
      <4>4. QED
        BY <3>2, <4>2, <4>3
    <3>8. QED
      BY <1>1, <3>5, <3>7 DEF CooldownInv
  <2>5. QED
    BY <1>6, <2>3, <2>4 DEF PublishAlert, PublishFails
<1>7. ASSUME NEW i \in Replicas, NEW j \in Replicas, Restart(i, j)
      PROVE  CooldownInv'
  <2>1. /\ alerts' = alerts /\ life' = [life EXCEPT ![i] = life[i] + 1]
        /\ lastFired' = [lastFired EXCEPT ![i] = [r \in Rules |-> None]]
        /\ task' = [task EXCEPT ![i] = None]
    BY <1>7 DEF Restart, Move
  <2>2. ASSUME NEW k \in 1 .. Len(alerts), NEW l \in Replicas, alerts[k].run[1] = l
        PROVE  /\ alerts[k].run[2] <= life'[l]
               /\ alerts[k].run[2] = life'[l] => Remembered(alerts[k], l)'
    <3>1. alerts[k].run[2] \in Nat /\ alerts[k].run[2] <= life[l] /\ life[l] \in Nat
      BY <1>1, <1>2, <2>2, AlertTyped DEF CooldownInv
    <3>2. CASE l = i
      <4>1. life'[l] = life[l] + 1
        BY <1>2, <2>1, <3>2
      <4>2. QED
        BY <3>1, <4>1
    <3>3. CASE l # i
      BY <1>2, <2>1, <2>2, <3>3 DEF CooldownInv, Remembered
    <3>4. QED
      BY <3>2, <3>3
  <2>3. QED
    BY <1>1, <2>1, <2>2 DEF CooldownInv, CooldownHolds
<1>8. CASE UNCHANGED <<alerts, lastFired, life, task>>
  BY <1>1, <1>8, NoneFires
<1>9. QED
  BY <1>3, <1>4, <1>5, <1>6, <1>7, <1>8
     DEF Next, AdminStep, Refresh, Evaluate, CreateRule, UpdateRule, WriteRule, WriteRuleFails,
         DeleteRule, ListEnabled, SwapRules, PublishReading, Tick, Rebalance, Move, vars,
         consumer, engine

\* CooldownHolds: in one life of a replica the alerts of a rule are a cooldown
\* apart, whatever is delivered again and whichever publication fails.
THEOREM CooldownsHold == Spec => []CooldownHolds
<1>1. Init => CooldownInv
  BY TypeInit DEF Init, CooldownInv, CooldownHolds
<1>2. CooldownInv => CooldownHolds
  BY DEF CooldownInv
<1>3. QED
  BY <1>1, <1>2, CooldownStep, PTL DEF Spec
=============================================================================
