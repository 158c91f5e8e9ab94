------------------------- MODULE ServiceTableProofs -------------------------
(***************************************************************************)
(* The onion-service client's table, for any number of callers, records    *)
(* and tasks: a connection task finds its own record, an open tunnel is    *)
(* watched until it expires, and a tunnel is never shared by callers who   *)
(* may not share one.                                                      *)
(***************************************************************************)
EXTENDS ServiceTable, TLAPS

States == {"Absent", "Closed", "Open", "Working"}
Keys == {"none"} \cup {Key[c] : c \in Callers}
Labels == UNION {Isolation[c] : c \in Callers}
RecordType == [key : Keys, isolation : SUBSET Labels, state : States, task : 0..MaxTasks,
               tunnel_is_ok : BOOLEAN, last_used : Nat]
TaskType == [phase : TaskPhases, index : 0..MaxRecords, error : BOOLEAN]
CallerType == [pc : {"new", "waiting", "answered", "failed"}, index : 0..MaxRecords,
               waits : 0..MaxTasks, rechecks : Nat]

Types ==
    /\ records \in [Indices -> RecordType]
    /\ task \in [TaskIds -> TaskType]
    /\ expiry \subseteq [index : Indices, wake : Nat]
    /\ caller \in [Callers -> CallerType]
    /\ time \in Nat

(* A task that connects has its record; a record has the caller who made it; *)
(* a caller who has not begun has none.                                      *)
Owned == \A k \in TaskIds : task[k].phase = "connecting" => task[k].index \in Indices /\ Owns(k)
Rooted == \A i \in Indices : Live(i) => Taken(i)
Fresh == \A c \in Callers : caller[c].pc = "new" => caller[c].index = 0

Waits == \A c \in Callers : caller[c].pc = "waiting" => caller[c].index \in Indices

(* No record was used in the future, and a tunnel's task has stored it. *)
Timely == \A i \in Indices : records[i].state \in {"Closed", "Open"} => records[i].last_used <= time
Made ==
    \A i \in Indices : records[i].state = "Open" =>
        records[i].task \in TaskIds /\ task[records[i].task].phase \in {"stored", "done"}

TInv == Types /\ Owned /\ Rooted /\ Fresh /\ Waits /\ Timely /\ Made /\ OpenWillExpire

(* The table recs that index_or_insert_with leaves for the caller c: its      *)
(* entry i is narrowed, or blank where there was none.                        *)
Narrowed(i, recs) ==
    /\ i \in Indices /\ recs \in [Indices -> RecordType]
    /\ \A j \in Indices : j # i => recs[j] = records[j]
    /\ \/ /\ recs[i].state = records[i].state /\ recs[i].task = records[i].task
          /\ recs[i].tunnel_is_ok = records[i].tunnel_is_ok /\ recs[i].last_used = records[i].last_used
       \/ ~Live(i) /\ recs[i].state = "Closed" /\ recs[i].last_used = time

(* The constants are numbers. *)
LEMMA TableConstants ==
    /\ MaxRecords \in Nat /\ MaxTasks \in Nat /\ RETAIN_CIRCUIT_AFTER_LAST_USE \in Nat
    /\ 0 \notin Indices /\ 0 \notin TaskIds
BY ServiceTableAssumption DEF ServiceTableAssumption, Indices, TaskIds

(* The records that the operations make are records. *)
LEMMA RecordMade ==
    ASSUME NEW key \in Keys, NEW isolation \in SUBSET Labels, NEW state \in States, NEW k \in 0..MaxTasks, NEW t \in Nat
    PROVE  /\ Record(key, isolation, state, k, t) \in RecordType
           /\ Record(key, isolation, state, k, t).state = state
           /\ Record(key, isolation, state, k, t).key = key
           /\ Record(key, isolation, state, k, t).isolation = isolation
           /\ Record(key, isolation, state, k, t).task = k
           /\ Record(key, isolation, state, k, t).last_used = t
<1>1. PICK ok \in BOOLEAN : ok = (state = "Open")
  BY Zenon
<1>2. Record(key, isolation, state, k, t) =
        [key |-> key, isolation |-> isolation, state |-> state, task |-> k, tunnel_is_ok |-> ok, last_used |-> t]
  BY <1>1, Zenon DEF Record
<1> QED BY <1>2 DEF RecordType

LEMMA RecordTypes ==
    ASSUME NEW rec \in RecordType, NEW k \in 0..MaxTasks, NEW t \in Nat
    PROVE  /\ Closed(rec, t) \in RecordType /\ Closed(rec, t).state = "Closed" /\ Closed(rec, t).last_used = t
           /\ Open(rec, k, t) \in RecordType /\ Open(rec, k, t).state = "Open"
           /\ Open(rec, k, t).last_used = t /\ Open(rec, k, t).task = k
           /\ Working(rec, k) \in RecordType /\ Working(rec, k).state = "Working" /\ Working(rec, k).task = k
<1>1. rec.key \in Keys /\ rec.isolation \in SUBSET Labels /\ 0 \in 0..MaxTasks /\ 0 \in Nat
  BY TableConstants DEF RecordType
<1>2. "Closed" \in States /\ "Open" \in States /\ "Working" \in States
  BY DEF States
<1> QED BY <1>1, <1>2, RecordMade DEF Closed, Open, Working

(* What index_or_insert_with leaves. *)
LEMMA EntryNarrowed ==
    ASSUME TInv, NEW c \in Callers, NEW e \in index_or_insert_with(c)
    PROVE  Narrowed(e.index, e.recs)
<1>0. Isolation[c] \in SUBSET Labels /\ Key[c] \in Keys /\ "Closed" \in States /\ 0 \in 0..MaxTasks /\ time \in Nat
  BY TableConstants DEF Labels, Keys, States, TInv, Types
<1>1. CASE Matching(c) # {}
  <2>1. PICK i \in Matching(c) : e = [index |-> i, recs |-> [records EXCEPT ![i].isolation = join(@, Isolation[c])]]
    BY <1>1 DEF index_or_insert_with
  <2>2. i \in Indices /\ records \in [Indices -> RecordType]
    BY DEF Matching, TInv, Types
  <2>3. join(records[i].isolation, Isolation[c]) \in SUBSET Labels
    BY <1>0, <2>2 DEF join, RecordType
  <2> QED BY <2>1, <2>2, <2>3 DEF Narrowed, RecordType
<1>2. CASE Matching(c) = {}
  <2> DEFINE r == Record(Key[c], Isolation[c], "Closed", 0, time)
  <2>1. PICK i \in NextIndex : e = [index |-> i, recs |-> [records EXCEPT ![i] = r]]
    BY <1>2 DEF index_or_insert_with
  <2>2. r \in RecordType /\ r.state = "Closed" /\ r.last_used = time
    BY <1>0, RecordMade
  <2>3. i \in Indices /\ records \in [Indices -> RecordType] /\ ~Live(i)
    BY DEF NextIndex, TInv, Types, Rooted
  <2> HIDE DEF r
  <2> QED BY <2>1, <2>2, <2>3 DEF Narrowed
<1> QED BY <1>1, <1>2

(* A caller's turn, in general: its entry i becomes r, the caller d. *)
Turn(c, i, recs, r, d) ==
    /\ Narrowed(i, recs) /\ caller[c].index \in {0, i}
    /\ r \in RecordType /\ records' = [recs EXCEPT ![i] = r]
    /\ d \in CallerType /\ caller' = [caller EXCEPT ![c] = d] /\ d.index = i /\ d.pc # "new"
    /\ expiry' = expiry /\ time' = time
    /\ task' \in [TaskIds -> TaskType]
    /\ \A k \in TaskIds : task[k].phase \in {"stored", "done"} => task'[k].phase \in {"stored", "done"}
    /\ \A k \in TaskIds : task'[k].phase = "connecting" =>
           \/ task'[k] = task[k] /\ (task[k].index = i => r.state = "Working" /\ r.task = k)
           \/ task'[k].index = i /\ r.state = "Working" /\ r.task = k
    /\ r.state \in {"Closed", "Open"} => r.last_used <= time
    /\ r.state = "Open" => /\ records[i].state = "Open" /\ r.task = records[i].task
                           /\ records[i].last_used <= r.last_used
    /\ r.key = recs[i].key /\ r.isolation = recs[i].isolation
    /\ r.state # "Absent" => recs[i].state # "Absent"
    /\ d.pc = "waiting" => r.state # "Absent"
    /\ d.pc = "answered" => r.state = "Open" /\ d.waits = r.task

LEMMA TurnStep ==
    ASSUME TInv, NEW c \in Callers, NEW i, NEW recs, NEW r, NEW d, Turn(c, i, recs, r, d)
    PROVE  TInv'
<1> USE DEF Turn
<1>1. i \in Indices /\ recs \in [Indices -> RecordType] /\ records \in [Indices -> RecordType]
      /\ caller \in [Callers -> CallerType]
  BY DEF Narrowed, TInv, Types
<1>2. records' \in [Indices -> RecordType] /\ records'[i] = r /\ \A j \in Indices : j # i => records'[j] = records[j]
  BY <1>1 DEF Narrowed
<1>3. caller' \in [Callers -> CallerType] /\ caller'[c] = d /\ \A b \in Callers : b # c => caller'[b] = caller[b]
  BY <1>1
<1>4. Types'
  BY <1>2, <1>3 DEF TInv, Types
<1>5. Owned'
  <2> SUFFICES ASSUME NEW k \in TaskIds, task'[k].phase = "connecting"
               PROVE  task'[k].index \in Indices /\ Owns(k)'
    BY DEF Owned
  <2>1. CASE task'[k] = task[k] /\ task[k].index # i
    BY <2>1, <1>2 DEF TInv, Owned, Owns
  <2>2. CASE task'[k].index = i /\ r.state = "Working" /\ r.task = k
    BY <2>2, <1>1, <1>2 DEF Owns
  <2> QED BY <2>1, <2>2
<1>6. Rooted'
  BY <1>1, <1>2, <1>3, TableConstants DEF TInv, Rooted, Live, Taken
<1>7. Fresh' /\ Waits'
  BY <1>1, <1>3 DEF TInv, Fresh, Waits
<1>8. Timely'
  BY <1>1, <1>2 DEF TInv, Timely
<1>9. Made'
  BY <1>1, <1>2 DEF TInv, Made
<1>10. OpenWillExpire'
  <2> SUFFICES ASSUME NEW j \in Indices, records'[j].state = "Open"
               PROVE  \E e \in expiry : e.index = j /\ e.wake <= records'[j].last_used + RETAIN_CIRCUIT_AFTER_LAST_USE
    BY DEF OpenWillExpire
  <2>1. records[j].state = "Open" /\ records[j].last_used <= records'[j].last_used
    BY <1>1, <1>2 DEF RecordType
  <2>2. PICK e \in expiry : e.index = j /\ e.wake <= records[j].last_used + RETAIN_CIRCUIT_AFTER_LAST_USE
    BY <2>1 DEF TInv, OpenWillExpire
  <2>3. e.wake \in Nat /\ records[j].last_used \in Nat /\ records'[j].last_used \in Nat
    BY <1>1, <1>2 DEF TInv, Types, RecordType
  <2> QED BY <2>1, <2>2, <2>3, TableConstants
<1> QED BY <1>4, <1>5, <1>6, <1>7, <1>8, <1>9, <1>10 DEF TInv

(* The turn of obtain_circuit_or_continuation_info. *)
LEMMA ObtainTurn ==
    ASSUME TInv, NEW c \in Callers, NEW i, NEW recs, Narrowed(i, recs), caller[c].index \in {0, i},
           \/ obtain_circuit_or_continuation_info(c, i, recs)
           \/ Fails(c, i, recs),
           expiry' = expiry, time' = time
    PROVE  \E r, d : Turn(c, i, recs, r, d)
<1>1. i \in Indices /\ recs \in [Indices -> RecordType] /\ recs[i] \in RecordType
      /\ task \in [TaskIds -> TaskType] /\ caller[c] \in CallerType /\ time \in Nat
  BY DEF Narrowed, TInv, Types
<1>2. \A k \in TaskIds : task[k].phase = "connecting" /\ task[k].index = i =>
          recs[i].state = "Working" /\ recs[i].task = k
  BY DEF TInv, Owned, Owns, Narrowed, Live
<1>3. recs[i].state \in {"Closed", "Open"} => recs[i].last_used <= time
  BY <1>1 DEF TInv, Timely, Narrowed
<1>4. recs[i].state = "Open" => /\ records[i].state = "Open" /\ recs[i].task = records[i].task
                                /\ records[i].last_used = recs[i].last_used
  BY DEF Narrowed
<1>5. \A k \in 0..MaxTasks : Ended("failed", i, k) \in CallerType /\ Ended("answered", i, k) \in CallerType
  BY <1>1, TableConstants DEF Ended, CallerType, Indices
<1>6. 0 \in 0..MaxTasks /\ i \in 0..MaxRecords
  BY <1>1, TableConstants DEF Indices
<1>7. CASE Fails(c, i, recs)
  <2>1. records' = [recs EXCEPT ![i] = recs[i]]
    BY <1>1, <1>7 DEF Fails
  <2>2. caller' = [caller EXCEPT ![c] = Ended("failed", i, 0)] /\ task' = task
    BY <1>7 DEF Fails
  <2>3. Ended("failed", i, 0).index = i /\ Ended("failed", i, 0).pc = "failed"
    BY DEF Ended
  <2>4. recs[i].state = "Open" => records[i].last_used <= recs[i].last_used
    BY <1>1, <1>4 DEF RecordType
  <2>5. Turn(c, i, recs, recs[i], Ended("failed", i, 0))
    BY <1>1, <1>2, <1>3, <1>4, <1>5, <1>6, <2>1, <2>2, <2>3, <2>4 DEF Turn
  <2> QED BY <2>5
<1>8. CASE hand_out(c, i, recs)
  <2> DEFINE r == [recs[i] EXCEPT !.last_used = time]
             d == Ended("answered", i, recs[i].task)
  <2>1. records' = [recs EXCEPT ![i] = r] /\ caller' = [caller EXCEPT ![c] = d] /\ task' = task
        /\ recs[i].state = "Open"
    BY <1>8, <1>1 DEF hand_out
  <2>2. /\ r \in RecordType /\ r.state = "Open" /\ r.task = recs[i].task /\ r.last_used = time
        /\ r.key = recs[i].key /\ r.isolation = recs[i].isolation
    BY <1>1, <2>1 DEF RecordType
  <2>3. d \in CallerType /\ d.index = i /\ d.pc = "answered" /\ d.waits = recs[i].task
    BY <1>1, <1>5, Zenon DEF Ended, RecordType
  <2>4. records[i].state = "Open" /\ records[i].last_used <= time /\ time <= time
    BY <1>1, <1>3, <1>4, <2>1
  <2> HIDE DEF r, d
  <2>5. \A k \in TaskIds : task[k].phase = "connecting" => task[k].index # i
    BY <1>2, <2>1
  <2>6. Turn(c, i, recs, r, d)
    BY <1>1, <1>4, <2>1, <2>2, <2>3, <2>4, <2>5 DEF Turn
  <2> QED BY <2>6
<1>9. CASE wait_for(c, i, recs)
  <2> DEFINE d == [pc |-> "waiting", index |-> i, waits |-> recs[i].task, rechecks |-> caller[c].rechecks + 1]
  <2>1. records' = [recs EXCEPT ![i] = recs[i]] /\ task' = task /\ recs[i].state = "Working"
    BY <1>1, <1>9 DEF wait_for
  <2>2. caller' = [caller EXCEPT ![c] = d]
    BY <1>9 DEF wait_for, TInv, Types
  <2>3. d \in CallerType /\ d.index = i /\ d.pc = "waiting"
    BY <1>1, <1>6 DEF CallerType, RecordType
  <2> HIDE DEF d
  <2>4. Turn(c, i, recs, recs[i], d)
    BY <1>1, <1>2, <2>1, <2>2, <2>3 DEF Turn
  <2> QED BY <2>4
<1>10. CASE launch(c, i, recs)
  <2>0. recs[i].state # "Absent"
    BY <1>10, SMTT(30) DEF launch, stale
  <2>1. ASSUME NEW n \in TaskIds, task[n].phase = "connecting", task[n].index = i
        PROVE  FALSE
    BY <1>1, <1>2, <1>10, <2>1 DEF launch, stale
  <2>2. CASE Fails(c, i, [recs EXCEPT ![i] = Closed(@, time)])
    <3>1. records' = [recs EXCEPT ![i] = Closed(recs[i], time)]
      BY <1>1, <2>2 DEF Fails
    <3>2. caller' = [caller EXCEPT ![c] = Ended("failed", i, 0)] /\ task' = task
      BY <2>2 DEF Fails
    <3>3. Ended("failed", i, 0).index = i /\ Ended("failed", i, 0).pc = "failed"
      BY DEF Ended
    <3>4. Closed(recs[i], time) \in RecordType /\ Closed(recs[i], time).state = "Closed"
          /\ Closed(recs[i], time).last_used = time
      BY <1>1, <1>6, RecordTypes, SMTT(30)
    <3>6. Closed(recs[i], time).key = recs[i].key /\ Closed(recs[i], time).isolation = recs[i].isolation
      BY DEF Closed, Record
    <3>5. Turn(c, i, recs, Closed(recs[i], time), Ended("failed", i, 0))
      BY <1>1, <1>5, <1>6, <2>0, <2>1, <3>1, <3>2, <3>3, <3>4, <3>6 DEF Turn
    <3> QED BY <3>5
  <2>3. ASSUME NEW k \in NextTask, NEW d \in CallerType, NEW t \in TaskType,
               records' = [recs EXCEPT ![i] = Working(@, k)],
               task' = [task EXCEPT ![k] = t], t.phase # "unused", t.phase = "connecting" => t.index = i,
               caller' = [caller EXCEPT ![c] = d], d.index = i, d.pc \in {"waiting", "failed"}
        PROVE  \E r, e : Turn(c, i, recs, r, e)
    <3>1. k \in TaskIds /\ k \in 0..MaxTasks /\ task[k].phase = "unused"
      BY TableConstants DEF NextTask, TaskIds
    <3>2. records' = [recs EXCEPT ![i] = Working(recs[i], k)]
      BY <1>1, <2>3
    <3>3. Working(recs[i], k) \in RecordType /\ Working(recs[i], k).state = "Working" /\ Working(recs[i], k).task = k
      BY <1>1, <3>1, RecordTypes
    <3>6. Working(recs[i], k).key = recs[i].key /\ Working(recs[i], k).isolation = recs[i].isolation
      BY DEF Working, Record
    <3>4. task' \in [TaskIds -> TaskType] /\ task'[k] = t /\ \A n \in TaskIds : n # k => task'[n] = task[n]
      BY <1>1, <2>3, <3>1, SMTT(30)
    <3>5. Turn(c, i, recs, Working(recs[i], k), d)
      BY <1>1, <2>0, <2>1, <2>3, <3>1, <3>2, <3>3, <3>4, <3>6 DEF Turn
    <3> QED BY <3>5
  <2> DEFINE reset == IF stale(recs[i]) THEN 1 ELSE 0
             left == MAX_RECHECKS - caller[c].rechecks
             closed == [recs EXCEPT ![i] = Closed(@, time)]
  <2>4. CASE left <= reset
    BY <1>10, <2>2, <2>4 DEF launch
  <2>5. CASE ~(left <= reset)
    <3>1. PICK k \in NextTask :
            /\ records' = [recs EXCEPT ![i] = Working(@, k)]
            /\ \/ /\ task' = [task EXCEPT ![k] = [phase |-> "connecting", index |-> i, error |-> FALSE]]
                  /\ caller' = [caller EXCEPT ![c] =
                         IF left <= reset + 1 THEN Ended("failed", i, 0)
                         ELSE [pc |-> "waiting", index |-> i, waits |-> k, rechecks |-> @.rechecks + reset + 2]]
               \/ /\ task' = [task EXCEPT ![k] = [phase |-> "done", index |-> 0, error |-> FALSE]]
                  /\ caller' = [caller EXCEPT ![c] = Ended("failed", i, 0)]
      BY <1>10, <2>5 DEF launch
    <3> DEFINE waiting == [pc |-> "waiting", index |-> i, waits |-> k, rechecks |-> caller[c].rechecks + reset + 2]
               started == [phase |-> "connecting", index |-> i, error |-> FALSE]
               dropped == [phase |-> "done", index |-> 0, error |-> FALSE]
               failed == Ended("failed", i, 0)
    <3>2. k \in 0..MaxTasks /\ 0 \in 0..MaxRecords
      BY TableConstants DEF NextTask, TaskIds
    <3>3. reset \in Nat
      OBVIOUS
    <3>4. waiting \in CallerType /\ waiting.index = i /\ waiting.pc = "waiting"
      <4> HIDE DEF reset
      <4> QED BY <1>1, <1>6, <3>2, <3>3 DEF CallerType
    <3>5. failed \in CallerType /\ failed.index = i /\ failed.pc = "failed"
      BY <1>5, <1>6, Zenon DEF Ended
    <3>6. /\ started \in TaskType /\ started.phase # "unused" /\ started.index = i
          /\ dropped \in TaskType /\ dropped.phase = "done"
      BY <1>6, <3>2 DEF TaskType, TaskPhases
    <3>7. \/ task' = [task EXCEPT ![k] = started] /\ caller' = [caller EXCEPT ![c] = failed]
          \/ task' = [task EXCEPT ![k] = started] /\ caller' = [caller EXCEPT ![c] = waiting]
          \/ task' = [task EXCEPT ![k] = dropped] /\ caller' = [caller EXCEPT ![c] = failed]
      <4> HIDE DEF reset, left
      <4> QED BY <3>1
    <3> HIDE DEF waiting, started, dropped, failed
    <3> QED BY <2>3, <3>1, <3>4, <3>5, <3>6, <3>7, Zenon
  <2> QED BY <2>4, <2>5
<1> QED BY <1>7, <1>8, <1>9, <1>10 DEF obtain_circuit_or_continuation_info

LEMMA CallerStepInv ==
    ASSUME TInv, NEW c \in Callers, CallerStep(c)
    PROVE  TInv'
<1>1. CASE get_or_launch_connection(c)
  <2>1. PICK e \in index_or_insert_with(c) : obtain_circuit_or_continuation_info(c, e.index, e.recs)
    BY <1>1 DEF get_or_launch_connection
  <2>2. Narrowed(e.index, e.recs)
    BY EntryNarrowed
  <2>3. caller[c].index = 0 /\ expiry' = expiry /\ time' = time
    BY <1>1 DEF get_or_launch_connection, TInv, Fresh
  <2> QED BY <2>1, <2>2, <2>3, ObtainTurn, TurnStep
<1>2. CASE barrier_recv(c)
  <2>1. CASE caller[c].index \in Indices
    <3>1. Narrowed(caller[c].index, records)
      BY <2>1 DEF Narrowed, TInv, Types
    <3>2. /\ obtain_circuit_or_continuation_info(c, caller[c].index, records) \/ Fails(c, caller[c].index, records)
          /\ expiry' = expiry /\ time' = time
      BY <1>2 DEF barrier_recv
    <3> QED BY <3>1, <3>2, ObtainTurn, TurnStep
  <2> QED BY <2>1, <1>2 DEF barrier_recv, TInv, Waits
<1> QED BY <1>1, <1>2, SMTT(30) DEF CallerStep

(* A task stores what it has: its record is Open, and watched. *)
LEMMA StoreStep ==
    ASSUME TInv, NEW k \in TaskIds, store(k)
    PROVE  TInv'
<1>0. PICK i \in Indices : i = task[k].index
  BY DEF store, TInv, Owned
<1> DEFINE w == [index |-> i, wake |-> time + RETAIN_CIRCUIT_AFTER_LAST_USE]
<1>1. /\ task[k].phase = "connecting" /\ Owns(k) /\ Owns(k) \in BOOLEAN
      /\ records[i].state = "Working" /\ records[i].task = k
      /\ caller' = caller /\ time' = time
  BY <1>0 DEF store, TInv, Owned, Owns
<1>2. /\ records \in [Indices -> RecordType] /\ records[i] \in RecordType /\ task \in [TaskIds -> TaskType]
      /\ expiry \subseteq [index : Indices, wake : Nat] /\ time \in Nat /\ k \in 0..MaxTasks
  BY <1>1, TableConstants DEF TInv, Types, TaskIds
<1>3. /\ task' \in [TaskIds -> TaskType] /\ task'[k].phase = "stored"
      /\ \A n \in TaskIds : n # k => task'[n] = task[n]
  BY <1>1, <1>2 DEF store, TaskType, TaskPhases
<1>4. CASE records' = records /\ expiry' = expiry
  <2>1. Types' /\ Rooted' /\ Fresh' /\ Waits' /\ Timely'
    BY <1>1, <1>3, <1>4 DEF TInv, Types, Rooted, Live, Taken, Fresh, Waits, Timely
  <2>2. Owned'
    BY <1>3, <1>4 DEF TInv, Owned, Owns
  <2>3. Made'
    BY <1>3, <1>4 DEF TInv, Made
  <2>4. OpenWillExpire'
    BY <1>4 DEF TInv, OpenWillExpire
  <2> QED BY <2>1, <2>2, <2>3, <2>4 DEF TInv
<1>5. CASE /\ expiry' = expiry \cup {w}
           /\ records' = [records EXCEPT ![i] = Open(records[i], k, time)]
  <2> DEFINE r == Open(records[i], k, time)
  <2>1. r \in RecordType /\ r.state = "Open" /\ r.last_used = time /\ r.task = k
    BY <1>2, RecordTypes
  <2> HIDE DEF r
  <2>2. records' \in [Indices -> RecordType] /\ records'[i] = r /\ \A j \in Indices : j # i => records'[j] = records[j]
    BY <1>1, <1>2, <1>5, <2>1 DEF r
  <2>3. w \in [index : Indices, wake : Nat]
    BY <1>1, <1>2, TableConstants
  <2>4. Types'
    BY <1>1, <1>2, <1>3, <1>5, <2>2, <2>3 DEF TInv, Types
  <2>5. Rooted' /\ Fresh' /\ Waits'
    <3>1. Live(i)
      BY <1>1 DEF Owns, Live
    <3> QED BY <1>1, <2>2, <3>1 DEF TInv, Rooted, Live, Taken, Fresh, Waits
  <2>6. Timely'
    BY <1>1, <1>2, <2>1, <2>2 DEF TInv, Timely
  <2>9. Made'
    BY <1>2, <1>3, <2>1, <2>2, ZenonT(30) DEF TInv, Made
  <2>7. Owned'
    <3> SUFFICES ASSUME NEW n \in TaskIds, task'[n].phase = "connecting"
                 PROVE  task'[n].index \in Indices /\ Owns(n)'
      BY DEF Owned
    <3>1. n # k /\ task'[n] = task[n] /\ task[n].index \in Indices /\ Owns(n)
      BY <1>3 DEF TInv, Owned
    <3>2. task[n].index # i
      BY <1>1, <3>1 DEF Owns
    <3> QED BY <2>2, <3>1, <3>2 DEF Owns
  <2>8. OpenWillExpire'
    <3> SUFFICES ASSUME NEW j \in Indices, records'[j].state = "Open"
                 PROVE  \E e \in expiry' : e.index = j /\ e.wake <= records'[j].last_used + RETAIN_CIRCUIT_AFTER_LAST_USE
      BY DEF OpenWillExpire
    <3>1. CASE j = i
      <4>1. w \in expiry' /\ w.index = j /\ w.wake = records'[j].last_used + RETAIN_CIRCUIT_AFTER_LAST_USE
        BY <1>5, <2>1, <2>2, <3>1
      <4>2. w.wake \in Nat
        BY <2>3
      <4> QED BY <4>1, <4>2
    <3>2. CASE j # i
      BY <1>5, <2>2, <3>2 DEF TInv, OpenWillExpire
    <3> QED BY <3>1, <3>2
  <2> QED BY <2>4, <2>5, <2>6, <2>7, <2>8, <2>9 DEF TInv
<1> QED BY <1>0, <1>1, <1>2, <1>4, <1>5 DEF store

LEMMA DropBarrierStep ==
    ASSUME TInv, NEW k \in TaskIds, drop_barrier(k)
    PROVE  TInv'
<1>1. /\ task[k].phase = "stored" /\ records' = records /\ expiry' = expiry /\ caller' = caller /\ time' = time
      /\ task \in [TaskIds -> TaskType] /\ 0 \in 0..MaxRecords
  BY TableConstants DEF drop_barrier, TInv, Types
<1>2. /\ task' \in [TaskIds -> TaskType] /\ task'[k].phase = "done"
      /\ \A n \in TaskIds : n # k => task'[n] = task[n]
  BY <1>1, ZenonT(30) DEF drop_barrier, TaskType, TaskPhases
<1>3. Types' /\ Rooted' /\ Fresh' /\ Waits' /\ Timely'
  BY <1>1, <1>2 DEF TInv, Types, Rooted, Live, Taken, Fresh, Waits, Timely
<1>4. Owned'
  BY <1>1, <1>2 DEF TInv, Owned, Owns
<1>5. Made'
  BY <1>1, <1>2 DEF TInv, Made
<1>6. OpenWillExpire'
  BY <1>1 DEF TInv, OpenWillExpire
<1> QED BY <1>3, <1>4, <1>5, <1>6 DEF TInv

(* Steps that change only the table, and leave Working records alone. *)
LEMMA TableStep ==
    ASSUME TInv, task' = task, caller' = caller, time' = time, records' \in [Indices -> RecordType],
           expiry' \subseteq [index : Indices, wake : Nat],
           \A i \in Indices :
               /\ records[i].state = "Working" => records'[i] = records[i]
               /\ records'[i].state # "Absent" => Live(i)
               /\ records'[i].state \in {"Closed", "Open"} => records'[i].last_used <= time
               /\ records'[i].state = "Open" => records[i].state = "Open" /\ records'[i].task = records[i].task,
           OpenWillExpire'
    PROVE  TInv'
<1>1. Types' /\ Fresh' /\ Waits'
  BY DEF TInv, Types, Fresh, Waits
<1>2. Owned'
  BY DEF TInv, Owned, Owns
<1>3. Rooted'
  BY DEF TInv, Rooted, Live, Taken
<1>4. Timely' /\ Made'
  BY DEF TInv, Timely, Made
<1> QED BY <1>1, <1>2, <1>3, <1>4 DEF TInv

LEMMA ExpiryStep ==
    ASSUME TInv, NEW e \in expiry, circuit_expiry_task(e)
    PROVE  TInv'
<1>1. /\ e \in [index : Indices, wake : Nat] /\ expiry \subseteq [index : Indices, wake : Nat]
      /\ records \in [Indices -> RecordType] /\ time \in Nat
      /\ task' = task /\ caller' = caller /\ time' = time /\ e.wake <= time
  BY DEF TInv, Types, circuit_expiry_task
<1>2. PICK i \in Indices : i = e.index
  BY <1>1
<1>3. records[i] \in RecordType /\ records[i].last_used \in Nat
  BY <1>1 DEF RecordType
<1> DEFINE expires == records[i].last_used + RETAIN_CIRCUIT_AFTER_LAST_USE
           f == [e EXCEPT !.wake = expires]
<1>4. expires \in Nat /\ f \in [index : Indices, wake : Nat] /\ f.index = i /\ f.wake = expires
  BY <1>1, <1>2, <1>3, TableConstants, SMTT(30)
<1>5. CASE records[i].state # "Open"
  <2>1. expiry' = expiry \ {e} /\ records' = records
    BY <1>2, <1>5, SMTT(30) DEF circuit_expiry_task
  <2>2. OpenWillExpire'
    BY <1>2, <1>5, <2>1, SMTT(30) DEF TInv, OpenWillExpire
  <2> QED BY <1>1, <2>1, <2>2, TableStep DEF TInv, Timely, Live
<1>6. CASE records[i].state = "Open" /\ time < expires
  <2>1. expiry' = (expiry \ {e}) \cup {f} /\ records' = records
    BY <1>2, <1>6 DEF circuit_expiry_task
  <2> HIDE DEF f
  <2>2. OpenWillExpire'
    <3> SUFFICES ASSUME NEW j \in Indices, records[j].state = "Open"
                 PROVE  \E x \in expiry' : x.index = j /\ x.wake <= records[j].last_used + RETAIN_CIRCUIT_AFTER_LAST_USE
      BY <2>1 DEF OpenWillExpire
    <3>1. CASE j = i
      BY <1>4, <2>1, <3>1
    <3>2. CASE j # i
      BY <1>2, <2>1, <3>2 DEF TInv, OpenWillExpire
    <3> QED BY <3>1, <3>2
  <2>3. expiry' \subseteq [index : Indices, wake : Nat]
    BY <1>1, <1>4, <2>1, SMTT(30)
  <2> QED BY <1>1, <2>1, <2>2, <2>3, TableStep DEF TInv, Timely, Live
<1>7. CASE records[i].state = "Open" /\ ~(time < expires)
  <2> DEFINE r == Closed(records[i], records[i].last_used)
  <2>1. expiry' = expiry \ {e} /\ records' = [records EXCEPT ![i] = r]
    BY <1>1, <1>2, <1>7, SMTT(30) DEF circuit_expiry_task
  <2>2. r \in RecordType /\ r.state = "Closed" /\ r.last_used = records[i].last_used
    <3>1. 0 \in 0..MaxTasks
      BY TableConstants
    <3> QED BY <1>3, <3>1, RecordTypes, SMTT(30)
  <2> HIDE DEF r
  <2>3. records' \in [Indices -> RecordType] /\ records'[i] = r /\ \A j \in Indices : j # i => records'[j] = records[j]
    BY <1>1, <2>1, <2>2
  <2>4. OpenWillExpire'
    BY <1>2, <2>1, <2>2, <2>3 DEF TInv, OpenWillExpire
  <2> QED BY <1>1, <1>7, <2>1, <2>2, <2>3, <2>4, TableStep DEF TInv, Timely, Live
<1> QED BY <1>5, <1>6, <1>7

LEMMA OtherStep ==
    ASSUME TInv, expire_old_data \/ time_passes \/ (\E i \in Indices : tunnel_closes(i))
    PROVE  TInv'
<1>0. /\ records \in [Indices -> RecordType] /\ expiry \subseteq [index : Indices, wake : Nat] /\ time \in Nat
      /\ \A i \in Indices : records[i].last_used \in Nat
  BY DEF TInv, Types, RecordType
<1>1. CASE expire_old_data
  <2>1. Absent \in RecordType /\ Absent.state = "Absent"
    <3>1. "none" \in Keys /\ {} \in SUBSET Labels /\ "Absent" \in States /\ 0 \in 0..MaxTasks /\ 0 \in Nat
      BY TableConstants DEF Keys, States
    <3> QED BY <3>1, RecordMade DEF Absent
  <2> DEFINE old == {i \in Indices : records[i].state = "Closed" /\ records[i].last_used + RETAIN_DATA_AFTER_LAST_USE < time}
  <2>2. /\ records' \in [Indices -> RecordType] /\ task' = task /\ caller' = caller /\ time' = time /\ expiry' = expiry
        /\ \A i \in Indices : records'[i] = records[i] \/ (records[i].state = "Closed" /\ records'[i].state = "Absent")
    <3>1. records' = [i \in Indices |-> IF i \in old THEN Absent ELSE records[i]]
      BY <1>1 DEF expire_old_data
    <3>2. \A i \in old : records[i].state = "Closed"
      OBVIOUS
    <3>3. task' = task /\ caller' = caller /\ time' = time /\ expiry' = expiry
      BY <1>1 DEF expire_old_data
    <3> HIDE DEF old
    <3>4. \A i \in Indices : records'[i] = IF i \in old THEN Absent ELSE records[i]
      BY <3>1
    <3>5. \A i \in Indices : records'[i] = records[i] \/ (records[i].state = "Closed" /\ records'[i].state = "Absent")
      BY <2>1, <3>2, <3>4
    <3>6. \A i \in Indices : (IF i \in old THEN Absent ELSE records[i]) \in RecordType
      BY <1>0, <2>1
    <3>7. records' \in [Indices -> RecordType]
      BY <3>1, <3>6
    <3> QED BY <3>3, <3>5, <3>7, SMTT(30)
  <2>3. OpenWillExpire'
    BY <2>2 DEF TInv, OpenWillExpire
  <2> QED BY <1>0, <2>2, <2>3, TableStep DEF TInv, Timely, Live
<1>2. CASE time_passes
  <2>1. records' = records /\ task' = task /\ caller' = caller /\ expiry' = expiry /\ time' = time + 1
    BY <1>2 DEF time_passes
  <2>2. Types' /\ Fresh' /\ Waits' /\ Rooted' /\ Made'
    BY <2>1 DEF TInv, Types, Fresh, Waits, Rooted, Live, Taken, Made
  <2>3. Timely'
    BY <1>0, <2>1, SMTT(30) DEF TInv, Timely
  <2>4. Owned' /\ OpenWillExpire'
    BY <2>1 DEF TInv, Owned, Owns, OpenWillExpire
  <2> QED BY <2>2, <2>3, <2>4 DEF TInv
<1>3. ASSUME NEW i \in Indices, tunnel_closes(i)
      PROVE  TInv'
  <2> DEFINE r == [records[i] EXCEPT !.tunnel_is_ok = FALSE]
  <2>1. /\ records' = [records EXCEPT ![i] = r] /\ task' = task /\ caller' = caller /\ time' = time /\ expiry' = expiry
        /\ records[i].state = "Open"
    BY <1>0, <1>3 DEF tunnel_closes
  <2>2. r \in RecordType /\ r.state = "Open" /\ r.task = records[i].task /\ r.last_used = records[i].last_used
    BY <1>0, <2>1, ZenonT(30) DEF RecordType
  <2> HIDE DEF r
  <2>3. records' \in [Indices -> RecordType] /\ records'[i] = r /\ \A j \in Indices : j # i => records'[j] = records[j]
    BY <1>0, <2>1, <2>2
  <2>4. OpenWillExpire'
    BY <2>1, <2>2, <2>3 DEF TInv, OpenWillExpire
  <2> QED BY <1>0, <2>1, <2>2, <2>3, <2>4, TableStep DEF TInv, Timely, Live
<1> QED BY <1>1, <1>2, <1>3

LEMMA TInvInit == Init => TInv
<1> SUFFICES ASSUME Init PROVE TInv
  OBVIOUS
<1>1. Absent \in RecordType /\ Absent.state = "Absent"
  <2>1. "none" \in Keys /\ {} \in SUBSET Labels /\ "Absent" \in States /\ 0 \in 0..MaxTasks /\ 0 \in Nat
    BY TableConstants DEF Keys, States
  <2> QED BY <2>1, RecordMade DEF Absent
<1>2. 0 \in 0..MaxTasks /\ 0 \in 0..MaxRecords /\ 0 \in Nat
  BY TableConstants
<1>3. Types
  BY <1>1, <1>2 DEF Init, Types, TaskType, TaskPhases, CallerType
<1> QED BY <1>1, <1>3 DEF Init, TInv, Owned, Rooted, Live, Fresh, Waits, Timely, Made, OpenWillExpire

(* The inductive invariant behind the properties of the table. *)
THEOREM ServiceTableInvariant == Spec => []TInv
<1>1. TInv /\ [Next]_stvars => TInv'
  <2> SUFFICES ASSUME TInv, [Next]_stvars
               PROVE  TInv'
    OBVIOUS
  <2>1. CASE Next
    BY <2>1, CallerStepInv, StoreStep, DropBarrierStep, ExpiryStep, OtherStep, SMTT(30) DEF Next, TaskStep
  <2>2. CASE UNCHANGED stvars
    BY <2>2 DEF stvars, TInv, Types, Owned, Owns, Rooted, Live, Taken, Fresh, Waits, Timely, Made, OpenWillExpire
  <2> QED BY <2>1, <2>2
<1> QED BY <1>1, TInvInit, PTL DEF Spec

(* A connection task that stores its result finds its own record, Working *)
(* (the two internal errors in the code that stores it cannot happen).     *)
THEOREM ServiceTableTaskOwnsRecord == Spec => []TaskOwnsRecord
<1>1. TInv => TaskOwnsRecord
  BY DEF TInv, Owned, TaskOwnsRecord
<1> QED BY <1>1, ServiceTableInvariant, PTL

(* Every open tunnel is watched by an expiry task that wakes in time. *)
THEOREM ServiceTableOpenWillExpire == Spec => []OpenWillExpire
<1>1. TInv => OpenWillExpire
  BY ZenonT(30) DEF TInv
<1> QED BY <1>1, ServiceTableInvariant, PTL

-----------------------------------------------------------------------------
(* A record's isolation holds that of everyone who uses it or waits for it, *)
(* and two records never hold the same tunnel.                              *)
SelfCompatible == \A i \in Indices : Live(i) => compatible(records[i].isolation, records[i].isolation)
Unique ==
    \A i, j \in Indices : records[i].state = "Open" /\ records[j].state = "Open" /\ records[i].task = records[j].task
        => i = j
Admits(i, c) == records[i].key = Key[c] /\ Isolation[c] \subseteq records[i].isolation
WaitersAdmitted ==
    \A c \in Callers, i \in Indices : caller[c].pc = "waiting" /\ caller[c].index = i /\ Live(i) => Admits(i, c)
UsersAdmitted ==
    \A c \in Callers : caller[c].pc = "answered" =>
        /\ caller[c].waits \in TaskIds /\ task[caller[c].waits].phase \in {"stored", "done"}
        /\ \A i \in Indices : records[i].state = "Open" /\ records[i].task = caller[c].waits => Admits(i, c)

SInv == SelfCompatible /\ Unique /\ WaitersAdmitted /\ UsersAdmitted /\ NoSharedTunnel

(* What the rest of the program does to the table: no record is made, an   *)
(* open one was open before or is stored by its connecting task.           *)
Kept ==
    /\ caller' = caller
    /\ \A k \in TaskIds : task[k].phase \in {"stored", "done"} => task'[k].phase \in {"stored", "done"}
    /\ \A i \in Indices : records'[i].state # "Absent" =>
           Live(i) /\ records'[i].key = records[i].key /\ records'[i].isolation = records[i].isolation
    /\ \A i \in Indices : records'[i].state = "Open" =>
           \/ records[i].state = "Open" /\ records'[i].task = records[i].task
           \/ /\ records'[i].task \in TaskIds /\ task[records'[i].task].phase = "connecting"
              /\ task[records'[i].task].index = i

LEMMA KeptStep ==
    ASSUME TInv, TInv', SInv, Kept
    PROVE  SInv'
<1> USE DEF Kept
<1>1. SelfCompatible'
  BY SMTT(30) DEF SInv, SelfCompatible, Live
<1>2. Unique'
  <2> SUFFICES ASSUME NEW i \in Indices, NEW j \in Indices, records'[i].state = "Open", records'[j].state = "Open",
                      records'[i].task = records'[j].task
               PROVE  i = j
    BY ZenonT(30) DEF Unique
  <2>1. \A n \in Indices : records[n].state = "Open" => task[records[n].task].phase # "connecting"
    BY DEF TInv, Made
  <2> QED BY <2>1 DEF SInv, Unique
<1>3. WaitersAdmitted'
  BY SMTT(30) DEF SInv, WaitersAdmitted, Admits, Live
<1>4. UsersAdmitted'
  <2> SUFFICES ASSUME NEW c \in Callers, caller[c].pc = "answered"
               PROVE  /\ caller[c].waits \in TaskIds /\ task'[caller[c].waits].phase \in {"stored", "done"}
                      /\ \A i \in Indices : records'[i].state = "Open" /\ records'[i].task = caller[c].waits => Admits(i, c)'
    BY SMTT(30) DEF UsersAdmitted
  <2>1. caller[c].waits \in TaskIds /\ task[caller[c].waits].phase \in {"stored", "done"}
    BY ZenonT(30) DEF SInv, UsersAdmitted
  <2>2. ASSUME NEW i \in Indices, records'[i].state = "Open", records'[i].task = caller[c].waits
        PROVE  Admits(i, c)'
    <3>1. records[i].state = "Open" /\ records[i].task = caller[c].waits
      BY <2>1, <2>2, SMTT(30)
    <3>2. Admits(i, c)
      BY <3>1, SMTT(30) DEF SInv, UsersAdmitted
    <3> QED BY <2>2, <3>2 DEF Admits
  <2> QED BY <2>1, <2>2, SMTT(30)
<1>5. NoSharedTunnel'
  BY DEF SInv, NoSharedTunnel
<1> QED BY <1>1, <1>2, <1>3, <1>4, <1>5, SMTT(30) DEF SInv

(* Every step but a caller's is of that kind. *)
LEMMA OthersKeep ==
    ASSUME TInv,
           \/ \E k \in TaskIds : TaskStep(k)
           \/ \E i \in Indices : tunnel_closes(i)
           \/ \E e \in expiry : circuit_expiry_task(e)
           \/ expire_old_data
           \/ time_passes
    PROVE  Kept
<1>0. /\ records \in [Indices -> RecordType] /\ task \in [TaskIds -> TaskType]
      /\ expiry \subseteq [index : Indices, wake : Nat]
  BY DEF TInv, Types
<1>1. ASSUME NEW k \in TaskIds, store(k)
      PROVE  Kept
  <2>1. PICK i \in Indices : i = task[k].index
    BY <1>1, SMTT(30) DEF store, TInv, Owned
  <2>2. /\ records[i].state = "Working" /\ records[i].task = k /\ task[k].phase = "connecting" /\ Owns(k)
        /\ caller' = caller
    BY <1>1, <2>1 DEF store, TInv, Owned, Owns
  <2>3. \A n \in TaskIds : n # k => task'[n] = task[n]
    BY <1>0, <1>1, SMTT(30) DEF store
  <2>4. CASE records' = records
    BY <2>2, <2>3, <2>4, SMTT(30) DEF Kept, Live
  <2>5. CASE records' = [records EXCEPT ![i] = Open(records[i], k, time)]
    <3> DEFINE r == Open(records[i], k, time)
    <3>1. r.state = "Open" /\ r.task = k /\ r.key = records[i].key /\ r.isolation = records[i].isolation
      BY DEF Open, Record
    <3> HIDE DEF r
    <3>2. records'[i] = r /\ \A j \in Indices : j # i => records'[j] = records[j]
      BY <1>0, <2>5 DEF r
    <3> QED BY <2>1, <2>2, <2>3, <3>1, <3>2, SMTT(30) DEF Kept, Live
  <2> QED BY <1>0, <1>1, <2>1, <2>2, <2>4, <2>5 DEF store
<1>2. ASSUME NEW k \in TaskIds, drop_barrier(k)
      PROVE  Kept
  BY <1>0, <1>2 DEF drop_barrier, Kept, Live, TaskType
<1>3. ASSUME NEW i \in Indices, tunnel_closes(i)
      PROVE  Kept
  BY <1>0, <1>3 DEF tunnel_closes, Kept, Live, RecordType
<1>4. ASSUME NEW e \in expiry, circuit_expiry_task(e)
      PROVE  Kept
  <2>1. PICK i \in Indices : i = e.index
    BY <1>0
  <2>2. caller' = caller /\ task' = task
    BY <1>4, SMTT(30) DEF circuit_expiry_task
  <2>3. CASE records' = records
    BY <2>2, <2>3, SMTT(30) DEF Kept, Live
  <2>4. CASE records[i].state = "Open" /\ records' = [records EXCEPT ![i] = Closed(records[i], records[i].last_used)]
    <3> DEFINE r == Closed(records[i], records[i].last_used)
    <3>1. r.state = "Closed" /\ r.key = records[i].key /\ r.isolation = records[i].isolation
      BY DEF Closed, Record
    <3> HIDE DEF r
    <3>2. records'[i] = r /\ \A j \in Indices : j # i => records'[j] = records[j]
      BY <1>0, <2>4, SMTT(30) DEF r
    <3> QED BY <2>2, <2>4, <3>1, <3>2 DEF Kept, Live
  <2> QED BY <1>0, <1>4, <2>1, <2>3, <2>4 DEF circuit_expiry_task
<1>5. CASE expire_old_data
  <2> DEFINE old == {i \in Indices : records[i].state = "Closed" /\ records[i].last_used + RETAIN_DATA_AFTER_LAST_USE < time}
  <2>1. records' = [i \in Indices |-> IF i \in old THEN Absent ELSE records[i]] /\ caller' = caller /\ task' = task
    BY <1>5 DEF expire_old_data
  <2>2. Absent.state = "Absent"
    BY SMTT(30) DEF Absent, Record
  <2> HIDE DEF old
  <2> QED BY <2>1, <2>2, SMTT(30) DEF Kept, Live
<1>6. CASE time_passes
  BY <1>6 DEF time_passes, Kept, Live
<1> QED BY <1>1, <1>2, <1>3, <1>4, <1>5, <1>6 DEF TaskStep

(* The entry a caller gets admits it, and whoever had it already. *)
NarrowedFor(c, i, recs) ==
    /\ Narrowed(i, recs)
    /\ recs[i].state # "Absent" =>
           /\ recs[i].key = Key[c] /\ Isolation[c] \subseteq recs[i].isolation
           /\ compatible(recs[i].isolation, recs[i].isolation)
    /\ Live(i) => recs[i].key = records[i].key /\ records[i].isolation \subseteq recs[i].isolation
    /\ ~Live(i) => recs[i].state = "Absent" \/ ~Taken(i)

LEMMA EntryNarrowedFor ==
    ASSUME TInv, SInv, NEW c \in Callers, NEW e \in index_or_insert_with(c)
    PROVE  NarrowedFor(c, e.index, e.recs)
<1>0. Narrowed(e.index, e.recs) /\ records \in [Indices -> RecordType] /\ compatible(Isolation[c], Isolation[c])
  BY EntryNarrowed, ServiceTableAssumption, SMTT(30) DEF TInv, Types, ServiceTableAssumption
<1>1. CASE Matching(c) # {}
  <2>1. PICK i \in Matching(c) : e = [index |-> i, recs |-> [records EXCEPT ![i].isolation = join(@, Isolation[c])]]
    BY <1>1, SMTT(30) DEF index_or_insert_with
  <2>2. i \in Indices /\ Live(i) /\ records[i].key = Key[c] /\ compatible(records[i].isolation, Isolation[c])
    BY SMTT(30) DEF Matching
  <2>3. compatible(records[i].isolation, records[i].isolation)
    BY <2>2, SMTT(30) DEF SInv, SelfCompatible
  <2> DEFINE joined == join(records[i].isolation, Isolation[c])
  <2>4. compatible(joined, joined)
    BY <1>0, <2>2, <2>3 DEF compatible, join
  <2>5. Isolation[c] \subseteq joined /\ records[i].isolation \subseteq joined
    BY DEF join
  <2>6. e.index = i /\ e.recs[i].isolation = joined /\ e.recs[i].key = records[i].key
    BY <1>0, <2>1, <2>2, SMTT(30) DEF RecordType
  <2> HIDE DEF joined
  <2> QED BY <1>0, <2>2, <2>4, <2>5, <2>6 DEF NarrowedFor
<1>2. CASE Matching(c) = {}
  <2> DEFINE r == Record(Key[c], Isolation[c], "Closed", 0, time)
  <2>1. PICK i \in NextIndex : e = [index |-> i, recs |-> [records EXCEPT ![i] = r]]
    BY <1>2, SMTT(30) DEF index_or_insert_with
  <2>2. r.key = Key[c] /\ r.isolation = Isolation[c]
    BY DEF Record
  <2>3. i \in Indices /\ ~Taken(i) /\ ~Live(i)
    BY DEF NextIndex, TInv, Rooted
  <2> HIDE DEF r
  <2>4. e.index = i /\ e.recs[i] = r
    BY <1>0, <2>1, <2>3
  <2> QED BY <1>0, <2>2, <2>3, <2>4 DEF NarrowedFor
<1> QED BY <1>1, <1>2, SMTT(30)

(* A caller's turn shares a tunnel only with those its record admits. *)
LEMMA TurnAdmits ==
    ASSUME TInv, SInv, NEW c \in Callers, NEW i, NEW recs, NEW r, NEW d,
           NarrowedFor(c, i, recs), Turn(c, i, recs, r, d)
    PROVE  SInv'
<1>1. i \in Indices /\ recs \in [Indices -> RecordType] /\ caller \in [Callers -> CallerType]
  BY Zenon DEF NarrowedFor, Narrowed, TInv, Types
<1>2. records'[i] = r /\ \A j \in Indices : j # i => records'[j] = records[j]
  BY <1>1, Zenon DEF NarrowedFor, Narrowed, Turn
<1>3. caller'[c] = d /\ \A b \in Callers : b # c => caller'[b] = caller[b]
  BY <1>1, ZenonT(30) DEF Turn
<1>4. /\ d.index = i /\ d.pc # "new" /\ (d.pc = "waiting" => r.state # "Absent")
      /\ d.pc = "answered" => r.state = "Open" /\ d.waits = r.task
  BY DEF Turn
<1>5. r.state # "Absent" =>
         /\ r.key = Key[c] /\ Isolation[c] \subseteq r.isolation /\ compatible(r.isolation, r.isolation)
         /\ Live(i) => r.key = records[i].key /\ records[i].isolation \subseteq r.isolation
         /\ Live(i) \/ ~Taken(i)
  BY ZenonT(30) DEF NarrowedFor, Turn
<1>6. r.state = "Open" => records[i].state = "Open" /\ r.task = records[i].task /\ Live(i)
  BY SMTT(30) DEF Turn, Live
<1>7. \A k \in TaskIds : task[k].phase \in {"stored", "done"} => task'[k].phase \in {"stored", "done"}
  BY DEF Turn
<1>8. SelfCompatible'
  BY <1>1, <1>2, <1>5, ZenonT(30) DEF SInv, SelfCompatible, Live
<1>9. Unique'
  BY <1>1, <1>2, <1>6 DEF SInv, Unique
<1>10. WaitersAdmitted'
  <2> SUFFICES ASSUME NEW b \in Callers, NEW j \in Indices, caller'[b].pc = "waiting", caller'[b].index = j, Live(j)'
               PROVE  Admits(j, b)'
    BY Zenon DEF WaitersAdmitted
  <2>1. CASE b = c
    BY <1>2, <1>3, <1>4, <1>5, <2>1, ZenonT(30) DEF Admits
  <2>2. CASE b # c /\ j # i
    BY <1>2, <1>3, <2>2, SMTT(30) DEF SInv, WaitersAdmitted, Admits, Live
  <2>3. CASE b # c /\ j = i
    <3>1. caller[b].pc = "waiting" /\ caller[b].index = i /\ r.state # "Absent" /\ Taken(i)
      BY <1>2, <1>3, <2>3, ZenonT(30) DEF Live, Taken
    <3>2. Live(i) /\ Admits(i, b)
      BY <1>1, <1>5, <3>1, SMTT(30) DEF SInv, WaitersAdmitted
    <3> QED BY <1>2, <1>5, <2>3, <3>1, <3>2, SMTT(30) DEF Admits
  <2> QED BY <2>1, <2>2, <2>3, Zenon
<1>11. ASSUME NEW b \in Callers, b # c, caller[b].pc = "answered", r.state = "Open", r.task = caller[b].waits
       PROVE  r.key = Key[b] /\ Isolation[b] \subseteq r.isolation
  <2>1. Admits(i, b)
    BY <1>1, <1>6, <1>11, ZenonT(30) DEF SInv, UsersAdmitted
  <2> QED BY <1>5, <1>6, <1>11, <2>1, ZenonT(30) DEF Admits
<1>12. UsersAdmitted'
  <2> SUFFICES ASSUME NEW b \in Callers, caller'[b].pc = "answered"
               PROVE  /\ caller'[b].waits \in TaskIds /\ task'[caller'[b].waits].phase \in {"stored", "done"}
                      /\ \A j \in Indices : records'[j].state = "Open" /\ records'[j].task = caller'[b].waits => Admits(j, b)'
    BY Zenon DEF UsersAdmitted
  <2>1. CASE b = c
    <3>1. records[i].state = "Open" /\ caller'[b].waits = records[i].task /\ r.state = "Open"
      BY <1>3, <1>4, <1>6, <2>1
    <3>2. records[i].task \in TaskIds /\ task[records[i].task].phase \in {"stored", "done"}
      BY <1>1, <3>1, Zenon DEF TInv, Made
    <3>3. ASSUME NEW j \in Indices, records'[j].state = "Open", records'[j].task = caller'[b].waits
          PROVE  Admits(j, b)'
      <4>1. j = i
        BY <1>1, <1>2, <3>1, <3>3 DEF SInv, Unique
      <4> QED BY <1>2, <1>5, <2>1, <3>1, <4>1, ZenonT(30) DEF Admits
    <3> QED BY <1>7, <3>1, <3>2, <3>3, ZenonT(30)
  <2>2. CASE b # c
    <3>1. caller'[b] = caller[b] /\ caller[b].waits \in TaskIds /\ task[caller[b].waits].phase \in {"stored", "done"}
      BY <1>3, <2>2, ZenonT(30) DEF SInv, UsersAdmitted
    <3>2. ASSUME NEW j \in Indices, records'[j].state = "Open", records'[j].task = caller'[b].waits
          PROVE  Admits(j, b)'
      <4>1. CASE j = i
        BY <1>2, <1>11, <2>2, <3>1, <3>2, <4>1, ZenonT(30) DEF Admits
      <4>2. CASE j # i
        BY <1>2, <3>1, <3>2, <4>2, ZenonT(30) DEF SInv, UsersAdmitted, Admits
      <4> QED BY <4>1, <4>2, ZenonT(30)
    <3> QED BY <1>7, <3>1, <3>2, ZenonT(30)
  <2> QED BY <2>1, <2>2
<1>13. NoSharedTunnel'
  <2> SUFFICES ASSUME NEW a \in Callers, NEW b \in Callers, caller'[a].pc = "answered", caller'[b].pc = "answered",
                      caller'[a].waits = caller'[b].waits
               PROVE  Key[a] = Key[b] /\ compatible(Isolation[a], Isolation[b])
    BY ZenonT(30) DEF NoSharedTunnel
  <2>1. CASE a # c /\ b # c
    BY <1>3, <2>1, SMTT(30) DEF SInv, NoSharedTunnel
  <2>2. CASE a = b
    BY <2>2, ServiceTableAssumption, SMTT(30) DEF ServiceTableAssumption
  <2>3. CASE a = c /\ b # c
    <3>1. r.state = "Open" /\ r.task = caller[b].waits /\ caller[b].pc = "answered"
      BY <1>3, <1>4, <2>3
    <3> QED BY <1>5, <1>11, <2>3, <3>1, SMTT(30) DEF compatible
  <2>4. CASE b = c /\ a # c
    <3>1. r.state = "Open" /\ r.task = caller[a].waits /\ caller[a].pc = "answered"
      BY <1>3, <1>4, <2>4
    <3> QED BY <1>5, <1>11, <2>4, <3>1, ZenonT(30) DEF compatible
  <2> QED BY <2>1, <2>2, <2>3, <2>4, Zenon
<1> QED BY <1>8, <1>9, <1>10, <1>12, <1>13 DEF SInv

LEMMA CallerStepAdmits ==
    ASSUME TInv, SInv, NEW c \in Callers, CallerStep(c)
    PROVE  SInv'
<1>1. CASE get_or_launch_connection(c)
  <2>1. PICK e \in index_or_insert_with(c) : obtain_circuit_or_continuation_info(c, e.index, e.recs)
    BY <1>1 DEF get_or_launch_connection
  <2>2. NarrowedFor(c, e.index, e.recs) /\ Narrowed(e.index, e.recs)
    BY EntryNarrowedFor, EntryNarrowed
  <2>3. caller[c].index = 0 /\ expiry' = expiry /\ time' = time
    BY <1>1 DEF get_or_launch_connection, TInv, Fresh
  <2> QED BY <2>1, <2>2, <2>3, ObtainTurn, TurnAdmits, Zenon
<1>2. CASE barrier_recv(c)
  <2> DEFINE i == caller[c].index
  <2>1. i \in Indices /\ Narrowed(i, records)
    BY <1>2 DEF barrier_recv, TInv, Waits, Narrowed, Types
  <2>2. NarrowedFor(c, i, records)
    <3>1. Live(i) => Admits(i, c) /\ compatible(records[i].isolation, records[i].isolation)
      BY <1>2, <2>1, Zenon DEF barrier_recv, SInv, WaitersAdmitted, SelfCompatible
    <3> QED BY <2>1, <3>1, Zenon DEF NarrowedFor, Admits, Live
  <2>3. /\ obtain_circuit_or_continuation_info(c, i, records) \/ Fails(c, i, records)
        /\ expiry' = expiry /\ time' = time
    BY <1>2 DEF barrier_recv
  <2> QED BY <2>1, <2>2, <2>3, ObtainTurn, TurnAdmits, ZenonT(30)
<1> QED BY <1>1, <1>2 DEF CallerStep

(* Callers handed the same tunnel asked for the same service and keys and  *)
(* may share: whatever narrowed, closed or reopened the record meanwhile.   *)
THEOREM ServiceTableNoSharedTunnel == Spec => []NoSharedTunnel
<1>1. Init => SInv
  <2> SUFFICES ASSUME Init PROVE SInv
    OBVIOUS
  <2>1. Absent.state = "Absent"
    BY DEF Absent, Record
  <2> QED BY <2>1 DEF Init, SInv, SelfCompatible, Unique, WaitersAdmitted, UsersAdmitted, NoSharedTunnel, Live
<1>2. TInv /\ TInv' /\ SInv /\ [Next]_stvars => SInv'
  <2> SUFFICES ASSUME TInv, TInv', SInv, [Next]_stvars
               PROVE  SInv'
    OBVIOUS
  <2>1. CASE \E c \in Callers : CallerStep(c)
    BY <2>1, CallerStepAdmits
  <2>2. CASE \/ \E k \in TaskIds : TaskStep(k)
             \/ \E i \in Indices : tunnel_closes(i)
             \/ \E e \in expiry : circuit_expiry_task(e)
             \/ expire_old_data
             \/ time_passes
    BY <2>2, OthersKeep, KeptStep, SMTT(30)
  <2>3. CASE UNCHANGED stvars
    BY <2>3, KeptStep DEF stvars, Kept, Live
  <2> QED BY <2>1, <2>2, <2>3 DEF Next
<1>3. SInv => NoSharedTunnel
  BY DEF SInv
<1> QED BY <1>1, <1>2, <1>3, ServiceTableInvariant, PTL DEF Spec
=============================================================================
