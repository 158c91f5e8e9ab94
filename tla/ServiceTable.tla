---------------------------- MODULE ServiceTable ----------------------------
(***************************************************************************)
(* The onion-service client's table of services (tor-hsclient state.rs,    *)
(* isol_map.rs): callers of get_or_launch_connection share one record per  *)
(* service, keys and compatible isolation; a record with no tunnel gets a  *)
(* connection task, callers wait on the task's barrier, an expiry task     *)
(* closes a tunnel that is no longer used and housekeeping forgets records.*)
(*                                                                         *)
(* The table's lock is held over every step here.  Connecting itself       *)
(* (connect.rs) is a choice between a tunnel and an error.                 *)
(***************************************************************************)
EXTENDS Integers, FiniteSets

CONSTANTS Callers,          \* calls of get_or_launch_connection
          Key,              \* what each caller asks for: service and keys
          Isolation,        \* each caller's isolation: [attribute, value] pairs
          MAX_RECHECKS,
          RETAIN_CIRCUIT_AFTER_LAST_USE,
          RETAIN_DATA_AFTER_LAST_USE,
          MaxRecords, MaxTasks,      \* table indices and tasks, never reused
          MaxTime, MaxDeaths         \* bounds: clock, tunnels that close early

\* Isolations are compatible when they agree on every attribute both have;
\* joined, they have the attributes of both.
compatible(a, b) == \A x \in a, y \in b : x.attribute = y.attribute => x.value = y.value
join(a, b) == a \cup b

\* Isolation::compatible: "`self.compatible(self)` must be true".
ASSUME ServiceTableAssumption ==
    /\ \A c \in Callers : compatible(Isolation[c], Isolation[c])
    /\ {MaxRecords, MaxTasks, MaxTime, RETAIN_CIRCUIT_AFTER_LAST_USE} \subseteq Nat

VARIABLES records,      \* the table: index -> record or Absent
          task,         \* connection tasks, by number
          expiry,       \* expiry tasks: [index, wake]
          deaths,       \* tunnels that closed before they expired
          caller,       \* the callers' progress
          time

stvars == <<records, task, expiry, deaths, caller, time>>

Indices == 1..MaxRecords
TaskIds == 1..MaxTasks
\* A record of the table.  A Working one has its task, an Open one the tunnel
\* that its task made.
Record(key, isolation, state, k, t) ==
    [key |-> key, isolation |-> isolation, state |-> state, task |-> k, tunnel_is_ok |-> state = "Open", last_used |-> t]
Absent == Record("none", {}, "Absent", 0, 0)
Live(i) == records[i].state # "Absent"
TaskPhases == {"unused", "connecting", "stored", "done"}

Init ==
    /\ records = [i \in Indices |-> Absent]
    /\ task = [k \in TaskIds |-> [phase |-> "unused", index |-> 0, error |-> FALSE]]
    /\ expiry = {}
    /\ deaths = 0
    /\ caller = [c \in Callers |-> [pc |-> "new", index |-> 0, waits |-> 0, rechecks |-> 0]]
    /\ time = 0

-----------------------------------------------------------------------------
\* Indices and tasks are used in order and never again; the caller that made
\* a record keeps its index.
Taken(i) == \E c \in Callers : caller[c].index = i
NextIndex == {i \in Indices : ~Taken(i) /\ \A j \in 1..(i - 1) : Taken(j)}
NextTask == {k \in TaskIds : task[k].phase = "unused" /\ \A j \in 1..(k - 1) : task[j].phase # "unused"}

Matching(c) == {i \in Indices : Live(i) /\ records[i].key = Key[c]
                                        /\ compatible(records[i].isolation, Isolation[c])}
Closed(rec, t) == Record(rec.key, rec.isolation, "Closed", 0, t)
Open(rec, k, t) == Record(rec.key, rec.isolation, "Open", k, t)
Working(rec, k) == Record(rec.key, rec.isolation, "Working", k, 0)

\* The entry index_or_insert_with returns, with the table it leaves: the
\* first that matches, narrowed, or a new blank one.
index_or_insert_with(c) ==
    IF Matching(c) # {}
    THEN {[index |-> i, recs |-> [records EXCEPT ![i].isolation = join(@, Isolation[c])]] :
              i \in {m \in Matching(c) : \A n \in Matching(c) : m <= n}}
    ELSE {[index |-> i, recs |-> [records EXCEPT ![i] = Record(Key[c], Isolation[c], "Closed", 0, time)]] : i \in NextIndex}

-----------------------------------------------------------------------------
\* A Working record is taken for stale though its task still runs.
MutantStale(rec) == \/ rec.state = "Open" /\ ~rec.tunnel_is_ok
                    \/ rec.state = "Working"
\* The loop of obtain_circuit_or_continuation_info over a table `recs`, for
\* a caller with some of its rechecks left.  Each turn costs one recheck.
stale(rec) == \/ rec.state = "Open" /\ ~rec.tunnel_is_ok
              \/ rec.state = "Working" /\ task[rec.task].phase = "done"
Ended(how, i, k) == [pc |-> how, index |-> i, waits |-> k, rechecks |-> 0]
Fails(c, i, recs) == /\ records' = recs
                     /\ caller' = [caller EXCEPT ![c] = Ended("failed", i, 0)]
                     /\ UNCHANGED task

hand_out(c, i, recs) ==
    /\ recs[i].state = "Open" /\ ~stale(recs[i])
    /\ records' = [recs EXCEPT ![i].last_used = time]
    /\ caller' = [caller EXCEPT ![c] = Ended("answered", i, recs[i].task)]
    /\ UNCHANGED task

wait_for(c, i, recs) ==
    /\ recs[i].state = "Working" /\ ~stale(recs[i])
    /\ records' = recs
    /\ caller' = [caller EXCEPT ![c] = [pc |-> "waiting", index |-> i, waits |-> recs[i].task, rechecks |-> @.rechecks + 1]]
    /\ UNCHANGED task

\* A record with no tunnel and no task gets a task, after one more turn if
\* it first had to be closed; the turn after that waits for it.
launch(c, i, recs) ==
    LET reset == IF stale(recs[i]) THEN 1 ELSE 0
        left  == MAX_RECHECKS - caller[c].rechecks
        closed == [recs EXCEPT ![i] = Closed(@, time)]
    IN  /\ stale(recs[i]) \/ recs[i].state = "Closed"
        /\ IF left <= reset THEN Fails(c, i, closed)
           ELSE \E k \in NextTask :
                /\ records' = [recs EXCEPT ![i] = Working(@, k)]
                /\ \/ /\ task' = [task EXCEPT ![k] = [phase |-> "connecting", index |-> i, error |-> FALSE]]
                      /\ caller' = [caller EXCEPT ![c] =
                             IF left <= reset + 1 THEN Ended("failed", i, 0)
                             ELSE [pc |-> "waiting", index |-> i, waits |-> k, rechecks |-> @.rechecks + reset + 2]]
                   \/ \* the task could not be spawned
                      /\ task' = [task EXCEPT ![k] = [phase |-> "done", index |-> 0, error |-> FALSE]]
                      /\ caller' = [caller EXCEPT ![c] = Ended("failed", i, 0)]

obtain_circuit_or_continuation_info(c, i, recs) ==
    IF caller[c].rechecks >= MAX_RECHECKS \/ recs[i].state = "Absent"
    THEN Fails(c, i, recs)
    ELSE hand_out(c, i, recs) \/ wait_for(c, i, recs) \/ launch(c, i, recs)

-----------------------------------------------------------------------------
get_or_launch_connection(c) ==
    /\ caller[c].pc = "new"
    /\ \E e \in index_or_insert_with(c) : obtain_circuit_or_continuation_info(c, e.index, e.recs)
    /\ UNCHANGED <<expiry, deaths, time>>

\* The barrier the caller waits on was dropped.
barrier_recv(c) ==
    /\ caller[c].pc = "waiting"
    /\ task[caller[c].waits].phase = "done"
    /\ IF task[caller[c].waits].error
       THEN Fails(c, caller[c].index, records)
       ELSE obtain_circuit_or_continuation_info(c, caller[c].index, records)
    /\ UNCHANGED <<expiry, deaths, time>>

CallerStep(c) == get_or_launch_connection(c) \/ barrier_recv(c)

\* The task for index i still has its record to write to.
Owns(k) == LET rec == records[task[k].index] IN rec.state = "Working" /\ rec.task = k

\* Connecting ended: a tunnel and its expiry task are stored, or the error;
\* a task that lost its record only logs that.  An expiry task that cannot
\* be spawned is an error too.
store(k) ==
    LET i == task[k].index
    IN  /\ task[k].phase = "connecting"
        /\ \/ /\ expiry' = expiry \cup {[index |-> i, wake |-> time + RETAIN_CIRCUIT_AFTER_LAST_USE]}
              /\ records' = IF Owns(k) THEN [records EXCEPT ![i] = Open(@, k, time)] ELSE records
              /\ task' = [task EXCEPT ![k].phase = "stored"]
           \/ /\ task' = [task EXCEPT ![k].phase = "stored", ![k].error = Owns(k)]
              /\ UNCHANGED <<records, expiry>>
        /\ UNCHANGED <<deaths, caller, time>>

\* The barrier is dropped only when connecting succeeded.
MutantDropBarrier(k) ==
    /\ task[k].phase = "stored" /\ ~task[k].error
    /\ task' = [task EXCEPT ![k].phase = "done", ![k].index = 0]
    /\ UNCHANGED <<records, expiry, deaths, caller, time>>

drop_barrier(k) ==
    /\ task[k].phase = "stored"
    /\ task' = [task EXCEPT ![k].phase = "done", ![k].index = 0]
    /\ UNCHANGED <<records, expiry, deaths, caller, time>>

\* The expiry task ends when it finds the tunnel used since.
MutantExpiry(e) ==
    LET rec == records[e.index]
    IN  /\ e.wake <= time
        /\ expiry' = expiry \ {e}
        /\ IF rec.state # "Open" \/ time < rec.last_used + RETAIN_CIRCUIT_AFTER_LAST_USE
           THEN UNCHANGED records
           ELSE records' = [records EXCEPT ![e.index] = Closed(@, rec.last_used)]
        /\ UNCHANGED <<task, deaths, caller, time>>

\* An expiry task wakes: it closes the record when its time has come, sleeps
\* again when the tunnel was used since, and ends when there is no tunnel.
circuit_expiry_task(e) ==
    LET rec == records[e.index]
        expires == rec.last_used + RETAIN_CIRCUIT_AFTER_LAST_USE
    IN  /\ e.wake <= time
        /\ IF rec.state # "Open"
           THEN expiry' = expiry \ {e} /\ UNCHANGED records
           ELSE IF time < expires
           THEN expiry' = (expiry \ {e}) \cup {[e EXCEPT !.wake = expires]} /\ UNCHANGED records
           ELSE /\ expiry' = expiry \ {e}
                /\ records' = [records EXCEPT ![e.index] = Closed(@, rec.last_used)]
        /\ UNCHANGED <<task, deaths, caller, time>>

\* Housekeeping, prompted by a new consensus.
expire_old_data ==
    /\ records' = [i \in Indices |->
           IF records[i].state = "Closed" /\ records[i].last_used + RETAIN_DATA_AFTER_LAST_USE < time
           THEN Absent ELSE records[i]]
    /\ UNCHANGED <<task, expiry, deaths, caller, time>>

\* The tunnel closes: the service or a relay on the path ended it.
tunnel_closes(i) ==
    /\ records[i].state = "Open" /\ records[i].tunnel_is_ok
    /\ deaths < MaxDeaths
    /\ deaths' = deaths + 1
    /\ records' = [records EXCEPT ![i].tunnel_is_ok = FALSE]
    /\ UNCHANGED <<task, expiry, caller, time>>

time_passes ==
    /\ time < MaxTime
    /\ time' = time + 1
    /\ UNCHANGED <<records, task, expiry, deaths, caller>>

TaskStep(k) == store(k) \/ drop_barrier(k)

Next ==
    \/ \E c \in Callers : CallerStep(c)
    \/ \E k \in TaskIds : TaskStep(k)
    \/ \E i \in Indices : tunnel_closes(i)
    \/ \E e \in expiry : circuit_expiry_task(e)
    \/ expire_old_data
    \/ time_passes

\* Tasks are spawned on the runtime and polled; connect.rs bounds every step
\* of a connection by a timeout and the number of attempts.
Fairness ==
    /\ \A c \in Callers : WF_stvars(CallerStep(c))
    /\ \A k \in TaskIds : WF_stvars(TaskStep(k))

Spec == Init /\ [][Next]_stvars /\ Fairness

-----------------------------------------------------------------------------
\* The table holds records of the four kinds, callers point into it.
TypeOK ==
    /\ \A i \in Indices : records[i].state \in {"Absent", "Closed", "Open", "Working"}
    /\ \A k \in TaskIds : task[k].phase \in TaskPhases /\ task[k].index \in 0..MaxRecords
    /\ \A c \in Callers : caller[c].pc \in {"new", "waiting", "answered", "failed"}
    /\ \A e \in expiry : e.index \in Indices

\* A connection task that is still connecting finds its own record, Working,
\* when it comes to store its result: the two internal errors of the code
\* that stores it ("HS table entry removed while task running", "HS task found
\* state other than Working") never happen, whatever callers, expiry tasks of
\* earlier tunnels and housekeeping did to the table meanwhile.
TaskOwnsRecord == \A k \in TaskIds : task[k].phase = "connecting" => Owns(k)

\* Every open tunnel is watched by an expiry task that wakes no later than
\* the tunnel expires, although using the tunnel again tells no task, and
\* although a record may be closed and opened again under an older task.
OpenWillExpire ==
    \A i \in Indices : records[i].state = "Open" =>
        \E e \in expiry : e.index = i /\ e.wake <= records[i].last_used + RETAIN_CIRCUIT_AFTER_LAST_USE

\* Callers who were handed the same tunnel asked for the same service with
\* the same keys and have compatible isolations, in whatever order they and
\* others narrowed the record they share.
NoSharedTunnel ==
    \A c, d \in Callers :
        caller[c].pc = "answered" /\ caller[d].pc = "answered" /\ caller[c].waits = caller[d].waits
            => Key[c] = Key[d] /\ compatible(Isolation[c], Isolation[d])

\* Every caller gets its tunnel or an error: a caller that waits is woken
\* by the end of the task it waits for, and does not go round for ever.
CallersAnswered == <>(\A c \in Callers : caller[c].pc \in {"answered", "failed"})

\* What the comment on the error of a Working record says: a caller sees only
\* errors that occurred after it entered.
\* "ErrorsAreFresh": a caller never starts waiting for a task that has stored
\* its error already.
ErrorsAreFresh ==
    [][\A c \in Callers : caller[c].pc = "new" /\ caller'[c].pc = "waiting" => ~task[caller'[c].waits].error]_stvars
=============================================================================
