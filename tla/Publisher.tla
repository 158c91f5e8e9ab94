----------------------------- MODULE Publisher -----------------------------
(***************************************************************************)
(* The descriptor publisher of an onion service (tor-hsservice,            *)
(* publish/reactor.rs, publish/backoff.rs, publish/reupload_timer.rs).     *)
(* Its reactor reacts to new introduction points, configuration,           *)
(* consensus and timers by marking HsDirs dirty and scheduling uploads;    *)
(* one task per time period builds a descriptor for each dirty HsDir,      *)
(* uploads it with retries, and reports the results to the reactor.        *)
(*                                                                         *)
(* A descriptor is the version of the introduction points and of the       *)
(* configuration it was built from.  Its revision counter is the moment it *)
(* was built, counted in changes: counters made between two changes are    *)
(* not told apart.                                                         *)
(***************************************************************************)
EXTENDS Naturals, Sequences
LOCAL INSTANCE SequencesExt

CONSTANTS
    Netdirs,        \* each: the time periods in order, each with its ring
    Changes,        \* kinds of change that happen
    MaxChanges,     \* bound: changes of any kind
    MaxFailures,    \* bound: uploads that fail for good
    MaxTasks        \* bound: upload tasks at one time

VARIABLES
    time_periods,   \* reactor: [tp, hs_dirs, last_successful] in order
    status,         \* reactor: PublishStatus
    config,         \* reactor: the configuration it knows
    timers,         \* reactor: time periods with a reupload timer
    recent,         \* reactor: last uploaded less than the threshold ago
    netdir,         \* the newest consensus
    new_netdir,     \* ... which the reactor has not seen
    ipts,           \* shared with the IPT manager: a version, or none
    notify,         \* the manager's notification is waiting
    new_config,     \* newest configuration
    tasks,          \* the upload tasks, in the order they were spawned
    held,           \* what each HsDir holds for each time period
    epoch,          \* changes so far
    failures,
    died            \* an upload task ended with a fatal error

pbvars == <<time_periods, status, config, timers, recent, netdir, new_netdir, ipts, notify, new_config, tasks, held, epoch, failures, died>>

NoDesc == [rev |-> 0, ipts |-> 0, config |-> 0]
HsDirsOf(tp) == UNION {Range(n[i].ring) : <<n, i>> \in {<<n, i>> \in Netdirs \X (1 .. 2) : i <= Len(n) /\ n[i].tp = tp}}
Periods == {n[i].tp : <<n, i>> \in {<<n, i>> \in Netdirs \X (1 .. 2) : i <= Len(n)}}
Current == [ipts |-> ipts.version, config |-> new_config]

TypeOK ==
    /\ \A i \in DOMAIN time_periods :
          /\ time_periods[i].tp \in Periods
          /\ \A d \in Range(time_periods[i].hs_dirs) : d.status \in {"Dirty", "Clean"}
    /\ status \in {"UploadScheduled", "RateLimited", "Idle", "AwaitingIpts"}
    /\ {recent, new_netdir, notify, died, ipts.some} \subseteq BOOLEAN
    /\ timers \subseteq Periods /\ netdir \in Netdirs
    /\ epoch \in 0 .. MaxChanges /\ failures \in 0 .. MaxFailures
-----------------------------------------------------------------------------
(***************************************************************************)
(* The HsDirs of each time period.                                         *)
(***************************************************************************)
Has(dirs, d) == {j \in DOMAIN dirs : dirs[j].dir = d}

\* For each HsDir of the new ring its old status, or Dirty.  The search runs on
\* one iterator over the old HsDirs: what it has passed it does not see again.
compute_hsdirs(ring, old) ==
    LET found(k, from) == {j \in Has(old, ring[k]) : j >= from}
        from[k \in 1 .. Len(ring) + 1] ==
            IF k = 1 THEN 1
            ELSE IF found(k - 1, from[k - 1]) = {} THEN Len(old) + 1
            ELSE (CHOOSE j \in found(k - 1, from[k - 1]) : TRUE) + 1
    IN  [k \in DOMAIN ring |->
            [dir |-> ring[k],
             status |-> IF found(k, from[k]) = {} THEN "Dirty"
                        ELSE old[CHOOSE j \in found(k, from[k]) : TRUE].status]]

compute_time_periods(n, old) ==
    [i \in DOMAIN n |->
        LET same == {j \in DOMAIN old : old[j].tp = n[i].tp}
            old_dirs == IF same = {} THEN << >> ELSE old[CHOOSE j \in same : TRUE].hs_dirs
        IN  [tp |-> n[i].tp, hs_dirs |-> compute_hsdirs(n[i].ring, old_dirs), last_successful |-> 0]]

\* time_periods with the HsDirs of some periods marked dirty.
mark_dirty(periods) ==
    [i \in DOMAIN time_periods |->
        IF time_periods[i].tp \notin periods THEN time_periods[i]
        ELSE [time_periods[i] EXCEPT !.hs_dirs = [k \in DOMAIN @ |-> [@[k] EXCEPT !.status = "Dirty"]]]]
mark_all_dirty == mark_dirty(Periods)

update_publish_status_unless_waiting(new) == status' = IF status = "AwaitingIpts" THEN status ELSE new
update_publish_status_unless_rate_lim(new) == status' = IF status = "RateLimited" THEN status ELSE new

Init ==
    /\ netdir \in Netdirs
    /\ time_periods = compute_time_periods(netdir, << >>)
    /\ status = "AwaitingIpts"
    /\ config = 0
    /\ timers = {}
    /\ recent = FALSE
    /\ new_netdir = FALSE
    /\ ipts = [some |-> FALSE, version |-> 0]
    /\ notify = FALSE
    /\ new_config = 0
    /\ tasks = << >>
    /\ held = [tp \in Periods |-> [d \in HsDirsOf(tp) |-> NoDesc]]
    /\ epoch \in 0 .. MaxChanges
    /\ failures \in 0 .. MaxFailures
    /\ died = FALSE

reactorVars == <<time_periods, status, config, timers, recent>>
sharedVars == <<netdir, new_netdir, ipts, notify, new_config>>
worldVars == <<held, epoch, failures, died>>
-----------------------------------------------------------------------------
(***************************************************************************)
(* The upload tasks.                                                       *)
(***************************************************************************)
\* The dirty HsDirs of one period.
Dirty(ctx) == {d.dir : d \in {d \in Range(ctx.hs_dirs) : d.status = "Dirty"}}

\* The loop over the periods ends at the first one that has no dirty HsDir.
to_upload(periods) == SelectSeq(periods, LAMBDA ctx :
    \A j \in DOMAIN periods : (\E i \in DOMAIN periods : periods[i] = ctx /\ j <= i) => Dirty(periods[j]) # {})

upload_all(periods, old_status) ==
    \/ recent /\ status' = "RateLimited" /\ UNCHANGED <<recent, tasks>>      \* start_rate_limit
    \/ /\ ~ recent
       /\ LET found == to_upload(periods) IN
          /\ Len(tasks) + Len(found) <= MaxTasks
          /\ tasks' = tasks \o [k \in DOMAIN found |->
                [tp |-> found[k].tp, todo |-> Dirty(found[k]), built |-> {}, results |-> << >>, config |-> config]]
       /\ recent' = TRUE
       /\ status' = old_status

\* One HsDir's future: build and note the attempt with the set locked.
build_descriptor(k) ==
    \E d \in tasks[k].todo :
       /\ ipts.some
       /\ tasks' = [tasks EXCEPT
             ![k].todo = @ \ {d},
             ![k].built = @ \cup {[dir |-> d, desc |-> [rev |-> epoch, ipts |-> ipts.version, config |-> tasks[k].config]]}]
       /\ UNCHANGED <<reactorVars, sharedVars, worldVars>>

\* No introduction points, or the attempt could not be recorded: the task
\* ends, and its other uploads with it.
abort_upload(k) ==
    /\ tasks[k].todo # {}
    /\ \/ ~ ipts.some /\ UNCHANGED died
       \/ ipts.some /\ "storage" \in Changes /\ died' = TRUE
    /\ tasks' = RemoveAt(tasks, k)
    /\ UNCHANGED <<reactorVars, sharedVars, held, epoch, failures>>

\* upload_descriptor_with_retries ends: the HsDir took the descriptor, or
\* refused it (it holds a newer one), or the overall timeout passed.
upload_descriptor_with_retries(k) ==
    \E b \in tasks[k].built :
       LET tp == tasks[k].tp
           newer == held[tp][b.dir].rev > b.desc.rev
           result(ok) == tasks' = [tasks EXCEPT ![k].built = @ \ {b},
                                                ![k].results = Append(@, [dir |-> b.dir, ok |-> ok, rev |-> b.desc.rev])]
       IN  /\ \/ ~ newer /\ result(TRUE) /\ held' = [held EXCEPT ![tp][b.dir] = b.desc] /\ UNCHANGED failures
              \/ newer /\ result(FALSE) /\ UNCHANGED <<held, failures>>
              \/ ~ newer /\ failures < MaxFailures /\ failures' = failures + 1 /\ result(FALSE)
                 /\ held' \in {held, [held EXCEPT ![tp][b.dir] = b.desc]}
           /\ UNCHANGED <<reactorVars, sharedVars, epoch, died>>

TaskStep(k) ==
    /\ k <= Len(tasks)
    /\ build_descriptor(k) \/ abort_upload(k) \/ upload_descriptor_with_retries(k)

Finished(k) == tasks[k].todo = {} /\ tasks[k].built = {}
Ready(k) == k <= Len(tasks) /\ Finished(k)

\* A success in a task's results counts unless a newer revision was uploaded.
MutantMarksClean(results, n, last) == results[n].rev >= last

marks_clean(results, n, last) ==
    /\ results[n].ok
    /\ results[n].rev >= last
    /\ \A m \in 1 .. n - 1 : results[m].ok => results[m].rev <= results[n].rev

\* The context of a period after the results of a task for it.
with_results(ctx, all_results) ==
    LET results == SelectSeq(all_results, LAMBDA r : Has(ctx.hs_dirs, r.dir) # {})
        clean == {n \in DOMAIN results : marks_clean(results, n, ctx.last_successful)}
    IN  [ctx EXCEPT
            !.hs_dirs = [j \in DOMAIN @ |-> IF \E n \in clean : results[n].dir = @[j].dir
                                            THEN [@[j] EXCEPT !.status = "Clean"] ELSE @[j]],
            !.last_successful = IF clean = {} THEN @
                                ELSE CHOOSE r \in {results[n].rev : n \in clean} :
                                        \A n \in clean : results[n].rev <= r]
-----------------------------------------------------------------------------
(***************************************************************************)
(* The events of the reactor's run_once, in the order it prefers them.     *)
(***************************************************************************)
\* Schedules no upload of the same descriptor again.
MutantUploadResults(k) ==
    /\ Ready(k)
    /\ time_periods' = [i \in DOMAIN time_periods |->
          IF time_periods[i].tp = tasks[k].tp THEN with_results(time_periods[i], tasks[k].results)
          ELSE time_periods[i]]
    /\ tasks' = RemoveAt(tasks, k)
    /\ UNCHANGED <<status, config, timers, recent, sharedVars, worldVars>>

handle_upload_results(k) ==
    /\ Ready(k)
    /\ time_periods' = [i \in DOMAIN time_periods |->
          IF time_periods[i].tp = tasks[k].tp THEN with_results(time_periods[i], tasks[k].results)
          ELSE time_periods[i]]
    /\ timers' = timers \cup ({tasks[k].tp} \cap {time_periods[i].tp : i \in DOMAIN time_periods})
    /\ tasks' = RemoveAt(tasks, k)
    /\ UNCHANGED <<status, config, recent, sharedVars, worldVars>>

NoResults == \A k \in DOMAIN tasks : ~ Finished(k)

\* The threshold has passed since the last upload, whether or not the reactor
\* waits for it.
threshold_passes ==
    /\ recent
    /\ recent' = FALSE
    /\ UNCHANGED <<time_periods, status, config, timers, tasks, sharedVars, worldVars>>

expire_rate_limit ==
    /\ NoResults /\ status = "RateLimited"
    /\ recent' = FALSE
    /\ status' = "UploadScheduled"
    /\ UNCHANGED <<time_periods, config, timers, tasks, sharedVars, worldVars>>

reupload(tp) ==
    /\ tp \in timers
    /\ timers' = timers \ {tp}
    /\ \/ /\ \E i \in DOMAIN time_periods : time_periods[i].tp = tp
          /\ time_periods' = mark_dirty({tp})
          /\ update_publish_status_unless_rate_lim("UploadScheduled")
       \/ /\ \A i \in DOMAIN time_periods : time_periods[i].tp # tp
          /\ UNCHANGED <<time_periods, status>>
    /\ UNCHANGED <<config, recent, tasks, sharedVars, worldVars>>

handle_consensus_change ==
    /\ NoResults /\ new_netdir
    /\ new_netdir' = FALSE
    /\ time_periods' = compute_time_periods(netdir, time_periods)
    /\ update_publish_status_unless_waiting("UploadScheduled")
    /\ UNCHANGED <<config, timers, recent, netdir, ipts, notify, new_config, tasks, worldVars>>

handle_ipt_change ==
    /\ NoResults /\ ~ new_netdir /\ notify
    /\ notify' = FALSE
    /\ time_periods' = mark_all_dirty
    /\ update_publish_status_unless_rate_lim(IF ipts.some THEN "UploadScheduled" ELSE "AwaitingIpts")
    /\ UNCHANGED <<config, timers, recent, netdir, new_netdir, ipts, new_config, tasks, worldVars>>

handle_svc_config_change ==
    /\ NoResults /\ ~ new_netdir /\ ~ notify /\ config # new_config
    /\ config' = new_config
    /\ time_periods' = mark_all_dirty
    /\ update_publish_status_unless_waiting("UploadScheduled")
    /\ UNCHANGED <<timers, recent, sharedVars, tasks, worldVars>>

should_upload ==
    /\ NoResults /\ ~ new_netdir /\ ~ notify /\ config = new_config /\ status = "UploadScheduled"
    /\ upload_all(time_periods, "Idle")
    /\ UNCHANGED <<time_periods, config, timers, sharedVars, worldVars>>

ReactorStep ==
    \/ \E k \in DOMAIN tasks : handle_upload_results(k)
    \/ handle_consensus_change \/ handle_ipt_change \/ handle_svc_config_change \/ should_upload
-----------------------------------------------------------------------------
(***************************************************************************)
(* What changes around the publisher.                                      *)
(***************************************************************************)
Change(kind) == kind \in Changes /\ epoch < MaxChanges /\ epoch' = epoch + 1

\* The IPT manager ends a round: it notifies whether or not the set changed.
ipts_change ==
    /\ Change("ipts")
    /\ \E some \in BOOLEAN : ipts' \in {[some |-> some, version |-> epoch + 1], ipts}
    /\ notify' = TRUE
    /\ UNCHANGED <<reactorVars, netdir, new_netdir, new_config, tasks, held, failures, died>>

config_change ==
    /\ Change("config")
    /\ new_config' = epoch + 1
    /\ UNCHANGED <<reactorVars, netdir, new_netdir, ipts, notify, tasks, held, failures, died>>

consensus_change ==
    /\ Change("netdir")
    /\ netdir' \in Netdirs \ {netdir}
    /\ new_netdir' = TRUE
    /\ UNCHANGED <<reactorVars, ipts, notify, new_config, tasks, held, failures, died>>

\* The proof-of-work manager has a new seed for a period.
update_from_pow_manager ==
    /\ Change("pow") /\ status # "UploadScheduled"
    /\ NoResults /\ ~ new_netdir /\ ~ notify /\ config = new_config
    /\ \E tp \in Periods : time_periods' = mark_dirty({tp}) /\ upload_all(mark_dirty({tp}), status)
    /\ UNCHANGED <<config, timers, sharedVars, held, failures, died>>

Next ==
    \/ \E k \in 1 .. MaxTasks : TaskStep(k)
    \/ ReactorStep
    \/ threshold_passes \/ expire_rate_limit
    \/ \E tp \in Periods : reupload(tp)
    \/ ipts_change \/ config_change \/ consensus_change \/ update_from_pow_manager

\* Uploads end (their retries have an overall timeout), the reactor handles
\* what it is told, and timers go off.
Fairness ==
    /\ \A k \in 1 .. MaxTasks : WF_pbvars(TaskStep(k))
    /\ WF_pbvars(ReactorStep)
    /\ WF_pbvars(expire_rate_limit)
    /\ \A tp \in Periods : WF_pbvars(reupload(tp))

Spec == Init /\ [][Next]_pbvars /\ Fairness
-----------------------------------------------------------------------------
(***************************************************************************)
(* Properties.                                                             *)
(***************************************************************************)
IsCurrent(desc) == [ipts |-> desc.ipts, config |-> desc.config] = Current

\* The reactor takes an HsDir for clean only when that HsDir has a descriptor
\* of this period, whatever becomes of the ring and of uploads that overlap.
CleanIsHeld ==
    \A i \in DOMAIN time_periods : \A d \in Range(time_periods[i].hs_dirs) :
        d.status = "Clean" => held[time_periods[i].tp][d.dir] # NoDesc

UpToDate ==
    ipts.some => \A i \in DOMAIN netdir : \A d \in Range(netdir[i].ring) : IsCurrent(held[netdir[i].tp][d])

\* Once nothing changes any more, every HsDir of every period has a descriptor
\* with the newest introduction points and configuration, and keeps it: after
\* rate limits, failed and overlapping uploads, and uploads of outdated
\* descriptors that were taken for clean.  (Unless a task ended fatally, which
\* schedules nothing.)
EventuallyUpToDate == <>[](UpToDate \/ died)

\* upload_for_time_period on HsDirs left with an outdated descriptor: "that's
\* not the case: after the upload completes, the publisher will be notified
\* [...] which will trigger another upload job".  So when the reactor is idle,
\* with nothing left to handle, an HsDir it holds for clean is not outdated.
CleanIsCurrent ==
    status = "Idle" /\ tasks = << >> /\ ~ notify /\ ~ new_netdir /\ config = new_config /\ ipts.some =>
        \A i \in DOMAIN time_periods : \A d \in Range(time_periods[i].hs_dirs) :
            d.status = "Clean" => IsCurrent(held[time_periods[i].tp][d.dir])
=============================================================================
