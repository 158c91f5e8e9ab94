------------------------------ MODULE MCWaits -------------------------------
(***************************************************************************)
(* Three loops in which someone waits, checked side by side: a sender for  *)
(* its congestion window, an onion service for its descriptors to be       *)
(* published, and the memory tracker for its use to come down.             *)
(***************************************************************************)
EXTENDS VegasCircuit, FiniteSets

VARIABLE part       \* whose behaviour this is
\* Publisher
VARIABLES time_periods, p_status, p_config, timers, recent, netdir, new_netdir, ipts, notify, new_config,
          tasks, held, epoch, failures, died
\* MemoryQuota
VARIABLES accounts, parent, refcount, status, owner, tx, recorded, used, tx_cache, rx_cache, queue,
          q_inflight, total_used, poisoned, config, wakeup, task, heap, victims, responses, now,
          collapsing, sent

publisherVars == <<time_periods, p_status, p_config, timers, recent, netdir, new_netdir, ipts, notify,
                   new_config, tasks, held, epoch, failures, died>>
quotaVars == <<accounts, parent, refcount, status, owner, tx, recorded, used, tx_cache, rx_cache, queue,
               q_inflight, total_used, poisoned, config, wakeup, task, heap, victims, responses, now,
               collapsing, sent>>

\* A new consensus ends a time period, or begins one, and gives another a
\* second HsDir.
MCNetdirs == {<<[tp |-> "p1", ring |-> <<"a">>], [tp |-> "p2", ring |-> <<"a">>]>>,
              <<[tp |-> "p2", ring |-> <<"b", "a">>]>>}
PB == INSTANCE Publisher WITH status <- p_status, config <- p_config, Netdirs <- MCNetdirs,
    Changes <- {"ipts", "config", "netdir", "pow", "storage"}, MaxChanges <- 2, MaxFailures <- 1, MaxTasks <- 2

\* One queue, an account that may have a child, and a quota that may be lowered.
Q == INSTANCE MemoryQuota WITH inflight <- q_inflight,
    Accounts <- {"a1", "a2"}, Queues <- {"q1"}, MAX_CACHE <- 4, TARGET_CACHE_CLAIMING <- 2,
    TARGET_CACHE_RELEASING <- 1, Cost <- 2, MaxHandles <- 2, MaxItems <- 5,
    Configs <- {[max |-> 10, low_water |-> 8], [max |-> 8, low_water |-> 6]}

\* The publisher meets two changes, or one change and a failing upload.
MCInit ==
    /\ part \in {"vegas", "publisher", "quota"}
    /\ Init /\ PB!Init /\ Q!Init /\ config.max = 8
    /\ netdir[1].tp = "p1"
    /\ part # "vegas" => chan_ready
    /\ IF part = "publisher" THEN epoch + failures = 1 ELSE epoch + failures = 0

Vegas(A) == part = "vegas" /\ A /\ UNCHANGED <<part, publisherVars, quotaVars>>
Publishing(A) == part = "publisher" /\ A /\ UNCHANGED <<part, vars, quotaVars>>
Quota(A) == part = "quota" /\ A /\ UNCHANGED <<part, vars, publisherVars>>

MCNext == Vegas(Next) \/ Publishing(PB!Next) \/ Quota(Q!Next)

\* The fairness of each part (see its module).
MCFairness ==
    /\ WF_vars(Vegas(note_data_received)) /\ WF_vars(Vegas(note_sendme_received))
    /\ \A k \in 1..2 : WF_publisherVars(Publishing(PB!TaskStep(k)))
    /\ WF_publisherVars(Publishing(PB!ReactorStep))
    /\ WF_publisherVars(Publishing(PB!expire_rate_limit))
    /\ \A tp \in PB!Periods : WF_publisherVars(Publishing(PB!reupload(tp)))
    /\ WF_quotaVars(Quota(Q!TaskStep)) /\ WF_quotaVars(Quota(Q!QueueStep("q1")))

MCSpec == MCInit /\ [][MCNext]_<<part, vars, publisherVars, quotaVars>> /\ MCFairness

-----------------------------------------------------------------------------
\* The properties of the publisher and of the memory tracker, by their own names.
CleanIsHeld == PB!CleanIsHeld
EventuallyUpToDate == PB!EventuallyUpToDate
OverQuotaEnds == Q!OverQuotaEnds
=============================================================================
