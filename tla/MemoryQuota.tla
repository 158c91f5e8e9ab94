----------------------------- MODULE MemoryQuota -----------------------------
(***************************************************************************)
(* The memory quota tracker of tor-memquota (mtracker.rs, bookkeeping.rs,  *)
(* reclaim.rs) and the queues that take part in it (mq_queue.rs).          *)
(*                                                                         *)
(* A queue has two handles on its participant, the sender's and the        *)
(* receiver's, and each keeps a cache of memory already claimed.  The      *)
(* tracker's lock is held for one action; between two actions of a queue   *)
(* or of the reclamation task everyone else may run.  An item's age is its *)
(* place in the order in which items were made.  Quantities are far below  *)
(* usize::MAX, the value that stands for a poisoned total (poisoned here). *)
(***************************************************************************)
EXTENDS Integers, Sequences, FiniteSets, FiniteSetsExt

CONSTANTS
    Accounts,               \* account ids (never reused)
    Queues,                 \* participants that may be made, each an mq_queue
    MAX_CACHE, TARGET_CACHE_CLAIMING, TARGET_CACHE_RELEASING,
    Cost,                   \* memory_cost of an item
    Configs,                \* configurations: [max, low_water]
    MaxHandles,             \* bound: clones of an Account
    MaxItems                \* bound: items sent

\* An item costs no more than what a filled cache leaves room for: a quarter of
\* MAX_CACHE, a few kilobytes, where TARGET_CACHE_CLAIMING is three quarters of it.
ASSUME CacheAssumption ==
    /\ MAX_CACHE \in Nat
    /\ TARGET_CACHE_CLAIMING \in 0..MAX_CACHE
    /\ TARGET_CACHE_RELEASING \in 0..MAX_CACHE
    /\ Cost \in 1..TARGET_CACHE_CLAIMING
    /\ Cost + TARGET_CACHE_CLAIMING <= MAX_CACHE
    /\ MaxItems \in Nat

VARIABLES
    accounts,       \* the AIds with an ARecord
    parent,         \* the account each was made a child of, "none", or "unmade"
    refcount,       \* ARecord::refcount
    status,         \* the receiving side of each queue
    owner,          \* the account of each queue, or "none"
    tx,             \* whether the queue's Sender exists
    recorded,       \* the queues with a PRecord
    used,           \* PRecord::used
    tx_cache, rx_cache,     \* the cache of each handle
    queue,          \* ages of the items in each queue
    inflight,       \* age of the item that is claimed but not yet in the queue, or 0
    total_used, poisoned, config,
    wakeup,         \* whether a wakeup of the reclamation task is buffered
    task,           \* what the reclamation task does
    heap,           \* Reclaiming::heap
    victims,        \* participants still to be asked to reclaim, and how
    responses,      \* accounts whose participants were asked
    now, collapsing,        \* TemporaryParticipant of each queue being made
    sent            \* items made so far

acctvars == <<accounts, parent, refcount>>
queuevars == <<status, owner, tx, tx_cache, rx_cache, queue, inflight, now, collapsing, sent>>
taskvars == <<task, heap, victims, responses, poisoned>>
bookvars == <<recorded, used, total_used>>
mqvars == <<acctvars, queuevars, bookvars, config, wakeup, taskvars>>

Stages == {"unused", "constructing", "open", "collapsing", "dropping", "closed"}

TypeOK ==
    /\ accounts \subseteq Accounts
    /\ refcount \in [Accounts -> 0..MaxHandles]
    /\ status \in [Queues -> Stages]
    /\ owner \in [Queues -> Accounts \cup {"none"}]
    /\ tx \in [Queues -> BOOLEAN]
    /\ recorded \subseteq Queues
    /\ used \in [Queues -> Nat]
    /\ tx_cache \in [Queues -> 0..MAX_CACHE]
    /\ rx_cache \in [Queues -> 0..MAX_CACHE]
    /\ queue \in [Queues -> Seq(0..MaxItems)]
    /\ inflight \in [Queues -> 0..MaxItems]
    /\ now \in [Queues -> 0..MaxItems]
    /\ collapsing \in [Queues -> BOOLEAN]
    /\ total_used \in Nat
    /\ sent \in 0..MaxItems

Init ==
    /\ accounts = {}
    /\ parent = [a \in Accounts |-> "unmade"]
    /\ refcount = [a \in Accounts |-> 0]
    /\ status = [q \in Queues |-> "unused"]
    /\ owner = [q \in Queues |-> "none"]
    /\ tx = [q \in Queues |-> FALSE]
    /\ recorded = {}
    /\ used = [q \in Queues |-> 0]
    /\ tx_cache = [q \in Queues |-> 0]
    /\ rx_cache = [q \in Queues |-> 0]
    /\ queue = [q \in Queues |-> <<>>]
    /\ inflight = [q \in Queues |-> 0]
    /\ now = [q \in Queues |-> 0]
    /\ collapsing = [q \in Queues |-> FALSE]
    /\ total_used = 0 /\ poisoned = FALSE
    /\ config \in Configs
    /\ wakeup = FALSE
    /\ task = "start" /\ heap = {} /\ victims = {} /\ responses = {}
    /\ sent = 0

-----------------------------------------------------------------------------
(* Bookkeeping.                                                            *)

saturating_sub(a, b) == IF a > b THEN a - b ELSE 0

\* TotalQtyNotifier::maybe_wakeup, after a change of the total.
maybe_wakeup == wakeup' = (wakeup \/ total_used' > config'.max)

\* TotalQty::claim for q.  A poisoned total refuses (the callers' guard).
claim(q, want) ==
    /\ total_used' = total_used + want
    /\ used' = [used EXCEPT ![q] = @ + want]
    /\ UNCHANGED <<config, recorded>>
    /\ maybe_wakeup

\* TotalQty::release for q.  A poisoned total stays poisoned.
release(q, have) ==
    /\ used' = [used EXCEPT ![q] = saturating_sub(@, have)]
    /\ total_used' = IF poisoned THEN total_used ELSE saturating_sub(total_used, have)
    /\ UNCHANGED recorded

UsedBy(qs) == MapThenSumSet(LAMBDA q : used[q], qs)

\* Mutant: the records go, but what they used stays in the total.
MutantAfterRelease(qs) == total_used

\* The total once the records of qs have been through auto_release.
after_auto_release(qs) == IF poisoned THEN total_used ELSE saturating_sub(total_used, UsedBy(qs))

\* The records of the queues qs are removed and what they used is released.
auto_release(qs) ==
    /\ recorded' = recorded \ qs
    /\ used' = [q \in Queues |-> IF q \in qs THEN 0 ELSE used[q]]
    /\ total_used' = after_auto_release(qs)

Of(as) == {q \in recorded : owner[q] \in as}

\* Participation::release_qty on a handle whose cache was c: the cache takes
\* the memory, and goes back to the tracker when it holds too much.
Full(c) == c + Cost > MAX_CACHE
release_qty(q, c) ==
    IF Full(c) /\ q \in recorded
    THEN release(q, c + Cost - TARGET_CACHE_RELEASING)
    ELSE UNCHANGED bookvars
cache_after(q, c) ==
    IF Full(c) THEN (IF q \in recorded THEN TARGET_CACHE_RELEASING ELSE 0) ELSE c + Cost

-----------------------------------------------------------------------------
(* Accounts.                                                               *)

new_account(a, p) ==
    /\ parent[a] = "unmade"
    /\ p \in accounts \cup {"none"}
    /\ accounts' = accounts \cup {a}
    /\ parent' = [parent EXCEPT ![a] = p]
    /\ refcount' = [refcount EXCEPT ![a] = 1]
    /\ UNCHANGED <<queuevars, bookvars, config, wakeup, taskvars>>

\* Account::clone and WeakAccount::upgrade.
account_clone(a) ==
    /\ a \in accounts /\ refcount[a] < MaxHandles
    /\ refcount' = [refcount EXCEPT ![a] = @ + 1]
    /\ UNCHANGED <<accounts, parent, queuevars, bookvars, config, wakeup, taskvars>>

\* Drop for Account: the last handle takes the participants with it.
account_drop(a) ==
    /\ a \in accounts
    /\ refcount' = [refcount EXCEPT ![a] = @ - 1]
    /\ \/ refcount[a] > 1 /\ UNCHANGED <<accounts, bookvars>>
       \/ refcount[a] = 1 /\ accounts' = accounts \ {a} /\ auto_release(Of({a}))
    /\ UNCHANGED <<parent, queuevars, config, wakeup, taskvars>>

\* Mutant: the new limit does not wake the reclamation task.
MutantReconfigure(c) ==
    /\ c # config
    /\ config' = c
    /\ UNCHANGED <<acctvars, queuevars, bookvars, taskvars, wakeup>>

reconfigure(c) ==
    /\ c # config
    /\ config' = c
    /\ UNCHANGED <<acctvars, queuevars, bookvars, taskvars>>
    /\ maybe_wakeup

-----------------------------------------------------------------------------
(* A queue: ChannelSpec::new_mq, Sender and Receiver.                      *)

\* Account::register_participant_with up to the call of the constructor.  The
\* record holds a TemporaryParticipant, and the handle starts with a full cache.
register_participant(q, a) ==
    /\ status[q] = "unused" /\ a \in accounts /\ ~poisoned
    /\ status' = [status EXCEPT ![q] = "constructing"]
    /\ owner' = [owner EXCEPT ![q] = a]
    /\ tx' = [tx EXCEPT ![q] = TRUE]
    /\ tx_cache' = [tx_cache EXCEPT ![q] = MAX_CACHE]
    /\ recorded' = recorded \cup {q}
    /\ used' = [used EXCEPT ![q] = MAX_CACHE]
    /\ total_used' = total_used + MAX_CACHE
    /\ now' = [now EXCEPT ![q] = sent]
    /\ UNCHANGED <<acctvars, rx_cache, queue, inflight, collapsing, sent, config, taskvars>>
    /\ maybe_wakeup

\* The rest of it: the record gets the real participant, whose handle is a
\* clone with an empty cache, unless it went or was asked to collapse.
set_participant_callbacks(q) ==
    /\ status[q] = "constructing"
    /\ now' = [now EXCEPT ![q] = 0]
    /\ \/ /\ q \in recorded /\ ~collapsing[q]
          /\ status' = [status EXCEPT ![q] = "open"]
          /\ UNCHANGED <<tx, tx_cache, bookvars>>
       \/ /\ q \notin recorded \/ collapsing[q]
          /\ status' = [status EXCEPT ![q] = "closed"]
          /\ tx' = [tx EXCEPT ![q] = FALSE]
          /\ tx_cache' = [tx_cache EXCEPT ![q] = 0]
          /\ auto_release(recorded \cap {q})
    /\ UNCHANGED <<acctvars, owner, rx_cache, queue, inflight, collapsing, sent, config, wakeup, taskvars>>

Sending(q) == tx[q] /\ status[q] # "constructing"

\* Mutant: the cache is filled from what it has, not up to the target.
MutantWantMore(q) == MAX_CACHE

\* What a claim past the cache takes for the cache.
want_more_cache(q) ==
    IF Cost <= TARGET_CACHE_CLAIMING THEN TARGET_CACHE_CLAIMING - tx_cache[q] ELSE 0

\* Sender::start_send up to the channel: Participation::claim_qty_inner takes
\* the item from the cache, or from the tracker along with more for the cache.
\* A claim that fails changes nothing.
claim_qty(q) ==
    /\ Sending(q) /\ inflight[q] = 0 /\ sent < MaxItems
    /\ sent' = sent + 1
    /\ inflight' = [inflight EXCEPT ![q] = sent + 1]
    /\ \/ /\ tx_cache[q] >= Cost
          /\ tx_cache' = [tx_cache EXCEPT ![q] = @ - Cost]
          /\ UNCHANGED <<bookvars, config, wakeup>>
       \/ /\ tx_cache[q] < Cost /\ q \in recorded /\ ~poisoned
          /\ tx_cache' = [tx_cache EXCEPT ![q] = @ + want_more_cache(q)]
          /\ claim(q, Cost + want_more_cache(q))
    /\ UNCHANGED <<acctvars, status, owner, tx, rx_cache, queue, now, collapsing, taskvars>>

\* The rest of it: the item goes into the channel, or the channel is closed
\* and the claim is undone.
start_send(q) ==
    /\ Sending(q) /\ inflight[q] # 0
    /\ inflight' = [inflight EXCEPT ![q] = 0]
    /\ \/ /\ status[q] # "closed"
          /\ queue' = [queue EXCEPT ![q] = Append(@, inflight[q])]
          /\ UNCHANGED <<tx_cache, bookvars>>
       \/ /\ status[q] = "closed"
          /\ tx_cache' = [tx_cache EXCEPT ![q] = cache_after(q, @)]
          /\ release_qty(q, tx_cache[q])
          /\ UNCHANGED queue
    /\ UNCHANGED <<acctvars, status, owner, tx, rx_cache, now, collapsing, sent, config, wakeup, taskvars>>

\* Receiver::poll_next with an item: the receiver's handle releases it.
poll_next(q) ==
    /\ status[q] = "open" /\ queue[q] # <<>>
    /\ queue' = [queue EXCEPT ![q] = Tail(@)]
    /\ rx_cache' = [rx_cache EXCEPT ![q] = cache_after(q, @)]
    /\ release_qty(q, rx_cache[q])
    /\ UNCHANGED <<acctvars, status, owner, tx, tx_cache, inflight, now, collapsing, sent, config, wakeup, taskvars>>

\* PRecord::refcount: the handles of the participant.
HasRx(q) == status[q] \in {"open", "collapsing", "dropping"}
Handles(q) == (IF tx[q] THEN 1 ELSE 0) + (IF HasRx(q) THEN 1 ELSE 0)

\* Mutant: the sender's cache is not released while the receiver lives.
MutantSenderDrop(q) ==
    /\ Sending(q) /\ inflight[q] = 0
    /\ tx' = [tx EXCEPT ![q] = FALSE]
    /\ tx_cache' = [tx_cache EXCEPT ![q] = 0]
    /\ \/ q \in recorded /\ Handles(q) = 1 /\ auto_release({q})
       \/ ~(q \in recorded /\ Handles(q) = 1) /\ UNCHANGED bookvars
    /\ UNCHANGED <<acctvars, status, owner, rx_cache, queue, inflight, now, collapsing, sent, config, wakeup, taskvars>>

\* Drop for the Sender's Participation: its cache is released, and the last
\* handle takes the record with it.
sender_drop(q) ==
    /\ Sending(q) /\ inflight[q] = 0
    /\ tx' = [tx EXCEPT ![q] = FALSE]
    /\ tx_cache' = [tx_cache EXCEPT ![q] = 0]
    /\ \/ q \in recorded /\ Handles(q) > 1 /\ release(q, tx_cache[q])
       \/ q \in recorded /\ Handles(q) = 1 /\ auto_release({q})
       \/ q \notin recorded /\ UNCHANGED bookvars
    /\ UNCHANGED <<acctvars, status, owner, rx_cache, queue, inflight, now, collapsing, sent, config, wakeup, taskvars>>

\* The Receiver is dropped while the reclamation task does not hold on to it:
\* from now on the tracker cannot upgrade its reference.
receiver_drop(q) ==
    /\ status[q] = "open" /\ <<q, "real">> \notin victims
    /\ status' = [status EXCEPT ![q] = "dropping"]
    /\ UNCHANGED <<acctvars, owner, tx, tx_cache, rx_cache, queue, inflight, now, collapsing, sent, bookvars, config, wakeup, taskvars>>

\* Drop for ReceiverState: destroy_participant, then the channel is closed and
\* drained.
destroy_participant(q) ==
    /\ status' = [status EXCEPT ![q] = "closed"]
    /\ rx_cache' = [rx_cache EXCEPT ![q] = 0]
    /\ queue' = [queue EXCEPT ![q] = <<>>]
    /\ auto_release(recorded \cap {q})

receiver_state_drop(q) ==
    /\ status[q] = "dropping"
    /\ destroy_participant(q)
    /\ UNCHANGED <<acctvars, owner, tx, tx_cache, inflight, now, collapsing, sent, config, wakeup, taskvars>>

-----------------------------------------------------------------------------
(* The reclamation task (reclaim.rs).                                      *)

\* The participant's reference cannot be upgraded any more.
Vanished(q) == status[q] = "dropping"

\* analyse_particip: the age of the data of a participant that is a candidate;
\* 0 is TreatAsVeryOld.
NoData(q) == status[q] # "constructing" /\ queue[q] = <<>> /\ used[q] <= Handles(q) * MAX_CACHE
AgeOf(q) ==
    IF status[q] = "constructing" THEN now[q]
    ELSE IF queue[q] # <<>> THEN Head(queue[q]) ELSE 0

Candidates == {q \in recorded : ~Vanished(q) /\ ~NoData(q)}
Gone == {q \in recorded : Vanished(q)}

\* get_aid_and_children_recursively among the accounts acc.
with_children(a, acc) ==
    LET reach[n \in 0..Cardinality(Accounts)] ==
            IF n = 0 THEN acc \cap {a}
            ELSE reach[n-1] \cup {b \in acc : parent[b] \in reach[n-1]}
    IN  reach[Cardinality(Accounts)]

Oldest(hp) == {e \in hp : \A f \in hp : e.age <= f.age}

Stop == task' = "wait" /\ heap' = {} /\ victims' = {} /\ responses' = {} /\ UNCHANGED poisoned

\* Whether what is left is no more than the participants' caches.
n_particips(rec) == MapThenSumSet(Handles, rec)
good_enough(rec, tot) == n_particips(rec) > 0 /\ tot \div n_particips(rec) < MAX_CACHE

crash == task' = "crashed" /\ poisoned' = TRUE /\ heap' = {} /\ victims' = {} /\ responses' = {}

\* choose_victims, with the accounts acc, the records rec, the total tot and
\* the heap hp; the records of vanished participants go.
choose_victims(acc, rec, tot, hp) ==
    \/ tot <= config.low_water /\ Stop /\ auto_release(recorded \ rec)
    \/ /\ tot > config.low_water /\ hp = {}
       /\ IF good_enough(rec, tot) THEN Stop ELSE crash
       /\ auto_release(recorded \ rec)
    \/ /\ tot > config.low_water
       /\ \E e \in Oldest(hp) :
            LET asked == {q \in rec : owner[q] \in with_children(e.aid, acc)}
                alive == {q \in asked : ~Vanished(q)}
            IN  /\ heap' = hp \ {e}
                /\ victims' = {<<q, IF status[q] = "constructing" THEN "temp" ELSE "real">> : q \in alive}
                /\ responses' = {owner[q] : q \in alive}
                /\ task' = "notify"
                /\ auto_release(recorded \ (rec \ (asked \ alive)))
       /\ UNCHANGED poisoned

\* inner_loop up to the first await.
maybe_start ==
    /\ task = "start"
    /\ \/ total_used <= config.max /\ Stop /\ UNCHANGED bookvars
       \/ /\ total_used > config.max
          /\ choose_victims(accounts, recorded \ Gone, after_auto_release(Gone),
                            {[age |-> AgeOf(q), aid |-> owner[q], q |-> q] : q \in Candidates})
    /\ UNCHANGED <<acctvars, queuevars, config, wakeup>>

\* notify_victims: a queue is closed to its receiver, a TemporaryParticipant
\* remembers.
reclaim(q, kind) ==
    /\ task = "notify" /\ <<q, kind>> \in victims
    /\ \/ /\ kind = "real" /\ status[q] = "open"
          /\ status' = [status EXCEPT ![q] = "collapsing"]
          /\ UNCHANGED <<rx_cache, queue, bookvars, victims, collapsing>>
       \/ /\ kind = "real" /\ status[q] = "collapsing"
          /\ destroy_participant(q)
          /\ victims' = victims \ {<<q, kind>>}
          /\ UNCHANGED collapsing
       \/ /\ kind = "temp"
          /\ collapsing' = [collapsing EXCEPT ![q] = TRUE]
          /\ victims' = victims \ {<<q, kind>>}
          /\ UNCHANGED <<status, rx_cache, queue, bookvars>>
    /\ UNCHANGED <<acctvars, owner, tx, tx_cache, inflight, now, sent, config, wakeup, task, heap, responses, poisoned>>

\* handle_victim_responses: every account that was asked goes, with all of its
\* participants; then choose_victims again under the same lock.
handle_victim_responses ==
    /\ task = "notify" /\ victims = {}
    /\ accounts' = accounts \ responses
    /\ choose_victims(accounts \ responses, recorded \ Of(responses), after_auto_release(Of(responses)), heap)
    /\ UNCHANGED <<parent, refcount, queuevars, config, wakeup>>

\* task_loop takes the buffered wakeup.
wakeup_next ==
    /\ task = "wait" /\ wakeup
    /\ task' = "start" /\ wakeup' = FALSE
    /\ UNCHANGED <<acctvars, queuevars, bookvars, config, heap, victims, responses, poisoned>>

TaskStep ==
    \/ maybe_start \/ handle_victim_responses \/ wakeup_next
    \/ \E q \in Queues, kind \in {"real", "temp"} : reclaim(q, kind)
QueueStep(q) == set_participant_callbacks(q) \/ start_send(q) \/ receiver_state_drop(q)

Next ==
    \/ \E a \in Accounts : account_clone(a) \/ account_drop(a) \/ \E p \in Accounts \cup {"none"} : new_account(a, p)
    \/ \E c \in Configs : reconfigure(c)
    \/ \E q \in Queues :
        \/ QueueStep(q) \/ claim_qty(q) \/ poll_next(q) \/ sender_drop(q) \/ receiver_drop(q)
        \/ \E a \in Accounts : register_participant(q, a)
    \/ TaskStep

\* The task runs, and what a queue does between two locks comes to its end.
Fairness == WF_mqvars(TaskStep) /\ \A q \in Queues : WF_mqvars(QueueStep(q))

Spec == Init /\ [][Next]_mqvars /\ Fairness

-----------------------------------------------------------------------------
(* Properties.                                                             *)

Held(q) == tx_cache[q] + rx_cache[q] + Cost * (Len(queue[q]) + IF inflight[q] = 0 THEN 0 ELSE 1)

\* Every byte that the tracker holds against a participant is in a cache, in
\* the queue or on its way there, whoever claimed it and whoever releases it
\* (bookkeeping.rs, mq_queue.rs).
UsedIsHeld == \A q \in recorded : used[q] = Held(q)

\* The total is the sum of what the participants use (the invariant of
\* TotalQtyNotifier::total_used), so that nothing is leaked by an account, a
\* handle or a queue that goes in the middle of a reclamation.
TotalIsSum == ~poisoned => total_used = UsedBy(recorded)

\* A participant without data is never taken for one that lies about it
\* ("participant claims to have no data, but our accounting disagrees"), even
\* while an item is claimed and not yet in the queue.
NeverAccusedOfLying ==
    \A q \in recorded : status[q] # "constructing" /\ queue[q] = <<>> => used[q] <= Handles(q) * MAX_CACHE

\* Memory use above the quota does not last, as long as the quota is more than
\* the caches alone may hold (MIN_LOW_WATER in config.rs): the wakeups of the
\* reclamation task are not lost, and it frees what it set out to free.
Roomy == MAX_CACHE * n_particips(recorded) <= config.max
OverQuotaEnds ==
    total_used > config.max /\ Roomy ~> total_used <= config.max \/ ~Roomy \/ poisoned

\* The reclamation task never finds the accounts corrupted (choose_victims:
\* "All our remaining participants are NoData").
NeverCrashes == ~poisoned

=============================================================================
