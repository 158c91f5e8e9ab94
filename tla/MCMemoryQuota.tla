--------------------------- MODULE MCMemoryQuota ----------------------------
(***************************************************************************)
(* The memory tracker in use: the states of two queues from which a few    *)
(* more items reach the interesting cases.                                 *)
(***************************************************************************)
EXTENDS MemoryQuota

SmallConfigs == {[max |-> 10, low_water |-> 8], [max |-> 8, low_water |-> 6]}
BusyConfigs == {[max |-> 16, low_water |-> 8]}

None == [q \in Queues |-> 0]
Only(q, v, rest) == [p \in Queues |-> IF p = q THEN v ELSE rest]
AtRest ==
    /\ now = None /\ inflight = None /\ collapsing = [q \in Queues |-> FALSE]
    /\ poisoned = FALSE /\ wakeup = FALSE
    /\ task = "start" /\ heap = {} /\ victims = {} /\ responses = {}
    /\ config \in Configs

\* One queue is open and drained, its receiver caching what it released; the
\* other account and queue are still to be made.
DrainedInit ==
    /\ AtRest /\ config.max = 10
    /\ accounts = {"a1"} /\ parent = [a \in Accounts |-> IF a = "a1" THEN "none" ELSE "unmade"]
    /\ refcount = [a \in Accounts |-> IF a = "a1" THEN 1 ELSE 0]
    /\ status = Only("q1", "open", "unused") /\ owner = Only("q1", "a1", "none")
    /\ tx = Only("q1", TRUE, FALSE) /\ recorded = {"q1"}
    /\ queue = [q \in Queues |-> <<>>] /\ sent = 3
    /\ used = Only("q1", MAX_CACHE, 0) /\ total_used = MAX_CACHE
    /\ rx_cache = used /\ tx_cache = None

\* Both queues are open; one holds six items, the other was just made.
BusyInit ==
    /\ AtRest
    /\ accounts = Accounts /\ parent = [a \in Accounts |-> "none"]
    /\ refcount = [a \in Accounts |-> 1]
    /\ status = [q \in Queues |-> "open"] /\ owner = Only("q1", "a1", "a2")
    /\ tx = [q \in Queues |-> TRUE] /\ recorded = Queues
    /\ queue = Only("q1", <<1, 2, 3, 4, 5, 6>>, <<>>) /\ sent = 6
    /\ used = Only("q1", 6 * Cost, MAX_CACHE) /\ total_used = 6 * Cost + MAX_CACHE
    /\ rx_cache = None /\ tx_cache = Only("q1", 0, MAX_CACHE)
=============================================================================
