------------------------------ MODULE MCRecords -----------------------------
(***************************************************************************)
(* What is kept on record while the world changes, checked side by side:   *)
(* the memory that is held, the guards in use, and the introduction points *)
(* an onion service has published.                                         *)
(***************************************************************************)
EXTENDS MCMemoryQuota

VARIABLE part       \* whose behaviour this is
\* GuardSample
VARIABLES guards, netdir, request, changes
\* IntroPoints
VARIABLES irelays, selection_ok, cleanup, publish_set, disk, keys, pc, made, ip_now, faults, advertised

guardVars == <<guards, netdir, request, changes>>
iptVars == <<irelays, selection_ok, cleanup, publish_set, disk, keys, pc, made, ip_now, faults, advertised>>

\* Three relays of which a directory may drop one, and a request that avoids one.
Guards3 == {"g1", "g2", "g3"}
G == INSTANCE GuardSample WITH Relays <- Guards3,
    Netdirs <- {[listed |-> Guards3, uncertain |-> {}], [listed |-> {"g1", "g3"}, uncertain |-> {"g2"}]},
    Filters <- {Guards3, {"g2", "g3"}},
    Stored <- {[sample |-> <<"g1", "g2">>, confirmed |-> <<"g1">>]},
    Requests <- {"r1", "r2"}, avoid <- [r \in {"r1", "r2"} |-> IF r = "r1" THEN {"g1"} ELSE {}],
    n_primary <- 1, min_filtered_sample_size <- 2, max_sample_size <- 3, data_parallelism <- 1, MaxChanges <- 1

\* Two introduction points on two relays, with time for them to be rotated and
\* to expire and one fault, or with no time and two faults.
I == INSTANCE IntroPoints WITH now <- ip_now, Relays <- {"a", "b"},
    num_intro_points <- 2, max_n_intro_relays <- 2, RelayLifetime <- 1, IPT_PUBLISH_CERTAIN <- 2,
    IPT_PUBLISH_UNCERTAIN <- 1, MaxIpts <- 2, MaxTime <- 3, MaxFaults <- 2

MCInit ==
    /\ part \in {"memory", "guards", "ipts"}
    /\ DrainedInit /\ G!Init /\ I!Init
    /\ netdir.listed = Guards3
    /\ <<ip_now, faults>> \in (IF part = "ipts" THEN {<<1, 1>>, <<3, 0>>} ELSE {<<1, 1>>})

Memory(A) == part = "memory" /\ A /\ UNCHANGED <<part, guardVars, iptVars>>
Guard(A) == part = "guards" /\ A /\ UNCHANGED <<part, mqvars, iptVars>>
Ipt(A) == part = "ipts" /\ A /\ UNCHANGED <<part, mqvars, guardVars>>

MCNext == Memory(Next) \/ Guard(G!Next) \/ Ipt(I!Next)

MCSpec == MCInit /\ [][MCNext]_<<part, mqvars, guardVars, iptVars>>

-----------------------------------------------------------------------------
\* The properties of the guards and of the introduction points, by their own names.
ExploratoryHasRequest == G!ExploratoryHasRequest
NonPrimaryOnlyIfNeeded == G!NonPrimaryOnlyIfNeeded
PublishedIsRecoverable == I!PublishedIsRecoverable
AdvertisedAccepts == I!AdvertisedAccepts
LatestIsKept == I!LatestIsKept
=============================================================================
