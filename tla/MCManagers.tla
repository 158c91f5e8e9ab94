----------------------------- MODULE MCManagers -----------------------------
(***************************************************************************)
(* Two tables of shared attempts, checked side by side: the manager of     *)
(* channels, and the onion-service client's table of connections.          *)
(***************************************************************************)
EXTENDS ServiceTable

VARIABLE part       \* whose behaviour this is
\* ChannelManager
VARIABLES channels, next_id, chan, channels_params, setting, cm_task, outcome, expired, reconfigures
channelVars == <<channels, next_id, chan, channels_params, setting, cm_task, outcome, expired, reconfigures>>

\* Two callers for one service, the second narrowing the record of the first.
MCKey == [c \in Callers |-> "k"]
MCIsolation == [c \in Callers |-> IF c = "a" THEN {} ELSE {[attribute |-> "x", value |-> 1]}]

\* Three requests for one relay, one of them with a wrong identity; or one
\* request while the configuration changes.
MCTarget == [t1 |-> {"e1", "r1"}, t2 |-> {"e1"}, t3 |-> {"e1", "r2"}]
MCUsage == [t1 |-> "UserTraffic", t2 |-> "Dir", t3 |-> "Dir"]
Requests == DOMAIN MCTarget
Netdir(padding, kist) == [padding |-> padding, kist |-> kist]
CM == INSTANCE ChannelManager WITH task <- cm_task, Tasks <- Requests, Target <- MCTarget,
    Usage <- MCUsage, Relays <- {{"e1", "r1"}}, Levels <- {"Normal", "Reduced"},
    Netdirs <- {Netdir(TRUE, "on"), Netdir(FALSE, "off")}, MaxReconfigures <- 2

Asking == {t \in Requests : cm_task[t].pc = "choose"}
ChannelInit ==
    /\ CM!Init
    /\ setting = [level |-> "Normal", dormant |-> FALSE, netdir |-> Netdir(TRUE, "on")]
    /\ \/ part = "channels" /\ Asking = Requests /\ reconfigures = 2
       \/ part = "channels" /\ Asking = {"t1"} /\ reconfigures = 0
       \/ part # "channels" /\ Asking = {} /\ reconfigures = 0

MCInit == part \in {"channels", "services"} /\ Init /\ ChannelInit

Channel(A) == part = "channels" /\ A /\ UNCHANGED <<part, stvars>>
Service(A) == part = "services" /\ A /\ UNCHANGED <<part, channelVars>>

MCNext == Channel(CM!Next) \/ Service(Next)

\* Tasks run, and builds end (by their timeout), in both.
MCFairness ==
    /\ \A t \in Requests : WF_channelVars(Channel(CM!TaskStep(t)))
    /\ \A c \in Callers : WF_stvars(Service(CallerStep(c)))
    /\ \A k \in TaskIds : WF_stvars(Service(TaskStep(k)))

MCSpec == MCInit /\ [][MCNext]_<<part, stvars, channelVars>> /\ MCFairness

-----------------------------------------------------------------------------
\* The channel manager's table is sound under every interleaving of requests, builds
\* and reconfigurations: a pending entry has a builder (PendingHasBuilder), whoever
\* waits is told of an open channel only when there is one (ToldOnlyWhenOpen), and an
\* open channel follows the latest parameters (ChannelsFollowParams).
ChannelTableSound == CM!PendingHasBuilder /\ CM!ToldOnlyWhenOpen /\ CM!ChannelsFollowParams

\* Every request for a channel is answered.
EveryoneAnswered == CM!EveryoneAnswered

\* Every caller gets its tunnel or an error (where callers are what is modelled).
CallersAllAnswered == <>(part # "services" \/ \A c \in Callers : caller[c].pc \in {"answered", "failed"})
=============================================================================
