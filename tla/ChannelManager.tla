--------------------------- MODULE ChannelManager ---------------------------
(***************************************************************************)
(* The channel manager (tor-chanmgr: mgr.rs, mgr/state.rs, mgr/select.rs)  *)
(* and the part of a channel it configures (tor-proto: channel.rs,         *)
(* channel/params.rs).  Tasks ask for a channel to a target, given by some *)
(* of a relay's identities.  A task returns an open channel, waits for one *)
(* another task is building, or builds one itself; a task may be cancelled *)
(* at each await.  Meanwhile the configuration, the dormancy and the       *)
(* network parameters change, channels close, and unused ones expire.      *)
(*                                                                         *)
(* A step is what happens under one acquisition of MgrState's lock, or     *)
(* between two of them.  A channel's control queue is first in, first out, *)
(* so an update counts as applied when it is sent.                         *)
(***************************************************************************)
EXTENDS Integers, FiniteSets, TLC

CONSTANTS
    Tasks,              \* calls of get_or_launch
    Target,             \* the identities each task asks for
    Usage,              \* ChannelUsage of each task: "UserTraffic" or "Dir"
    Relays,             \* the relays, each the set of its identities
    Levels,             \* the PaddingLevels the configuration may set
    Netdirs,            \* the network parameters: [padding: BOOLEAN, kist: ...]
    MaxReconfigures     \* bound: calls of reconfigure_general

VARIABLES
    channels,           \* Inner::channels: entries [state, ids, unique_id]
    next_id,            \* UniqPendingChanId::NEXT_ID
    chan,               \* each channel that was built, by the id of its launch
    channels_params,    \* Inner::channels_params
    setting,            \* the configured level, the dormancy and the netdir
    task,               \* each task's place in get_or_launch_internal
    outcome,            \* what each launch's oneshot carries
    expired,            \* (history) channels that expire_channels removed
    reconfigures        \* calls of reconfigure_general, counted against the bound

cmvars == <<channels, next_id, chan, channels_params, setting, task, outcome, expired, reconfigures>>

N_ATTEMPTS == 2
MaxLaunches == N_ATTEMPTS * Cardinality(Tasks)

-----------------------------------------------------------------------------
\* ChannelPaddingInstructions: Default is what a new reactor does by itself.
DefaultInstructions ==
    [padding_enable |-> FALSE, padding_parameters |-> "disabled", padding_negotiate |-> "start_default"]

\* padding_parameters: none at level None, or where the netdir has zeros.
padding_parameters(level, netdir) ==
    IF level = "None" \/ ~netdir.padding THEN "none" ELSE level

\* parameterize: the instructions for every channel.
parameterize(old, s) ==
    LET own == padding_parameters(s.level, s.netdir)
        send == IF s.dormant THEN "none" ELSE own
        recv == IF s.level = "Normal" THEN send ELSE "none"
        negotiate == IF recv = padding_parameters("Normal", s.netdir) THEN "start_default"
                     ELSE IF recv = "none" THEN "stop" ELSE recv
    IN  [padding_enable |-> send # "none",
         padding_parameters |-> IF send = "none" THEN old.padding_parameters ELSE send,
         padding_negotiate |-> negotiate]

\* ChannelPaddingInstructionsUpdates: the fields that changed, with their new values.
start_update(old, new) ==
    [f \in {g \in DOMAIN new : new[g] # old[g]} |-> new[f]]

combine(update, more) == more @@ update

\* Channel::reparameterize, which fails silently on a closed channel.
reparameterize(c, update) ==
    IF ~c.engaged THEN [c EXCEPT !.padding_params = combine(@, update)]
    ELSE IF c.usable THEN [c EXCEPT !.reactor = combine(@, update)]
    ELSE c

\* Channel::engage_padding_activities: a start_default is not sent, being what
\* the peer does anyway.
engage_padding_activities(c) ==
    LET elided == {f \in DOMAIN c.padding_params :
                      f = "padding_negotiate" /\ c.padding_params[f] = "start_default"}
        params == [f \in DOMAIN c.padding_params \ elided |-> c.padding_params[f]]
    IN  IF c.engaged \/ ~c.usable THEN c
        ELSE [c EXCEPT !.engaged = TRUE, !.reactor = combine(@, params)]

-----------------------------------------------------------------------------
OpenEntries == {e \in channels : e.state = "Open"}
Building == {e \in channels : e.state = "Building"}

NewSetting == [level: Levels, dormant: BOOLEAN, netdir: Netdirs]

Init ==
    /\ channels = {}
    /\ next_id = 1
    /\ chan = <<>>
    /\ setting \in NewSetting
    /\ channels_params = [padding |-> parameterize(DefaultInstructions, setting),
                          kist |-> setting.netdir.kist]
    /\ \E asking \in SUBSET Tasks :
         task = [t \in Tasks |-> [pc |-> IF t \in asking THEN "choose" ELSE "idle",
                                 attempts |-> 0, final |-> FALSE, launch |-> 0]]
    /\ outcome = <<>>
    /\ expired = {}
    /\ reconfigures \in 0..MaxReconfigures

TypeOK ==
    /\ \A e \in channels : e.state \in {"Open", "Building"} /\ e.unique_id \in 1..(next_id - 1)
    /\ next_id \in 1..(MaxLaunches + 1)
    /\ DOMAIN outcome = 1..(next_id - 1)
    /\ DOMAIN chan \subseteq DOMAIN outcome
    /\ \A t \in Tasks :
         task[t].pc \in {"idle", "choose", "wait", "build", "told", "engage", "done", "failed", "cancelled"}

\* The task has channel u: get_or_launch engages its padding for user traffic.
Returned(t, u) ==
    [task[t] EXCEPT !.pc = IF Usage[t] = "UserTraffic" THEN "engage" ELSE "done", !.launch = u]

\* The end of an attempt that gave no channel.
Retry(t) ==
    [task[t] EXCEPT !.pc = IF task[t].attempts < N_ATTEMPTS THEN "choose" ELSE "failed"]

\* MgrState::request_channel, as choose_action uses it.
allowed_open(t) ==
    {e \in OpenEntries : Target[t] \subseteq e.ids /\ chan[e.unique_id].usable}
allowed_pending(t) == {e \in Building : e.ids \subseteq Target[t]}
conflicting(t) ==
    {e \in OpenEntries : /\ e.ids \cap Target[t] # {}
                         /\ ~(Target[t] \subseteq e.ids)
                         /\ chan[e.unique_id].usable}

MutantAttempts(t) == [task[t] EXCEPT !.attempts = @]
attempt(t) == [task[t] EXCEPT !.attempts = @ + 1]

choose_action(t) ==
    /\ task[t].pc = "choose"
    /\ \/ \E e \in allowed_open(t) :
            /\ task' = [task EXCEPT ![t] = Returned(t, e.unique_id)]
            /\ UNCHANGED <<channels, next_id, outcome>>
       \/ /\ allowed_open(t) = {} /\ ~task[t].final
          /\ \E e \in allowed_pending(t) :
               /\ task' = [task EXCEPT ![t] = [attempt(t) EXCEPT !.pc = "wait", !.launch = e.unique_id]]
               /\ UNCHANGED <<channels, next_id, outcome>>
       \/ /\ allowed_open(t) = {}
          /\ \/ task[t].final
             \/ allowed_pending(t) = {} /\ conflicting(t) # {}
          /\ task' = [task EXCEPT ![t].pc = "failed"]
          /\ UNCHANGED <<channels, next_id, outcome>>
       \/ /\ allowed_open(t) = {} /\ allowed_pending(t) = {} /\ conflicting(t) = {} /\ ~task[t].final
          /\ next_id <= MaxLaunches
          /\ channels' = channels \cup
                {[state |-> "Building", ids |-> Target[t], unique_id |-> next_id]}
          /\ outcome' = outcome @@ (next_id :> "waiting")
          /\ next_id' = next_id + 1
          /\ task' = [task EXCEPT ![t] = [attempt(t) EXCEPT !.pc = "build", !.launch = next_id]]
    /\ UNCHANGED <<chan, channels_params, setting, expired, reconfigures>>

-----------------------------------------------------------------------------
remove_pending(u) == {e \in channels : ~(e.state = "Building" /\ e.unique_id = u)}

\* upgrade_pending_channel_to_open: one lock acquisition removes the pending
\* entry, gives the channel the current instructions and inserts it.
NewChannel(ids, padding_params) ==
    [ids |-> ids, usable |-> TRUE, engaged |-> FALSE, padding_params |-> padding_params,
     reactor |-> DefaultInstructions, kist |-> "unset"]

MutantUpgrade(u, ids) ==
    /\ channels' = remove_pending(u) \cup {[state |-> "Open", ids |-> ids, unique_id |-> u]}
    /\ chan' = chan @@ (u :> NewChannel(ids, <<>>))
upgrade_pending_channel_to_open(u, ids) ==
    LET initial_update == start_update(DefaultInstructions, channels_params.padding)
    IN  /\ channels' = remove_pending(u) \cup {[state |-> "Open", ids |-> ids, unique_id |-> u]}
        /\ chan' = chan @@ (u :> NewChannel(ids, initial_update))

\* build_channel succeeds: the relay at the other end has proven all its
\* identities, among them every one the target names.
build_succeeds(t) ==
    LET u == task[t].launch
    IN  /\ task[t].pc = "build"
        /\ \E relay \in Relays :
             /\ Target[t] \subseteq relay
             /\ upgrade_pending_channel_to_open(u, relay)
             /\ task' = [task EXCEPT ![t].pc = "told"]
        /\ UNCHANGED <<next_id, channels_params, setting, outcome, expired, reconfigures>>

\* build_channel fails, or runs into its timeout.
build_fails(t) ==
    /\ task[t].pc = "build"
    /\ channels' = remove_pending(task[t].launch)
    /\ task' = [task EXCEPT ![t].pc = "told"]
    /\ UNCHANGED <<next_id, chan, channels_params, setting, outcome, expired, reconfigures>>

\* send.send(outcome), after which the builder returns its channel or tries again.
send_outcome(t) ==
    LET u == task[t].launch
        ok == u \in DOMAIN chan
    IN  /\ task[t].pc = "told"
        /\ outcome' = [outcome EXCEPT ![u] = IF ok THEN "ok" ELSE "err"]
        /\ task' = [task EXCEPT ![t] = IF ok THEN Returned(t, u) ELSE Retry(t)]
        /\ UNCHANGED <<channels, next_id, chan, channels_params, setting, expired, reconfigures>>

\* The future of get_or_launch is dropped at an await: Defer removes the
\* pending entry and the waiters' sender is dropped.
cancel(t) ==
    /\ task[t].pc \in {"wait", "build"}
    /\ task' = [task EXCEPT ![t].pc = "cancelled"]
    /\ IF task[t].pc = "build"
         THEN /\ channels' = remove_pending(task[t].launch)
              /\ outcome' = [outcome EXCEPT ![task[t].launch] = "gone"]
         ELSE UNCHANGED <<channels, outcome>>
    /\ UNCHANGED <<next_id, chan, channels_params, setting, expired, reconfigures>>

\* A waiter learns how the build it waited for ended.
wait_ends(t) ==
    LET got == outcome[task[t].launch]
    IN  /\ task[t].pc = "wait"
        /\ got # "waiting"
        /\ task' = [task EXCEPT ![t] = IF got = "ok" THEN [@ EXCEPT !.pc = "choose", !.final = TRUE]
                                       ELSE Retry(t)]
        /\ UNCHANGED <<channels, next_id, chan, channels_params, setting, outcome, expired, reconfigures>>

\* get_or_launch: user traffic starts the padding activities of the channel.
engage(t) ==
    /\ task[t].pc = "engage"
    /\ task' = [task EXCEPT ![t].pc = "done"]
    /\ chan' = [chan EXCEPT ![task[t].launch] = engage_padding_activities(@)]
    /\ UNCHANGED <<channels, next_id, channels_params, setting, outcome, expired, reconfigures>>

-----------------------------------------------------------------------------
\* reconfigure_general, called by reconfigure (a new level), by set_dormancy and
\* by update_netparams: every open channel is told what changed.
reconfigure_general ==
    /\ reconfigures < MaxReconfigures
    /\ reconfigures' = reconfigures + 1
    /\ \E s \in {x \in NewSetting : x.level = setting.level \/ x.dormant = setting.dormant} :
         LET new == parameterize(channels_params.padding, s)
             update == start_update(channels_params.padding, new)
             told == {e.unique_id : e \in OpenEntries}
             kist(c) == IF s.netdir.kist # channels_params.kist /\ c.usable
                          THEN [c EXCEPT !.kist = s.netdir.kist] ELSE c
         IN  /\ setting' = s
             /\ channels_params' = [padding |-> new, kist |-> s.netdir.kist]
             /\ chan' = [u \in DOMAIN chan |->
                           IF u \in told THEN kist(reparameterize(chan[u], update)) ELSE chan[u]]
    /\ UNCHANGED <<channels, next_id, task, outcome, expired>>

\* expire_channels drops the entries of channels that were unused for long
\* enough, usable or not.
expire_channels ==
    /\ \E dead \in SUBSET OpenEntries \ {{}} :
         /\ channels' = channels \ dead
         /\ expired' = expired \cup {e.unique_id : e \in dead}
    /\ UNCHANGED <<next_id, chan, channels_params, setting, task, outcome, reconfigures>>

\* A channel's reactor ends.
close(u) ==
    /\ chan[u].usable
    /\ chan' = [chan EXCEPT ![u].usable = FALSE]
    /\ UNCHANGED <<channels, next_id, channels_params, setting, task, outcome, expired, reconfigures>>

\* A task's next step, and the end of its build, which has a timeout.
TaskStep(t) ==
    choose_action(t) \/ build_succeeds(t) \/ build_fails(t) \/ send_outcome(t) \/ wait_ends(t) \/ engage(t)

Next ==
    \/ \E t \in Tasks : TaskStep(t) \/ cancel(t)
    \/ reconfigure_general
    \/ expire_channels
    \/ \E u \in DOMAIN chan : close(u)

-----------------------------------------------------------------------------
\* Every Building entry of the map has the one task that is building it, so
\* that remove_pending always finds exactly one entry and no request waits for
\* a build that nobody is working on.
PendingHasBuilder ==
    /\ \A e \in Building :
         \E t \in Tasks : task[t].pc = "build" /\ task[t].launch = e.unique_id
    /\ \A t \in Tasks : task[t].pc = "build" =>
         Cardinality({e \in Building : e.unique_id = task[t].launch}) = 1

\* A waiter that was told of success finds the channel it waited for in the
\* map, unless the channel has closed or expired since: the entry is replaced
\* before the waiters are told.
ToldOnlyWhenOpen ==
    \A t \in Tasks :
        task[t].pc = "choose" /\ task[t].final =>
            \/ task[t].launch \in {e.unique_id : e \in OpenEntries} \cup expired
            \/ ~chan[task[t].launch].usable

\* Whatever the order of builds, uses and reconfigurations, every open channel
\* of the map does, or will do as soon as it is used for traffic, what the
\* manager's current padding instructions say.
ChannelsFollowParams ==
    \A e \in OpenEntries :
        LET c == chan[e.unique_id]
        IN  c.usable => combine(c.reactor, IF c.engaged THEN <<>> ELSE c.padding_params)
                            = channels_params.padding

\* Every call of get_or_launch ends: nobody waits for a build that was
\* cancelled, and nobody retries for ever.
EveryoneAnswered ==
    <>(\A t \in Tasks : task[t].pc \in {"idle", "done", "failed", "cancelled"})

\* Inner::channels_params holds the KIST parameters "that all existing channels
\* are using".
KistIsUsed ==
    \A e \in OpenEntries :
        chan[e.unique_id].usable => chan[e.unique_id].kist = channels_params.kist
=============================================================================
