--------------------------- MODULE TunnelManager ---------------------------
(***************************************************************************)
(* The tunnel manager of tor-circmgr (src/mgr.rs, AbstractTunnelMgr, with  *)
(* usage.rs and mgr/streams.rs): callers ask for a tunnel that supports a  *)
(* usage; get_or_launch hands out an open one, waits for one that is being *)
(* built, or launches one.  Build tasks, waiting requests, expiry and      *)
(* reconfiguration meet only at the lock of the TunnelList, so one action  *)
(* is what happens under one acquisition of it, or one poll.               *)
(*                                                                         *)
(* A launch b stands for its PendingEntry, its build task and, once built, *)
(* its tunnel.  Isolation is a token: two are compatible iff they are the  *)
(* same; a Dir usage is one with a port and a token of its own.  Whether   *)
(* a build succeeds, and when a timer fires, is free.  A tunnel that       *)
(* closes by itself is no longer `usable` and find_open skips it: it goes  *)
(* the way of an expired one.                                              *)
(***************************************************************************)
EXTENDS Naturals, Sequences, FiniteSets

CONSTANTS Requests,     \* calls of get_or_launch
          Usages,       \* the ways to give each its TargetTunnelUsage
          Policies,     \* the exit policies a planned path may end with
          MaxFailures,  \* max_failures, from request_max_retries
          BuildErrors,  \* the errors a build may end with
          Impatient,    \* the requests that may time out or be dropped
          MaxBuilds,    \* bound: launches in a behaviour
          MaxTesting,   \* bound: the first launches that may be timeout tests
          MaxRetires    \* bound: calls of retire_all_tunnels

VARIABLES open_tunnels,      \* launch -> [policy, isolation]
          pending_tunnels,   \* the launches in the list of pending tunnels
          build,             \* per launch, its plan and its task
          wanted,            \* per request, its usage
          request,           \* per request, where its get_or_launch is
          answer,            \* per request, what it returned
          epoch              \* history: number of retire_all_tunnels so far

tmvars == <<open_tunnels, pending_tunnels, build, wanted, request, answer, epoch>>

Builds == 1..MaxBuilds
None == "None"
NoTunnels == [b \in {} |-> None]

NoPlan == [stage |-> "unused", policy |-> {}, isolation |-> None,
           tentative |-> None, reply |-> None, epoch |-> 0]
NewRequest == [pc |-> "choosing", left |-> {}, right |-> <<>>, errors |-> {},
               failures |-> 0, resets |-> 0, blamed |-> FALSE, tunnel |-> 0]

TypeOK ==
    /\ DOMAIN open_tunnels \subseteq Builds
    /\ pending_tunnels \subseteq Builds
    /\ \A b \in Builds : build[b].stage \in
          {"unused", "planned", "building", "replying", "loyalty", "done"}
    /\ \A r \in Requests :
          /\ request[r].pc \in {"choosing", "listing", "waiting", "done"}
          /\ request[r].left \subseteq Builds
    /\ epoch \in 0..MaxRetires

Init ==
    /\ open_tunnels = NoTunnels
    /\ pending_tunnels = {}
    /\ build = [b \in Builds |-> NoPlan]
    /\ wanted \in Usages
    /\ request = [r \in Requests |-> NewRequest]
    /\ answer = [r \in Requests |-> None]
    /\ epoch \in 0..MaxRetires

-----------------------------------------------------------------------------
(* What a tunnel supports (SupportedTunnelUsage::Exit).                     *)

\* SupportedTunnelUsage::supports, for the Exit and Preemptive targets.
supports(policy, isolation, usage) ==
    /\ usage.port \in policy
    /\ IF usage.kind = "Exit" THEN isolation \in {None, usage.isolation}
                              ELSE isolation = None

\* Mutant: a tunnel that already has an isolation accepts any other.
MutantRestrict(isolation, usage) == TRUE

\* restrict_mut: whether it succeeds, and the isolation it leaves.
restrict_ok(isolation, usage) ==
    usage.kind = "Preemptive" \/ isolation \in {None, usage.isolation}
restricted(isolation, usage) ==
    IF usage.kind = "Preemptive" THEN isolation ELSE usage.isolation

\* find_supported: a preemptive usage wants `circs` such tunnels or none.
find_open(usage) ==
    LET found == {b \in DOMAIN open_tunnels :
                    supports(open_tunnels[b].policy, open_tunnels[b].isolation, usage)}
    IN  IF usage.kind = "Preemptive" /\ Cardinality(found) < usage.circs
        THEN {} ELSE found

\* find_pending_tunnels, by the tentative assignment.
find_pending_tunnels(usage) ==
    {b \in pending_tunnels : supports(build[b].policy, build[b].tentative, usage)}

-----------------------------------------------------------------------------
(* get_or_launch.                                                           *)

Without(f, S) == [b \in DOMAIN f \ S |-> f[b]]

\* Error::is_internal_reset.  take_action's errors arrive here wrapped in a
\* RequestFailed, and prepare_action's are failures to plan: neither is one.
is_internal_reset(error) ==
    error \in {"GuardNotUsable", "CircCanceled", "LostUsabilityRace"}

\* retry_time of the errors of an attempt: with none of them, Never.
may_retry(errors) == errors \ {"NoRelay"} # {}

\* The end of an unsuccessful turn of get_or_launch's loop.
attempt_failed(r, error, errors) ==
    LET reset == is_internal_reset(error)
        failures == request[r].failures + (IF reset THEN 0 ELSE 1)
        resets == request[r].resets + (IF reset THEN 1 ELSE 0)
        blamed == request[r].blamed \/ \E e \in errors : ~is_internal_reset(e)
        again == failures < MaxFailures /\ resets < 8 /\ may_retry(errors)
    IN  /\ request' = [request EXCEPT ![r] =
              IF again THEN [NewRequest EXCEPT !.failures = failures, !.resets = resets,
                                               !.blamed = blamed]
                       ELSE [NewRequest EXCEPT !.pc = "done", !.blamed = blamed]]
        /\ answer' = [answer EXCEPT ![r] = IF again THEN None ELSE "failed"]

\* The tunnel b is restricted for r's usage, marked dirty and returned.
hand_out(r, b) ==
    /\ open_tunnels' = [open_tunnels EXCEPT ![b].isolation = restricted(@, wanted[r])]
    /\ answer' = [answer EXCEPT ![r] = "tunnel"]
    /\ request' = [request EXCEPT ![r] = [NewRequest EXCEPT !.pc = "done", !.tunnel = b]]

\* prepare_action with an open tunnel: Action::Open.
prepare_open(r) ==
    /\ request[r].pc = "choosing"
    /\ \E b \in find_open(wanted[r]) : hand_out(r, b)
    /\ UNCHANGED <<pending_tunnels, build, epoch, wanted>>

\* prepare_action with a pending tunnel: restrict it tentatively and wait.
prepare_wait(r) ==
    /\ request[r].pc = "choosing"
    /\ find_open(wanted[r]) = {}
    /\ \E b \in find_pending_tunnels(wanted[r]) :
         /\ build' = [build EXCEPT ![b].tentative = restricted(@, wanted[r])]
         /\ request' = [request EXCEPT ![r].pc = "listing", ![r].left = {b}]
    /\ UNCHANGED <<open_tunnels, pending_tunnels, answer, epoch, wanted>>

\* The plan of a launch: final_spec, which is also the tentative assignment.
Plan(policy, isolation, stage) ==
    [stage |-> stage, policy |-> policy, isolation |-> isolation,
     tentative |-> isolation, reply |-> None, epoch |-> epoch]
Unused == {b \in Builds : build[b].stage = "unused"}
PoliciesFor(r) == {p \in Policies : wanted[r].port \in p}

\* prepare_action with neither: plan up to `parallelism` launches, spawn them.
prepare_build(r) ==
    /\ request[r].pc = "choosing"
    /\ find_open(wanted[r]) = {} /\ find_pending_tunnels(wanted[r]) = {}
    /\ \E n \in 1..wanted[r].parallelism, p \in PoliciesFor(r) :
         LET plans == {b \in Unused : Cardinality({c \in Unused : c < b}) < n}
         IN  /\ Cardinality(plans) = n
             /\ pending_tunnels' = pending_tunnels \cup plans
             /\ build' = [b \in Builds |-> IF b \in plans
                            THEN Plan(p, wanted[r].isolation, "building") ELSE build[b]]
             /\ request' = [request EXCEPT ![r].pc = "listing", ![r].left = plans]
    /\ UNCHANGED <<open_tunnels, answer, epoch, wanted>>

\* No plan could be made: NoRelay is final, a guard problem may be retried.
prepare_fails(r) ==
    /\ request[r].pc = "choosing"
    /\ find_open(wanted[r]) = {} /\ find_pending_tunnels(wanted[r]) = {}
    /\ \E e \in {"NoRelay", "Guard"} : attempt_failed(r, e, {e})
    /\ UNCHANGED <<open_tunnels, pending_tunnels, build, epoch, wanted>>

\* take_action: add_pending_request, in a later acquisition of the lock.
add_pending_request(r) ==
    /\ request[r].pc = "listing"
    /\ request' = [request EXCEPT ![r].pc = "waiting"]
    /\ UNCHANGED <<open_tunnels, pending_tunnels, build, answer, epoch, wanted>>

\* The replies r's preferred stream can yield now.
Ready(r) == {b \in request[r].left : build[b].stage \in {"loyalty", "done"}}

\* A reply on the left stream: a launch r asked for is done.
left_reply(r) ==
    /\ request[r].pc = "waiting"
    /\ \E b \in Ready(r) :
         LET heard(errors) ==
               request' = [request EXCEPT ![r].left = @ \ {b}, ![r].errors = @ \cup errors]
             is_open == build[b].reply = "Ok" /\ b \in DOMAIN open_tunnels
         IN  \/ /\ is_open /\ restrict_ok(open_tunnels[b].isolation, wanted[r])
                /\ hand_out(r, b)
             \/ /\ is_open /\ ~restrict_ok(open_tunnels[b].isolation, wanted[r])
                /\ heard({"LostUsabilityRace"})
                /\ UNCHANGED <<open_tunnels, answer>>
             \/ /\ ~is_open
                /\ heard(IF build[b].reply = "Ok" THEN {} ELSE {build[b].reply})
                /\ UNCHANGED <<open_tunnels, answer>>
    /\ UNCHANGED <<pending_tunnels, build, epoch, wanted>>

\* The left stream is not ready: advice about some other tunnel.
right_reply(r) ==
    /\ request[r].pc = "waiting"
    /\ request[r].left # {} /\ Ready(r) = {} /\ request[r].right # <<>>
    /\ LET b == Head(request[r].right)
       IN  IF b \in DOMAIN open_tunnels /\ restrict_ok(open_tunnels[b].isolation, wanted[r])
           THEN hand_out(r, b)
           ELSE /\ request' = [request EXCEPT ![r].right = Tail(@)]
                /\ UNCHANGED <<open_tunnels, answer>>
    /\ UNCHANGED <<pending_tunnels, build, epoch, wanted>>

\* The left stream is exhausted: take_action fails with what it recorded.
take_action_fails(r) ==
    /\ request[r].pc = "waiting" /\ request[r].left = {}
    /\ attempt_failed(r, "RequestFailed", request[r].errors)
    /\ UNCHANGED <<open_tunnels, pending_tunnels, build, epoch, wanted>>

\* The request times out, or its caller drops it.
request_timeout(r) ==
    /\ r \in Impatient /\ request[r].pc # "done"
    /\ answer' = [answer EXCEPT ![r] = "timeout"]
    /\ request' = [request EXCEPT ![r] = [NewRequest EXCEPT !.pc = "done"]]
    /\ UNCHANGED <<open_tunnels, pending_tunnels, build, epoch, wanted>>

-----------------------------------------------------------------------------
(* spawn_launch and do_launch: the task that builds one tunnel.             *)

\* launch_by_usage for a timeout-testing circuit: the plan is made first ...
plan_testing ==
    /\ \E b \in Unused, p \in Policies :
         /\ b <= MaxTesting /\ \A c \in Unused : b <= c
         /\ build' = [build EXCEPT ![b] = Plan(p, None, "planned")]
    /\ UNCHANGED <<open_tunnels, pending_tunnels, request, answer, epoch, wanted>>

\* ... and listed as pending, and spawned, under the lock.
launch_by_usage(b) ==
    /\ build[b].stage = "planned"
    /\ build' = [build EXCEPT ![b].stage = "building", ![b].epoch = epoch]
    /\ pending_tunnels' = pending_tunnels \cup {b}
    /\ UNCHANGED <<open_tunnels, request, answer, epoch, wanted>>

\* do_launch, the build having failed.
build_fails(b) ==
    /\ build[b].stage = "building"
    /\ \E e \in BuildErrors :
         build' = [build EXCEPT ![b].stage = "replying", ![b].tentative = None, ![b].reply = e]
    /\ pending_tunnels' = pending_tunnels \ {b}
    /\ UNCHANGED <<open_tunnels, request, answer, epoch, wanted>>

\* Mutant: the tunnel is added whether or not it is still pending.
MutantBuildSucceeds(b) ==
    /\ build[b].stage = "building"
    /\ open_tunnels' = [c \in DOMAIN open_tunnels \cup {b} |->
            IF c = b THEN [policy |-> build[b].policy, isolation |-> build[b].isolation]
                     ELSE open_tunnels[c]]
    /\ build' = [build EXCEPT ![b].stage = "replying", ![b].tentative = None, ![b].reply = "Ok"]
    /\ pending_tunnels' = pending_tunnels \ {b}
    /\ UNCHANGED <<request, answer, epoch, wanted>>

\* do_launch, the build having succeeded: open if the entry is still pending.
build_succeeds(b) ==
    /\ build[b].stage = "building"
    /\ IF b \in pending_tunnels
       THEN /\ open_tunnels' = [c \in DOMAIN open_tunnels \cup {b} |->
                 IF c = b THEN [policy |-> build[b].policy,
                                isolation |-> build[b].isolation]
                          ELSE open_tunnels[c]]
            /\ build' = [build EXCEPT ![b].stage = "replying", ![b].tentative = None, ![b].reply = "Ok"]
       ELSE /\ build' = [build EXCEPT ![b].stage = "replying", ![b].tentative = None, ![b].reply = "CircCanceled"]
            /\ UNCHANGED open_tunnels
    /\ pending_tunnels' = pending_tunnels \ {b}
    /\ UNCHANGED <<request, answer, epoch, wanted>>

\* Mutant: a cancelled launch ends without telling the ones that wait for it.
MutantSendReply(b) ==
    /\ build[b].stage = "replying" /\ build[b].reply # "CircCanceled"
    /\ build' = [build EXCEPT ![b].stage = IF build[b].reply = "Ok" THEN "loyalty" ELSE "done"]
    /\ UNCHANGED <<open_tunnels, pending_tunnels, request, answer, epoch, wanted>>

\* The task tells the requests that wait for this launch.
send_reply(b) ==
    /\ build[b].stage = "replying"
    /\ build' = [build EXCEPT ![b].stage = IF build[b].reply = "Ok" THEN "loyalty" ELSE "done"]
    /\ UNCHANGED <<open_tunnels, pending_tunnels, request, answer, epoch, wanted>>

\* After request_loyalty, it tells every listed request it might suit.
notify_others(b) ==
    /\ build[b].stage = "loyalty"
    /\ build' = [build EXCEPT ![b].stage = "done"]
    /\ request' = [r \in Requests |->
         IF request[r].pc = "waiting" /\ supports(build[b].policy, build[b].isolation, wanted[r])
         THEN [request[r] EXCEPT !.right = Append(@, b)] ELSE request[r]]
    /\ UNCHANGED <<open_tunnels, pending_tunnels, answer, epoch, wanted>>

-----------------------------------------------------------------------------
(* The rest of the manager.                                                 *)

\* retire_all_tunnels: clear_all_tunnels under the lock.
retire_all_tunnels ==
    /\ epoch < MaxRetires
    /\ epoch' = epoch + 1
    /\ open_tunnels' = NoTunnels
    /\ pending_tunnels' = {}
    /\ UNCHANGED <<build, request, answer, wanted>>

\* expire_tunnel, expire_tunnels and take_tunnel: not handed out any more.  The
\* times a tunnel may stay unused or dirty are far longer than request_loyalty.
expire_tunnel(b) ==
    /\ b \in DOMAIN open_tunnels /\ build[b].stage = "done"
    /\ open_tunnels' = Without(open_tunnels, {b})
    /\ UNCHANGED <<pending_tunnels, build, request, answer, epoch, wanted>>

\* The steps of r's own task other than a timeout.
RequestStep(r) ==
    \/ prepare_open(r) \/ prepare_wait(r) \/ prepare_build(r) \/ prepare_fails(r)
    \/ add_pending_request(r)
    \/ left_reply(r) \/ right_reply(r) \/ take_action_fails(r)
\* The steps of a launch's task; builds end, for they have a timeout.
BuildStep(b) ==
    build_fails(b) \/ build_succeeds(b) \/ send_reply(b) \/ notify_others(b)

Next ==
    \/ \E r \in Requests : RequestStep(r) \/ request_timeout(r)
    \/ \E b \in Builds : BuildStep(b) \/ launch_by_usage(b) \/ expire_tunnel(b)
    \/ plan_testing
    \/ retire_all_tunnels

Spec == Init /\ [][Next]_tmvars

-----------------------------------------------------------------------------
(* Properties.                                                              *)

\* Streams that must be isolated from one another never share a tunnel, however
\* requests race for one: no two requests with different isolation are ever given
\* the same tunnel (restrict_mut in prepare_action and take_action).
NoSharedIsolation ==
    \A b \in Builds : \A r, s \in {q \in Requests : request[q].tunnel = b} :
        wanted[r].kind = "Exit" /\ wanted[s].kind = "Exit"
          => wanted[r].isolation = wanted[s].isolation

\* "Calling retire_all_tunnels ensures that any tunnel request that gets an answer
\* after this method runs will receive a tunnel that was launched after this method
\* runs": also when the launch was pending, or its reply on the way, at that time.
LaunchedAfterRetire ==
    [][\A r \in Requests : answer'[r] # answer[r] /\ answer'[r] = "tunnel"
         => build[request'[r].tunnel].epoch = epoch]_tmvars

\* Every request is answered, even if its own timeout never strikes: waiting on
\* a launch that fails, is cancelled or is lost to another request ends.
RequestsEnd == <>(\A r \in Requests : answer[r] # None)

\* The documentation of MAX_RESETS and is_internal_reset: a reset does not count as
\* a failure, so a request reports failure only if something really failed.
FailsForCause ==
    \A r \in Requests : answer[r] = "failed" => request[r].blamed
=============================================================================
