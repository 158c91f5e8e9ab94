------------------------ MODULE TunnelManagerProofs ------------------------
(***************************************************************************)
(* NoSharedIsolation and LaunchedAfterRetire of the tunnel manager, for    *)
(* any requests, usages, policies and numbers of launches.                 *)
(*                                                                         *)
(* What a tunnel was given to is not written down in the tunnel list; only *)
(* the isolation of an open tunnel is.  The inductive invariant TInv ties  *)
(* the two: an open tunnel has the isolation of every exit request that    *)
(* was given it, and a launch that was given to anyone is past its build,  *)
(* so that it is never opened again with its planned isolation.            *)
(***************************************************************************)
EXTENDS TunnelManager, TLAPS

\* The isolation of every usage, and none.
Isolations == {None} \cup {w[r].isolation : w \in Usages, r \in Requests}

\* An exit usage comes with an isolation (TargetTunnelUsage::Exit).
TunnelParameters ==
    /\ MaxBuilds \in Nat /\ MaxRetires \in Nat
    /\ \A w \in Usages : \A r \in Requests : w[r].kind = "Exit" => w[r].isolation # None

Built == {"replying", "loyalty", "done"}
Stages == {"unused", "planned", "building"} \cup Built
Replies == {None, "Ok", "CircCanceled"} \cup BuildErrors
Tunnel == [policy : Policies \cup {{}}, isolation : Isolations]
Launch == [stage : Stages, policy : Policies \cup {{}}, isolation : Isolations,
           tentative : Isolations, reply : Replies, epoch : Nat]
Request == [pc : {"choosing", "listing", "waiting", "done"}, left : SUBSET Builds,
            right : Seq(Builds), errors : SUBSET (Replies \cup {"LostUsabilityRace"}),
            failures : Nat, resets : Nat, blamed : BOOLEAN, tunnel : Builds \cup {0}]

TTypes ==
    /\ DOMAIN open_tunnels \subseteq Builds
    /\ open_tunnels \in [DOMAIN open_tunnels -> Tunnel]
    /\ pending_tunnels \subseteq Builds
    /\ build \in [Builds -> Launch]
    /\ wanted \in Usages
    /\ request \in [Requests -> Request]
    /\ answer \in [Requests -> {None, "tunnel", "failed", "timeout"}]
    /\ epoch \in Nat

\* Whatever is listed was launched since the last retire_all_tunnels.
ListedIsCurrent ==
    \A b \in DOMAIN open_tunnels \cup pending_tunnels : build[b].epoch = epoch

\* Whatever is open, or was given to a request, has been built.
GivenIsBuilt ==
    /\ \A b \in DOMAIN open_tunnels : build[b].stage \in Built
    /\ \A r \in Requests : request[r].tunnel # 0 => build[request[r].tunnel].stage \in Built

\* An open tunnel is restricted to the isolation of those that were given it.
OpenIsRestricted ==
    \A r \in Requests : wanted[r].kind = "Exit" /\ request[r].tunnel \in DOMAIN open_tunnels
        => open_tunnels[request[r].tunnel].isolation = wanted[r].isolation

TInv == TTypes /\ ListedIsCurrent /\ GivenIsBuilt /\ OpenIsRestricted /\ NoSharedIsolation

-----------------------------------------------------------------------------
(* Steps that give nothing out.                                             *)

\* Such a step opens nothing, gives nothing out and lists nothing from before.
Quiet ==
    /\ DOMAIN open_tunnels' \subseteq DOMAIN open_tunnels
    /\ open_tunnels' = [b \in DOMAIN open_tunnels' |-> open_tunnels[b]]
    /\ pending_tunnels' \subseteq Builds
    /\ build' \in [Builds -> Launch]
    /\ wanted' = wanted
    /\ request' \in [Requests -> Request]
    /\ answer' \in [Requests -> {None, "tunnel", "failed", "timeout"}]
    /\ epoch' \in Nat
    /\ \A b \in DOMAIN open_tunnels' \cup pending_tunnels' : build'[b].epoch = epoch'
    /\ \A b \in Builds : build[b].stage \in Built => build'[b].stage \in Built
    /\ \A r \in Requests : request'[r].tunnel \in {0, request[r].tunnel}
    /\ \A r \in Requests : answer'[r] = "tunnel" => answer[r] = "tunnel"

\* A quiet step keeps the invariant.
LEMMA QuietStep == ASSUME TInv, Quiet PROVE TInv'
<1>1. TTypes'
  <2>1. open_tunnels' \in [DOMAIN open_tunnels' -> Tunnel]
    <3>1. \A b \in DOMAIN open_tunnels' : open_tunnels[b] \in Tunnel
      BY DEF TInv, TTypes, Quiet
    <3>2. QED BY <3>1 DEF Quiet
  <2>2. DOMAIN open_tunnels' \subseteq Builds
    BY DEF TInv, TTypes, Quiet
  <2>3. QED BY <2>1, <2>2 DEF TInv, TTypes, Quiet
<1>2. ListedIsCurrent'
  BY DEF Quiet, ListedIsCurrent
<1>3. GivenIsBuilt'
  <2>1. \A b \in DOMAIN open_tunnels' : build'[b].stage \in Built
    BY DEF TInv, TTypes, GivenIsBuilt, Quiet
  <2>2. ASSUME NEW r \in Requests, request'[r].tunnel # 0
        PROVE  build'[request'[r].tunnel].stage \in Built
    <3>1. request'[r].tunnel = request[r].tunnel
      BY <2>2 DEF Quiet
    <3>2. request[r].tunnel \in Builds
      BY <2>2, <3>1 DEF TInv, TTypes, Request
    <3>3. build[request[r].tunnel].stage \in Built
      BY <2>2, <3>1 DEF TInv, GivenIsBuilt
    <3>4. QED BY <3>1, <3>2, <3>3 DEF Quiet
  <2>3. QED BY <2>1, <2>2 DEF GivenIsBuilt
<1>4. ASSUME NEW b \in Builds, NEW r \in Requests, request'[r].tunnel = b
      PROVE  request[r].tunnel = b
  <2>1. 0 \notin Builds
    BY DEF Builds
  <2>2. QED BY <1>4, <2>1 DEF Quiet
<1>5. OpenIsRestricted'
  <2>1. SUFFICES ASSUME NEW r \in Requests, wanted'[r].kind = "Exit",
                        request'[r].tunnel \in DOMAIN open_tunnels'
                 PROVE  open_tunnels'[request'[r].tunnel].isolation = wanted'[r].isolation
    BY DEF OpenIsRestricted
  <2>2. request'[r].tunnel \in Builds
    BY <2>1 DEF TInv, TTypes, Quiet
  <2>3. request'[r].tunnel = request[r].tunnel
    BY <1>4, <2>2
  <2>4. open_tunnels'[request'[r].tunnel] = open_tunnels[request[r].tunnel]
    BY <2>1, <2>3 DEF Quiet
  <2>5. QED BY <2>1, <2>3, <2>4 DEF TInv, OpenIsRestricted, Quiet
<1>6. NoSharedIsolation'
  BY <1>4 DEF TInv, NoSharedIsolation, Quiet
<1>7. QED BY <1>1, <1>2, <1>3, <1>5, <1>6 DEF TInv

\* A step of one request, which may restrict the plan it waits for.
LEMMA RequestChanges ==
    ASSUME TInv, NEW r \in Requests, NEW x \in Request, NEW a \in {None, "failed", "timeout", answer[r]},
           x.tunnel \in {0, request[r].tunnel}, request' = [request EXCEPT ![r] = x],
           answer' = [answer EXCEPT ![r] = a],
           UNCHANGED <<open_tunnels, pending_tunnels, build, wanted, epoch>>
    PROVE  Quiet
<1>1. request' \in [Requests -> Request]
  BY DEF TInv, TTypes
<1>2. \A q \in Requests : request'[q].tunnel \in {0, request[q].tunnel}
  BY DEF TInv, TTypes
<1>3. answer' \in [Requests -> {None, "tunnel", "failed", "timeout"}]
  BY DEF TInv, TTypes
<1>4. open_tunnels' = [b \in DOMAIN open_tunnels' |-> open_tunnels[b]]
  BY DEF TInv, TTypes
<1>5. \A q \in Requests : answer'[q] = "tunnel" => answer[q] = "tunnel"
  BY DEF TInv, TTypes, None
<1>6. QED BY <1>1, <1>2, <1>3, <1>4, <1>5 DEF TInv, TTypes, ListedIsCurrent, Quiet

\* Everything a step other than one of r's leaves alone, in the form Quiet asks for.
LEMMA RequestsStay ==
    ASSUME TInv, UNCHANGED <<request, wanted, answer>>
    PROVE  /\ wanted' = wanted
           /\ request' \in [Requests -> Request]
           /\ answer' \in [Requests -> {None, "tunnel", "failed", "timeout"}]
           /\ \A r \in Requests : request'[r].tunnel \in {0, request[r].tunnel}
           /\ \A r \in Requests : answer'[r] = "tunnel" => answer[r] = "tunnel"
BY DEF TInv, TTypes

\* A step that leaves the open tunnels alone leaves them as Quiet asks for.
LEMMA OpenStays ==
    ASSUME TInv, UNCHANGED open_tunnels
    PROVE  /\ DOMAIN open_tunnels' \subseteq DOMAIN open_tunnels
           /\ open_tunnels' = [b \in DOMAIN open_tunnels' |-> open_tunnels[b]]
BY DEF TInv, TTypes

\* What get_or_launch starts with.
LEMMA NewRequestType == NewRequest \in Request /\ NewRequest.tunnel = 0
<1>1. <<>> \in Seq(Builds)
  OBVIOUS
<1>2. NewRequest \in Request
  BY <1>1 DEF NewRequest, Request
<1>3. QED BY <1>2 DEF NewRequest

\* The isolation of a request's usage is one.
LEMMA IsolationOf ==
    ASSUME TInv, NEW r \in Requests
    PROVE  wanted[r].isolation \in Isolations
BY DEF TInv, TTypes, Isolations

\* Restricting leaves an isolation.
LEMMA RestrictedIsolation ==
    ASSUME TInv, NEW r \in Requests, NEW i \in Isolations
    PROVE  restricted(i, wanted[r]) \in Isolations
BY IsolationOf DEF restricted

-----------------------------------------------------------------------------
(* Giving a tunnel out, and opening one.                                    *)

\* What every way to give out a tunnel has in common: prepare_action and both
\* streams of take_action look at the list, and restrict, under the lock.
GivesOut(r, b) ==
    /\ b \in DOMAIN open_tunnels
    /\ restrict_ok(open_tunnels[b].isolation, wanted[r])
    /\ hand_out(r, b)
    /\ UNCHANGED <<pending_tunnels, build, epoch, wanted>>

\* An open tunnel may be restricted for a request only if everyone it was given to
\* before has the same isolation: the request keeps the invariant.
LEMMA GivesOutStep ==
    ASSUME TunnelParameters, TInv, NEW r \in Requests, NEW b, GivesOut(r, b)
    PROVE  TInv'
<1> DEFINE old == open_tunnels[b].isolation
           new == restricted(old, wanted[r])
<1>1. b \in Builds /\ open_tunnels[b] \in Tunnel /\ old \in Isolations
  BY DEF TInv, TTypes, GivesOut, Tunnel
<1>2. new \in Isolations
  BY <1>1, RestrictedIsolation
<1>3. /\ DOMAIN open_tunnels' = DOMAIN open_tunnels
      /\ open_tunnels' \in [DOMAIN open_tunnels -> Tunnel]
      /\ open_tunnels'[b].isolation = new
      /\ \A c \in DOMAIN open_tunnels : c # b => open_tunnels'[c] = open_tunnels[c]
  <2> HIDE DEF new
  <2>1. open_tunnels' = [open_tunnels EXCEPT ![b].isolation = new]
    BY DEF GivesOut, hand_out, new
  <2>2. QED BY <1>1, <1>2, <2>1 DEF TInv, TTypes, GivesOut, Tunnel
<1>4. /\ request' \in [Requests -> Request]
      /\ request'[r].tunnel = b
      /\ \A q \in Requests : q # r => request'[q] = request[q]
  <2> DEFINE x == [NewRequest EXCEPT !.pc = "done", !.tunnel = b]
  <2>1. x \in Request /\ x.tunnel = b
    BY <1>1, NewRequestType, Zenon DEF Request
  <2>2. request' = [request EXCEPT ![r] = x]
    BY DEF GivesOut, hand_out
  <2> HIDE DEF x
  <2>3. QED BY <2>1, <2>2 DEF TInv, TTypes
<1>5. answer' \in [Requests -> {None, "tunnel", "failed", "timeout"}]
  BY DEF TInv, TTypes, GivesOut, hand_out
<1>6. TTypes'
  BY <1>3, <1>4, <1>5 DEF TInv, TTypes, GivesOut
<1>7. ListedIsCurrent'
  BY <1>3 DEF TInv, ListedIsCurrent, GivesOut
<1>8. GivenIsBuilt'
  <2>1. build[b].stage \in Built
    BY DEF TInv, GivenIsBuilt, GivesOut
  <2>2. ASSUME NEW q \in Requests, request'[q].tunnel # 0
        PROVE  build[request'[q].tunnel].stage \in Built
    <3>1. CASE q = r
      BY <1>4, <2>1, <3>1
    <3>2. CASE q # r
      BY <1>4, <2>2, <3>2 DEF TInv, GivenIsBuilt
    <3>3. QED BY <3>1, <3>2
  <2>3. QED BY <1>3, <2>2 DEF TInv, GivenIsBuilt, GivesOut
<1>9. ASSUME NEW q \in Requests, q # r, request[q].tunnel = b, wanted[q].kind = "Exit"
      PROVE  old = wanted[q].isolation /\ new = wanted[q].isolation
             /\ (wanted[r].kind = "Exit" => wanted[r].isolation = wanted[q].isolation)
  <2>1. old = wanted[q].isolation
    BY <1>9 DEF TInv, OpenIsRestricted, GivesOut
  <2>2. old # None
    BY <1>9, <2>1 DEF TInv, TTypes, TunnelParameters
  <2>3. wanted[r].kind = "Preemptive" \/ old = wanted[r].isolation
    BY <2>2 DEF GivesOut, restrict_ok
  <2>4. QED BY <2>1, <2>3 DEF restricted
<1>10. wanted[r].kind = "Exit" => new = wanted[r].isolation
  BY DEF restricted
<1>11. OpenIsRestricted'
  <2>1. SUFFICES ASSUME NEW q \in Requests, wanted[q].kind = "Exit",
                        request'[q].tunnel \in DOMAIN open_tunnels
                 PROVE  open_tunnels'[request'[q].tunnel].isolation = wanted[q].isolation
    BY <1>3 DEF OpenIsRestricted, GivesOut
  <2>2. CASE q = r
    BY <1>3, <1>4, <1>10, <2>1, <2>2
  <2>3. CASE q # r /\ request[q].tunnel = b
    BY <1>3, <1>4, <1>9, <2>1, <2>3
  <2>4. CASE q # r /\ request[q].tunnel # b
    BY <1>3, <1>4, <2>1, <2>4 DEF TInv, OpenIsRestricted
  <2>5. QED BY <2>2, <2>3, <2>4
<1>12. NoSharedIsolation'
  <2>1. SUFFICES ASSUME NEW c \in Builds, NEW q \in Requests, NEW s \in Requests,
                        request'[q].tunnel = c, request'[s].tunnel = c,
                        wanted[q].kind = "Exit", wanted[s].kind = "Exit"
                 PROVE  wanted[q].isolation = wanted[s].isolation
    BY DEF NoSharedIsolation, GivesOut
  <2>2. CASE q = r /\ s # r
    BY <1>4, <1>9, <2>1, <2>2
  <2>3. CASE q # r /\ s = r
    BY <1>4, <1>9, <2>1, <2>3
  <2>4. CASE q # r /\ s # r
    <3>1. request[q].tunnel = c /\ request[s].tunnel = c
      BY <1>4, <2>1, <2>4
    <3>2. QED BY <2>1, <3>1 DEF TInv, NoSharedIsolation
  <2>5. QED BY <2>2, <2>3, <2>4
<1>13. QED BY <1>6, <1>7, <1>8, <1>11, <1>12 DEF TInv

\* A tunnel is opened at the end of its build, so nobody was given it before.
LEMMA BuildSucceedsStep ==
    ASSUME TInv, NEW b \in Builds, build_succeeds(b)
    PROVE  TInv'
<1>1. /\ UNCHANGED <<request, answer, epoch, wanted>>
      /\ pending_tunnels' = pending_tunnels \ {b}
      /\ build[b].stage = "building"
  BY DEF build_succeeds
<1>2. ASSUME NEW reply \in Replies,
             build' = [build EXCEPT ![b].stage = "replying", ![b].tentative = None, ![b].reply = reply]
      PROVE  /\ build' \in [Builds -> Launch]
             /\ \A c \in Builds : build'[c].epoch = build[c].epoch
             /\ \A c \in Builds : build[c].stage \in Built => build'[c].stage \in Built
             /\ build'[b].stage \in Built
  <2>1. build \in [Builds -> Launch] /\ build[b] \in Launch
    BY DEF TInv, TTypes
  <2>2. None \in Isolations
    BY DEF Isolations
  <2>3. [build[b] EXCEPT !.stage = "replying", !.tentative = None, !.reply = reply] \in Launch
    BY <1>2, <2>1, <2>2, Zenon DEF Launch, Stages, Built
  <2>4. build' = [build EXCEPT ![b] = [build[b] EXCEPT !.stage = "replying", !.tentative = None,
                                                      !.reply = reply]]
    BY <1>2, <2>1, Zenon
  <2>5. build'[b].stage = "replying" /\ build'[b].epoch = build[b].epoch
    BY <2>1, <2>4 DEF Launch
  <2>6. \A c \in Builds : c # b => build'[c] = build[c]
    BY <2>1, <2>4
  <2>7. QED BY <2>1, <2>3, <2>4, <2>5, <2>6 DEF Built
<1>3. CASE b \notin pending_tunnels
  <2>1. /\ build' = [build EXCEPT ![b].stage = "replying", ![b].tentative = None,
                                  ![b].reply = "CircCanceled"]
        /\ UNCHANGED open_tunnels
    BY <1>3 DEF build_succeeds
  <2>2. "CircCanceled" \in Replies
    BY DEF Replies
  <2>3. /\ build' \in [Builds -> Launch]
        /\ \A c \in Builds : build'[c].epoch = build[c].epoch
        /\ \A c \in Builds : build[c].stage \in Built => build'[c].stage \in Built
    BY <1>2, <2>1, <2>2, Zenon
  <2>4. \A c \in DOMAIN open_tunnels' \cup pending_tunnels' : build'[c].epoch = epoch'
    BY <1>1, <2>1, <2>3 DEF TInv, TTypes, ListedIsCurrent
  <2>5. Quiet
    BY <1>1, <2>1, <2>3, <2>4, RequestsStay, OpenStays DEF TInv, TTypes, Quiet
  <2>6. QED BY <2>5, QuietStep
<1>4. CASE b \in pending_tunnels
  <2> DEFINE t == [policy |-> build[b].policy, isolation |-> build[b].isolation]
  <2>1. /\ open_tunnels' = [c \in DOMAIN open_tunnels \cup {b} |->
                              IF c = b THEN t ELSE open_tunnels[c]]
        /\ build' = [build EXCEPT ![b].stage = "replying", ![b].tentative = None, ![b].reply = "Ok"]
    BY <1>4 DEF build_succeeds
  <2>2. t \in Tunnel
    BY DEF TInv, TTypes, Launch, Tunnel
  <2> HIDE DEF t
  <2>3. "Ok" \in Replies
    BY DEF Replies
  <2>4. /\ build' \in [Builds -> Launch]
        /\ \A c \in Builds : build'[c].epoch = build[c].epoch
        /\ \A c \in Builds : build[c].stage \in Built => build'[c].stage \in Built
        /\ build'[b].stage \in Built
    BY <1>2, <2>1, <2>3, Zenon
  <2>5. DOMAIN open_tunnels' = DOMAIN open_tunnels \cup {b}
    BY <2>1
  <2>6. open_tunnels' \in [DOMAIN open_tunnels' -> Tunnel]
    BY <2>1, <2>2 DEF TInv, TTypes
  <2>7. TTypes'
    BY <1>1, <2>4, <2>5, <2>6 DEF TInv, TTypes
  <2>8. ListedIsCurrent'
    BY <1>1, <1>4, <2>4, <2>5 DEF TInv, TTypes, ListedIsCurrent
  <2>9. \A r \in Requests : request[r].tunnel # b
    <3>1. build[b].stage \notin Built /\ b # 0
      BY <1>1 DEF Built, Builds
    <3>2. QED BY <3>1 DEF TInv, GivenIsBuilt
  <2>10. GivenIsBuilt'
    <3>1. \A c \in DOMAIN open_tunnels' : build'[c].stage \in Built
      BY <2>4, <2>5 DEF TInv, TTypes, GivenIsBuilt
    <3>2. ASSUME NEW r \in Requests, request[r].tunnel # 0
          PROVE  build'[request[r].tunnel].stage \in Built
      <4>1. request[r].tunnel \in Builds
        BY <3>2 DEF TInv, TTypes, Request
      <4>2. QED BY <2>4, <3>2, <4>1 DEF TInv, GivenIsBuilt
    <3>3. QED BY <1>1, <3>1, <3>2 DEF GivenIsBuilt
  <2>11. OpenIsRestricted'
    <3>1. SUFFICES ASSUME NEW r \in Requests, wanted[r].kind = "Exit",
                          request[r].tunnel \in DOMAIN open_tunnels'
                   PROVE  open_tunnels'[request[r].tunnel].isolation = wanted[r].isolation
      BY <1>1 DEF OpenIsRestricted
    <3>2. request[r].tunnel \in DOMAIN open_tunnels /\ request[r].tunnel # b
      BY <2>5, <2>9, <3>1
    <3>3. open_tunnels'[request[r].tunnel] = open_tunnels[request[r].tunnel]
      BY <2>1, <3>2
    <3>4. QED BY <3>1, <3>2, <3>3 DEF TInv, OpenIsRestricted
  <2>12. NoSharedIsolation'
    BY <1>1 DEF TInv, NoSharedIsolation
  <2>13. QED BY <2>7, <2>8, <2>10, <2>11, <2>12 DEF TInv
<1>5. QED BY <1>3, <1>4

-----------------------------------------------------------------------------
(* The steps of get_or_launch.                                              *)

\* The end of an unsuccessful turn of the loop.
LEMMA AttemptFailedStep ==
    ASSUME TInv, NEW r \in Requests, NEW error, NEW errors, attempt_failed(r, error, errors),
           UNCHANGED <<open_tunnels, pending_tunnels, build, epoch, wanted>>
    PROVE  Quiet
<1> DEFINE reset == is_internal_reset(error)
           f == request[r].failures + (IF reset THEN 0 ELSE 1)
           g == request[r].resets + (IF reset THEN 1 ELSE 0)
           m == request[r].blamed \/ \E e \in errors : ~is_internal_reset(e)
           again == f < MaxFailures /\ g < 8 /\ may_retry(errors)
           x == IF again THEN [NewRequest EXCEPT !.failures = f, !.resets = g, !.blamed = m]
                         ELSE [NewRequest EXCEPT !.pc = "done", !.blamed = m]
           a == IF again THEN None ELSE "failed"
<1>1. request' = [request EXCEPT ![r] = x] /\ answer' = [answer EXCEPT ![r] = a]
  BY DEF attempt_failed
<1>2. f \in Nat /\ g \in Nat
  BY DEF TInv, TTypes, Request
<1>3. m \in BOOLEAN
  BY Zenon
<1> HIDE DEF f, g, m
<1>4. x \in Request /\ x.tunnel = 0
  <2>1. [NewRequest EXCEPT !.failures = f, !.resets = g, !.blamed = m] \in Request
        /\ [NewRequest EXCEPT !.failures = f, !.resets = g, !.blamed = m].tunnel = 0
    BY <1>2, <1>3, NewRequestType, Zenon DEF Request
  <2>2. [NewRequest EXCEPT !.pc = "done", !.blamed = m] \in Request
        /\ [NewRequest EXCEPT !.pc = "done", !.blamed = m].tunnel = 0
    BY <1>3, NewRequestType, Zenon DEF Request
  <2>3. QED BY <2>1, <2>2
<1>5. a \in {None, "failed", "timeout", answer[r]}
  OBVIOUS
<1> HIDE DEF x, a
<1>6. QED BY <1>1, <1>4, <1>5, RequestChanges, Zenon

\* What a request hears, and notes, changes neither its tunnel nor its answer.
LEMMA RequestNotes ==
    ASSUME TInv, NEW r \in Requests, NEW x \in Request, x.tunnel = request[r].tunnel,
           request' = [request EXCEPT ![r] = x],
           UNCHANGED <<open_tunnels, pending_tunnels, build, wanted, epoch, answer>>
    PROVE  Quiet
<1>1. answer' = [answer EXCEPT ![r] = answer[r]]
  BY DEF TInv, TTypes
<1>2. QED BY <1>1, RequestChanges, Zenon

\* prepare_action, with an open tunnel.
LEMMA PrepareOpenStep ==
    ASSUME TInv, NEW r \in Requests, prepare_open(r)
    PROVE  \E b : GivesOut(r, b)
<1>1. PICK b \in find_open(wanted[r]) : hand_out(r, b)
  BY DEF prepare_open
<1>2. b \in DOMAIN open_tunnels
      /\ supports(open_tunnels[b].policy, open_tunnels[b].isolation, wanted[r])
  BY <1>1 DEF find_open
<1>3. restrict_ok(open_tunnels[b].isolation, wanted[r])
  BY <1>2 DEF supports, restrict_ok
<1>4. QED BY <1>1, <1>2, <1>3 DEF GivesOut, prepare_open

\* The request will wait for the launches S.
LEMMA StartsListing ==
    ASSUME TInv, NEW r \in Requests, NEW S, S \subseteq Builds,
           request' = [request EXCEPT ![r].pc = "listing", ![r].left = S]
    PROVE  /\ request' \in [Requests -> Request]
           /\ \A q \in Requests : request'[q].tunnel = request[q].tunnel
<1> DEFINE x == [request[r] EXCEPT !.pc = "listing", !.left = S]
<1>1. x \in Request /\ x.tunnel = request[r].tunnel
  <2>1. request[r] \in Request
    BY DEF TInv, TTypes
  <2>2. QED BY <2>1, Zenon DEF Request
<1>2. request' = [request EXCEPT ![r] = x]
  BY Zenon DEF TInv, TTypes
<1> HIDE DEF x
<1>3. QED BY <1>1, <1>2, ZenonT(30) DEF TInv, TTypes

\* prepare_action, with a pending tunnel.
LEMMA PrepareWaitStep ==
    ASSUME TInv, NEW r \in Requests, prepare_wait(r)
    PROVE  Quiet
<1>1. PICK b \in find_pending_tunnels(wanted[r]) :
         /\ build' = [build EXCEPT ![b].tentative = restricted(@, wanted[r])]
         /\ request' = [request EXCEPT ![r].pc = "listing", ![r].left = {b}]
  BY Zenon DEF prepare_wait
<1>2. UNCHANGED <<open_tunnels, pending_tunnels, answer, epoch, wanted>>
  BY DEF prepare_wait
<1>3. b \in Builds /\ build[b] \in Launch /\ build[b].tentative \in Isolations
  BY <1>1 DEF find_pending_tunnels, TInv, TTypes, Launch
<1> DEFINE i == restricted(build[b].tentative, wanted[r])
<1>4. i \in Isolations
  BY <1>3, RestrictedIsolation
<1>5. build' = [build EXCEPT ![b].tentative = i]
  BY <1>1
<1> HIDE DEF i
<1>6. /\ build' \in [Builds -> Launch]
      /\ \A c \in Builds : build'[c].epoch = build[c].epoch /\ build'[c].stage = build[c].stage
  BY <1>3, <1>4, <1>5 DEF TInv, TTypes, Launch
<1>7. /\ request' \in [Requests -> Request]
      /\ \A q \in Requests : request'[q].tunnel = request[q].tunnel
  <2> DEFINE S == {b}
  <2>1. S \subseteq Builds /\ request' = [request EXCEPT ![r].pc = "listing", ![r].left = S]
    BY <1>1, <1>3
  <2> HIDE DEF S
  <2>2. QED BY <2>1, StartsListing, Zenon
<1>8. \A c \in DOMAIN open_tunnels' \cup pending_tunnels' : build'[c].epoch = epoch'
  BY <1>2, <1>6 DEF TInv, TTypes, ListedIsCurrent
<1>9. QED BY <1>2, <1>6, <1>7, <1>8, OpenStays DEF TInv, TTypes, Quiet

\* prepare_action, with neither: only launches that were not used yet are planned.
LEMMA PrepareBuildStep ==
    ASSUME TInv, NEW r \in Requests, prepare_build(r)
    PROVE  Quiet
<1>1. PICK n \in 1..wanted[r].parallelism, p \in PoliciesFor(r) :
         LET plans == {b \in Unused : Cardinality({c \in Unused : c < b}) < n}
         IN  /\ Cardinality(plans) = n
             /\ pending_tunnels' = pending_tunnels \cup plans
             /\ build' = [b \in Builds |-> IF b \in plans
                            THEN Plan(p, wanted[r].isolation, "building") ELSE build[b]]
             /\ request' = [request EXCEPT ![r].pc = "listing", ![r].left = plans]
  BY Zenon DEF prepare_build
<1> DEFINE plans == {b \in Unused : Cardinality({c \in Unused : c < b}) < n}
           plan == Plan(p, wanted[r].isolation, "building")
<1>2. /\ pending_tunnels' = pending_tunnels \cup plans
      /\ build' = [b \in Builds |-> IF b \in plans THEN plan ELSE build[b]]
      /\ request' = [request EXCEPT ![r].pc = "listing", ![r].left = plans]
      /\ UNCHANGED <<open_tunnels, answer, epoch, wanted>>
  BY <1>1, Zenon DEF prepare_build
<1>3. plans \subseteq Builds /\ \A b \in plans : build[b].stage = "unused"
  BY DEF Unused
<1>4. plan \in Launch /\ plan.epoch = epoch
  <2>1. p \in Policies
    BY DEF PoliciesFor
  <2>2. QED BY <2>1, IsolationOf DEF Plan, Launch, Stages, Replies, TInv, TTypes
<1> HIDE DEF plans, plan
<1>5. build' \in [Builds -> Launch]
  BY <1>2, <1>4 DEF TInv, TTypes
<1>6. \A b \in Builds : build[b].stage \in Built => build'[b].stage \in Built
  BY <1>2, <1>3 DEF Built
<1>7. \A b \in DOMAIN open_tunnels' \cup pending_tunnels' : build'[b].epoch = epoch'
  BY <1>2, <1>3, <1>4 DEF TInv, TTypes, ListedIsCurrent
<1>8. /\ request' \in [Requests -> Request]
      /\ \A q \in Requests : request'[q].tunnel = request[q].tunnel
  BY <1>2, <1>3, StartsListing, Zenon
<1>9. QED BY <1>2, <1>3, <1>5, <1>6, <1>7, <1>8, OpenStays, Zenon DEF TInv, TTypes, Quiet

\* prepare_action fails.
LEMMA PrepareFailsStep ==
    ASSUME TInv, NEW r \in Requests, prepare_fails(r)
    PROVE  Quiet
<1>1. PICK e \in {"NoRelay", "Guard"} : attempt_failed(r, e, {e})
  BY DEF prepare_fails
<1>2. QED BY <1>1, AttemptFailedStep DEF prepare_fails

\* add_pending_request.
LEMMA AddPendingStep ==
    ASSUME TInv, NEW r \in Requests, add_pending_request(r)
    PROVE  Quiet
<1> DEFINE x == [request[r] EXCEPT !.pc = "waiting"]
<1>1. x \in Request /\ x.tunnel = request[r].tunnel
  BY ZenonT(30) DEF TInv, TTypes, Request
<1>2. request' = [request EXCEPT ![r] = x]
  BY DEF TInv, TTypes, add_pending_request
<1> HIDE DEF x
<1>3. QED BY <1>1, <1>2, RequestNotes, Zenon DEF add_pending_request

\* The left stream of take_action.
LEMMA LeftReplyStep ==
    ASSUME TInv, NEW r \in Requests, left_reply(r)
    PROVE  Quiet \/ \E b : GivesOut(r, b)
<1> DEFINE Heard(b, errors) ==
             request' = [request EXCEPT ![r].left = @ \ {b}, ![r].errors = @ \cup errors]
           IsOpen(b) == build[b].reply = "Ok" /\ b \in DOMAIN open_tunnels
<1>1. PICK b \in Ready(r) :
         \/ IsOpen(b) /\ restrict_ok(open_tunnels[b].isolation, wanted[r]) /\ hand_out(r, b)
         \/ Heard(b, {"LostUsabilityRace"}) /\ UNCHANGED <<open_tunnels, answer>>
         \/ /\ Heard(b, IF build[b].reply = "Ok" THEN {} ELSE {build[b].reply})
            /\ UNCHANGED <<open_tunnels, answer>>
  BY Zenon DEF left_reply
<1>2. UNCHANGED <<pending_tunnels, build, epoch, wanted>>
  BY DEF left_reply
<1>3. b \in Builds /\ build[b].reply \in Replies
  BY DEF Ready, TInv, TTypes, Request, Launch
<1>4. ASSUME NEW E, E \subseteq Replies \cup {"LostUsabilityRace"}, Heard(b, E),
             UNCHANGED <<open_tunnels, answer>>
      PROVE  Quiet
  <2> DEFINE x == [request[r] EXCEPT !.left = @ \ {b}, !.errors = @ \cup E]
  <2>1. x \in Request /\ x.tunnel = request[r].tunnel
    <3>1. request[r] \in Request
      BY DEF TInv, TTypes
    <3>2. QED BY <1>4, <3>1, Zenon DEF Request
  <2>2. request' = [request EXCEPT ![r] = x]
    BY <1>4, Zenon DEF TInv, TTypes
  <2> HIDE DEF x
  <2>3. QED BY <1>2, <1>4, <2>1, <2>2, RequestNotes, Zenon
<1>5. CASE IsOpen(b) /\ restrict_ok(open_tunnels[b].isolation, wanted[r]) /\ hand_out(r, b)
  BY <1>2, <1>5 DEF GivesOut
<1>6. CASE Heard(b, {"LostUsabilityRace"}) /\ UNCHANGED <<open_tunnels, answer>>
  BY <1>4, <1>6, Zenon
<1>7. CASE Heard(b, IF build[b].reply = "Ok" THEN {} ELSE {build[b].reply})
           /\ UNCHANGED <<open_tunnels, answer>>
  <2> DEFINE E == IF build[b].reply = "Ok" THEN {} ELSE {build[b].reply}
  <2>1. E \subseteq Replies \cup {"LostUsabilityRace"}
    BY <1>3
  <2>2. Heard(b, E) /\ UNCHANGED <<open_tunnels, answer>>
    BY <1>7
  <2> HIDE DEF E, Heard
  <2>3. QED BY <1>4, <2>1, <2>2
<1>8. QED BY <1>1, <1>5, <1>6, <1>7, SMTT(30)

\* The right stream of take_action.
LEMMA RightReplyStep ==
    ASSUME TInv, NEW r \in Requests, right_reply(r)
    PROVE  Quiet \/ \E b : GivesOut(r, b)
<1> DEFINE b == Head(request[r].right)
           ok == b \in DOMAIN open_tunnels /\ restrict_ok(open_tunnels[b].isolation, wanted[r])
<1>1. CASE ok
  <2>1. hand_out(r, b) /\ UNCHANGED <<pending_tunnels, build, epoch, wanted>>
    BY <1>1 DEF right_reply
  <2>2. QED BY <1>1, <2>1 DEF GivesOut
<1>2. CASE ~ok
  <2> DEFINE x == [request[r] EXCEPT !.right = Tail(@)]
  <2>1. /\ request' = [request EXCEPT ![r].right = Tail(@)]
        /\ UNCHANGED <<open_tunnels, answer, pending_tunnels, build, epoch, wanted>>
    BY <1>2 DEF right_reply
  <2>2. x \in Request /\ x.tunnel = request[r].tunnel
    <3>1. request[r] \in Request /\ request[r].right # <<>>
      BY DEF TInv, TTypes, right_reply
    <3>2. Tail(request[r].right) \in Seq(Builds)
      BY <3>1 DEF Request
    <3>3. QED BY <3>1, <3>2, Zenon DEF Request
  <2>3. request' = [request EXCEPT ![r] = x]
    BY <2>1 DEF TInv, TTypes
  <2> HIDE DEF x
  <2>4. QED BY <2>1, <2>2, <2>3, RequestNotes, Zenon
<1>3. QED BY <1>1, <1>2

\* take_action fails, or the caller gives up.
LEMMA RequestEndsStep ==
    ASSUME TInv, NEW r \in Requests, take_action_fails(r) \/ request_timeout(r)
    PROVE  Quiet
<1>1. CASE take_action_fails(r)
  BY <1>1, AttemptFailedStep DEF take_action_fails
<1>2. CASE request_timeout(r)
  <2> DEFINE x == [NewRequest EXCEPT !.pc = "done"]
             a == "timeout"
  <2>1. x \in Request /\ x.tunnel = 0
    BY NewRequestType DEF Request
  <2>2. /\ request' = [request EXCEPT ![r] = x] /\ answer' = [answer EXCEPT ![r] = a]
        /\ a \in {None, "failed", "timeout", answer[r]}
        /\ UNCHANGED <<open_tunnels, pending_tunnels, build, epoch, wanted>>
    BY <1>2 DEF request_timeout
  <2> HIDE DEF x, a
  <2>3. QED BY <2>1, <2>2, RequestChanges, Zenon
<1>3. QED BY <1>1, <1>2

-----------------------------------------------------------------------------
(* The steps of launches, and the rest of the manager.                      *)

\* A launch goes on: a step that changes one launch, not back from built, and
\* lists it only if it is of the current epoch.
LEMMA LaunchChanges ==
    ASSUME TInv, NEW b \in Builds, NEW x \in Launch, build' = [build EXCEPT ![b] = x],
           build[b].stage \in Built => x.stage \in Built,
           x.epoch \in {build[b].epoch, epoch},
           \/ pending_tunnels' \subseteq pending_tunnels
           \/ pending_tunnels' = pending_tunnels \cup {b} /\ x.epoch = epoch,
           UNCHANGED <<open_tunnels, request, answer, epoch, wanted>>
    PROVE  Quiet
<1>1. /\ build' \in [Builds -> Launch] /\ build'[b] = x
      /\ \A c \in Builds : c # b => build'[c] = build[c]
  BY DEF TInv, TTypes
<1>2. pending_tunnels' \subseteq Builds
  BY DEF TInv, TTypes
<1>3. \A c \in Builds : build[c].stage \in Built => build'[c].stage \in Built
  BY <1>1
<1>4. ASSUME NEW c \in DOMAIN open_tunnels' \cup pending_tunnels'
      PROVE  build'[c].epoch = epoch'
  <2>1. c \in Builds
    BY <1>2 DEF TInv, TTypes
  <2>2. CASE c \in DOMAIN open_tunnels \cup pending_tunnels
    <3>1. build[c].epoch = epoch
      BY <2>2 DEF TInv, ListedIsCurrent
    <3>2. QED BY <1>1, <2>1, <3>1
  <2>3. CASE c \notin DOMAIN open_tunnels \cup pending_tunnels
    <3>1. c = b /\ x.epoch = epoch
      BY <1>4, <2>3
    <3>2. QED BY <1>1, <3>1
  <2>4. QED BY <2>2, <2>3
<1>5. QED BY <1>1, <1>2, <1>3, <1>4, RequestsStay, OpenStays DEF TInv, TTypes, Quiet

\* A timeout-testing launch is planned.
LEMMA PlanTestingStep ==
    ASSUME TInv, plan_testing
    PROVE  Quiet
<1>1. PICK b \in Unused, p \in Policies : build' = [build EXCEPT ![b] = Plan(p, None, "planned")]
  BY Zenon DEF plan_testing
<1> DEFINE x == Plan(p, None, "planned")
<1>2. b \in Builds /\ build[b].stage = "unused"
  BY DEF Unused
<1>3. x \in Launch /\ x.epoch = epoch
  BY DEF Plan, Launch, Stages, Replies, Isolations, TInv, TTypes
<1>4. build' = [build EXCEPT ![b] = x]
  BY <1>1
<1> HIDE DEF x
<1>5. build[b].stage \notin Built
  BY <1>2 DEF Built
<1>6. QED BY <1>2, <1>3, <1>4, <1>5, LaunchChanges, Zenon DEF plan_testing

\* It is listed and spawned.
LEMMA LaunchByUsageStep ==
    ASSUME TInv, NEW b \in Builds, launch_by_usage(b)
    PROVE  Quiet
<1> DEFINE x == [build[b] EXCEPT !.stage = "building", !.epoch = epoch]
<1>1. build[b] \in Launch /\ build[b].stage = "planned" /\ epoch \in Nat
  BY DEF TInv, TTypes, launch_by_usage
<1>2. x \in Launch /\ x.epoch = epoch
  BY <1>1, Zenon DEF Launch, Stages
<1>3. build' = [build EXCEPT ![b] = x]
  BY Zenon DEF TInv, TTypes, launch_by_usage
<1> HIDE DEF x
<1>4. build[b].stage \notin Built
  BY <1>1 DEF Built
<1>5. QED BY <1>2, <1>3, <1>4, LaunchChanges, Zenon DEF launch_by_usage

\* Its build fails.
LEMMA BuildFailsStep ==
    ASSUME TInv, NEW b \in Builds, build_fails(b)
    PROVE  Quiet
<1>1. PICK e \in BuildErrors :
         build' = [build EXCEPT ![b].stage = "replying", ![b].tentative = None, ![b].reply = e]
  BY Zenon DEF build_fails
<1> DEFINE x == [build[b] EXCEPT !.stage = "replying", !.tentative = None, !.reply = e]
<1>2. build[b] \in Launch /\ None \in Isolations /\ e \in Replies
  BY DEF TInv, TTypes, Isolations, Replies
<1>3. x \in Launch /\ x.epoch = build[b].epoch /\ x.stage = "replying"
  BY <1>2, Zenon DEF Launch, Stages, Built
<1>4. build' = [build EXCEPT ![b] = x]
  BY <1>1, Zenon DEF TInv, TTypes
<1> HIDE DEF x
<1>5. x.stage \in Built
  BY <1>3 DEF Built
<1>6. QED BY <1>3, <1>4, <1>5, LaunchChanges, Zenon DEF build_fails

\* The requests that wait for it are told.
LEMMA SendReplyStep ==
    ASSUME TInv, NEW b \in Builds, send_reply(b)
    PROVE  Quiet
<1> DEFINE s == IF build[b].reply = "Ok" THEN "loyalty" ELSE "done"
           x == [build[b] EXCEPT !.stage = s]
<1>1. build[b] \in Launch /\ s \in Built
  BY DEF TInv, TTypes, Built
<1>2. build' = [build EXCEPT ![b] = x]
  BY DEF TInv, TTypes, send_reply
<1> HIDE DEF s
<1>3. x \in Launch /\ x.epoch = build[b].epoch /\ x.stage = s
  BY <1>1 DEF Launch, Stages
<1> HIDE DEF x
<1>4. QED BY <1>1, <1>2, <1>3, LaunchChanges, Zenon DEF send_reply

\* The others are told.
LEMMA NotifyOthersStep ==
    ASSUME TInv, NEW b \in Builds, notify_others(b)
    PROVE  Quiet
<1> DEFINE x == [build[b] EXCEPT !.stage = "done"]
           Told(q) == [q EXCEPT !.right = Append(@, b)]
           hears(r) == request[r].pc = "waiting" /\ supports(build[b].policy, build[b].isolation, wanted[r])
<1>1. x \in Launch /\ x.epoch = build[b].epoch /\ x.stage = "done"
  <2>1. build[b] \in Launch
    BY DEF TInv, TTypes
  <2>2. QED BY <2>1 DEF Launch, Stages, Built
<1>2. build' = [build EXCEPT ![b] = x]
  BY DEF TInv, TTypes, notify_others
<1>3. request' = [r \in Requests |-> IF hears(r) THEN Told(request[r]) ELSE request[r]]
  BY DEF notify_others
<1>4. ASSUME NEW q \in Request PROVE Told(q) \in Request /\ Told(q).tunnel = q.tunnel
  <2>1. Append(q.right, b) \in Seq(Builds)
    BY <1>4 DEF Request
  <2>2. QED BY <1>4, <2>1, Zenon DEF Request
<1> HIDE DEF x, Told, hears
<1>5. /\ request' \in [Requests -> Request]
      /\ \A r \in Requests : request'[r].tunnel = request[r].tunnel
  BY <1>3, <1>4 DEF TInv, TTypes
<1>6. UNCHANGED <<open_tunnels, pending_tunnels, answer, epoch, wanted>>
  BY DEF notify_others
<1>7. /\ build' \in [Builds -> Launch]
      /\ \A c \in Builds : build'[c].epoch = build[c].epoch
      /\ \A c \in Builds : build[c].stage \in Built => build'[c].stage \in Built
  <2>1. x.stage \in Built
    BY <1>1 DEF Built
  <2>2. QED BY <1>1, <1>2, <2>1 DEF TInv, TTypes
<1>8. \A c \in DOMAIN open_tunnels' \cup pending_tunnels' : build'[c].epoch = epoch'
  BY <1>6, <1>7 DEF TInv, TTypes, ListedIsCurrent
<1>9. QED BY <1>5, <1>6, <1>7, <1>8, OpenStays DEF TInv, TTypes, Quiet

\* Tunnels leave the list.
LEMMA RemovalStep ==
    ASSUME TInv, retire_all_tunnels \/ \E b \in Builds : expire_tunnel(b)
    PROVE  Quiet
<1>1. CASE retire_all_tunnels
  <2>1. /\ open_tunnels' = NoTunnels /\ pending_tunnels' = {} /\ epoch' = epoch + 1
        /\ UNCHANGED <<build, request, answer, wanted>>
    BY <1>1 DEF retire_all_tunnels
  <2>2. /\ DOMAIN open_tunnels' = {}
        /\ open_tunnels' = [b \in DOMAIN open_tunnels' |-> open_tunnels[b]]
    BY <2>1 DEF NoTunnels
  <2>3. QED BY <2>1, <2>2, RequestsStay DEF TInv, TTypes, Quiet
<1>2. ASSUME NEW b \in Builds, expire_tunnel(b) PROVE Quiet
  <2>1. /\ open_tunnels' = [c \in DOMAIN open_tunnels \ {b} |-> open_tunnels[c]]
        /\ UNCHANGED <<pending_tunnels, build, request, answer, epoch, wanted>>
    BY <1>2 DEF expire_tunnel, Without
  <2>2. /\ DOMAIN open_tunnels' \subseteq DOMAIN open_tunnels
        /\ open_tunnels' = [c \in DOMAIN open_tunnels' |-> open_tunnels[c]]
    BY <2>1
  <2>3. \A c \in DOMAIN open_tunnels' \cup pending_tunnels' : build'[c].epoch = epoch'
    BY <2>1, <2>2 DEF TInv, ListedIsCurrent
  <2>4. QED BY <2>1, <2>2, <2>3, RequestsStay DEF TInv, TTypes, Quiet
<1>3. QED BY <1>1, <1>2

-----------------------------------------------------------------------------
(* The theorems.                                                            *)

\* Every step is quiet, gives a tunnel out, or ends a build.
LEMMA StepKinds ==
    ASSUME TInv, Next
    PROVE  \/ Quiet
           \/ \E r \in Requests : \E b : GivesOut(r, b)
           \/ \E b \in Builds : build_succeeds(b)
<1>1. ASSUME NEW r \in Requests, RequestStep(r) \/ request_timeout(r)
      PROVE  Quiet \/ \E b : GivesOut(r, b)
  <2>1. CASE prepare_open(r)
    BY <2>1, PrepareOpenStep
  <2>2. CASE prepare_wait(r)
    BY <2>2, PrepareWaitStep
  <2>3. CASE prepare_build(r)
    BY <2>3, PrepareBuildStep
  <2>4. CASE prepare_fails(r)
    BY <2>4, PrepareFailsStep
  <2>5. CASE add_pending_request(r)
    BY <2>5, AddPendingStep
  <2>6. CASE left_reply(r)
    BY <2>6, LeftReplyStep
  <2>7. CASE right_reply(r)
    BY <2>7, RightReplyStep
  <2>8. CASE take_action_fails(r) \/ request_timeout(r)
    BY <2>8, RequestEndsStep
  <2>9. QED BY <1>1, <2>1, <2>2, <2>3, <2>4, <2>5, <2>6, <2>7, <2>8 DEF RequestStep
<1>2. ASSUME NEW b \in Builds, BuildStep(b) \/ launch_by_usage(b) \/ expire_tunnel(b)
      PROVE  Quiet \/ build_succeeds(b)
  <2>1. CASE build_fails(b)
    BY <2>1, BuildFailsStep
  <2>2. CASE send_reply(b)
    BY <2>2, SendReplyStep
  <2>3. CASE notify_others(b)
    BY <2>3, NotifyOthersStep
  <2>4. CASE launch_by_usage(b)
    BY <2>4, LaunchByUsageStep
  <2>5. CASE expire_tunnel(b)
    BY <2>5, RemovalStep
  <2>6. QED BY <1>2, <2>1, <2>2, <2>3, <2>4, <2>5 DEF BuildStep
<1>3. CASE plan_testing
  BY <1>3, PlanTestingStep
<1>4. CASE retire_all_tunnels
  BY <1>4, RemovalStep
<1>5. QED BY <1>1, <1>2, <1>3, <1>4 DEF Next

\* The initial states.
LEMMA TInvInit == ASSUME TunnelParameters, Init PROVE TInv
<1>1. open_tunnels = NoTunnels /\ DOMAIN open_tunnels = {}
  BY DEF Init, NoTunnels
<1>2. open_tunnels \in [DOMAIN open_tunnels -> Tunnel]
  BY <1>1 DEF NoTunnels
<1>3. NoPlan \in Launch
  BY DEF NoPlan, Launch, Stages, Replies, Isolations
<1>4. request \in [Requests -> Request] /\ \A r \in Requests : request[r].tunnel = 0
  <2>1. \A r \in Requests : request[r] = NewRequest
    BY DEF Init
  <2>2. QED BY <2>1, NewRequestType DEF Init
<1>5. TTypes
  BY <1>1, <1>2, <1>3, <1>4 DEF Init, TTypes, TunnelParameters
<1>6. ListedIsCurrent /\ GivenIsBuilt /\ OpenIsRestricted
  BY <1>1, <1>4 DEF Init, ListedIsCurrent, GivenIsBuilt, OpenIsRestricted
<1>7. NoSharedIsolation
  <2>1. 0 \notin Builds
    BY DEF Builds
  <2>2. QED BY <1>4, <2>1 DEF NoSharedIsolation
<1>8. QED BY <1>5, <1>6, <1>7 DEF TInv

\* The inductive invariant of the tunnel manager: what is listed was launched since
\* the last retirement, what was given out has been built, and an open tunnel has the
\* isolation of every exit request that was given it.
THEOREM TunnelInvariant == ASSUME TunnelParameters PROVE Spec => []TInv
<1>1. Init => TInv
  BY TInvInit
<1>2. TInv /\ [Next]_tmvars => TInv'
  <2>1. CASE TInv /\ Next
    BY <2>1, StepKinds, QuietStep, GivesOutStep, BuildSucceedsStep, SMTT(30)
  <2>2. CASE TInv /\ UNCHANGED tmvars
    BY <2>2 DEF tmvars, TInv, TTypes, ListedIsCurrent, GivenIsBuilt, OpenIsRestricted,
                NoSharedIsolation
  <2>3. QED BY <2>1, <2>2
<1>3. QED BY <1>1, <1>2, PTL DEF Spec

\* Two exit requests with different isolation never share a tunnel, whatever
\* requests, usages, policies and launches there are (restrict_mut).
THEOREM TunnelsIsolate == ASSUME TunnelParameters PROVE Spec => []NoSharedIsolation
<1>1. TInv => NoSharedIsolation
  BY DEF TInv
<1>2. QED BY <1>1, TunnelInvariant, PTL

\* A request that gets an answer after retire_all_tunnels gets a tunnel launched after
\* it, also when the launch was pending, or its reply on the way, at that time.
THEOREM AnswersAreCurrent == ASSUME TunnelParameters PROVE Spec => LaunchedAfterRetire
<1> DEFINE Current == \A r \in Requests : answer'[r] # answer[r] /\ answer'[r] = "tunnel"
                        => build[request'[r].tunnel].epoch = epoch
<1>1. ASSUME TInv, Next PROVE Current
  <2>1. CASE Quiet
    BY <2>1 DEF Quiet
  <2>2. ASSUME NEW q \in Requests, NEW b, GivesOut(q, b) PROVE Current
    <3>1. build[b].epoch = epoch
      BY <1>1, <2>2 DEF TInv, ListedIsCurrent, GivesOut
    <3>2. request'[q].tunnel = b
      <4>1. request' = [request EXCEPT ![q] = [NewRequest EXCEPT !.pc = "done", !.tunnel = b]]
        BY <2>2 DEF GivesOut, hand_out
      <4>2. [NewRequest EXCEPT !.pc = "done", !.tunnel = b].tunnel = b
        BY NewRequestType DEF Request
      <4>3. QED BY <1>1, <2>2, <4>1, <4>2 DEF TInv, TTypes
    <3>3. \A r \in Requests : r # q => answer'[r] = answer[r]
      BY <1>1, <2>2 DEF TInv, TTypes, GivesOut, hand_out
    <3>4. QED BY <3>1, <3>2, <3>3
  <2>3. ASSUME NEW b \in Builds, build_succeeds(b) PROVE Current
    BY <2>3 DEF build_succeeds
  <2>4. QED BY <1>1, <2>1, <2>2, <2>3, StepKinds
<1>2. TInv /\ [Next]_tmvars => [Current]_tmvars
  BY <1>1
<1>3. QED BY <1>2, TunnelInvariant, PTL DEF Spec, LaunchedAfterRetire
=============================================================================
