----------------------------- MODULE GuardSample -----------------------------
(***************************************************************************)
(* The guard manager of tor-guardmgr (src/lib.rs, sample.rs, guard.rs,     *)
(* pending.rs, daemon.rs): the default guard set, the requests that use    *)
(* its guards, and the answers they wait for.  A circuit through a guard   *)
(* that is not primary is only used once the manager knows that no guard   *)
(* it would rather have used is going to work.                             *)
(*                                                                         *)
(* Every operation runs under the manager's lock, so it is one action.     *)
(* Clocks are flags: whether an exploratory attempt is still within        *)
(* np_connect_timeout, whether a failed guard's retry_at has come, whether *)
(* a request has waited for np_idle_timeout.  Requests are for Data use.   *)
(* Bandwidth weights are left out: a sample that has its minimal size may  *)
(* always turn out to hold enough of the network's weight.                 *)
(***************************************************************************)
EXTENDS Naturals, Sequences, FiniteSets
LOCAL INSTANCE SequencesExt

CONSTANTS Relays,           \* the relays a guard may be
          Netdirs,          \* directories: [listed, uncertain], subsets of Relays
          Filters,          \* the filters: sets of permitted relays
          Stored,           \* what storage may hold at start: [sample, confirmed]
          Requests,         \* slots for calls of select_guard
          avoid,            \* per request, its GuardRestriction: relays to avoid
          n_primary, min_filtered_sample_size, max_sample_size, data_parallelism,
          MaxChanges        \* bound: directories, filters, expiries, disablings

VARIABLES guards,           \* the GuardSet
          netdir,           \* what the directory provider has
          request,          \* per slot, its PendingRequest and its answer
          changes

gsvars == <<guards, netdir, request, changes>>

\* A GuardSet has three lists of ids.  What a Guard records is kept as the
\* set of the guards it is true of; a guard in none of reachable, unreachable
\* and retriable is Untried.  due: retry_at has come; recent: tried since the
\* np_connect_timeout cutoff.
NoGuards == [sample |-> <<>>, confirmed |-> <<>>, primary |-> <<>>,
             reachable |-> {}, unreachable |-> {}, retriable |-> {}, due |-> {},
             unlisted |-> {}, disabled |-> {}, missing |-> {},
             exploratory |-> {}, recent |-> {},
             filter |-> Relays, primary_guards_invalidated |-> FALSE]
Done(stage) == [stage |-> stage, guard |-> "none", uncertain |-> FALSE,
                down |-> FALSE, idle |-> FALSE]

\* assert_consistency: the lists name guards of the sample, each of them once.
TypeOK ==
    /\ IsInjective(guards.sample) /\ IsInjective(guards.confirmed)
    /\ ToSet(guards.confirmed) \cup ToSet(guards.primary) \subseteq ToSet(guards.sample)
    /\ guards.due \subseteq guards.unreachable
    /\ guards.recent \subseteq guards.exploratory
    /\ \A r \in Requests :
         request[r].stage \in {"new", "building", "waiting", "usable", "unusable"}

-----------------------------------------------------------------------------
(* Guards and the order they are preferred in.                              *)

usable(G, g) == g \notin G.unlisted \cup G.disabled
permits(G, g) == g \in G.filter
conforms_to_usage(G, g, r) == g \notin G.missing \cup avoid[r]
guard_is_primary(G, g) == g \in ToSet(G.primary)
\* The lists s, t and u one after the other, each guard where it comes first.
chain_unique(s, t, u) ==
    s \o SelectSeq(t, LAMBDA g : g \notin ToSet(s))
      \o SelectSeq(u, LAMBDA g : g \notin ToSet(s) \cup ToSet(t))
preference_order(G) == chain_unique(G.primary, G.confirmed, G.sample)
take(s, n) == SubSeq(s, 1, IF Len(s) < n THEN Len(s) ELSE n)

\* mark_retriable on the guards of S.
mark_retriable(G, S) ==
    [G EXCEPT !.retriable = @ \cup (S \cap G.unreachable),
              !.unreachable = @ \ S, !.due = @ \ S]
consider_all_retries(G) == mark_retriable(G, G.due)
note_no_exploratory_circ(G, S) == [G EXCEPT !.exploratory = @ \ S, !.recent = @ \ S]

\* select_primary_guards: confirmed, then primary, then reachable sample.
select_primary_guards(G) ==
    LET ids == chain_unique(G.confirmed, G.primary,
                            SelectSeq(G.sample, LAMBDA g : g \notin G.unreachable))
        new == take(SelectSeq(ids, LAMBDA g : usable(G, g) /\ permits(G, g)), n_primary)
    IN  note_no_exploratory_circ([G EXCEPT !.primary = new,
                                    !.primary_guards_invalidated = FALSE], ToSet(new))

\* expire_old_guards, when those of S are the expired ones.
expire_old_guards(G, S) ==
    LET kept(s) == SelectSeq(s, LAMBDA g : g \notin S)
    IN  [G EXCEPT !.sample = kept(@), !.confirmed = kept(@), !.primary = kept(@),
                  !.reachable = @ \ S, !.unreachable = @ \ S, !.retriable = @ \ S,
                  !.due = @ \ S, !.unlisted = @ \ S, !.missing = @ \ S,
                  !.exploratory = @ \ S, !.recent = @ \ S,
                  !.primary_guards_invalidated = @ \/ S # {}]

\* GuardSet::set_filter with the filter f.
set_active_filter(G, f) ==
    [G EXCEPT !.filter = f, !.primary_guards_invalidated = TRUE,
              !.primary = SelectSeq(@, LAMBDA g : usable(G, g) /\ g \in f)]

n_primary_without_id_info_in(G, d) == Cardinality(ToSet(G.primary) \cap d.uncertain)

\* A guard the directory is uncertain of stays listed or unlisted.
update_status_from_dir(G, d) ==
    LET ids == ToSet(G.sample)
    IN  [G EXCEPT !.missing = (@ \cup (ids \cap d.uncertain)) \ (d.listed \ d.uncertain),
                  !.unlisted = (@ \cap d.uncertain) \cup (ids \ (d.listed \cup d.uncertain))]

\* add_guard for each relay of the sequence new.
add_guards(G, new) ==
    [G EXCEPT !.sample = @ \o new, !.primary_guards_invalidated = @ \/ new # <<>>]

\* extend_sample_inner goes on adding while this holds...
wants_more(G) ==
    /\ Cardinality({g \in ToSet(G.sample) : usable(G, g) /\ permits(G, g)
                      /\ g \notin G.unreachable}) < min_filtered_sample_size
    /\ Len(G.sample) < max_sample_size

\* ... unless it runs out of candidates, or holds enough weight: what
\* extend_sample_as_needed may add from the directory d.
extensions(G, d) ==
    LET candidates == (d.listed \ d.uncertain) \ ToSet(G.sample)
        room == IF wants_more(G) THEN max_sample_size - Len(G.sample) ELSE 0
        lists == UNION {{s \in [1..n -> candidates] : IsInjective(s)} : n \in 0..room}
    IN  {new \in lists :
           /\ \A n \in 0..(Len(new) - 1) : wants_more(add_guards(G, take(new, n)))
           /\ \/ ~wants_more(add_guards(G, new))
              \/ ToSet(new) = candidates
              \/ Len(G.sample) + Len(new) >= min_filtered_sample_size}

\* update_guardset_internal: the sets it may leave when those of S expire.
update_guardset_internal(G, S) ==
    LET kept == expire_old_guards(G, S)
        fresh == update_status_from_dir(kept, netdir)
    IN  IF n_primary_without_id_info_in(kept, netdir) > 0
        THEN {kept}
        ELSE {select_primary_guards(add_guards(fresh, new)) : new \in extensions(fresh, netdir)}

\* The guards that may have expired; disabled ones are never forgotten.
MayExpire(G) ==
    {{}} \cup {{g} : g \in {h \in ToSet(G.sample) : changes < MaxChanges} \ G.disabled}
Counts(S) == changes' = changes + Cardinality(S)

-----------------------------------------------------------------------------
(* Requests.                                                                *)

\* Mutant: a primary guard that may be retried does not stand in the way.
MutantCircUsability(G, g, r) ==
    LET order == preference_order(G)
        preferred == take(order, SelectInSeq(order, LAMBDA h : h = g) - 1)
        rivals == {h \in ToSet(preferred) :
                     usable(G, h) /\ permits(G, h) /\ conforms_to_usage(G, h, r)}
    IN  IF guard_is_primary(G, g) THEN "usable"
        ELSE IF g \notin ToSet(order) \/ rivals \cap G.reachable # {} THEN "unusable"
        ELSE IF rivals \cap G.recent # {} THEN "unknown" ELSE "usable"

\* circ_usability_status: walk the preference order up to the guard g.
circ_usability_status(G, g, r) ==
    LET order == preference_order(G)
        preferred == take(order, SelectInSeq(order, LAMBDA h : h = g) - 1)
        rivals == SelectSeq(preferred, LAMBDA h :
                     usable(G, h) /\ permits(G, h) /\ conforms_to_usage(G, h, r))
        verdict(h) ==
            CASE h \in G.reachable -> "unusable"
              [] h \in G.unreachable -> "go on"
              [] guard_is_primary(G, h) -> "unusable"
              [] h \in G.recent -> "unknown"
              [] OTHER -> "go on"
        verdicts == SelectSeq([i \in DOMAIN rivals |-> verdict(rivals[i])],
                              LAMBDA v : v # "go on")
    IN  IF guard_is_primary(G, g) THEN "usable"
        ELSE IF g \notin ToSet(order) THEN "unusable"
        ELSE IF verdicts = <<>> THEN "usable" ELSE Head(verdicts)

\* expire_and_answer_pending_requests over the waiting requests.
expire_and_answer_pending_requests(G, req) ==
    [r \in Requests |->
       LET status == circ_usability_status(G, req[r].guard, r)
       IN  IF req[r].stage # "waiting" THEN req[r]
           ELSE IF req[r].idle THEN Done("unusable")
           ELSE IF status = "unknown" THEN req[r] ELSE Done(status)]

\* pick_guard_id: the guards it may pick.
pick_guard_id(G, r) ==
    LET ok(g) == /\ usable(G, g) /\ g \notin G.unreachable /\ g \notin G.exploratory
                 /\ conforms_to_usage(G, g, r) /\ permits(G, g)
        options == take(SelectSeq(preference_order(G), ok), data_parallelism)
        primaries == ToSet(options) \cap ToSet(G.primary)
    IN  IF primaries # {} THEN primaries ELSE ToSet(take(options, 1))

\* The end of select_guard: a PendingRequest for g, and record_attempt.
give_guard(G, r, g) ==
    LET exploring == {g} \ ToSet(G.primary)
    IN  /\ guards' = [G EXCEPT !.exploratory = @ \cup exploring, !.recent = @ \cup exploring]
        /\ \E offline \in BOOLEAN :
             request' = [request EXCEPT ![r] =
                [stage |-> "building", guard |-> g, uncertain |-> exploring # {}, idle |-> FALSE,
                 down |-> offline /\ ToSet(G.primary) \subseteq G.unreachable]]

\* select_guard: from the sample, or else from the sample once extended.
select_guard(r) ==
    LET G == consider_all_retries(guards)
    IN  /\ request[r].stage \notin {"building", "waiting"}
        /\ UNCHANGED netdir
        /\ \/ /\ \E g \in pick_guard_id(G, r) : give_guard(G, r, g)
              /\ UNCHANGED changes
           \/ /\ pick_guard_id(G, r) = {}
              /\ \E S \in MayExpire(G) : \E H \in update_guardset_internal(G, S) :
                   LET extended == Len(H.sample) > Len(G.sample) - Cardinality(S)
                       options == IF extended THEN pick_guard_id(H, r) ELSE {}
                   IN  /\ Counts(S)
                       /\ \/ \E g \in options : give_guard(H, r, g)
                          \/ options = {} /\ guards' = H /\ UNCHANGED request

-----------------------------------------------------------------------------
(* Reports on guards, and housekeeping.                                     *)

\* A report on a guard that has left the sample changes nothing.
record_success(G, g) ==
    LET new == {g} \cap ToSet(G.sample)
    IN  [note_no_exploratory_circ(G, new) EXCEPT
           !.reachable = @ \cup new, !.unreachable = @ \ new, !.retriable = @ \ new,
           !.due = @ \ new,
           !.confirmed = IF new \subseteq ToSet(@) THEN @ ELSE Append(@, g),
           !.primary_guards_invalidated = @ \/ ~(new \subseteq ToSet(G.confirmed))]
record_failure(G, g) ==
    LET new == {g} \cap ToSet(G.sample)
    IN  [note_no_exploratory_circ(G, new) EXCEPT
           !.unreachable = @ \cup new, !.reachable = @ \ new, !.retriable = @ \ new,
           !.due = @ \ new]

\* Mutant: an abandoned attempt stays pending on its guard.
MutantAbandoned(G, g) == G

record_attempt_abandoned(G, g) == note_no_exploratory_circ(G, {g})

\* The end of handle_msg, once the report left G and the request as req.
after_report(G, req) ==
    LET H == select_primary_guards(G)
    IN  guards' = H /\ request' = expire_and_answer_pending_requests(H, req)

\* handle_msg with Success; the primaries may be retried if net_has_been_down.
succeeded(r) ==
    LET g == request[r].guard
    IN  /\ request[r].stage = "building"
        /\ \E S \in {{}, IF request[r].down THEN ToSet(guards.primary) ELSE {}} :
             LET H == record_success(mark_retriable(guards, S), g)
                 status == circ_usability_status(H, g, r)
             IN  after_report(H, [request EXCEPT ![r] =
                    IF status = "unknown" THEN [@ EXCEPT !.stage = "waiting", !.down = FALSE]
                    ELSE Done(status)])
        /\ UNCHANGED <<netdir, changes>>

\* handle_msg with Failure, AttemptAbandoned and Indeterminate.
failed(r) ==
    /\ request[r].stage = "building"
    /\ after_report(record_failure(guards, request[r].guard),
                    [request EXCEPT ![r] = Done("unusable")])
    /\ UNCHANGED <<netdir, changes>>
abandoned(r) ==
    /\ request[r].stage = "building"
    /\ after_report(record_attempt_abandoned(guards, request[r].guard),
                    [request EXCEPT ![r] = Done("unusable")])
    /\ UNCHANGED <<netdir, changes>>

\* An indeterminate result disables the guard, once there are enough of them
\* (before that it is as if abandoned).
indeterminate(r) ==
    LET new == {request[r].guard} \cap ToSet(guards.sample)
    IN  /\ request[r].stage = "building" /\ changes < MaxChanges
        /\ after_report([note_no_exploratory_circ(guards, new) EXCEPT !.disabled = @ \cup new],
                        [request EXCEPT ![r] = Done("unusable")])
        /\ changes' = changes + 1
        /\ UNCHANGED netdir

\* keep_netdir_updated calls update; run_periodic_events answers requests too.
keep_netdir_updated ==
    /\ \E S \in MayExpire(guards) : Counts(S) /\ guards' \in update_guardset_internal(guards, S)
    /\ UNCHANGED <<netdir, request>>
run_periodic_events ==
    /\ \E S \in MayExpire(guards) : Counts(S) /\ guards' \in update_guardset_internal(guards, S)
    /\ request' = expire_and_answer_pending_requests(guards', request)
    /\ UNCHANGED netdir

\* The provider takes a directory only if netdir_is_sufficient.
new_netdir ==
    /\ changes < MaxChanges /\ changes' = changes + 1
    /\ netdir' \in {d \in Netdirs \ {netdir} : n_primary_without_id_info_in(guards, d) = 0}
    /\ UNCHANGED <<guards, request>>

set_filter ==
    /\ changes < MaxChanges /\ changes' = changes + 1
    /\ \E f \in Filters \ {guards.filter} :
         guards' \in update_guardset_internal(set_active_filter(guards, f), {})
    /\ UNCHANGED <<netdir, request>>

\* The clock.
np_connect_timeout(g) ==
    /\ g \in guards.recent
    /\ guards' = [guards EXCEPT !.recent = @ \ {g}]
    /\ UNCHANGED <<netdir, request, changes>>
retry_time(g) ==
    /\ g \in guards.unreachable \ guards.due
    /\ guards' = [guards EXCEPT !.due = @ \cup {g}]
    /\ UNCHANGED <<netdir, request, changes>>
np_idle_timeout(r) ==
    /\ request[r].stage = "waiting" /\ ~request[r].idle
    /\ request' = [request EXCEPT ![r].idle = TRUE]
    /\ UNCHANGED <<guards, netdir, changes>>

\* GuardMgr::new loads what was stored (from_state) and runs update, with no
\* directory yet.
Init == /\ \E stored \in Stored :
             guards = select_primary_guards([NoGuards EXCEPT !.sample = stored.sample,
                                                             !.confirmed = stored.confirmed])
        /\ netdir \in Netdirs
        /\ request = [r \in Requests |-> Done("new")]
        /\ changes = 0

Next ==
    \/ \E r \in Requests : \/ select_guard(r) \/ np_idle_timeout(r)
                           \/ succeeded(r) \/ failed(r) \/ abandoned(r) \/ indeterminate(r)
    \/ \E g \in Relays : np_connect_timeout(g) \/ retry_time(g)
    \/ keep_netdir_updated \/ run_periodic_events \/ new_netdir \/ set_filter

Spec == Init /\ [][Next]_gsvars

-----------------------------------------------------------------------------
(* A guard's exploratory flag is only set while some request through it    *)
(* has not reported.  pick_guard_id passes over a guard that has the flag, *)
(* so a flag that outlived its request would lose the guard for good.      *)
ExploratoryHasRequest ==
    \A g \in guards.exploratory :
        \E r \in Requests : request[r].stage = "building" /\ request[r].guard = g

(* A request whose guard is not primary is only told "usable" when every   *)
(* primary guard it could have used instead is Unreachable, as the set of  *)
(* guards was when its own success was reported, or as it is now that the  *)
(* waiting requests are answered (GuardSet::circ_usability_status).        *)
PrimariesAreOut(G, r) == ToSet(G.primary) \subseteq G.unreachable \cup G.missing \cup avoid[r]
NonPrimaryOnlyIfNeeded ==
    [][\A r \in Requests :
         (request[r].uncertain /\ request'[r].stage = "usable") =>
            \/ request[r].guard \in ToSet(guards.primary) \cup ToSet(guards'.primary)
            \/ request[r].stage = "building" /\ PrimariesAreOut(guards, r)
            \/ PrimariesAreOut(guards', r)]_gsvars

(* pick_guard_id asserts that the primary guards are up to date.           *)
PrimaryUpToDate == ~guards.primary_guards_invalidated
=============================================================================
