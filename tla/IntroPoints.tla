---------------------------- MODULE IntroPoints ----------------------------
(***************************************************************************)
(* The introduction point (IPT) manager of an onion service                *)
(* (tor-hsservice, ipt_mgr.rs and ipt_mgr/persist.rs) and the set it       *)
(* shares with the descriptor publisher (ipt_set.rs), with what both keep  *)
(* on disk: the record of relays and IPTs, the times until which published *)
(* descriptors are valid, and the keys of each IPT (its replay log has the *)
(* same life and stands with them).  The process may crash between any two *)
(* writes and start again from the disk; any write may fail.               *)
(*                                                                         *)
(* One round of run_once holds the lock of the shared set from "progress"  *)
(* to "save".  Times are small numbers; the slop of a descriptor's expiry  *)
(* is part of its lifetime, and the clock moves while the manager waits.   *)
(***************************************************************************)
EXTENDS Naturals, Sequences, FiniteSets
LOCAL INSTANCE SequencesExt

CONSTANTS
    Relays,                 \* relays that can serve as introduction points
    num_intro_points,       \* target_n_intro_points
    max_n_intro_relays,     \* the target and the extra relays
    RelayLifetime,          \* from choosing a relay to its planned retirement
    IPT_PUBLISH_CERTAIN,    \* lifetime of a descriptor with enough IPTs
    IPT_PUBLISH_UNCERTAIN,  \* lifetime of one with fewer
    MaxIpts,                \* bound: IPTs ever made
    MaxTime,                \* bound: the clock
    MaxFaults               \* bound: crashes and failing writes

VARIABLES
    irelays,        \* the relays, oldest first, each with its IPTs
    selection_ok,   \* last_irelay_selection_outcome
    cleanup,        \* ipt_removal_cleanup_needed
    publish_set,    \* shared: what to publish, and the expiry times noted
    disk,           \* the saved irelays and the saved expiry times
    keys,           \* IPTs whose keys are in the keystore
    pc,             \* where run_once is, or "down"
    made,           \* IPTs made so far: the next is a fresh id
    now,
    faults,         \* crashes and failed writes so far
    advertised      \* per IPT: until when any descriptor with it is valid,
                    \* and the last one this process tried to publish

ipvars == <<irelays, selection_ok, cleanup, publish_set, disk, keys, pc, made, now, faults, advertised>>
memory == <<irelays, selection_ok, cleanup>>

Lids == 1 .. MaxIpts
Nothing == [some |-> FALSE, lids |-> {}, lifetime |-> 0]
NoExpiry == [l \in Lids |-> 0]              \* 0: no entry

all_ipts(irs) == UNION {Range(irs[i].ipts) : i \in DOMAIN irs}
current_ipts(irs) == {t \in all_ipts(irs) : t.is_current}
LidsOf(ipts) == {t.lid : t \in ipts}
good_ipts == {t \in current_ipts(irelays) : t.status = "Good"}

\* The same relays with f applied to every IPT.
MapIpts(f(_), irs) == [i \in DOMAIN irs |-> [irs[i] EXCEPT !.ipts = [j \in DOMAIN @ |-> f(@[j])]]]

Fault == faults < MaxFaults /\ faults' = faults + 1

TypeOK ==
    /\ Len(irelays) <= max_n_intro_relays
    /\ \A i \in DOMAIN irelays :
          /\ irelays[i].relay \in Relays /\ irelays[i].planned_retirement \in Nat
          /\ \A t \in Range(irelays[i].ipts) :
                /\ t.lid \in Lids /\ t.is_current \in BOOLEAN /\ t.accepting \in BOOLEAN
                /\ t.last_descriptor_expiry \in Nat
                /\ t.status \in {"Establishing", "Good", "Faulty"}
    /\ {selection_ok, cleanup} \subseteq BOOLEAN
    /\ publish_set.ipts.lids \subseteq Lids /\ publish_set.expiry \in [Lids -> Nat]
    /\ disk.expiry \in [Lids -> Nat] /\ keys \subseteq Lids
    /\ pc \in {"down", "start", "progress", "publish", "save", "cleanup", "select"}

Init ==
    /\ irelays = << >>
    /\ selection_ok = TRUE
    /\ cleanup = FALSE
    /\ publish_set = [ipts |-> Nothing, expiry |-> NoExpiry]
    /\ disk = [irelays |-> << >>, expiry |-> NoExpiry]
    /\ keys = {}
    /\ pc = "down"
    /\ made = 0
    /\ now \in 1 .. MaxTime
    /\ faults \in 0 .. MaxFaults
    /\ advertised = [l \in Lids |-> [until |-> 0, latest |-> 0]]
-----------------------------------------------------------------------------
(***************************************************************************)
(* Starting up from the disk.                                              *)
(***************************************************************************)
import_new_expiry_times(irs, expiry) ==
    MapIpts(LAMBDA t : [t EXCEPT !.last_descriptor_expiry = IF expiry[t.lid] # 0 THEN expiry[t.lid] ELSE @], irs)

start_establisher(lid, is_current) ==
    [lid |-> lid, is_current |-> is_current, status |-> "Establishing",
     last_descriptor_expiry |-> 0, accepting |-> FALSE]

\* Forgets that a loaded IPT may be in a published descriptor.
MutantLoadRestart(t) == start_establisher(t.lid, t.is_current)

load_restart(t) == [start_establisher(t.lid, t.is_current) EXCEPT !.accepting = TRUE]

launch_background_tasks ==
    /\ pc = "down"
    /\ publish_set' = [ipts |-> Nothing, expiry |-> disk.expiry]
    /\ irelays' = import_new_expiry_times(MapIpts(load_restart, disk.irelays), disk.expiry)
    /\ keys' = keys \cup LidsOf(all_ipts(disk.irelays))     \* missing ones are made again
    /\ cleanup' = TRUE
    /\ selection_ok' = TRUE
    /\ pc' = "start"
    /\ UNCHANGED <<disk, made, now, faults, advertised>>

crash ==
    /\ pc # "down" /\ Fault
    /\ pc' = "down"
    /\ irelays' = << >>
    /\ selection_ok' = TRUE
    /\ cleanup' = FALSE
    /\ publish_set' = [ipts |-> Nothing, expiry |-> NoExpiry]
    /\ advertised' = [l \in Lids |-> [advertised[l] EXCEPT !.latest = 0]]
    /\ UNCHANGED <<disk, keys, made, now>>
-----------------------------------------------------------------------------
(***************************************************************************)
(* idempotently_progress_things_now, called until it changes nothing.      *)
(***************************************************************************)
borrow_for_update ==
    /\ pc = "start"
    /\ irelays' = import_new_expiry_times(irelays, publish_set.expiry)
    /\ pc' = "progress"
    /\ UNCHANGED <<selection_ok, cleanup, publish_set, disk, keys, made, now, faults, advertised>>

has_current(ir) == \E t \in Range(ir.ipts) : t.is_current
should_retire(ir) == now > ir.planned_retirement

Rotating == {i \in DOMAIN irelays : should_retire(irelays[i]) /\ has_current(irelays[i])}
Least(S) == CHOOSE i \in S : \A j \in S : i <= j

\* Forgets an IPT as soon as another takes its place.
MutantKeep(t) == t.is_current

keep(t) == t.is_current \/ now < t.last_descriptor_expiry

\* Without the old IPTs, and without the retired relays that have none left.
forget_old(irs) ==
    SelectSeq([i \in DOMAIN irs |-> [irs[i] EXCEPT !.ipts = SelectSeq(@, keep)]],
              LAMBDA ir : ~ (should_retire(ir) /\ ir.ipts = << >>))

rotate_ipts ==
    /\ pc = "progress" /\ Rotating # {}
    /\ irelays' = [irelays EXCEPT ![Least(Rotating)].ipts =
                     [j \in DOMAIN @ |-> [@[j] EXCEPT !.is_current = FALSE]]]
    /\ UNCHANGED <<selection_ok, cleanup, publish_set, disk, keys, pc, made, now, faults, advertised>>

\* What is left after the garbage, and the relays there that lack an IPT.
Kept == forget_old(irelays)
Lacking == {i \in DOMAIN Kept : ~ should_retire(Kept[i]) /\ ~ has_current(Kept[i])}
CleanupNeeded == cleanup \/ Cardinality(all_ipts(Kept)) < Cardinality(all_ipts(irelays))
n_good_ish_relays(irs) == Cardinality({t \in current_ipts(irs) : t.status # "Faulty"})
wants_relay(irs) ==
    n_good_ish_relays(irs) < num_intro_points /\ Len(irs) < max_n_intro_relays /\ selection_ok

make_new_ipt ==
    /\ pc = "progress" /\ Rotating = {} /\ Lacking # {} /\ made < MaxIpts
    /\ irelays' = [Kept EXCEPT ![Least(Lacking)].ipts = Append(@, start_establisher(made + 1, TRUE))]
    /\ keys' = keys \cup {made + 1}
    /\ made' = made + 1
    /\ cleanup' = CleanupNeeded
    /\ UNCHANGED <<selection_ok, publish_set, disk, pc, now, faults, advertised>>

\* No relay lacks an IPT, or its keys could not be made.
NothingToMake ==
    \/ Lacking = {} /\ UNCHANGED faults
    \/ Lacking # {} /\ Fault
    \/ Lacking # {} /\ made = MaxIpts /\ UNCHANGED faults

choose_new_ipt_relay ==
    /\ pc = "progress" /\ Rotating = {} /\ NothingToMake /\ wants_relay(Kept)
    /\ LET unused == Relays \ {Kept[i].relay : i \in DOMAIN Kept} IN
       \/ /\ unused # {}        \* which one makes no difference here
          /\ irelays' = Append(Kept, [relay |-> CHOOSE r \in unused : TRUE,
                                      planned_retirement |-> now + RelayLifetime, ipts |-> << >>])
          /\ selection_ok' = TRUE
       \/ irelays' = Kept /\ selection_ok' = FALSE       \* no timely netdir, or no usable relay
    /\ cleanup' = CleanupNeeded
    /\ UNCHANGED <<publish_set, disk, keys, pc, made, now, advertised>>

progress_done ==
    /\ pc = "progress" /\ Rotating = {} /\ NothingToMake /\ ~ wants_relay(Kept)
    /\ irelays' = Kept
    /\ cleanup' = CleanupNeeded
    /\ pc' = "publish"
    /\ UNCHANGED <<selection_ok, publish_set, disk, keys, made, now, advertised>>
-----------------------------------------------------------------------------
(***************************************************************************)
(* The rest of run_once: what to publish, the two saves, the cleanup.      *)
(***************************************************************************)
\* The current good IPTs of the relays chosen last.
publish_set_select ==
    LET candidates == SelectSeq(irelays, LAMBDA ir : \E t \in Range(ir.ipts) : t \in good_ipts)
        dropped == IF Len(candidates) > num_intro_points THEN Len(candidates) - num_intro_points ELSE 0
        chosen == {candidates[i] : i \in dropped + 1 .. Len(candidates)}
    IN  {t.lid : t \in {t \in good_ipts : \E ir \in chosen : t \in Range(ir.ipts)}}

\* Certain, Unknown or Uncertain; while an IPT started establishing very
\* recently the publication is held back.
publish_lifetimes ==
    CASE Cardinality(good_ipts) >= num_intro_points -> {IPT_PUBLISH_CERTAIN}
      [] good_ipts = {} -> {0}
      [] OTHER -> {IPT_PUBLISH_UNCERTAIN}
                  \cup (IF \E t \in current_ipts(irelays) : t.status = "Establishing" THEN {0} ELSE {})

ToPublish(lifetime) ==
    IF lifetime = 0 THEN Nothing
    ELSE [some |-> TRUE, lids |-> publish_set_select, lifetime |-> lifetime]

Stored(irs) == MapIpts(LAMBDA t : [lid |-> t.lid, is_current |-> t.is_current], irs)

\* Publishes although the record could not be stored.
MutantPublish ==
    /\ pc = "publish"
    /\ \E lifetime \in publish_lifetimes :
          /\ publish_set' = [publish_set EXCEPT !.ipts = ToPublish(lifetime)]
          /\ irelays' = MapIpts(LAMBDA t : [t EXCEPT !.accepting = @ \/ t.lid \in ToPublish(lifetime).lids], irelays)
          /\ \/ disk' = [disk EXCEPT !.irelays = Stored(irelays)] /\ UNCHANGED faults
             \/ Fault /\ UNCHANGED disk
    /\ pc' = "save"
    /\ UNCHANGED <<selection_ok, cleanup, keys, made, now, advertised>>

compute_iptsetstatus_publish ==
    /\ pc = "publish"
    /\ \E lifetime \in publish_lifetimes :
          /\ irelays' = MapIpts(LAMBDA t : [t EXCEPT !.accepting = @ \/ t.lid \in ToPublish(lifetime).lids], irelays)
          /\ \/ /\ publish_set' = [publish_set EXCEPT !.ipts = ToPublish(lifetime)]
                /\ disk' = [disk EXCEPT !.irelays = Stored(irelays)]
                /\ UNCHANGED faults
             \/ Fault /\ publish_set' = [publish_set EXCEPT !.ipts = Nothing] /\ UNCHANGED disk
    /\ pc' = "save"
    /\ UNCHANGED <<selection_ok, cleanup, keys, made, now, advertised>>

\* The entries the code retains are those whose time has passed.
expire_old_expiry_times(expiry) == [l \in Lids |-> IF expiry[l] <= now THEN expiry[l] ELSE 0]

\* Dropping the NotifyingBorrow saves the times; a failure is only logged.
save_and_notify ==
    /\ pc = "save"
    /\ LET expiry == expire_old_expiry_times(publish_set.expiry) IN
       /\ publish_set' = [publish_set EXCEPT !.expiry = expiry]
       /\ \/ disk' = [disk EXCEPT !.expiry = expiry] /\ UNCHANGED faults
          \/ Fault /\ UNCHANGED disk
    /\ pc' = IF cleanup THEN "cleanup" ELSE "select"
    /\ UNCHANGED <<memory, keys, made, now, advertised>>

expire_old_ipts_external_persistent_state ==
    /\ pc = "cleanup"
    /\ \/ keys' = keys \cap LidsOf(all_ipts(irelays)) /\ cleanup' = FALSE /\ UNCHANGED faults
       \/ Fault /\ UNCHANGED <<keys, cleanup>>
    /\ pc' = "select"
    /\ UNCHANGED <<irelays, selection_ok, publish_set, disk, made, now, advertised>>
-----------------------------------------------------------------------------
(***************************************************************************)
(* What the manager waits for.                                             *)
(***************************************************************************)
\* (The status of an IPT that is not current decides nothing any more.)
handle_ipt_status_update(lid) ==
    /\ pc = "select" /\ lid \in LidsOf(current_ipts(irelays))
    /\ \E status \in {"Establishing", "Good", "Faulty"}, wants_to_retire \in BOOLEAN :
          irelays' = MapIpts(LAMBDA t : IF t.lid = lid
                                        THEN [t EXCEPT !.status = status, !.is_current = @ /\ ~ wants_to_retire]
                                        ELSE t, irelays)
    /\ pc' = "start"
    /\ UNCHANGED <<selection_ok, cleanup, publish_set, disk, keys, made, now, faults, advertised>>

\* The DOS parameters changed: every IPT is replaced.
new_config ==
    /\ pc = "select"
    /\ irelays' = MapIpts(LAMBDA t : [t EXCEPT !.is_current = FALSE], irelays)
    /\ selection_ok' = TRUE
    /\ pc' = "start"
    /\ UNCHANGED <<cleanup, publish_set, disk, keys, made, now, faults, advertised>>

dir_event ==
    /\ pc = "select" /\ ~ selection_ok
    /\ selection_ok' = TRUE
    /\ pc' = "start"
    /\ UNCHANGED <<irelays, cleanup, publish_set, disk, keys, made, now, faults, advertised>>

Unexpired(t) == IF t > now + 1 THEN t ELSE 0

\* wait_for_earliest: some time the manager looked at has come.
time_passes ==
    /\ pc = "select" /\ now < MaxTime
    /\ now' = now + 1
    /\ pc' = "start"
    /\ advertised' = [l \in Lids |-> [until |-> Unexpired(advertised[l].until), latest |-> Unexpired(advertised[l].latest)]]
    /\ UNCHANGED <<memory, publish_set, disk, keys, made, faults>>

Larger(a, b) == IF a > b THEN a ELSE b

\* The publisher, before it uploads a descriptor with the set's IPTs: the
\* times are saved first, and nothing is uploaded when that fails.
note_publication_attempt ==
    /\ pc \in {"start", "cleanup", "select"} /\ publish_set.ipts.some
    /\ LET until == now + publish_set.ipts.lifetime
           noted == [l \in Lids |-> IF l \in publish_set.ipts.lids THEN Larger(publish_set.expiry[l], until)
                                    ELSE publish_set.expiry[l]]
           uploaded(ok) == [l \in Lids |-> IF l \notin publish_set.ipts.lids THEN advertised[l]
                                           ELSE [until |-> IF ok THEN Larger(advertised[l].until, until) ELSE advertised[l].until,
                                                 latest |-> until]]
       IN /\ publish_set' = [publish_set EXCEPT !.expiry = noted]
          /\ \/ disk' = [disk EXCEPT !.expiry = noted] /\ advertised' = uploaded(TRUE) /\ UNCHANGED faults
             \/ Fault /\ advertised' = uploaded(FALSE) /\ UNCHANGED disk
    /\ UNCHANGED <<memory, keys, pc, made, now>>

Next ==
    \/ launch_background_tasks \/ crash
    \/ borrow_for_update \/ rotate_ipts \/ make_new_ipt \/ choose_new_ipt_relay \/ progress_done
    \/ compute_iptsetstatus_publish \/ save_and_notify \/ expire_old_ipts_external_persistent_state
    \/ \E lid \in Lids : handle_ipt_status_update(lid)
    \/ new_config \/ dir_event \/ time_passes
    \/ note_publication_attempt

Spec == Init /\ [][Next]_ipvars
-----------------------------------------------------------------------------
(***************************************************************************)
(* Properties.                                                             *)
(***************************************************************************)
Locked == pc \in {"progress", "publish", "save"}

\* What the publisher is told to publish could be taken up again after a crash
\* at this point: every IPT in the set is in the manager's saved record and has
\* its keys in the keystore ("we save IPTs to disk before we allow them to be
\* published"), whichever writes failed before.
PublishedIsRecoverable ==
    publish_set.ipts.some /\ ~ Locked =>
        publish_set.ipts.lids \subseteq LidsOf(all_ipts(disk.irelays)) \cap keys

\* An IPT that the manager maintains and that some valid descriptor names
\* accepts introduction requests, also when it was loaded from disk after a
\* crash, and before the first descriptor that names it goes out.
AdvertisedAccepts ==
    \A t \in all_ipts(irelays) : advertised[t.lid].until > now => t.accepting

\* The IPTs of the descriptor this process tried to publish last are maintained,
\* with their keys and their saved record, until that descriptor expires: also
\* when they are rotated out, replaced or want to retire.
LatestIsKept ==
    \A l \in Lids : pc # "down" /\ advertised[l].latest > now =>
        l \in LidsOf(all_ipts(irelays)) \cap LidsOf(all_ipts(disk.irelays)) \cap keys

\* As ipt_set.rs puts it, the expiry times say "until which the manager ought
\* [...] to try to maintain each ipt, even after we stop publishing it": an IPT
\* in a descriptor that is still valid is known to the manager.
AdvertisedIsMaintained ==
    \A l \in Lids : pc # "down" /\ advertised[l].until > now => l \in LidsOf(all_ipts(irelays))
=============================================================================
