----------------------------- MODULE VegasCircuit -----------------------------
(***************************************************************************)
(* Circuit-level congestion control of tor-proto with the Vegas algorithm  *)
(* (congestion.rs, congestion/vegas.rs, congestion/rtt.rs) and its callers *)
(* in tunnel/reactor/circuit.rs.                                           *)
(*                                                                         *)
(* One direction of a circuit hop: a sender with its congestion window, a  *)
(* receiver that counts cells until it owes a SENDME, and a FIFO link each *)
(* way.  The tag of a DATA cell is its position in the stream.  Time is    *)
(* abstracted to the round-trip times measured: the queue of departure     *)
(* times is its length, and every measurement is any member of RawRtts.    *)
(***************************************************************************)
EXTENDS Integers, Sequences

CONSTANTS
    ConsensusInc, \* CongestionWindowParams::sendme_inc of the consensus
    SendmeInc,    \* the sendme_inc negotiated when the circuit was made
    CwndInit, CwndMin, CwndMax, CwndInc, CwndIncRate, CwndIncPctSs,
    Alpha, Beta, Delta, Gamma, SsCwndCap,      \* VegasQueueParams
    SsCwndMax, CwndFullGap, CwndFullMinPct, CwndFullPerCwnd,  \* VegasParams
    EwmaCwndPct, EwmaMax, EwmaSsMax, RttResetPct,  \* RoundTripEstimatorParams
    DiscrepancyRatioMax,  \* DELTA_DISCREPANCY_RATIO_MAX
    MaxU32,       \* u32::MAX
    RawRtts,      \* round-trip times, in microseconds, that can be measured
    QueueSizes,   \* sizes the channel's outbound queue can have
    MaxCells      \* bound on the number of DATA cells sent

(* params.rs is_sendme_inc_valid: the increments a circuit may negotiate *)
is_sendme_inc_valid(increment) ==
    increment # 0 /\ increment <= ConsensusInc + 1 /\ increment >= ConsensusInc - 1

ASSUME VegasAssumption ==
    /\ is_sendme_inc_valid(SendmeInc)
    /\ {ConsensusInc, SendmeInc, CwndIncRate, CwndInit, MaxU32} \subseteq Nat \ {0}
    /\ {CwndMin, CwndMax, CwndInc, CwndIncPctSs, Alpha, Beta, Delta, Gamma,
        SsCwndCap, SsCwndMax, CwndFullGap, CwndFullMinPct, CwndFullPerCwnd,
        EwmaCwndPct, EwmaMax, EwmaSsMax, RttResetPct, DiscrepancyRatioMax,
        MaxCells} \subseteq Nat
    /\ RttResetPct <= 100
    /\ RawRtts \subseteq Nat
    /\ QueueSizes \subseteq Nat

VARIABLES
    state,         \* CongestionControl::state
    cwnd,          \* CongestionWindow::value
    is_full,       \* CongestionWindow::is_full
    inflight,      \* Vegas::num_inflight
    until_update,  \* Vegas::num_sendme_until_cwnd_update
    per_cwnd,      \* Vegas::num_sendme_per_cwnd
    is_blocked_on_chan,  \* Vegas::is_blocked_on_chan
    bdp,           \* BdpEstimator::bdp
    clock_stalled, \* RoundtripTimeEstimator::clock_stalled
    ewma_rtt,      \* RoundtripTimeEstimator::ewma_rtt
    min_rtt,       \* RoundtripTimeEstimator::min_rtt
    expected,      \* length of RoundtripTimeEstimator::sendme_expected_from
    tags,          \* SendmeValidator::tags
    until_sendme,  \* num_cell_until_sendme of the receiver
    data,          \* DATA cells on their way, as their tags
    sendmes,       \* SENDMEs on their way, as the tags they carry
    nsent,         \* DATA cells sent so far (the tag of the last one)
    chan_ready,    \* whether the channel's sink accepts a cell now
    closed         \* why the circuit was closed, or "open"

window_vars == <<state, cwnd, is_full, until_update, per_cwnd, is_blocked_on_chan, bdp>>
rtt_vars == <<clock_stalled, ewma_rtt, min_rtt>>
link_vars == <<data, sendmes>>
vars == <<window_vars, rtt_vars, link_vars, inflight, expected, tags, until_sendme,
          nsent, chan_ready, closed>>

None == -1  \* no estimate yet

Causes == {"open", "mismatched tag", "unexpected sendme", "mismatched estimation"}

Least(a, b) == IF a <= b THEN a ELSE b
Greatest(a, b) == IF a >= b THEN a ELSE b
saturating_sub(a, b) == IF a >= b THEN a - b ELSE 0
saturating_mul(a, b) == Least(a * b, MaxU32)

-----------------------------------------------------------------------------
(* CongestionWindow *)

(* CongestionWindow::update_rate *)
update_rate(st, window) ==
    IF st = "SlowStart" THEN 1
    ELSE (window + (CwndIncRate * SendmeInc) \div 2) \div (CwndIncRate * SendmeInc)

(* CongestionWindow::sendme_per_cwnd *)
sendme_per_cwnd(window) == (window + SendmeInc \div 2) \div SendmeInc

(* CongestionWindow::dec and inc *)
MutantDec(window) == saturating_sub(window, CwndInc)
dec(window) == Greatest(saturating_sub(window, CwndInc), CwndMin)
inc(window) == Least(window + CwndInc, CwndMax)

(* CongestionWindow::rfc3742_ss_inc: what it adds to the window *)
rfc3742_ss_inc(window) ==
    IF window <= SsCwndCap THEN (CwndIncPctSs * SendmeInc + 50) \div 100
    ELSE Greatest((SendmeInc * SsCwndCap + window) \div (window * 2), 1)

(* CongestionWindow::eval_fullness *)
eval_fullness(window) ==
    IF inflight + SendmeInc * CwndFullGap >= window THEN TRUE
    ELSE IF 100 * inflight < CwndFullMinPct * window THEN FALSE
    ELSE is_full

-----------------------------------------------------------------------------
(* RoundtripTimeEstimator *)

can_crosscheck == state # "SlowStart" /\ ewma_rtt # None

(* RoundtripTimeEstimator::is_clock_stalled: whether the sample is thrown   *)
(* out, and the stalled flag it leaves behind.                              *)
jumped(raw) == can_crosscheck /\ raw > ewma_rtt * DiscrepancyRatioMax
shrunk(raw) == can_crosscheck /\ ewma_rtt > raw * DiscrepancyRatioMax
is_clock_stalled(raw) == raw = 0 \/ jumped(raw) \/ (shrunk(raw) /\ clock_stalled)
stalled_after(raw) ==
    IF raw = 0 THEN TRUE
    ELSE clock_stalled /\ (~can_crosscheck \/ jumped(raw) \/ shrunk(raw))

(* The N of the N-EWMA and the new average. *)
ewma_n ==
    Greatest(2, IF state = "SlowStart" THEN EwmaSsMax
                ELSE Least((update_rate(state, cwnd) * EwmaCwndPct) \div 100, EwmaMax))
new_ewma(raw) ==
    IF ewma_rtt = None THEN raw
    ELSE (raw * 2 + (ewma_n - 1) * ewma_rtt) \div (ewma_n + 1)

(* The new minimum: reset towards the average when the window is at its     *)
(* minimum in steady state.                                                 *)
new_min_rtt(ewma) ==
    IF min_rtt = None THEN ewma
    ELSE IF cwnd = CwndMin /\ state # "SlowStart"
         THEN (RttResetPct * Greatest(ewma, min_rtt)) \div 100
                + ((100 - RttResetPct) * Least(ewma, min_rtt)) \div 100
    ELSE Least(ewma, min_rtt)

(* RoundtripTimeEstimator::update, after it has taken a departure time *)
rtt_update(raw) ==
    /\ clock_stalled' = stalled_after(raw)
    /\ IF is_clock_stalled(raw)
       THEN UNCHANGED <<ewma_rtt, min_rtt>>
       ELSE /\ ewma_rtt' = new_ewma(raw)
            /\ min_rtt' = new_min_rtt(new_ewma(raw))

(* RoundtripTimeEstimator::is_ready (last_rtt is set with ewma_rtt) *)
is_ready(stalled, ewma) == ~stalled /\ ewma # None

(* BdpEstimator::update with the RTT estimates of this SENDME *)
usec(rtt) == IF rtt = None THEN MaxU32 ELSE rtt
new_bdp(blocked, size, stalled, ewma, min) ==
    IF stalled
    THEN IF blocked THEN Greatest(saturating_sub(cwnd, size), CwndMin) ELSE cwnd
    ELSE saturating_mul(cwnd, usec(min)) \div usec(ewma)

-----------------------------------------------------------------------------
(* Vegas *)

Init ==
    /\ state = "SlowStart"
    /\ cwnd = CwndInit
    /\ is_full = FALSE
    /\ inflight = 0
    /\ until_update = update_rate("SlowStart", CwndInit)
    /\ per_cwnd = 0
    /\ is_blocked_on_chan = FALSE
    /\ bdp = 0
    /\ clock_stalled = FALSE
    /\ ewma_rtt = None
    /\ min_rtt = None
    /\ expected = 0
    /\ tags = << >>
    /\ until_sendme = SendmeInc
    /\ data = << >>
    /\ sendmes = << >>
    /\ nsent = 0
    /\ chan_ready = TRUE
    /\ closed = "open"

(* Vegas::can_send *)
can_send == inflight < cwnd

(* Vegas::is_next_cell_sendme, called after inflight is incremented *)
MutantIsNextCellSendme(n) == (n - 1) % SendmeInc = 0
is_next_cell_sendme(n) == n % SendmeInc = 0

(* Circuit::send_relay_cell with a DATA cell: note_data_sent counts it, and *)
(* when a SENDME will answer it, records its tag and departure time.        *)
note_data_sent ==
    /\ closed = "open"
    /\ nsent < MaxCells
    /\ can_send
    /\ inflight' = inflight + 1
    /\ nsent' = nsent + 1
    /\ data' = Append(data, nsent + 1)
    /\ IF is_next_cell_sendme(inflight + 1)
       THEN /\ tags' = Append(tags, nsent + 1)
            /\ expected' = expected + 1
       ELSE UNCHANGED <<tags, expected>>
    /\ UNCHANGED <<window_vars, rtt_vars, until_sendme, sendmes, chan_ready, closed>>

(* Circuit::handle_relay_cell with a DATA cell: Vegas::data_received counts *)
(* down; at zero a SENDME with this cell's tag is sent and sendme_sent      *)
(* restarts the counter.                                                    *)
cells_until_sendme == SendmeInc
note_data_received ==
    /\ closed = "open"
    /\ data # << >>
    /\ data' = Tail(data)
    /\ IF until_sendme = 0 THEN UNCHANGED <<until_sendme, sendmes>>
       ELSE IF until_sendme = 1
       THEN /\ sendmes' = Append(sendmes, Head(data))
            /\ until_sendme' = cells_until_sendme
       ELSE /\ until_sendme' = until_sendme - 1
            /\ UNCHANGED sendmes
    /\ UNCHANGED <<window_vars, rtt_vars, inflight, expected, tags, nsent, chan_ready,
                   closed>>

(* Slow start: the window and the state after one run of the algorithm *)
slow_start_signal(queue_use, blocked) == queue_use >= Gamma \/ blocked
slow_start_cwnd(queue_use, blocked, full, new) ==
    IF slow_start_signal(queue_use, blocked) THEN new + Gamma
    ELSE IF full THEN cwnd + rfc3742_ss_inc(cwnd)
    ELSE cwnd
slow_start_exit(queue_use, blocked, full, window) ==
    \/ slow_start_signal(queue_use, blocked)
    \/ full /\ rfc3742_ss_inc(cwnd) * sendme_per_cwnd(window) <= CwndInc * CwndIncRate
    \/ window >= SsCwndMax

(* Steady state: the window after one run of the algorithm *)
steady_cwnd(queue_use, blocked, full, new) ==
    IF queue_use > Delta THEN new + Delta - CwndInc
    ELSE IF queue_use > Beta \/ blocked THEN dec(cwnd)
    ELSE IF full /\ queue_use < Alpha THEN inc(cwnd)
    ELSE cwnd

(* The window after this SENDME, given the new BDP and whether the channel  *)
(* is reported blocked.                                                     *)
run_algorithm(blocked, full, new, until) ==
    LET queue_use == saturating_sub(cwnd, new)
        window == slow_start_cwnd(queue_use, blocked, full, new)
    IN  IF state = "SlowStart"
        THEN /\ cwnd' = Least(window, SsCwndMax)
             /\ state' = IF slow_start_exit(queue_use, blocked, full, window)
                         THEN "Steady" ELSE "SlowStart"
        ELSE /\ cwnd' = IF until = 0 THEN steady_cwnd(queue_use, blocked, full, new)
                        ELSE cwnd
             /\ UNCHANGED state

(* Vegas::sendme_received, with the RTT estimates just updated *)
sendme_received(blocked, size) ==
    LET ready == is_ready(clock_stalled', ewma_rtt')
        until == IF ready /\ blocked # is_blocked_on_chan THEN 0
                 ELSE saturating_sub(until_update, 1)
        per == saturating_sub(per_cwnd, 1)
        full == eval_fullness(cwnd)
    IN  /\ bdp' = new_bdp(blocked, size, clock_stalled', ewma_rtt', min_rtt')
        /\ is_blocked_on_chan' = blocked
        /\ inflight' = saturating_sub(inflight, SendmeInc)
        /\ IF ~ready /\ ~blocked
           THEN /\ until_update' = until
                /\ per_cwnd' = per
                /\ UNCHANGED <<cwnd, state, is_full>>
           ELSE /\ run_algorithm(blocked, full, bdp', until)
                /\ until_update' = IF until = 0 THEN update_rate(state', cwnd') ELSE until
                /\ per_cwnd' = IF per = 0 THEN sendme_per_cwnd(cwnd') ELSE per
                /\ is_full' = (full /\ IF CwndFullPerCwnd # 0
                                       THEN per_cwnd' # sendme_per_cwnd(cwnd')
                                       ELSE until_update' # update_rate(state', cwnd'))

(* SendmeValidator::validate: why a SENDME with this tag is refused *)
validate(tag) ==
    IF tags = << >> THEN "unexpected sendme"
    ELSE IF Head(tags) = tag THEN "open" ELSE "mismatched tag"

(* Circuit::congestion_signals: what is passed as channel_blocked *)
channel_blocked == chan_ready

(* Circuit::handle_sendme: note_sendme_received validates the tag, updates  *)
(* the RTT estimate and runs the algorithm.                                 *)
note_sendme_received ==
    /\ closed = "open"
    /\ sendmes # << >>
    /\ sendmes' = Tail(sendmes)
    /\ IF validate(Head(sendmes)) # "open"
       THEN /\ closed' = validate(Head(sendmes))
            /\ UNCHANGED <<window_vars, rtt_vars, inflight, tags, expected>>
       ELSE /\ tags' = Tail(tags)
            /\ IF expected = 0
               THEN /\ closed' = "mismatched estimation"
                    /\ UNCHANGED <<window_vars, rtt_vars, inflight, expected>>
               ELSE /\ expected' = expected - 1
                    /\ \E raw \in RawRtts, size \in QueueSizes :
                          /\ rtt_update(raw)
                          /\ sendme_received(channel_blocked, size)
                    /\ UNCHANGED closed
    /\ UNCHANGED <<data, nsent, until_sendme, chan_ready>>

(* The channel's sink becomes ready or stops being ready. *)
channel_changes ==
    /\ chan_ready' = ~chan_ready
    /\ UNCHANGED <<window_vars, rtt_vars, link_vars, inflight, expected, tags,
                   until_sendme, nsent, closed>>

Next == note_data_sent \/ note_data_received \/ note_sendme_received \/ channel_changes

(* The links deliver and the reactors read their input; nothing forces the  *)
(* application to send more, or the channel to change.                      *)
Fairness == WF_vars(note_data_received) /\ WF_vars(note_sendme_received)

Spec == Init /\ [][Next]_vars /\ Fairness

-----------------------------------------------------------------------------
(* The type invariant of both ends, the links and the channel. *)
TypeOK ==
    /\ state \in {"SlowStart", "Steady"}
    /\ {cwnd, inflight, until_update, per_cwnd, bdp, expected, until_sendme, nsent}
          \subseteq Nat
    /\ {ewma_rtt, min_rtt} \subseteq Nat \cup {None}
    /\ {is_full, is_blocked_on_chan, clock_stalled, chan_ready} \subseteq BOOLEAN
    /\ {tags, data, sendmes} \subseteq Seq(Nat)
    /\ closed \in Causes

(* The DATA cells that n SENDMEs acknowledge. *)
Cells(n) == SendmeInc * n

(* The sender's count of cells in flight, which it only lowers by whole     *)
(* increments, is what is on the link, counted but not yet acknowledged at  *)
(* the receiver, or acknowledged by SENDMEs on their way (vegas.rs          *)
(* data_sent, data_received, sendme_received).                              *)
Conservation ==
    inflight = Len(data) + (SendmeInc - until_sendme) + Cells(Len(sendmes))

(* The validator's queue of tags and the RTT estimator's queue of departure *)
(* times grow and shrink together and hold one entry for every increment in *)
(* flight, and no SENDME arrives with less than an increment in flight (the *)
(* debug_assert of vegas.rs sendme_received).                               *)
QueuesAgree ==
    /\ expected = Len(tags)
    /\ Cells(Len(tags)) <= inflight /\ inflight < Cells(Len(tags) + 1)
    /\ sendmes # << >> => inflight >= SendmeInc

(* Two ends that run this code never close the circuit on each other: every *)
(* SENDME carries the tag the sender's validator expects next, and the RTT  *)
(* estimator has a departure time for it.                                   *)
NeverClosed == closed = "open"

(* The window stays within its parameters although CongestionWindow::set    *)
(* does not clamp: it never falls below one increment of cells, and never   *)
(* exceeds the larger of its two maxima.                                    *)
WindowBounded ==
    SendmeInc <= cwnd /\ cwnd <= Greatest(CwndInit, Greatest(SsCwndMax, CwndMax))

(* A sender that may not send is owed a SENDME: it has a recorded tag that  *)
(* the receiver has yet to acknowledge (can_send against                    *)
(* is_next_cell_sendme).                                                    *)
BlockedIsOwedSendme == ~can_send => tags # << >>

(* A blocked sender is unblocked eventually, whatever the round-trip times  *)
(* and the channel did to its window meanwhile.                             *)
BlockedIsTemporary == [](~can_send => <>can_send)

(* The smoothed RTT stays between the smallest and the largest measurement  *)
(* that was not thrown out, so the BDP never divides by zero (rtt.rs        *)
(* update, vegas.rs BdpEstimator::update).                                  *)
EwmaWithinSamples ==
    ewma_rtt # None => \E low, high \in RawRtts \ {0} : low <= ewma_rtt /\ ewma_rtt <= high

(* In steady state the window shrinks only on a congestion signal: queue    *)
(* use above beta, or a channel that is blocked.                            *)
ShrinkNeedsCongestion ==
    [][state = "Steady" /\ cwnd' < cwnd
         => saturating_sub(cwnd, bdp') > Beta \/ ~chan_ready]_vars
=============================================================================
