---------------------------- MODULE ConfluxPath ----------------------------
(***************************************************************************)
(* One direction of a conflux tunnel: a sender spreads its cells over the  *)
(* legs of the tunnel, a receiver puts them back in order.                 *)
(*                                                                         *)
(* Cells carry no sequence number.  Each end counts the cells it sends and *)
(* receives on each leg (last_seq_sent, last_seq_recv); when the sender    *)
(* changes its primary leg, a SWITCH tells the receiver how many numbers   *)
(* were used up on other legs (conflux.rs maybe_update_primary_leg,        *)
(* conflux/msghandler.rs, conflux/msghandler/client.rs).  The receiver     *)
(* buffers what comes early (reactor.rs try_dequeue_ooo_msgs).             *)
(*                                                                         *)
(* Sender and receiver are translated from the client's two roles; the     *)
(* far end of a tunnel follows the same rules.                             *)
(***************************************************************************)
EXTENDS Integers, Sequences, FiniteSets

CONSTANTS
    Legs,           \* the legs of the tunnel
    Cwnd,           \* congestion window of a leg's last hop
    SendmeInc,      \* cells acknowledged by one SENDME
    HighThroughput, \* desired_ux = HIGH_THROUGHPUT
    MaxU32,         \* the largest SWITCH
    OffPrimary,     \* may a leg other than the primary one be the one that finds a dropped stream?
    MaxCells        \* bound: cells sent

VARIABLES
    legs,                   \* ConfluxSet::legs
    linked,                 \* the legs with ConfluxState::Linked, which have an RTT
    primary_id,             \* ConfluxSet::primary_id
    selected_init_primary,  \* ConfluxSet::selected_init_primary
    last_seq_sent,          \* ClientConfluxMsgHandler::last_seq_sent, by leg
    inflight,               \* cells awaiting a SENDME, by leg
    sent,                   \* number of cells sent that count towards seqnos
    wire,                   \* cells in flight, by leg
    last_seq_recv,          \* ClientConfluxMsgHandler::last_seq_recv, by leg
    last_seq_delivered,     \* ConfluxSet::last_seq_delivered
    ooo_msgs,               \* Reactor::ooo_msgs
    got,                    \* the cells handled, in the order they were handled
    fault                   \* "none", or the error that stopped an end

set == <<legs, linked>>
sender == <<primary_id, selected_init_primary, last_seq_sent, inflight, sent>>
receiver == <<last_seq_recv, last_seq_delivered, ooo_msgs, got>>
vars == <<set, sender, wire, receiver, fault>>

\* Only cmd and rel are on the wire.  For the properties, n identifies a cell among those
\* sent, and the number that a SWITCH is meant to bring the receiver to.
Cell == [cmd : {"DATA", "BEGIN", "SWITCH"}, rel : Nat, n : Nat]
Switch(d, i) == [cmd |-> "SWITCH", rel |-> d, n |-> i]
Counted(c, i) == [cmd |-> c, rel |-> 0, n |-> i]
Faults == {"none", "unlinked circuit", "no RTT", "seqno delta", "zero SWITCH",
           "seqno too low", "no such leg"}

\* The sending end, the receiving end and the links of the legs are well typed.
TypeOK ==
    /\ legs \subseteq Legs /\ linked \subseteq Legs
    /\ primary_id \in Legs
    /\ selected_init_primary \in BOOLEAN
    /\ last_seq_sent \in [Legs -> Nat] /\ inflight \in [Legs -> Nat]
    /\ sent \in 0..MaxCells
    /\ wire \in [Legs -> Seq(Cell)]
    /\ last_seq_recv \in [Legs -> Nat]
    /\ last_seq_delivered \in Nat
    /\ \A e \in ooo_msgs : e.seqno \in Nat /\ e.leg \in Legs /\ e.n \in Nat
    /\ got \in Seq(Nat)
    /\ fault \in Faults

Init ==
    /\ legs = Legs /\ linked = Legs
    /\ primary_id \in Legs
    /\ selected_init_primary = FALSE
    /\ last_seq_sent = [l \in Legs |-> 0] /\ inflight = [l \in Legs |-> 0]
    /\ sent = 0
    /\ wire = [l \in Legs |-> << >>]
    /\ last_seq_recv = [l \in Legs |-> 0]
    /\ last_seq_delivered = 0 /\ ooo_msgs = {} /\ got = << >>
    /\ fault = "none"

-----------------------------------------------------------------------------
\* The sender.

can_send(l) == inflight[l] < Cwnd

\* ConfluxSet::should_skip_join_point: no stream is read while the primary leg is
\* blocked, or, for high throughput, while all legs are.
should_skip_join_point ==
    /\ ~can_send(primary_id)
    /\ HighThroughput => \A l \in legs : ~can_send(l)

\* The legs whose ready_streams_iterator yields a stream of the join point.
polling_legs == {l \in legs : can_send(l) /\ ~should_skip_join_point}

\* The legs select_primary_leg_min_rtt looks at.
Candidates == {l \in legs : HighThroughput => can_send(l)}

\* should_update_primary_leg: with fewer than two legs there is nothing to choose.
few_legs == \A l, m \in legs : l = m

\* The leg that the next multiplexed cell may go on.  The RTTs decide, and they change
\* all the time: every candidate may be the best one.
select_primary_leg ==
    IF ~selected_init_primary
      THEN IF legs \cap linked = {} THEN {primary_id} ELSE legs \cap linked
    ELSE IF few_legs \/ Candidates = {} THEN {primary_id}
    ELSE Candidates

\* maybe_select_init_primary records its choice.
init_primary_selected == selected_init_primary \/ legs \cap linked # {}

\* Does the selection fail for want of an RTT?
no_rtt ==
    /\ selected_init_primary /\ ~few_legs
    /\ ~(Candidates \subseteq linked)

\* maybe_update_primary_leg: is a SWITCH needed before a cell on leg new?
switches(new) == selected_init_primary /\ new # primary_id
seqno_delta(new) == last_seq_sent[primary_id] - last_seq_sent[new]

\* A debug build panics when the subtraction underflows; in a release build the result
\* does not fit in the SWITCH, as when it is too large.
bad_delta(new) == switches(new) /\ seqno_delta(new) \notin 0..MaxU32

\* The number of the last cell sent on leg new before the next one.
MutantCarriedOver(new) == last_seq_sent[new]
carried_over(new) ==
    IF switches(new) THEN last_seq_sent[primary_id] ELSE last_seq_sent[new]

\* Circuit::send_relay_cell: count the cell and queue it.
send_relay_cell(l, c, base, before) ==
    /\ sent' = sent + 1
    /\ wire' = [wire EXCEPT ![l] = @ \o before \o << Counted(c, sent + 1) >>]
    /\ last_seq_sent' = [last_seq_sent EXCEPT ![l] = base + 1]
    /\ inflight' = [inflight EXCEPT ![l] = IF c = "DATA" THEN @ + 1 ELSE @]

\* ConfluxSet::send_relay_cell_on_leg, for a command that counts towards seqnos: choose
\* the primary leg, send a SWITCH if it changed, send the cell.
send_relay_cell_on_leg(c, new) ==
    /\ primary_id' = new
    /\ selected_init_primary' = init_primary_selected
    /\ IF bad_delta(new)
         THEN fault' = "seqno delta" /\ UNCHANGED <<last_seq_sent, inflight, sent, wire>>
       ELSE IF new \notin linked
         THEN fault' = "unlinked circuit" /\ UNCHANGED <<last_seq_sent, inflight, sent, wire>>
       ELSE /\ send_relay_cell(new, c, carried_over(new),
                               IF switches(new) 
                               THEN << Switch(seqno_delta(new), last_seq_sent[primary_id]) >>
                               ELSE << >>)
            /\ UNCHANGED fault

multiplex(c) ==
    IF no_rtt
      THEN /\ fault' = "no RTT"
           /\ UNCHANGED <<sender, wire>>
      ELSE \E new \in select_primary_leg : send_relay_cell_on_leg(c, new)

\* A stream has data: some leg's iterator yields it, RunOnceCmdInner::Send multiplexes it.
send_data ==
    /\ fault = "none" /\ sent < MaxCells
    /\ polling_legs # {}
    /\ multiplex("DATA")
    /\ UNCHANGED <<set, receiver>>

\* A control message (BEGIN) or a handled cell (XOFF) makes the reactor send a cell that
\* no window limits.
send_control ==
    /\ fault = "none" /\ sent < MaxCells
    /\ multiplex("BEGIN")
    /\ UNCHANGED <<set, receiver>>

\* A stream's END or XON for HopLocation::JoinPoint, on the primary leg as it is.
send_on_primary ==
    /\ fault = "none" /\ sent < MaxCells
    /\ sent > 0
    /\ primary_id \in linked
    /\ send_relay_cell(primary_id, "BEGIN", last_seq_sent[primary_id], << >>)
    /\ UNCHANGED <<set, primary_id, selected_init_primary, receiver, fault>>

\* A dropped stream: the leg whose iterator finds it sends the END (Circuit::close_stream).
close_stream ==
    /\ fault = "none" /\ sent < MaxCells
    /\ sent > 0
    /\ \E l \in polling_legs \cap linked :
          /\ l = primary_id \/ OffPrimary
          /\ send_relay_cell(l, "BEGIN", last_seq_sent[l], << >>)
    /\ UNCHANGED <<set, primary_id, selected_init_primary, receiver, fault>>

\* A SENDME for cells the receiver has got: handle_sendme.
DataCells(q) == Cardinality({i \in DOMAIN q : q[i].cmd = "DATA"})
handle_sendme(l) ==
    /\ fault = "none"
    /\ l \in legs
    /\ inflight[l] - DataCells(wire[l]) >= SendmeInc
    /\ inflight' = [inflight EXCEPT ![l] = @ - SendmeInc]
    /\ UNCHANGED <<set, primary_id, selected_init_primary, last_seq_sent, sent, wire,
                   receiver, fault>>

-----------------------------------------------------------------------------
\* The receiver.

\* A SWITCH: ClientConfluxMsgHandler::handle_conflux_switch.
handle_conflux_switch(l) ==
    /\ fault = "none"
    /\ l \in legs /\ wire[l] # << >> /\ Head(wire[l]).cmd = "SWITCH"
    /\ wire' = [wire EXCEPT ![l] = Tail(@)]
    /\ IF Head(wire[l]).rel = 0
         THEN fault' = "zero SWITCH" /\ UNCHANGED last_seq_recv
         ELSE /\ last_seq_recv' = [last_seq_recv EXCEPT ![l] = @ + Head(wire[l]).rel]
              /\ UNCHANGED fault
    /\ UNCHANGED <<set, sender, last_seq_delivered, ooo_msgs, got>>

\* ConfluxMsgHandler::is_msg_in_order, after the leg's number has been increased to seqno.
MutantInOrder(seqno) == seqno <= last_seq_delivered + 2
is_msg_in_order(seqno) == seqno = last_seq_delivered + 1

\* Reactor::try_dequeue_ooo_msgs: with last delivered, it takes the buffered cells up to
\* the number to, which follow without a gap and whose legs are still there.
at_seqno(n) == CHOOSE e \in ooo_msgs : e.seqno = n
MutantDequeued(last, to) == to = last
dequeued(last, to) ==
    /\ to >= last
    /\ \A n \in last + 1..to : \E e \in ooo_msgs : e.seqno = n /\ e.leg \in legs
    /\ ~\E e \in ooo_msgs : e.seqno = to + 1 /\ e.leg \in legs

\* A cell that counts: ConfluxMsgHandler::action_for_msg, then Deliver and the turn of
\* the reactor's loop that takes what was waiting for it, or Enqueue.
handle_relay_msg(l) ==
    /\ fault = "none"
    /\ l \in legs /\ wire[l] # << >> /\ Head(wire[l]).cmd # "SWITCH"
    /\ wire' = [wire EXCEPT ![l] = Tail(@)]
    /\ LET seqno == last_seq_recv[l] + 1
           n == Head(wire[l]).n
       IN /\ last_seq_recv' = [last_seq_recv EXCEPT ![l] = seqno]
          /\ \/ /\ seqno <= last_seq_delivered
                /\ fault' = "seqno too low"
                /\ UNCHANGED <<last_seq_delivered, ooo_msgs, got>>
             \/ /\ is_msg_in_order(seqno)
                /\ \E to \in {seqno} \cup {e.seqno : e \in ooo_msgs} :
                     /\ dequeued(seqno, to)
                     /\ last_seq_delivered' = to
                     /\ got' = Append(got, n) \o [i \in 1..to - seqno |-> at_seqno(seqno + i).n]
                     /\ ooo_msgs' = {e \in ooo_msgs : e.seqno \notin seqno + 1..to}
                     /\ fault' = IF \E e \in ooo_msgs : e.seqno = to + 1 /\ e.leg \notin legs
                                   THEN "no such leg" ELSE fault
             \/ /\ seqno > last_seq_delivered /\ ~is_msg_in_order(seqno)
                /\ ooo_msgs' = ooo_msgs \cup {[seqno |-> seqno, leg |-> l, n |-> n]}
                /\ UNCHANGED <<last_seq_delivered, got, fault>>
    /\ UNCHANGED <<set, sender>>

Receive(l) == handle_conflux_switch(l) \/ handle_relay_msg(l)

Next ==
    \/ send_data \/ send_control \/ send_on_primary \/ close_stream
    \/ \E l \in Legs : handle_sendme(l) \/ handle_conflux_switch(l) \/ handle_relay_msg(l)

\* Every leg delivers what it carries, and the reactor handles it.
Spec == Init /\ [][Next]_vars /\ \A l \in Legs : WF_vars(Receive(l))

-----------------------------------------------------------------------------
\* The cells are handled in the order they were sent, each once, whichever legs they
\* took (ConfluxSet::last_seq_delivered).
Fifo == INSTANCE FifoChannel
DeliveredInOrder == Fifo!Spec

\* No end runs into an error of its own making: no SWITCH of zero, no negative or
\* oversized seqno delta, no number below the last delivered, no buffered cell of a leg
\* that is gone (conflux.rs, msghandler.rs, reactor.rs try_dequeue_ooo_msgs).
NoFault == fault = "none"

\* The number the receiver works out for a cell is the one the sender meant, for the
\* cells it has buffered and those still on the wire (last_seq_recv, handle_conflux_switch).
Before(l, i) == IF i = 1 THEN last_seq_recv[l] ELSE wire[l][i - 1].n
SeqnosAgree ==
    /\ \A e \in ooo_msgs : e.seqno = e.n
    /\ \A l \in Legs : \A i \in DOMAIN wire[l] :
          LET c == wire[l][i] IN
          c.n = Before(l, i) + IF c.cmd = "SWITCH" THEN c.rel ELSE 1

\* No leg carries more than its congestion window ("If there is insufficient outgoing
\* *circuit-level* or *stream-level* SENDME window, an error is returned instead").
CwndRespected == \A l \in Legs : inflight[l] <= Cwnd

\* The legs stay in step: the receiver works out the sequence number the sender
\* meant, no error of their own making occurs, no leg exceeds its congestion window.
LegsInStep == NoFault /\ SeqnosAgree /\ CwndRespected

\* Every cell sent is handled in the end (reordering cannot deadlock).
EverythingDelivered == (Len(got) < sent) ~> (Len(got) = sent)
=============================================================================
