--------------------------- MODULE ConfluxTunnel ---------------------------
(***************************************************************************)
(* A conflux tunnel of the client: a single circuit that is joined by      *)
(* others (reactor.rs handle_link_circuits, conflux.rs add_legs), the      *)
(* LINK / LINKED / LINKED_ACK handshake on every leg, its timeout, legs    *)
(* that disappear (conflux.rs remove), and data in both directions over    *)
(* what is left (ConfluxPath, once for each direction).                    *)
(*                                                                         *)
(* The exit is external: it answers LINK, multiplexes like the client, and *)
(* closes the tunnel when its own primary leg is gone.                     *)
(***************************************************************************)
EXTENDS Integers, Sequences, FiniteSets

CONSTANTS
    N,              \* circuits, numbered 1..N; the tunnel starts with circuit 1
    Cwnd, SendmeInc, MaxU32,
    Outcomes,       \* how add_legs and link_circuits may end
    Removals,       \* do legs disappear?
    MaxRequests,    \* bound: LinkCircuits messages
    MaxOut, MaxIn   \* bounds: cells in each direction

Circuits == 1..N

VARIABLES
    legs,       \* ConfluxSet::legs
    status,     \* conflux_status of each circuit; "Free" before it is used, "Gone" after
    join_point, \* is ConfluxSet::join_point set?
    hs_ctx,     \* Reactor::conflux_hs_ctx
    requests,   \* LinkCircuits messages handled
    answers,    \* results sent to their initiators
    ready,      \* has an initiator been told that linking is over?
    hs,         \* the handshake cell in flight on each leg
    x_closing,  \* is the exit about to close the tunnel?
    reactor,    \* "running", or how it ended: "shutdown", "bad LINKED", "error" (internal)
    \* client to exit
    primary_id, selected_init_primary, last_seq_sent, inflight, out_sent,
    out_wire, x_last_seq_recv, x_last_seq_delivered, x_ooo_msgs, x_got, out_fault,
    \* exit to client
    x_primary_id, x_selected, x_last_seq_sent, x_inflight, in_sent,
    in_wire, last_seq_recv, last_seq_delivered, ooo_msgs, got, in_fault

link == <<legs, status, join_point, hs_ctx, requests, answers, ready, hs, x_closing>>
out == <<primary_id, selected_init_primary, last_seq_sent, inflight, out_sent,
         out_wire, x_last_seq_recv, x_last_seq_delivered, x_ooo_msgs, x_got, out_fault>>
inn == <<x_primary_id, x_selected, x_last_seq_sent, x_inflight, in_sent,
         in_wire, last_seq_recv, last_seq_delivered, ooo_msgs, got, in_fault>>
vars == <<link, reactor, out, inn>>

NoCtx == [num_legs |-> 0, results |-> 0]
Linked == {l \in legs : status[l] = "Linked"}
XLinked == {l \in legs : hs[l] = "done"}    \* the legs the exit knows to be linked

Out == INSTANCE ConfluxPath WITH
    Legs <- Circuits, linked <- Linked, sent <- out_sent, wire <- out_wire,
    last_seq_recv <- x_last_seq_recv, last_seq_delivered <- x_last_seq_delivered,
    ooo_msgs <- x_ooo_msgs, got <- x_got, fault <- out_fault,
    HighThroughput <- FALSE, OffPrimary <- FALSE, MaxCells <- MaxOut

In == INSTANCE ConfluxPath WITH
    Legs <- Circuits, legs <- XLinked, linked <- XLinked,
    primary_id <- x_primary_id, selected_init_primary <- x_selected,
    last_seq_sent <- x_last_seq_sent, inflight <- x_inflight, sent <- in_sent,
    wire <- in_wire, fault <- in_fault,
    HighThroughput <- FALSE, OffPrimary <- FALSE, MaxCells <- MaxIn

\* The legs, the handshake state and the pending requests of the tunnel are well typed.
TypeOK ==
    /\ legs \subseteq Circuits
    /\ status \in [Circuits -> {"Free", "None", "Unlinked", "Pending", "Linked", "Gone"}]
    /\ join_point \in BOOLEAN
    /\ hs_ctx.num_legs \in 0..N /\ hs_ctx.results \in 0..N
    /\ requests \in 0..MaxRequests /\ answers \in 0..MaxRequests
    /\ ready \in BOOLEAN /\ x_closing \in BOOLEAN
    /\ hs \in [Circuits -> {"idle", "LINK", "LINKED", "LINKED_ACK", "done"}]
    /\ reactor \in {"running", "shutdown", "bad LINKED", "error"}
    /\ Out!TypeOK /\ In!TypeOK

Zero == [l \in Circuits |-> 0]
Init ==
    /\ legs = {1}
    /\ status = [l \in Circuits |-> IF l = 1 THEN "None" ELSE "Free"]
    /\ join_point = FALSE /\ hs_ctx = NoCtx /\ requests = 0 /\ answers = 0
    /\ ready = FALSE /\ x_closing = FALSE
    /\ hs = [l \in Circuits |-> "idle"]
    /\ reactor = "running"
    /\ primary_id = 1 /\ selected_init_primary = FALSE
    /\ last_seq_sent = Zero /\ inflight = Zero /\ out_sent = 0
    /\ out_wire = [l \in Circuits |-> << >>]
    /\ x_last_seq_recv = Zero /\ x_last_seq_delivered = 0 /\ x_ooo_msgs = {} /\ x_got = << >>
    /\ out_fault = "none"
    /\ x_primary_id = 1 /\ x_selected = FALSE
    /\ x_last_seq_sent = Zero /\ x_inflight = Zero /\ in_sent = 0
    /\ in_wire = [l \in Circuits |-> << >>]
    /\ last_seq_recv = Zero /\ last_seq_delivered = 0 /\ ooo_msgs = {} /\ got = << >>
    /\ in_fault = "none"

-----------------------------------------------------------------------------
\* Reactor::handle_link_circuits, with the circuits new.

\* send_conflux_outcome: an initiator that has gone away shuts the reactor down.
send_conflux_outcome(otherwise) ==
    /\ answers' = answers + 1
    /\ reactor' \in {otherwise, "shutdown"}

MutantRefused(new) ==
    /\ hs_ctx # NoCtx
    /\ status' = [l \in Circuits |-> IF l \in new THEN "Gone" ELSE status[l]]
    /\ UNCHANGED <<answers, reactor, legs, join_point, hs_ctx, ready, hs>>

\* A handshake is going on: the request is refused.
link_refused(new) ==
    /\ hs_ctx # NoCtx
    /\ send_conflux_outcome("running")
    /\ status' = [l \in Circuits |-> IF l \in new THEN "Gone" ELSE status[l]]
    /\ UNCHANGED <<legs, join_point, hs_ctx, ready, hs>>

\* add_legs finds an unsuitable circuit.  It has taken the join point.
link_invalid(new) ==
    /\ hs_ctx = NoCtx
    /\ join_point' = FALSE
    /\ send_conflux_outcome("running") /\ ready' = TRUE
    /\ status' = [l \in Circuits |-> IF l \in new THEN "Gone" ELSE status[l]]
    /\ UNCHANGED <<legs, hs_ctx, hs>>

\* The first circuit has open streams: set_stream_map fails on it, after all the
\* circuits have been added and it alone has been given a handler.
link_streams(new) ==
    /\ hs_ctx = NoCtx /\ status[1] = "None"
    /\ join_point' = TRUE
    /\ legs' = legs \cup new
    /\ status' = [l \in Circuits |-> IF l = 1 THEN "Unlinked"
                                 ELSE IF l \in new THEN "None" ELSE status[l]]
    /\ send_conflux_outcome("running") /\ ready' = TRUE
    /\ UNCHANGED <<hs_ctx, hs>>

\* num_unlinked, and the legs that get a LINK.
unlinked == {l \in legs : status[l] \in {"None", "Unlinked"}}
MutantNumLegs(new) == Cardinality(new)
num_legs(new) == Cardinality(new) + Cardinality(unlinked)


\* link_circuits sends LINK on the legs of linking, which are all, or (on an error)
\* those before the first that fails.
begin_conflux_link(new, linking) ==
    /\ join_point' = TRUE
    /\ legs' = legs \cup new
    /\ status' = [l \in Circuits |-> IF l \in linking THEN "Pending"
                                 ELSE IF l \in new \cup unlinked THEN "Unlinked" ELSE status[l]]
    /\ hs' = [l \in Circuits |-> IF l \in linking THEN "LINK" ELSE hs[l]]

link_started(new) ==
    /\ hs_ctx = NoCtx
    /\ begin_conflux_link(new, new \cup unlinked)
    /\ hs_ctx' = [num_legs |-> num_legs(new), results |-> 0]
    /\ UNCHANGED <<answers, ready, reactor>>

link_send_failed(new) ==
    /\ hs_ctx = NoCtx
    /\ \E bad \in new \cup unlinked :
          begin_conflux_link(new, {l \in new \cup unlinked : l < bad})
    /\ send_conflux_outcome("running") /\ ready' = TRUE
    /\ UNCHANGED hs_ctx

\* Circuits are numbered in the order they are used.
handle_link_circuits(new) ==
    /\ reactor = "running"
    /\ requests < MaxRequests
    /\ new # {} /\ \A l \in new : status[l] = "Free"
    /\ \A l \in new : \A k \in 1..l : k \in new \/ status[k] # "Free"
    /\ requests' = requests + 1
    /\ \/ link_refused(new)
       \/ "linked" \in Outcomes /\ link_started(new)
       \/ "invalid" \in Outcomes /\ link_invalid(new)
       \/ "streams" \in Outcomes /\ link_streams(new)
       \/ "send failed" \in Outcomes /\ link_send_failed(new)
    /\ UNCHANGED <<x_closing, out, inn>>

-----------------------------------------------------------------------------
\* The handshake.

\* Reactor::note_conflux_handshake_result.  closing: the reactor is about to end anyway.
note_conflux_handshake_result(closing) ==
    LET done == hs_ctx.results + 1 = hs_ctx.num_legs IN
    \/ /\ hs_ctx = NoCtx
       /\ reactor' = "error"
       /\ UNCHANGED <<hs_ctx, answers, ready>>
    \/ /\ hs_ctx # NoCtx /\ ~done /\ ~closing
       /\ hs_ctx' = [hs_ctx EXCEPT !.results = @ + 1]
       /\ UNCHANGED <<answers, ready, reactor>>
    \/ /\ hs_ctx # NoCtx /\ (done \/ closing)
       /\ hs_ctx' = NoCtx
       /\ send_conflux_outcome(IF closing THEN "bad LINKED" ELSE "running")
       /\ ready' = TRUE

\* The exit (external) answers LINK, and learns that the leg is linked from LINKED_ACK.
exit_link(l) ==
    /\ reactor = "running"
    /\ l \in legs /\ hs[l] \in {"LINK", "LINKED_ACK"}
    /\ hs' = [hs EXCEPT ![l] = IF @ = "LINK" THEN "LINKED" ELSE "done"]
    /\ UNCHANGED <<legs, status, join_point, hs_ctx, requests, answers, ready, x_closing,
                   reactor, out, inn>>

\* ClientConfluxMsgHandler::handle_conflux_linked with the right nonce, then
\* ConfluxHandshakeComplete.
handle_conflux_linked(l) ==
    /\ reactor = "running"
    /\ l \in legs /\ hs[l] = "LINKED" /\ status[l] = "Pending"
    /\ status' = [status EXCEPT ![l] = "Linked"]
    /\ hs' = [hs EXCEPT ![l] = "LINKED_ACK"]
    /\ note_conflux_handshake_result(FALSE)
    /\ UNCHANGED <<legs, join_point, requests, x_closing, out, inn>>

-----------------------------------------------------------------------------
\* Legs that go away.

\* Is leg l's number above max_last_seq_recv (max_last_seq_sent) of the other legs?
exceeds_max(f, l) ==
    LET others == {k \in legs \ {l} : status[k] # "None"}
    IN others # {} /\ \A k \in others : f[l] > f[k]

\* ConfluxSet::remove_conflux: does the loss of leg l, which has begun the handshake,
\* close the tunnel?  Without a join point it does not get to the cells in flight.
must_close(l) ==
    \/ exceeds_max(last_seq_recv, l) \/ exceeds_max(last_seq_sent, l)
    \/ join_point /\ inflight[l] >= SendmeInc

\* The exit (external) closes the tunnel by the same rules, for its own numbers.
x_must_close(l) ==
    \/ l = x_primary_id
    \/ exceeds_max(x_last_seq_recv, l) \/ exceeds_max(x_last_seq_sent, l)
    \/ x_inflight[l] >= SendmeInc

\* The cells of the leg are lost with it.
lose(l) ==
    /\ legs' = legs \ {l}
    /\ status' = [status EXCEPT ![l] = "Gone"]
    /\ hs' = [hs EXCEPT ![l] = "idle"]
    /\ out_wire' = [out_wire EXCEPT ![l] = << >>]
    /\ in_wire' = [in_wire EXCEPT ![l] = << >>]
    /\ x_closing' = (x_closing \/ (hs[l] = "done" /\ x_must_close(l)))
    /\ UNCHANGED <<join_point, requests,
                   primary_id, selected_init_primary, last_seq_sent, inflight, out_sent,
                   x_last_seq_recv, x_last_seq_delivered, x_ooo_msgs, x_got, out_fault,
                   x_primary_id, x_selected, x_last_seq_sent, x_inflight, in_sent,
                   last_seq_recv, last_seq_delivered, ooo_msgs, got, in_fault>>

\* RunOnceCmdInner::RemoveLeg: ConfluxSet::remove, and for a leg that was not linked yet
\* the result of its handshake.
RemoveLeg(l, reason) ==
    /\ lose(l)
    /\ \/ /\ legs = {l} \/ l = primary_id
          /\ reactor' = "shutdown"
          /\ UNCHANGED <<hs_ctx, answers, ready>>
       \/ /\ legs # {l} /\ l # primary_id
          /\ \/ /\ status[l] = "None" \/ (status[l] # "Unlinked" /\ ~must_close(l) /\ ~join_point)
                /\ reactor' = "error"
                /\ UNCHANGED <<hs_ctx, answers, ready>>
             \/ /\ status[l] \in {"Pending", "Linked"} /\ must_close(l)
                /\ reactor' = "shutdown"
                /\ UNCHANGED <<hs_ctx, answers, ready>>
             \/ /\ status[l] = "Linked" /\ ~must_close(l) /\ join_point
                /\ UNCHANGED <<reactor, hs_ctx, answers, ready>>
             \/ /\ status[l] = "Unlinked" \/ (status[l] = "Pending" /\ ~must_close(l) /\ join_point)
                /\ note_conflux_handshake_result(reason = "bad LINKED")

\* A LINKED with the wrong nonce.
bad_linked(l) ==
    /\ reactor = "running" /\ Removals
    /\ l \in legs /\ hs[l] = "LINKED" /\ status[l] = "Pending"
    /\ RemoveLeg(l, "bad LINKED")

MutantTimeout(l) ==
    /\ reactor = "running"
    /\ l \in legs /\ status[l] = "Unlinked"
    /\ RemoveLeg(l, "timeout")

\* conflux_hs_timeout in ConfluxSet::next_circ_action.
hs_timeout(l) ==
    /\ reactor = "running"
    /\ l \in legs /\ status[l] = "Pending"
    /\ RemoveLeg(l, "timeout")

\* The leg's channel is closed: input.next() returns None.
channel_closed(l) ==
    /\ reactor = "running" /\ Removals
    /\ l \in legs
    /\ RemoveLeg(l, "closed")

\* A DESTROY on any leg (handle_destroy_cell: CleanShutdown).
handle_destroy_cell ==
    /\ reactor = "running" /\ Removals
    /\ reactor' = "shutdown"
    /\ UNCHANGED <<link, out, inn>>

-----------------------------------------------------------------------------
\* Data, once the initiator has been told that the tunnel is ready; or that linking has
\* failed, when it goes on with the circuit it had.
in_use ==
    /\ reactor = "running" /\ join_point /\ ready
    /\ Linked # {} \/ status[1] = "Unlinked"

after(fault) == reactor' = IF fault = "none" THEN reactor ELSE "error"

send_out ==
    /\ in_use
    /\ UNCHANGED link
    /\ Out!send_data \/ Out!send_control \/ Out!send_on_primary
    /\ after(out_fault')
    /\ UNCHANGED inn

send_in ==
    /\ in_use
    /\ XLinked # {} /\ ~x_closing
    /\ UNCHANGED link
    /\ In!send_data \/ In!send_control
    /\ after(in_fault')
    /\ UNCHANGED out

receive(l) ==
    /\ reactor = "running"
    /\ UNCHANGED link
    /\ \/ Out!Receive(l) /\ after(out_fault') /\ UNCHANGED inn
       \/ Out!handle_sendme(l) /\ UNCHANGED <<reactor, inn>>
       \/ In!Receive(l) /\ after(in_fault') /\ UNCHANGED out
       \/ In!handle_sendme(l) /\ UNCHANGED <<reactor, out>>

Next ==
    \/ \E new \in SUBSET Circuits : handle_link_circuits(new)
    \/ \E l \in Circuits :
          \/ exit_link(l) \/ handle_conflux_linked(l)
          \/ bad_linked(l) \/ hs_timeout(l) \/ channel_closed(l)
          \/ receive(l)
    \/ handle_destroy_cell \/ send_out \/ send_in

\* The runtime's timer fires.
Spec == Init /\ [][Next]_vars /\ \A l \in Circuits : WF_vars(hs_timeout(l))

-----------------------------------------------------------------------------
\* In each direction the tunnel is a FIFO channel, whatever legs come and go
\* (ConfluxSet::send_relay_cell_on_leg, Reactor::try_dequeue_ooo_msgs).
BothInOrder == Out!DeliveredInOrder /\ In!DeliveredInOrder

\* The reactor never ends with an internal error while the exit follows the protocol.
NoInternalError == reactor # "error"

\* Every LinkCircuits message is answered exactly once, unless the reactor ends first
\* (ConfluxLinkResultChannel).
AnsweredOnce ==
    /\ answers <= requests
    /\ reactor = "running" => requests = answers + IF hs_ctx = NoCtx THEN 0 ELSE 1

\* The context is there exactly while legs are in the handshake, and waits for as many
\* results as there are ("Set to `None` if ... none of the circuit legs from our conflux
\* set are currently in the conflux handshake phase").
HandshakeAccounted ==
    reactor = "running" =>
        hs_ctx.num_legs - hs_ctx.results = Cardinality({l \in legs : status[l] = "Pending"})

\* Every handshake comes to an end.
HandshakeEnds == hs_ctx # NoCtx ~> (hs_ctx = NoCtx \/ reactor # "running")
=============================================================================
