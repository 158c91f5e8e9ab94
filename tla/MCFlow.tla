------------------------------- MODULE MCFlow -------------------------------
(***************************************************************************)
(* Flow control of circuits, streams and conflux legs, and the conflux     *)
(* handshake, checked side by side: a behaviour is one of `part`.          *)
(***************************************************************************)
EXTENDS ConfluxPath

VARIABLE part       \* whose behaviour this is
\* XonXoff
VARIABLES written, rate, queued, credit, x_data, back, buffered, last_sent_xon_xoff, reactor,
          notified, updates, pending_drain_rate_update, reader, registered
\* CircuitStreams
VARIABLES open, s_closed, next_stream_id, sid, rx, sink, expecting_connected, target, s_written,
          incoming, control, polled, link, ended, circ
\* FixedWindowCircuit
VARIABLES sendwindow, tags, recvwindow, data, sendmes, nsent, closed
\* ConfluxTunnel
VARIABLES t_legs, status, join_point, hs_ctx, requests, answers, ready, hs, x_closing, t_reactor,
          t_primary_id, t_selected, t_last_seq_sent, t_inflight, out_sent, out_wire, x_last_seq_recv,
          x_last_seq_delivered, x_ooo_msgs, x_got, out_fault, x_primary_id, x_selected, x_last_seq_sent,
          x_inflight, in_sent, in_wire, t_last_seq_recv, t_last_seq_delivered, t_ooo_msgs, t_got, in_fault

xonVars == <<written, rate, queued, credit, x_data, back, buffered, last_sent_xon_xoff, reactor,
             notified, updates, pending_drain_rate_update, reader, registered>>
streamVars == <<open, s_closed, next_stream_id, sid, rx, sink, expecting_connected, target, s_written,
                incoming, control, polled, link, ended, circ>>
windowVars == <<sendwindow, tags, recvwindow, data, sendmes, nsent, closed>>
tunnelVars == <<t_legs, status, join_point, hs_ctx, requests, answers, ready, hs, x_closing, t_reactor,
                t_primary_id, t_selected, t_last_seq_sent, t_inflight, out_sent, out_wire, x_last_seq_recv,
                x_last_seq_delivered, x_ooo_msgs, x_got, out_fault, x_primary_id, x_selected, x_last_seq_sent,
                x_inflight, in_sent, in_wire, t_last_seq_recv, t_last_seq_delivered, t_ooo_msgs, t_got, in_fault>>
allVars == <<part, vars, xonVars, streamVars, windowVars, tunnelVars>>

X == INSTANCE XonXoff WITH data <- x_data, CC_XOFF_CLIENT <- 1, Cwnd <- 2, QueueSize <- 1, MaxData <- 6

\* One stream with every disposition, and an application that runs beside its reactor.
S == INSTANCE CircuitStreams WITH closed <- s_closed, written <- s_written,
    MaxId <- 1, MaxStreams <- 1, ClientData <- 1, ServiceData <- 2, IncomingBuffer <- 1,
    Dispositions <- {"Accept", "CloseCircuit", "RejectRequest"}, UsesStreamSendme <- TRUE, MultiThreaded <- TRUE

\* The receive window is larger than the send window, as CircParams allows.
F == INSTANCE FixedWindowCircuit WITH Increment <- 3, Maximum <- 9, RecvStart <- 9, SendStart <- 6,
    MaxCells <- 20

T == INSTANCE ConfluxTunnel WITH
    legs <- t_legs, reactor <- t_reactor, primary_id <- t_primary_id, selected_init_primary <- t_selected,
    last_seq_sent <- t_last_seq_sent, inflight <- t_inflight, last_seq_recv <- t_last_seq_recv,
    last_seq_delivered <- t_last_seq_delivered, ooo_msgs <- t_ooo_msgs, got <- t_got,
    N <- 2, Cwnd <- 2, SendmeInc <- 2, MaxU32 <- 10, Outcomes <- {"linked", "invalid"}, Removals <- TRUE,
    MaxRequests <- 2, MaxOut <- 2, MaxIn <- 2

MCInit ==
    /\ part \in {"window", "xon_xoff", "streams", "path", "tunnel"}
    /\ Init /\ X!Init /\ S!Init /\ F!Init /\ T!Init
    /\ part # "path" => primary_id = 1

Path(A) == part = "path" /\ A /\ UNCHANGED <<part, xonVars, streamVars, windowVars, tunnelVars>>
Window(A) == part = "window" /\ A /\ UNCHANGED <<part, vars, xonVars, streamVars, tunnelVars>>
Xon(A) == part = "xon_xoff" /\ A /\ UNCHANGED <<part, vars, streamVars, windowVars, tunnelVars>>
Stream(A) == part = "streams" /\ A /\ UNCHANGED <<part, vars, xonVars, windowVars, tunnelVars>>
Tunnel(A) == part = "tunnel" /\ A /\ UNCHANGED <<part, vars, xonVars, streamVars, windowVars>>

MCNext == Path(Next) \/ Window(F!Next) \/ Xon(X!Next) \/ Stream(S!Next) \/ Tunnel(T!Next)

\* The fairness of each part (see its module).
MCFairness ==
    /\ WF_windowVars(Window(F!note_data_received)) /\ WF_windowVars(Window(F!note_sendme_received))
    /\ WF_xonVars(Xon(X!send_ready)) /\ WF_xonVars(Xon(X!handle_incoming))
    /\ WF_xonVars(Xon(X!Reactor)) /\ WF_xonVars(Xon(X!Reader))
    /\ \A e \in S!Ends : WF_streamVars(Stream(S!Reactor(e)))
    /\ \A l \in Legs : WF_vars(Path(Receive(l)))
    /\ \A l \in {1, 2} : WF_tunnelVars(Tunnel(T!hs_timeout(l)))

MCSpec == MCInit /\ [][MCNext]_allVars /\ MCFairness

-----------------------------------------------------------------------------
\* No window is lost, exceeded or taken for violated: two ends with fixed windows
\* never close the circuit and account for every cell (NeverClosed, Conservation);
\* with XON/XOFF the buffer stays bounded and the debug_assert of maybe_send_xon holds.
WindowsHold == F!TypeOK /\ F!NeverClosed /\ F!Conservation /\ X!XoffSentWhenFull /\ X!BufferBounded

\* A sender that must stop may go on some time: blocked by its circuit's window
\* (BlockedIsTemporary), or told to stop by an XOFF (XoffIsTemporary).  As one of the
\* two rests, one formula states both.
StopsAreTemporary == ~F!can_send \/ rate = "ZERO" ~> F!can_send /\ rate = "MAX"

\* The stream map tells the truth: ids are never open and closed at once, an END
\* follows all that was queued, a stream counts as ended by the peer only if it did.
StreamMapTrue == S!Disjoint /\ S!FlushedBeforeEnd /\ S!EndReceivedIsTrue

\* The conflux handshake is accounted for: its context exists exactly while legs are
\* in it, every request is answered once, and the reactor meets no internal error.
HandshakeAccounted == T!NoInternalError /\ T!HandshakeAccounted /\ T!AnsweredOnce

\* A tunnel serves its users while its legs link and go away: each direction is a FIFO
\* channel (BothInOrder), and every leg's handshake ends (HandshakeEnds).
TunnelServes == T!BothInOrder /\ T!HandshakeEnds

\* A dropped stream ends at the peer too.
DropReachesPeer == S!DropReachesPeer
=============================================================================
