----------------------------- MODULE HalfStream -----------------------------
(***************************************************************************)
(* Closing one end of a stream while the other end is still sending.  The  *)
(* application drops its stream; some time later the reactor notices, moves *)
(* the stream to StreamMap::closed_streams with a HalfStream in it         *)
(* (tunnel/streammap.rs, tunnel/halfstream.rs) and sends an END.  Until    *)
(* the peer has seen the END it goes on sending, and the HalfStream counts *)
(* what arrives against a fresh receive window.                            *)
(*                                                                         *)
(* The peer is held back by a stream window with SENDMEs, or, on a circuit *)
(* with congestion control, only by the congestion window.                 *)
(***************************************************************************)
EXTENDS Integers

CONSTANTS
    WINDOW_INIT,        \* SEND_WINDOW_INIT and RECV_WINDOW_INIT
    Increment,          \* StreamParams::increment
    Cwnd,               \* the congestion window, where there is one
    MaxData             \* bound: cells the peer sends

ASSUME HalfStreamAssumption ==
    /\ WINDOW_INIT \in Nat \ {0}
    /\ Increment \in Nat \ {0}
    /\ WINDOW_INIT % Increment = 0
    /\ Cwnd \in Nat
    /\ MaxData \in Nat

VARIABLES
    uses_stream_sendme, \* CongestionControl::uses_stream_sendme, fixed when the hop is made
    sent,       \* cells the peer has sent
    sendw,      \* the peer's StreamSendWindow
    data,       \* cells in flight
    acks,       \* cells acknowledged by the SENDMEs in flight (a multiple of Increment)
    sink,       \* cells delivered to the application and not read
    readw,      \* StreamReceiver::recv_window
    reader,     \* does the application still hold the stream?
    dropped,    \* OpenStreamEnt::dropped
    entry,      \* the stream's entry in the map: "Open", "EndSent" or "None"
    recvw,      \* HalfStream::recvw
    end,        \* the END: "none", "sent", "received"
    circ        \* "open", or the error that closed the circuit

vars == <<uses_stream_sendme, sent, sendw, data, acks, sink, readw, reader, dropped, entry, recvw, end, circ>>

\* The windows of the half-closed stream and of its peer stay in their ranges.
TypeOK ==
    /\ uses_stream_sendme \in BOOLEAN
    /\ sent \in 0..MaxData
    /\ sendw \in 0..WINDOW_INIT
    /\ data \in Nat /\ acks \in Nat /\ sink \in Nat
    /\ readw \in 1..WINDOW_INIT
    /\ reader \in BOOLEAN
    /\ dropped \in Nat
    /\ entry \in {"Open", "EndSent", "None"}
    /\ recvw \in 0..WINDOW_INIT
    /\ end \in {"none", "sent", "received"}
    /\ circ \in {"open", "unexpected_sendme", "window_violated", "nonexistent_stream"}

Init ==
    /\ uses_stream_sendme \in BOOLEAN
    /\ sent = 0 /\ sendw = WINDOW_INIT /\ data = 0 /\ acks = 0
    /\ sink = 0 /\ readw = WINDOW_INIT /\ reader = TRUE
    /\ dropped = 0 /\ entry = "Open" /\ recvw = 0
    /\ end = "none" /\ circ = "open"

-----------------------------------------------------------------------------
\* StreamFlowControl::can_send at the peer, or the congestion window.
can_send == IF uses_stream_sendme THEN sendw > 0 ELSE data < Cwnd

\* The peer sends a DATA cell (take_capacity_to_send).
peer_send ==
    /\ circ = "open"
    /\ end # "received"
    /\ can_send
    /\ sent < MaxData
    /\ sent' = sent + 1
    /\ data' = data + 1
    /\ sendw' = IF uses_stream_sendme THEN sendw - 1 ELSE sendw
    /\ UNCHANGED <<acks, sink, readw, reader, dropped, entry, recvw, end, circ>>

\* The peer receives a stream SENDME: SendWindow::put.
put_for_incoming_sendme ==
    /\ circ = "open"
    /\ acks > 0
    /\ acks' = acks - Increment
    /\ IF sendw + Increment > WINDOW_INIT
         THEN circ' = "unexpected_sendme" /\ UNCHANGED sendw
         ELSE sendw' = sendw + Increment /\ UNCHANGED circ
    /\ UNCHANGED <<sent, data, sink, readw, reader, dropped, entry, recvw, end>>

\* The peer receives the END, which was sent after every SENDME.
ending_msg_received ==
    /\ circ = "open"
    /\ end = "sent" /\ acks = 0
    /\ end' = "received"
    /\ UNCHANGED <<sent, sendw, data, acks, sink, readw, reader, dropped, entry, recvw, circ>>

-----------------------------------------------------------------------------
\* The application reads a cell: RecvWindow::take, and a SENDME when the window
\* has come down to a multiple of the increment.
sendme_due(w) == w % Increment = 0

read ==
    /\ circ = "open"
    /\ reader /\ sink > 0
    /\ sink' = sink - 1
    /\ IF sendme_due(readw - 1)
         THEN /\ readw' = readw - 1 + Increment
              /\ acks' = IF uses_stream_sendme THEN acks + Increment ELSE acks
         ELSE readw' = readw - 1 /\ UNCHANGED acks
    /\ UNCHANGED <<sent, sendw, data, reader, dropped, entry, recvw, end, circ>>

\* The application drops the stream, and with it what it has not read.
drop ==
    /\ circ = "open"
    /\ reader
    /\ reader' = FALSE
    /\ sink' = 0
    /\ UNCHANGED <<sent, sendw, data, acks, readw, dropped, entry, recvw, end, circ>>

\* The receive window of the half-stream: the initial window less the cells that came
\* after the drop (decrement_n).
MutantHalfWindow == WINDOW_INIT - 2 * dropped
half_window == WINDOW_INIT - dropped

\* The reactor notices the drop: StreamMap::terminate.  If more cells were dropped than
\* the window allows, its error is discarded, and so are the entry and the END.
terminate ==
    /\ circ = "open"
    /\ entry = "Open" /\ ~reader
    /\ IF half_window < 0
         THEN entry' = "None" /\ UNCHANGED <<recvw, end>>
         ELSE entry' = "EndSent" /\ recvw' = half_window /\ end' = "sent"
    /\ UNCHANGED <<sent, sendw, data, acks, sink, readw, reader, dropped, circ>>

\* A DATA cell for an open stream: queued for the application, or counted as dropped.
deliver_msg_to_stream ==
    /\ circ = "open"
    /\ data > 0 /\ entry = "Open"
    /\ data' = data - 1
    /\ IF reader THEN sink' = sink + 1 /\ UNCHANGED dropped
                 ELSE dropped' = dropped + 1 /\ UNCHANGED sink
    /\ UNCHANGED <<sent, sendw, acks, readw, reader, entry, recvw, end, circ>>

\* A DATA cell for a half-closed stream: HalfStream::handle_msg.
half_stream_msg ==
    /\ circ = "open"
    /\ data > 0 /\ entry = "EndSent"
    /\ data' = data - 1
    /\ IF recvw = 0
         THEN circ' = "window_violated" /\ UNCHANGED recvw
         ELSE recvw' = recvw - 1 /\ UNCHANGED circ
    /\ UNCHANGED <<sent, sendw, acks, sink, readw, reader, dropped, entry, end>>

\* A DATA cell for a stream that has no entry any more.
nonexistent_stream ==
    /\ circ = "open"
    /\ data > 0 /\ entry = "None"
    /\ data' = data - 1
    /\ circ' = "nonexistent_stream"
    /\ UNCHANGED <<sent, sendw, acks, sink, readw, reader, dropped, entry, recvw, end>>

Next ==
    /\ UNCHANGED uses_stream_sendme
    /\ \/ peer_send \/ put_for_incoming_sendme \/ ending_msg_received
       \/ read \/ drop
       \/ terminate \/ deliver_msg_to_stream \/ half_stream_msg \/ nonexistent_stream

Spec == Init /\ [][Next]_vars

-----------------------------------------------------------------------------
\* With stream SENDMEs an honest peer is tolerated: whatever it had in flight when the
\* stream was closed, and still sends before it hears of the END, never closes the
\* circuit (StreamMap::terminate, HalfStream::handle_msg).
PeerTolerated == uses_stream_sendme => circ = "open"

\* The circuit is closed for a stream's data only when a peer has sent more than a
\* whole window, and only once the application has dropped the stream.
NoFalseAlarm == circ # "open" => sent > WINDOW_INIT /\ ~reader

\* No capacity is lost or made up while the stream is open: every cell of the window
\* is unused, in flight, waiting to be read, read but not acknowledged, acknowledged
\* in flight, or dropped with the stream object.
Conservation ==
    uses_stream_sendme /\ entry = "Open" /\ reader =>
        sendw + data + sink + (WINDOW_INIT - readw) + acks + dropped = WINDOW_INIT
=============================================================================
