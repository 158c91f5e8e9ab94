----------------------------- MODULE MCStreams ------------------------------
(***************************************************************************)
(* Streams and the tunnels that carry them, checked side by side: a        *)
(* half-closed stream, the stream maps of the two ends of a circuit, or a  *)
(* conflux tunnel that is asked to link circuits more than once.           *)
(***************************************************************************)
EXTENDS HalfStream, Sequences, FiniteSets

VARIABLE part       \* whose behaviour this is
\* CircuitStreams
VARIABLES open, closed, next_stream_id, sid, rx, s_sink, expecting_connected, target, written,
          incoming, control, polled, link, ended, s_circ
\* ConfluxTunnel
VARIABLES legs, status, join_point, hs_ctx, requests, answers, ready, hs, x_closing, reactor,
          primary_id, selected_init_primary, last_seq_sent, inflight, out_sent, out_wire, x_last_seq_recv,
          x_last_seq_delivered, x_ooo_msgs, x_got, out_fault, x_primary_id, x_selected, x_last_seq_sent,
          x_inflight, in_sent, in_wire, last_seq_recv, last_seq_delivered, ooo_msgs, got, in_fault

streamVars == <<open, closed, next_stream_id, sid, rx, s_sink, expecting_connected, target, written,
                incoming, control, polled, link, ended, s_circ>>
tunnelVars == <<legs, status, join_point, hs_ctx, requests, answers, ready, hs, x_closing, reactor,
                primary_id, selected_init_primary, last_seq_sent, inflight, out_sent, out_wire, x_last_seq_recv,
                x_last_seq_delivered, x_ooo_msgs, x_got, out_fault, x_primary_id, x_selected, x_last_seq_sent,
                x_inflight, in_sent, in_wire, last_seq_recv, last_seq_delivered, ooo_msgs, got, in_fault>>

\* Two streams, so that ids, closes and data of one cross those of the other.
S == INSTANCE CircuitStreams WITH sink <- s_sink, circ <- s_circ,
    MaxId <- 2, MaxStreams <- 2, ClientData <- 0, ServiceData <- 1, IncomingBuffer <- 2,
    Dispositions <- {"Accept", "CloseCircuit"}, UsesStreamSendme <- FALSE, MultiThreaded <- FALSE

\* Two requests for three circuits, with every way linking can fail.
T == INSTANCE ConfluxTunnel WITH N <- 3, Cwnd <- 2, SendmeInc <- 2, MaxU32 <- 10,
    Outcomes <- {"linked", "invalid", "streams", "send failed"}, Removals <- TRUE,
    MaxRequests <- 2, MaxOut <- 1, MaxIn <- 2

\* The first stream gets the last id, so that the counter wraps.
MCInit == part \in {"half", "streams", "tunnel"} /\ Init /\ S!Init /\ T!Init
          /\ (part # "half" => uses_stream_sendme) /\ next_stream_id = 2

Half(A) == part = "half" /\ A /\ UNCHANGED <<part, streamVars, tunnelVars>>
Stream(A) == part = "streams" /\ A /\ UNCHANGED <<part, vars, tunnelVars>>
Tunnel(A) == part = "tunnel" /\ A /\ UNCHANGED <<part, vars, streamVars>>

MCNext == Half(Next) \/ Stream(S!Next) \/ Tunnel(T!Next)

MCSpec == MCInit /\ [][MCNext]_<<part, vars, streamVars, tunnelVars>>

-----------------------------------------------------------------------------
\* Two ends that run this code keep to the protocol: neither takes the other's cells
\* for a violation, however closes cross, and nothing follows an END on its stream
\* (NeverClosed and NothingAfterEnd of CircuitStreams).
StreamsConform == S!NeverClosed /\ S!NothingAfterEnd

\* Stream ids mean the same at both ends although they are used again: DATA is handed
\* to the stream it was written on, and a stream that was ended here is remembered
\* until the peer ends it too (DataReachesItsStream, HalfStreamRemembered).
IdsMeanTheSame == S!DataReachesItsStream /\ S!HalfStreamRemembered

\* Each direction of the tunnel is a FIFO channel, and every LinkCircuits message is
\* answered exactly once, with three circuits and every way linking can fail.
BothInOrder == T!BothInOrder
AnsweredOnce == T!AnsweredOnce
=============================================================================
