------------------------------ MODULE XonXoff ------------------------------
(***************************************************************************)
(* XON/XOFF flow control of one direction of a stream on a circuit with    *)
(* congestion control: the writing end (DataWriter and its reactor), the   *)
(* receiving reactor (StreamFlowControl in stream/flow_control.rs, called  *)
(* from CircHop) and the reading application (XonXoffReader in             *)
(* stream/xon_xoff.rs), which is a task of its own and is woken by the     *)
(* coalescing notifications of util/notify.rs.                             *)
(*                                                                         *)
(* Data is counted in cells.  The congestion window of the circuit is the  *)
(* constant Cwnd, and every cell is acknowledged on arrival.               *)
(***************************************************************************)
EXTENDS Integers, Sequences

CONSTANTS
    CC_XOFF_CLIENT,     \* an XOFF is sent when more than this is buffered
    Cwnd,               \* cells that may be in flight on the circuit
    QueueSize,          \* messages between DataWriter and its reactor
    MaxData             \* bound: cells the application writes

VARIABLES
    written,            \* cells written so far
    rate,               \* the writer's StreamRateLimit: "MAX" or "ZERO"
    queued,             \* cells past the DataWriter, not yet sent
    credit,             \* room left in the congestion window
    data,               \* cells in flight
    back,               \* cells in flight the other way
    buffered,           \* approx_stream_bytes of the receiving stream's queue
    last_sent_xon_xoff, \* XonXoffControl::last_sent_xon_xoff
    reactor,            \* where the receiving reactor is in handling a DATA cell
    notified,           \* a drain rate request the reader has not seen
    updates,            \* FlowCtrlUpdate(Xon) messages queued for the reactor
    pending_drain_rate_update,  \* XonXoffReader::pending_drain_rate_update
    reader,             \* where the reader is in poll_read
    registered          \* does a drain rate request wake the reader?

writer == <<written, rate, queued, credit>>
link == <<data, back>>
receiver == <<buffered, last_sent_xon_xoff, reactor, notified, updates>>
reading == <<pending_drain_rate_update, reader, registered>>
vars == <<writer, link, receiver, reading>>

\* The counters stay in their bounds; the tasks are at one of their suspension points.
TypeOK ==
    /\ written \in 0..MaxData
    /\ rate \in {"MAX", "ZERO"}
    /\ queued \in 0..QueueSize
    /\ credit \in 0..Cwnd
    /\ data \in 0..Cwnd
    /\ back \in Seq({"SENDME", "XON", "XOFF"})
    /\ buffered \in 0..MaxData
    /\ last_sent_xon_xoff \in {"None", "Xon", "Xoff"}
    /\ reactor \in {"idle", "delivered", "xoff"}
    /\ notified \in BOOLEAN
    /\ updates \in Nat
    /\ pending_drain_rate_update \in BOOLEAN
    /\ reader \in {"idle", "polled", "read", "read-pending", "asleep"}
    /\ registered \in BOOLEAN

Init ==
    /\ written = 0 /\ rate = "MAX" /\ queued = 0 /\ credit = Cwnd
    /\ data = 0 /\ back = <<>>
    /\ buffered = 0 /\ last_sent_xon_xoff = "None" /\ reactor = "idle"
    /\ notified = FALSE /\ updates = 0
    /\ pending_drain_rate_update = FALSE /\ reader = "idle" /\ registered = FALSE

-----------------------------------------------------------------------------
\* DataWriter: nothing is written while the rate limit is zero.
write ==
    /\ rate # "ZERO"
    /\ written < MaxData
    /\ queued < QueueSize
    /\ written' = written + 1
    /\ queued' = queued + 1
    /\ UNCHANGED <<rate, credit, link, receiver, reading>>

\* StreamFlowControl::can_send is true for what has passed the DataWriter: only the
\* congestion window of the circuit holds it back.
send_ready ==
    /\ queued > 0 /\ credit > 0
    /\ queued' = queued - 1
    /\ credit' = credit - 1
    /\ data' = data + 1
    /\ UNCHANGED <<written, rate, back, receiver, reading>>

\* handle_incoming_xon, handle_incoming_xoff, and the circuit's own SENDMEs.
handle_incoming ==
    /\ back # <<>>
    /\ back' = Tail(back)
    /\ credit' = IF Head(back) = "SENDME" THEN credit + 1 ELSE credit
    /\ rate' = CASE Head(back) = "XON" -> "MAX"
                 [] Head(back) = "XOFF" -> "ZERO"
                 [] OTHER -> rate
    /\ UNCHANGED <<written, queued, data, receiver, reading>>

-----------------------------------------------------------------------------
\* A DATA cell arrives: the circuit's SENDME, then delivery to the stream's queue.
\* The reader may run before each of the two steps that follow.
handle_data ==
    /\ reactor = "idle"
    /\ data > 0
    /\ data' = data - 1
    /\ buffered' = buffered + 1
    /\ back' = Append(back, "SENDME")
    /\ reactor' = "delivered"
    /\ UNCHANGED <<writer, last_sent_xon_xoff, notified, updates, reading>>

\* StreamFlowControl::maybe_send_xoff: its condition, then the XOFF and the request
\* for a new drain rate.
xoff_due == last_sent_xon_xoff # "Xoff" /\ buffered > CC_XOFF_CLIENT

maybe_send_xoff ==
    /\ reactor = "delivered"
    /\ reactor' = IF xoff_due THEN "xoff" ELSE "idle"
    /\ last_sent_xon_xoff' = IF xoff_due THEN "Xoff" ELSE last_sent_xon_xoff
    /\ UNCHANGED <<writer, link, buffered, notified, updates, reading>>

send_xoff ==
    /\ reactor = "xoff"
    /\ reactor' = "idle"
    /\ notified' = TRUE
    /\ back' = Append(back, "XOFF")
    /\ UNCHANGED <<writer, data, buffered, last_sent_xon_xoff, updates, reading>>

\* FlowCtrlUpdate(Xon): StreamFlowControl::maybe_send_xon.
maybe_send_xon ==
    IF buffered > CC_XOFF_CLIENT
      THEN /\ notified' = TRUE
           /\ UNCHANGED <<last_sent_xon_xoff, back>>
      ELSE /\ last_sent_xon_xoff' = "Xon"
           /\ back' = Append(back, "XON")
           /\ UNCHANGED notified

handle_drain_rate_update ==
    /\ reactor = "idle"
    /\ updates > 0
    /\ updates' = updates - 1
    /\ maybe_send_xon
    /\ UNCHANGED <<writer, data, buffered, reactor, reading>>

-----------------------------------------------------------------------------
(* XonXoffReader::poll_read, in the three steps between which the reactor  *)
(* may run.                                                                *)

poll_request ==
    /\ reader = "idle"
    /\ reader' = "polled"
    /\ pending_drain_rate_update' = (pending_drain_rate_update \/ notified)
    /\ notified' = FALSE
    /\ registered' = ~notified
    /\ UNCHANGED <<writer, link, buffered, last_sent_xon_xoff, reactor, updates>>

read_inner ==
    /\ reader = "polled"
    /\ IF buffered > 0
         THEN buffered' = buffered - 1 /\ reader' = "read"
         ELSE reader' = "read-pending" /\ UNCHANGED buffered
    /\ UNCHANGED <<writer, link, last_sent_xon_xoff, reactor, notified, updates,
                   pending_drain_rate_update, registered>>

\* The update is sent once there is nothing left to read.
update_due == pending_drain_rate_update /\ buffered = 0

send_update ==
    /\ reader \in {"read", "read-pending"}
    /\ reader' = IF reader = "read" THEN "idle" ELSE "asleep"
    /\ IF update_due
         THEN updates' = updates + 1 /\ pending_drain_rate_update' = FALSE
         ELSE UNCHANGED <<updates, pending_drain_rate_update>>
    /\ UNCHANGED <<writer, link, buffered, last_sent_xon_xoff, reactor, notified, registered>>

\* The task is woken by data in its queue, or by a drain rate request if it found
\* none when it last looked.
MutantWoken == reader = "asleep" /\ buffered > 0
reader_woken == reader = "asleep" /\ (buffered > 0 \/ (notified /\ registered))

wake_reader ==
    /\ reader_woken
    /\ reader' = "idle"
    /\ UNCHANGED <<writer, link, receiver, pending_drain_rate_update, registered>>

-----------------------------------------------------------------------------
Reader == poll_request \/ read_inner \/ send_update \/ wake_reader
Reactor == handle_data \/ maybe_send_xoff \/ send_xoff \/ handle_drain_rate_update

Next == write \/ send_ready \/ handle_incoming \/ Reactor \/ Reader

\* Reactors are tasks that run when they have work; the application keeps reading.
\* It need not write.
Fairness ==
    /\ WF_vars(send_ready)
    /\ WF_vars(handle_incoming)
    /\ WF_vars(Reactor)
    /\ WF_vars(Reader)

Spec == Init /\ [][Next]_vars /\ Fairness

-----------------------------------------------------------------------------
\* The debug_assert of maybe_send_xon: when more is buffered than the limit, the
\* last message sent was an XOFF.
XoffSentWhenFull ==
    reactor = "idle" /\ buffered > CC_XOFF_CLIENT => last_sent_xon_xoff = "Xoff"

\* What the receiver must hold is bounded, however slow the reader: the limit, the
\* cell that exceeded it, one congestion window and the writer's queue.
BufferBounded == buffered <= CC_XOFF_CLIENT + 1 + Cwnd + QueueSize

\* A writer that was told to stop may start again, as long as the application reads:
\* neither a coalesced notification nor a late update loses the XON.
XoffIsTemporary == rate = "ZERO" ~> rate = "MAX"
=============================================================================
