------------------------------ MODULE CellQueues ------------------------------
(***************************************************************************)
(* The bounded queues between a channel's reactor and the reactors of the  *)
(* circuits on it (doc/dev/notes/cell-lifecycle.md).  Inbound, the channel *)
(* reactor (channel/reactor.rs) puts a cell in its circuit's input queue   *)
(* and waits there until the queue has room.  Outbound, a circuit sends to *)
(* the channel's one queue of cells through a SometimesUnboundedSink       *)
(* (util/sometimes_unbounded_sink.rs), and ConfluxSet::next_circ_action    *)
(* (tunnel/reactor/conflux.rs) reads the circuit's input only while that   *)
(* sink is ready.                                                          *)
(*                                                                         *)
(* A queue is a futures mpsc channel: a sender whose message takes the     *)
(* queue past its buffer is parked, and each message that is taken out     *)
(* wakes the sender that was parked first.                                 *)
(***************************************************************************)
EXTENDS Integers, Sequences

CONSTANTS
    Circuits,
    CHANNEL_BUFFER_SIZE,    \* buffer of Channel::cell_tx
    InputBuffer,            \* buffer of a circuit's input queue
    Window,                 \* what the far end may have unread on each circuit
    MaxIn,                  \* bound: inbound cells of each circuit
    MaxOut                  \* bound: cells each circuit sends

VARIABLES
    cells,      \* channel Reactor::cells: the circuit and number of each cell
    parked,     \* the circuits whose ChannelSender is parked, first first
    buf,        \* SometimesUnboundedSink::buf of each circuit
    produced,   \* cells each circuit has produced
    written,    \* the number of each circuit's last cell written to the output
    inq,        \* cells in each circuit's input queue
    arrived,    \* cells that arrived for each circuit
    delivering  \* the circuit the channel reactor waits for, or "none"

qvars == <<cells, parked, buf, produced, written, inq, arrived, delivering>>

TypeOK ==
    /\ \A i \in DOMAIN cells : cells[i][1] \in Circuits /\ cells[i][2] \in 1..MaxOut[cells[i][1]]
    /\ Len(cells) <= CHANNEL_BUFFER_SIZE + Len(parked)
    /\ \A c \in Circuits : inq[c] \in 0..(InputBuffer + 1)
    /\ delivering \in Circuits \cup {"none"}

Init ==
    /\ cells = <<>> /\ parked = <<>>
    /\ buf = [c \in Circuits |-> <<>>]
    /\ produced = [c \in Circuits |-> 0]
    /\ written = [c \in Circuits |-> 0]
    /\ inq = [c \in Circuits |-> 0]
    /\ arrived = [c \in Circuits |-> 0]
    /\ delivering = "none"

-----------------------------------------------------------------------------
is_parked(c) == \E i \in DOMAIN parked : parked[i] = c

\* Sink::poll_ready of the SometimesUnboundedSink, once flush_buf has run.
ready(c) == buf[c] = <<>> /\ ~is_parked(c)

\* Sender::start_send: the sender is parked when the buffer is full.
start_send(c, n) ==
    /\ cells' = Append(cells, <<c, n>>)
    /\ parked' = IF Len(cells) >= CHANNEL_BUFFER_SIZE THEN Append(parked, c) ELSE parked

\* SometimesUnboundedSink::pollish_send_unbounded: into the queue when the sink
\* is ready, else into the buffer, behind what is there.
MutantSend(c) ==
    /\ IF ~is_parked(c) THEN start_send(c, produced[c] + 1) /\ UNCHANGED buf
                        ELSE /\ buf' = [buf EXCEPT ![c] = Append(@, produced[c] + 1)]
                             /\ UNCHANGED <<cells, parked>>
    /\ produced' = [produced EXCEPT ![c] = @ + 1]
pollish_send_unbounded(c) ==
    /\ IF ready(c) THEN start_send(c, produced[c] + 1) /\ UNCHANGED buf
                   ELSE /\ buf' = [buf EXCEPT ![c] = Append(@, produced[c] + 1)]
                        /\ UNCHANGED <<cells, parked>>
    /\ produced' = [produced EXCEPT ![c] = @ + 1]

\* SometimesUnboundedSink::flush_buf, polled on every turn of the circuit's reactor.
MutantFlush(c) ==
    /\ buf[c] # <<>> /\ ~is_parked(c) /\ inq[c] > 0
    /\ start_send(c, Head(buf[c]))
    /\ buf' = [buf EXCEPT ![c] = Tail(@)]
    /\ UNCHANGED <<produced, written, inq, arrived, delivering>>
flush_buf(c) ==
    /\ buf[c] # <<>> /\ ~is_parked(c)
    /\ start_send(c, Head(buf[c]))
    /\ buf' = [buf EXCEPT ![c] = Tail(@)]
    /\ UNCHANGED <<produced, written, inq, arrived, delivering>>

\* The circuit's reactor handles a control message, ready or not, and sends.
handle_control(c) ==
    /\ produced[c] < MaxOut[c]
    /\ pollish_send_unbounded(c)
    /\ UNCHANGED <<written, inq, arrived, delivering>>

\* next_circ_action: with the sink ready, a cell of input is handled, with or
\* without a cell in answer, or else a ready stream sends.
read_input(c) ==
    /\ ready(c) /\ inq[c] > 0
    /\ inq' = [inq EXCEPT ![c] = @ - 1]
    /\ \/ UNCHANGED <<cells, parked, buf, produced>>
       \/ produced[c] < MaxOut[c] /\ pollish_send_unbounded(c)
    /\ UNCHANGED <<written, arrived, delivering>>

send_stream(c) ==
    /\ ready(c) /\ inq[c] = 0 /\ produced[c] < MaxOut[c]
    /\ pollish_send_unbounded(c)
    /\ UNCHANGED <<written, inq, arrived, delivering>>

-----------------------------------------------------------------------------
\* The channel's output can be written: run_once takes a cell from the queue.
write_output ==
    /\ delivering = "none" /\ cells # <<>>
    /\ written' = [written EXCEPT ![Head(cells)[1]] = Head(cells)[2]]
    /\ cells' = Tail(cells)
    /\ parked' = IF parked = <<>> THEN parked ELSE Tail(parked)
    /\ UNCHANGED <<buf, produced, inq, arrived, delivering>>

\* deliver_relay: the cell goes into the input queue, and the send ends when the
\* queue is within its buffer again.
deliver_relay(c) ==
    /\ delivering = "none"
    /\ arrived[c] < MaxIn /\ inq[c] < Window[c]
    /\ arrived' = [arrived EXCEPT ![c] = @ + 1]
    /\ inq' = [inq EXCEPT ![c] = @ + 1]
    /\ delivering' = IF inq[c] >= InputBuffer THEN c ELSE "none"
    /\ UNCHANGED <<cells, parked, buf, produced, written>>

delivered ==
    /\ delivering # "none"
    /\ inq[delivering] <= InputBuffer
    /\ delivering' = "none"
    /\ UNCHANGED <<cells, parked, buf, produced, written, inq, arrived>>

CircuitStep(c) == flush_buf(c) \/ read_input(c) \/ send_stream(c)

Next ==
    \/ \E c \in Circuits : CircuitStep(c) \/ handle_control(c) \/ deliver_relay(c)
    \/ write_output
    \/ delivered

-----------------------------------------------------------------------------
\* Cells of a circuit leave in the order the circuit produced them, whether
\* they went through the sink's buffer or straight into the queue.
CellsInOrder ==
    \A c \in Circuits :
        LET queued == SelectSeq(cells, LAMBDA x : x[1] = c)
            pending == [i \in DOMAIN queued |-> queued[i][2]] \o buf[c]
        IN  pending = [i \in 1..(produced[c] - written[c]) |-> written[c] + i]

\* No cell stays behind: what the circuits have produced is written to the
\* channel's output.
AllWritten ==
    []<>(\A c \in Circuits : written[c] = produced[c])

\* cell-lifecycle.md on a full channel queue: "In the circuit reactor, we
\* continue reading from `input`".
InputIsRead ==
    \A c \in Circuits : inq[c] > 0 ~> inq[c] = 0
=============================================================================
