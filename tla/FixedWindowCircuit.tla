-------------------------- MODULE FixedWindowCircuit --------------------------
(***************************************************************************)
(* Circuit-level SENDME flow control of tor-proto with the fixed-window    *)
(* algorithm (congestion.rs, congestion/fixed.rs, congestion/sendme.rs,    *)
(* and their callers in tunnel/reactor/circuit.rs).                        *)
(*                                                                         *)
(* One direction of a circuit hop: the sender holds a send window and the  *)
(* queue of tags it will accept in SENDMEs; the receiver holds a receive   *)
(* window.  Both ends run the code modelled here, and the two directions   *)
(* of a hop share no state.  Cells and SENDMEs travel on FIFO links.  The  *)
(* authenticated tag of a cell is its position in the stream of DATA cells *)
(* (tags of different cells differ).                                       *)
(***************************************************************************)
EXTENDS Integers, Sequences

CONSTANTS
    Increment,   \* CircParams::increment(): cells acknowledged per SENDME
    Maximum,     \* CircParams::maximum(): largest send window
    RecvStart,   \* CircParams::start(): initial receive window
    SendStart,   \* FixedWindowParams::circ_window_start(): initial send window
    MaxCells     \* bound on the number of DATA cells sent

\* What holds of the parameters of every circuit (CircParams and FixedWindowParams).
WindowParameters ==
    /\ Increment \in Nat \ {0}
    /\ Maximum \in Nat
    /\ RecvStart \in Nat
    /\ SendStart \in Nat
    /\ MaxCells \in Nat
    /\ SendStart <= RecvStart
    /\ SendStart <= Maximum
    /\ RecvStart % Increment = 0

VARIABLES
    sendwindow,  \* SendWindow::window of the sender
    tags,        \* SendmeValidator::tags of the sender
    recvwindow,  \* RecvWindow::window of the receiver
    data,        \* DATA cells on their way, as their tags
    sendmes,     \* SENDMEs on their way, as the tags they carry
    nsent,       \* DATA cells sent so far (the tag of the last one)
    closed       \* why the circuit was closed, or "open"

vars == <<sendwindow, tags, recvwindow, data, sendmes, nsent, closed>>

Causes == {"open", "mismatched tag", "unexpected sendme", "send window overflow",
           "recv window violated"}

Init ==
    /\ sendwindow = SendStart
    /\ tags = << >>
    /\ recvwindow = RecvStart
    /\ data = << >>
    /\ sendmes = << >>
    /\ nsent = 0
    /\ closed = "open"

(* FixedWindow::can_send *)
can_send == sendwindow > 0

(* SendWindow::should_record_tag *)
MutantShouldRecordTag(window) == (window + 1) % Increment = 0
should_record_tag(window) == window % Increment = 0

(* RecvWindow::take: whether a SENDME is due when this much window is left *)
sendme_due(window) == window % Increment = 0

(* RecvWindow::put *)
put(window) == window + Increment

(* Circuit::send_relay_cell with a DATA cell: note_data_sent takes one cell *)
(* from the window and records the cell's tag when the window that is left  *)
(* is a multiple of the increment.                                          *)
note_data_sent ==
    /\ closed = "open"
    /\ nsent < MaxCells
    /\ can_send
    /\ sendwindow' = sendwindow - 1
    /\ nsent' = nsent + 1
    /\ tags' = IF should_record_tag(sendwindow - 1) THEN Append(tags, nsent + 1)
                                                    ELSE tags
    /\ data' = Append(data, nsent + 1)
    /\ UNCHANGED <<recvwindow, sendmes, closed>>

(* Circuit::handle_relay_cell with a DATA cell: note_data_received takes    *)
(* one cell from the receive window; when what is left is a multiple of the *)
(* increment, a SENDME with the tag of this cell is sent and               *)
(* note_sendme_sent puts the increment back.                                *)
note_data_received ==
    /\ closed = "open"
    /\ data # << >>
    /\ data' = Tail(data)
    /\ IF recvwindow = 0
       THEN /\ closed' = "recv window violated"
            /\ UNCHANGED <<recvwindow, sendmes>>
       ELSE /\ IF sendme_due(recvwindow - 1)
               THEN /\ sendmes' = Append(sendmes, Head(data))
                    /\ recvwindow' = put(recvwindow - 1)
               ELSE /\ recvwindow' = recvwindow - 1
                    /\ UNCHANGED sendmes
            /\ UNCHANGED closed
    /\ UNCHANGED <<sendwindow, tags, nsent>>

(* SendmeValidator::validate: why a SENDME with this tag is refused *)
validate(tag) ==
    IF tags = << >> THEN "unexpected sendme"
    ELSE IF Head(tags) = tag THEN "open" ELSE "mismatched tag"

(* Circuit::handle_sendme: note_sendme_received validates the tag first and *)
(* then SendWindow::put adds the increment, unless that exceeds the maximum *)
note_sendme_received ==
    /\ closed = "open"
    /\ sendmes # << >>
    /\ sendmes' = Tail(sendmes)
    /\ IF validate(Head(sendmes)) # "open"
       THEN /\ closed' = validate(Head(sendmes))
            /\ UNCHANGED <<tags, sendwindow>>
       ELSE /\ tags' = Tail(tags)
            /\ IF sendwindow + Increment > Maximum
               THEN /\ closed' = "send window overflow"
                    /\ UNCHANGED sendwindow
               ELSE /\ sendwindow' = sendwindow + Increment
                    /\ UNCHANGED closed
    /\ UNCHANGED <<recvwindow, data, nsent>>

Next == note_data_sent \/ note_data_received \/ note_sendme_received

(* The links deliver and the reactors read their input as long as the       *)
(* circuit is open; nothing forces the application to send more data.       *)
Fairness == WF_vars(note_data_received) /\ WF_vars(note_sendme_received)

Spec == Init /\ [][Next]_vars /\ Fairness

-----------------------------------------------------------------------------
(* The type invariant of both ends and of the two links. *)
TypeOK ==
    /\ sendwindow \in Nat
    /\ tags \in Seq(Nat)
    /\ recvwindow \in Nat
    /\ data \in Seq(Nat)
    /\ sendmes \in Seq(Nat)
    /\ nsent \in Nat
    /\ closed \in Causes

(* The DATA cells that n SENDMEs acknowledge. *)
Cells(n) == Increment * n

(* Every cell the sender was allowed to send is accounted for: it is still  *)
(* in the send window, on its way, received but not yet acknowledged, or    *)
(* acknowledged by a SENDME on its way (fixed.rs: take and put of the two   *)
(* windows agree although neither end sees the other's window).             *)
Conservation ==
    closed = "open" =>
        sendwindow + Len(data) + (RecvStart - recvwindow)
            + Cells(Len(sendmes)) = SendStart

(* Two ends that run this code never close the circuit on each other: no    *)
(* SENDME is refused by the validator, no send window overflows, no receive *)
(* window is violated (sendme.rs validate, SendWindow::put,                 *)
(* RecvWindow::take).                                                       *)
NeverClosed == closed = "open"

(* A sender with no window left is owed a SENDME: every cell it sent is     *)
(* received and acknowledged in whole increments, so it cannot block for    *)
(* good (ready_streams_iterator skips the hop while can_send is false).     *)
BlockedIsTemporary == [](~can_send => <>can_send)
=============================================================================
