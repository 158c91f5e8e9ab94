--------------------------- MODULE CircuitStreams ---------------------------
(***************************************************************************)
(* The life of the streams of one circuit hop, seen from both of its ends: *)
(* a client, which begins streams, and an onion service, which accepts     *)
(* them.  Each end is a circuit reactor with a StreamMap                   *)
(* (tunnel/streammap.rs) driven by CircHop (tunnel/reactor/circuit/        *)
(* circhop.rs), and an application that holds the stream objects.  The two *)
(* reactors exchange relay cells over an ordered, reliable circuit.        *)
(*                                                                         *)
(* A stream is identified by a serial number that the code does not have:  *)
(* cells carry it as history, so that a property can say which stream a    *)
(* cell was meant for after its stream id has been used again.             *)
(***************************************************************************)
EXTENDS Integers, Sequences, FiniteSets

CONSTANTS
    MaxId,              \* stream ids are 1..MaxId (65535 in the code)
    MaxStreams,         \* bound: streams the client begins
    ClientData,         \* bound: DATA messages the client writes on a stream
    ServiceData,        \* bound: DATA messages the service writes on a stream
    IncomingBuffer,     \* INCOMING_BUFFER: requests waiting for the service
    Dispositions,       \* answers the service's IncomingStreamRequestFilter gives
    UsesStreamSendme,   \* CongestionControl::uses_stream_sendme
    MultiThreaded       \* may the application run while its reactor is polled?

Ids == 1..MaxId
Streams == 1..MaxStreams
NoStream == 0
Ends == {"client", "service"}
Peer(e) == IF e = "client" THEN "service" ELSE "client"
DataBound(e) == IF e = "client" THEN ClientData ELSE ServiceData

VARIABLES
    open,           \* open[e][id]: the stream in StreamMap::open_streams, or NoStream
    closed,         \* closed[e][id]: the entry of StreamMap::closed_streams
    next_stream_id, \* StreamMap::next_stream_id of the client
    sid,            \* sid[s]: the id the client's map gave to stream s
    rx,             \* rx[e][s]: messages the application queued for the reactor
    sink,           \* sink[e][s]: DATA delivered to the application and not read
    expecting_connected,    \* DataCmdChecker::expecting_connected
    target,         \* target[e][s]: what the application does with its StreamTarget
    written,        \* written[e][s]: DATA messages written so far
    incoming,       \* streams in the service's queue of requests
    control,        \* control[e]: the reactor's queue of control messages
    polled,         \* polled[e]: control was polled and found empty, circuits not yet
    link,           \* link[e]: cells sent by e and not yet received by its peer
    ended,          \* ended[e]: streams on which e has sent an END
    circ            \* "open", or why the circuit was closed

maps == <<open, closed, next_stream_id, sid>>
app == <<rx, sink, target, written, incoming>>
vars == <<maps, app, expecting_connected, control, polled, link, ended, circ>>

NotClosed == [st |-> "None", s |-> NoStream]
EndReceived(s) == [st |-> "EndReceived", s |-> s]
EndSent(s) == [st |-> "EndSent", s |-> s]
ClosedEnts == {NotClosed} \cup {EndReceived(s) : s \in Streams}
                          \cup {EndSent(s) : s \in Streams}

Cmds == {"BEGIN", "CONNECTED", "DATA", "END", "SENDME"}
Cell(cmd, id, s) == [cmd |-> cmd, id |-> id, s |-> s]
CtrlMsgs == [op : {"BeginStream", "SendEnd", "SendNothing", "Sendme"}, s : Streams]
Targets == {"none", "queued", "pending", "rejecting", "discarding", "held", "write-closed",
            "dropped", "discarded"}
Gone == {"dropped", "discarded"}

\* The stream maps, queues and handles of both ends have the types of the code.
TypeOK ==
    /\ open \in [Ends -> [Ids -> Streams \cup {NoStream}]]
    /\ closed \in [Ends -> [Ids -> ClosedEnts]]
    /\ next_stream_id \in Ids
    /\ sid \in [Streams -> Ids \cup {0}]
    /\ rx \in [Ends -> [Streams -> Seq({"CONNECTED", "DATA"})]]
    /\ sink \in [Ends -> [Streams -> Nat]]
    /\ expecting_connected \in [Ends -> [Streams -> BOOLEAN]]
    /\ target \in [Ends -> [Streams -> Targets]]
    /\ written \in [Ends -> [Streams -> Nat]]
    /\ incoming \in Seq(Streams) /\ Len(incoming) <= IncomingBuffer
    /\ control \in [Ends -> Seq(CtrlMsgs)]
    /\ polled \in [Ends -> BOOLEAN]
    /\ link \in [Ends -> Seq([cmd : Cmds, id : Ids, s : Streams])]
    /\ ended \in [Ends -> SUBSET Streams]
    /\ circ \in {"open", "protocol error", "id range full", "shutdown"}

\* StreamMap::new starts at a random id.
Init ==
    /\ open = [e \in Ends |-> [id \in Ids |-> NoStream]]
    /\ closed = [e \in Ends |-> [id \in Ids |-> NotClosed]]
    /\ next_stream_id \in Ids
    /\ sid = [s \in Streams |-> 0]
    /\ rx = [e \in Ends |-> [s \in Streams |-> <<>>]]
    /\ sink = [e \in Ends |-> [s \in Streams |-> 0]]
    /\ expecting_connected = [e \in Ends |-> [s \in Streams |-> e = "client"]]
    /\ target = [e \in Ends |-> [s \in Streams |-> "none"]]
    /\ written = [e \in Ends |-> [s \in Streams |-> 0]]
    /\ incoming = <<>>
    /\ control = [e \in Ends |-> <<>>]
    /\ polled = [e \in Ends |-> FALSE]
    /\ link = [e \in Ends |-> <<>>]
    /\ ended = [e \in Ends |-> {}]
    /\ circ = "open"

-----------------------------------------------------------------------------
(* The application.  Under a single-threaded executor it never runs inside *)
(* one poll of its reactor, so it sees the reactor only between polls.     *)

AppMayRun(e) == circ = "open" /\ (MultiThreaded \/ ~polled[e])

\* The receiving half of rx is dropped with the entry in open_streams.
rx_alive(e, s) == \E id \in Ids : open[e][id] = s

\* The client asks its reactor to begin stream s.  Until the reactor has answered it
\* can do nothing with the stream but drop it.
begin_stream(s) ==
    /\ AppMayRun("client")
    /\ target["client"][s] = "none"
    /\ \A r \in 1..(s - 1) : target["client"][r] # "none"
    /\ target' = [target EXCEPT !["client"][s] = "held"]
    /\ control' = [control EXCEPT !["client"] = Append(@, [op |-> "BeginStream", s |-> s])]
    /\ UNCHANGED <<maps, rx, sink, written, incoming, expecting_connected, polled,
                   link, ended, circ>>

\* The application writes one DATA message on a stream it holds.
write(e, s) ==
    /\ AppMayRun(e)
    /\ target[e][s] = "held"
    /\ rx_alive(e, s)
    /\ written[e][s] < DataBound(e)
    /\ written' = [written EXCEPT ![e][s] = @ + 1]
    /\ rx' = [rx EXCEPT ![e][s] = Append(@, "DATA")]
    /\ UNCHANGED <<maps, sink, target, incoming, expecting_connected, control, polled,
                   link, ended, circ>>

\* The application reads one DATA message.  The reader's window (its increment
\* is 1 here) asks the reactor for a stream SENDME, whatever the state of the map.
read(e, s) ==
    /\ AppMayRun(e)
    /\ target[e][s] \in {"held", "write-closed"}
    /\ sink[e][s] > 0
    /\ sink' = [sink EXCEPT ![e][s] = @ - 1]
    /\ control' = [control EXCEPT ![e] = Append(@, [op |-> "Sendme", s |-> s])]
    /\ UNCHANGED <<maps, rx, target, written, incoming, expecting_connected, polled,
                   link, ended, circ>>

\* The service takes the next IncomingStream off the queue of requests.
take_request ==
    /\ AppMayRun("service")
    /\ incoming # <<>>
    /\ target' = [target EXCEPT !["service"][Head(incoming)] = "pending"]
    /\ incoming' = Tail(incoming)
    /\ UNCHANGED <<maps, rx, sink, written, expecting_connected, control, polled,
                   link, ended, circ>>

\* IncomingStream::accept_data: if the send fails the stream object is dropped.
accept_data(s) ==
    /\ AppMayRun("service")
    /\ target["service"][s] = "pending"
    /\ IF rx_alive("service", s)
         THEN /\ rx' = [rx EXCEPT !["service"][s] = Append(@, "CONNECTED")]
              /\ target' = [target EXCEPT !["service"][s] = "held"]
         ELSE /\ target' = [target EXCEPT !["service"][s] = "dropped"]
              /\ UNCHANGED rx
    /\ UNCHANGED <<maps, sink, written, incoming, expecting_connected, control, polled,
                   link, ended, circ>>

\* IncomingStream::reject and ::discard: StreamTarget::close_pending posts a
\* control message; the caller then awaits the answer, or is cancelled (drop).
close_pending(s, behav) ==
    /\ AppMayRun("service")
    /\ target["service"][s] = "pending"
    /\ target' = [target EXCEPT !["service"][s] =
                    IF behav = "SendEnd" THEN "rejecting" ELSE "discarding"]
    /\ control' = [control EXCEPT !["service"] = Append(@, [op |-> behav, s |-> s])]
    /\ UNCHANGED <<maps, rx, sink, written, incoming, expecting_connected, polled,
                   link, ended, circ>>

\* DataWriter::close: StreamTarget::close shuts the queue, the reader lives on.
close_writer(e, s) ==
    /\ AppMayRun(e)
    /\ target[e][s] = "held"
    /\ sid[s] # 0
    /\ target' = [target EXCEPT ![e][s] = "write-closed"]
    /\ UNCHANGED <<maps, rx, sink, written, incoming, expecting_connected, control,
                   polled, link, ended, circ>>

\* Every StreamTarget of the stream is dropped.
drop(e, s) ==
    /\ AppMayRun(e)
    /\ target[e][s] \in {"pending", "rejecting", "discarding", "held", "write-closed"}
    /\ target' = [target EXCEPT ![e][s] = IF @ = "discarding" THEN "discarded" ELSE "dropped"]
    /\ sink' = [sink EXCEPT ![e][s] = 0]
    /\ UNCHANGED <<maps, rx, written, incoming, expecting_connected, control, polled,
                   link, ended, circ>>

-----------------------------------------------------------------------------
(* The reactor: one iteration of run_once handles one event.  The control  *)
(* queue is polled first and the circuit only when it is empty, but a      *)
(* message may arrive between the two polls (polled).                      *)

ControlReady(e) == circ = "open" /\ ~polled[e] /\ control[e] # <<>>
CircuitPolled(e) == circ = "open" /\ (polled[e] \/ control[e] = <<>>)

poll_control(e) ==
    /\ MultiThreaded
    /\ circ = "open" /\ ~polled[e] /\ control[e] = <<>>
    /\ polled' = [polled EXCEPT ![e] = TRUE]
    /\ UNCHANGED <<maps, app, expecting_connected, control, link, ended, circ>>

\* A stream is ready when it has a message, or when its sender is gone.
ready(e, s) == rx[e][s] # <<>> \/ target[e][s] \in Gone \cup {"write-closed"}

\* Nothing on the circuit is ready: the reactor sleeps and starts over when woken.
sleep(e) ==
    /\ circ = "open" /\ polled[e]
    /\ link[Peer(e)] = <<>>
    /\ \A id \in Ids : open[e][id] # NoStream => ~ready(e, open[e][id])
    /\ polled' = [polled EXCEPT ![e] = FALSE]
    /\ UNCHANGED <<maps, app, expecting_connected, control, link, ended, circ>>

Send(e, cell) == link' = [link EXCEPT ![e] = Append(@, cell)]
NextControl(e) == control' = [control EXCEPT ![e] = Tail(@)]
Polled(e) == polled' = [polled EXCEPT ![e] = FALSE]

MutantSameId(id) == id
wrapping_next_stream_id(id) == IF id = MaxId THEN 1 ELSE id + 1

\* The ids that add_ent tries are next_stream_id and its successors; it looks for
\* one that is not in open_streams.
FreeIds(e) == {id \in Ids : open[e][id] = NoStream}
Distance(id) == IF id >= next_stream_id THEN id - next_stream_id
                                        ELSE id - next_stream_id + MaxId
FirstFree(e) == CHOOSE id \in FreeIds(e) : \A j \in FreeIds(e) : Distance(id) <= Distance(j)

\* CtrlMsg::BeginStream: StreamMap::add_ent, then BEGIN is sent.  When every id is
\* taken the error ends the reactor.
add_ent(e) ==
    /\ ControlReady(e) /\ Head(control[e]).op = "BeginStream"
    /\ NextControl(e)
    /\ LET s == Head(control[e]).s IN
         IF FreeIds(e) = {}
           THEN /\ circ' = "id range full"
                /\ UNCHANGED <<maps, link>>
           ELSE LET id == FirstFree(e) IN
                /\ open' = [open EXCEPT ![e][id] = s]
                /\ sid' = [sid EXCEPT ![s] = id]
                /\ next_stream_id' = wrapping_next_stream_id(id)
                /\ Send(e, Cell("BEGIN", id, s))
                /\ UNCHANGED <<closed, circ>>
    /\ UNCHANGED <<app, expecting_connected, polled, ended>>

\* StreamMap::terminate on a stream that is still open keeps a half-stream for it,
\* and an END is to be sent; otherwise the closed entry is removed, whatever it was.
MutantForgets(e, id) ==
    /\ open' = [open EXCEPT ![e][id] = NoStream]
    /\ UNCHANGED closed
MutantKeepsOpen(e, id) ==
    /\ closed' = [closed EXCEPT ![e][id] = EndSent(open[e][id])]
    /\ UNCHANGED open
terminate(e, id) ==
    IF open[e][id] # NoStream
      THEN /\ open' = [open EXCEPT ![e][id] = NoStream]
           /\ closed' = [closed EXCEPT ![e][id] = EndSent(open[e][id])]
      ELSE /\ closed' = [closed EXCEPT ![e][id] = NotClosed]
           /\ UNCHANGED open

\* CircHop::close_stream.
close_stream(e, id, behav) ==
    /\ IF open[e][id] # NoStream /\ behav = "SendEnd"
         THEN /\ Send(e, Cell("END", id, open[e][id]))
              /\ ended' = [ended EXCEPT ![e] = @ \cup {open[e][id]}]
         ELSE UNCHANGED <<link, ended>>
    /\ terminate(e, id)
    /\ UNCHANGED <<next_stream_id, sid>>

\* CtrlMsg::ClosePendingStream: an error of terminate goes back to the caller only.
close_pending_stream(e) ==
    /\ ControlReady(e) /\ Head(control[e]).op \in {"SendEnd", "SendNothing"}
    /\ NextControl(e)
    /\ close_stream(e, sid[Head(control[e]).s], Head(control[e]).op)
    /\ UNCHANGED <<app, expecting_connected, polled, circ>>

\* CtrlMsg::FlowCtrlUpdate(Sendme): sent if the hop uses stream SENDMEs, without
\* a look at the stream map.
send_sendme(e) ==
    /\ ControlReady(e) /\ Head(control[e]).op = "Sendme"
    /\ NextControl(e)
    /\ IF UsesStreamSendme
         THEN Send(e, Cell("SENDME", sid[Head(control[e]).s], Head(control[e]).s))
         ELSE UNCHANGED link
    /\ UNCHANGED <<maps, app, expecting_connected, polled, ended, circ>>

\* ready_streams_iterator: the first message of a ready stream is sent.
send_ready(e, id) ==
    /\ CircuitPolled(e) /\ Polled(e)
    /\ open[e][id] # NoStream
    /\ LET s == open[e][id] IN
         /\ rx[e][s] # <<>>
         /\ rx' = [rx EXCEPT ![e][s] = Tail(@)]
         /\ Send(e, Cell(Head(rx[e][s]), id, s))
    /\ UNCHANGED <<maps, sink, target, written, incoming, expecting_connected, control,
                   ended, circ>>

\* ready_streams_iterator: a stream whose sender is gone and whose queue is empty
\* is closed with TerminateReason::StreamTargetClosed.
MutantDropIgnored(e, id) ==
    /\ open[e][id] # NoStream
    /\ rx[e][open[e][id]] = <<>>
    /\ target[e][open[e][id]] = "write-closed"
stream_target_closed(e, id) ==
    /\ open[e][id] # NoStream
    /\ rx[e][open[e][id]] = <<>>
    /\ target[e][open[e][id]] \in Gone \cup {"write-closed"}

close_ready(e, id) ==
    /\ CircuitPolled(e) /\ Polled(e)
    /\ stream_target_closed(e, id)
    /\ close_stream(e, id, "SendEnd")
    /\ UNCHANGED <<app, expecting_connected, control, circ>>

-----------------------------------------------------------------------------
(* Cells from the peer: CircHop::handle_msg and what it calls.             *)

Received(e) == Head(link[Peer(e)])
CellReady(e) == CircuitPolled(e) /\ link[Peer(e)] # <<>>
Pop(e) == link' = [link EXCEPT ![Peer(e)] = Tail(@)]
ProtocolError == circ' = "protocol error" /\ UNCHANGED <<maps, app, expecting_connected, ended>>

\* StreamMap::get_mut looks at the open streams first.
get_mut(e, id) == IF open[e][id] # NoStream THEN "Open" ELSE closed[e][id].st

\* DataCmdChecker::check_msg; it also clears expecting_connected.
check_msg(e, s, cmd) ==
    CASE cmd = "CONNECTED" -> expecting_connected[e][s]
      [] cmd = "DATA" -> ~expecting_connected[e][s]
      [] cmd \in {"END", "SENDME"} -> TRUE
      [] OTHER -> FALSE
Checked(e, s, cmd) ==
    expecting_connected' = [expecting_connected EXCEPT ![e][s] = @ /\ cmd # "CONNECTED"]

\* DataCmdChecker: StreamStatus::Closed is for END only.
closes_stream(cmd) == cmd = "END"

\* StreamMap::ending_msg_received.
ending_msg_received(e, id) ==
    IF open[e][id] # NoStream
      THEN /\ open' = [open EXCEPT ![e][id] = NoStream]
           /\ closed' = [closed EXCEPT ![e][id] = EndReceived(open[e][id])]
      ELSE /\ closed' = [closed EXCEPT ![e][id] = NotClosed]
           /\ UNCHANGED open

\* A cell for an open stream (deliver_msg_to_stream): DATA goes to the application,
\* or is dropped with the stream object.
deliver_msg_to_stream(e) ==
    /\ CellReady(e) /\ Polled(e) /\ Pop(e)
    /\ get_mut(e, Received(e).id) = "Open"
    /\ LET m == Received(e)
           s == open[e][m.id]
       IN IF ~check_msg(e, s, m.cmd)
            THEN ProtocolError
            ELSE /\ Checked(e, s, m.cmd)
                 /\ sink' = [sink EXCEPT ![e][s] =
                               IF m.cmd = "DATA" /\ target[e][s] \notin Gone THEN @ + 1 ELSE @]
                 /\ IF closes_stream(m.cmd)
                      THEN ending_msg_received(e, m.id)
                      ELSE UNCHANGED <<open, closed>>
                 /\ UNCHANGED <<next_stream_id, sid, rx, target, written, incoming, ended, circ>>
    /\ UNCHANGED control

\* A cell for a stream we have sent an END on (HalfStream::handle_msg).
half_stream_msg(e) ==
    /\ CellReady(e) /\ Polled(e) /\ Pop(e)
    /\ get_mut(e, Received(e).id) = "EndSent"
    /\ Received(e).cmd # "BEGIN"
    /\ LET m == Received(e)
           s == closed[e][m.id].s
       IN IF ~check_msg(e, s, m.cmd)
            THEN ProtocolError
            ELSE /\ Checked(e, s, m.cmd)
                 /\ IF closes_stream(m.cmd)
                      THEN ending_msg_received(e, m.id)
                      ELSE UNCHANGED <<open, closed>>
                 /\ UNCHANGED <<next_stream_id, sid, app, ended, circ>>
    /\ UNCHANGED control

\* A BEGIN for an id without a stream, or with a half-stream, which it replaces.
\* The service's filter decides.  Accept opens a stream with the client's id
\* (add_ent_with_id) and queues the request; when the queue is full an END is sent
\* and the request, with its StreamTarget, is dropped.  RejectRequest sends an END and leaves
\* nothing in the map.
handle_incoming_stream_request(e, disposition) ==
    /\ CellReady(e) /\ Polled(e)
    /\ get_mut(e, Received(e).id) \in {"None", "EndSent"}
    /\ Received(e).cmd = "BEGIN"
    /\ e = "service"
    /\ LET m == Received(e)
           full == Len(incoming) = IncomingBuffer
           end == disposition = "RejectRequest" \/ (disposition = "Accept" /\ full)
       IN /\ closed' = [closed EXCEPT ![e][m.id] = NotClosed]
          /\ open' = [open EXCEPT ![e][m.id] = IF disposition = "Accept" THEN m.s ELSE @]
          /\ target' = [target EXCEPT ![e][m.s] =
                          CASE disposition # "Accept" -> @
                            [] full -> "dropped"
                            [] OTHER -> "queued"]
          /\ incoming' = IF disposition = "Accept" /\ ~full THEN Append(incoming, m.s) ELSE incoming
          /\ link' = [link EXCEPT ![Peer(e)] = Tail(@),
                                  ![e] = IF end THEN Append(@, Cell("END", m.id, m.s)) ELSE @]
          /\ ended' = [ended EXCEPT ![e] = IF end THEN @ \cup {m.s} ELSE @]
          /\ circ' = IF disposition = "CloseCircuit" THEN "shutdown" ELSE circ
    /\ UNCHANGED <<next_stream_id, sid, rx, sink, written, expecting_connected, control>>

\* Any other cell: "Cell received on nonexistent stream!?", or a BEGIN at the client.
nonexistent_stream(e) ==
    /\ CellReady(e) /\ Polled(e) /\ Pop(e)
    /\ \/ get_mut(e, Received(e).id) = "EndReceived"
       \/ get_mut(e, Received(e).id) = "None" /\ Received(e).cmd # "BEGIN"
       \/ get_mut(e, Received(e).id) \in {"None", "EndSent"} /\ Received(e).cmd = "BEGIN" /\ e # "service"
    /\ ProtocolError
    /\ UNCHANGED control

-----------------------------------------------------------------------------
App ==
    \/ take_request
    \/ \E s \in Streams :
         \/ begin_stream(s)
         \/ accept_data(s)
         \/ \E behav \in {"SendEnd", "SendNothing"} : close_pending(s, behav)
         \/ \E e \in Ends : write(e, s) \/ read(e, s) \/ close_writer(e, s) \/ drop(e, s)

Reactor(e) ==
    \/ poll_control(e)
    \/ sleep(e)
    \/ add_ent(e)
    \/ close_pending_stream(e)
    \/ send_sendme(e)
    \/ \E id \in Ids : send_ready(e, id) \/ close_ready(e, id)
    \/ deliver_msg_to_stream(e)
    \/ half_stream_msg(e)
    \/ \E d \in Dispositions : handle_incoming_stream_request(e, d)
    \/ nonexistent_stream(e)

Next == App \/ \E e \in Ends : Reactor(e)

\* Both reactors are tasks that are polled whenever something is ready for them.
Fairness == \A e \in Ends : WF_vars(Reactor(e))

Spec == Init /\ [][Next]_vars /\ Fairness

-----------------------------------------------------------------------------
(* Properties.                                                             *)

\* The invariant written beside both fields of StreamMap: a stream id is never a
\* key of open_streams and of closed_streams at the same time.
Disjoint ==
    \A e \in Ends, id \in Ids : open[e][id] = NoStream \/ closed[e][id] = NotClosed

\* Two ends that both run this code never take each other's cells for a protocol
\* violation, however closes at the two ends cross (CircHop::handle_msg).
NeverClosed == circ \in {"open", "shutdown"}

\* Nothing follows an END on its stream: a peer that has seen the END has no entry
\* that could accept another cell.
NothingAfterEnd ==
    \A e \in Ends : \A i, j \in DOMAIN link[e] :
        i < j /\ link[e][i].cmd = "END" => link[e][j].s # link[e][i].s

\* StreamTarget::close: the reactor flushes the messages already sent before it
\* closes the stream.
FlushedBeforeEnd ==
    \A e \in Ends : \A s \in ended[e] : rx[e][s] = <<>>

\* A stream counts as ended by the peer only if the peer did end that very stream.
EndReceivedIsTrue ==
    \A e \in Ends, id \in Ids :
        closed[e][id].st = "EndReceived" => closed[e][id].s \in ended[Peer(e)]

\* DATA is handed to the stream it was written on, even if a stream id is shared by
\* cells in flight and a stream begun later.
DataReachesItsStream ==
    [][\A e \in Ends, s \in Streams :
          sink[e][s]' > sink[e][s] => Received(e).s = s]_vars

\* HalfStream: we keep track of a stream we ended until the peer ends it too (or
\* begins another one with its id).
HalfStreamRemembered ==
    [][\A e \in Ends, id \in Ids :
          closed[e][id].st = "EndSent" /\ closed'[e][id] # closed[e][id]
              => /\ link[Peer(e)] # <<>>
                 /\ Received(e).id = id
                 /\ Received(e).cmd \in {"END", "BEGIN"}]_vars

Ended(e, s) == \A id \in Ids : open[e][id] # s

\* Once the application has dropped a stream (and not asked for silence with
\* IncomingStream::discard), both ends end it, for good.
DropReachesPeer ==
    \A e \in Ends, s \in Streams :
        target[e][s] = "dropped" ~> (circ # "open" \/ [](Ended(e, s) /\ Ended(Peer(e), s)))
=============================================================================
