--------------------------- MODULE ChannelCircuits ---------------------------
(***************************************************************************)
(* The circuits of one channel: CircMap (tor-proto channel/circmap.rs),    *)
(* the channel's reactor (channel/reactor.rs) and the beginning and end of *)
(* a circuit as the channel sees them (channel.rs, tunnel/circuit.rs,      *)
(* tunnel/reactor/circuit.rs), with a relay at the other end.              *)
(*                                                                         *)
(* Control messages, cells out and cells in are three queues, and the      *)
(* reactor's select! may serve any of them first.  DESTROY cells may cross. *)
(*                                                                         *)
(* Circuit ids are drawn at random from half of the 32-bit numbers.  The   *)
(* model takes a draw to be new, not one that an earlier circuit had.      *)
(***************************************************************************)
EXTENDS Integers, Sequences, FiniteSets

CONSTANTS
    Circs,          \* the circuits that may be opened on the channel
    CircIds,        \* circuit ids; when all were drawn, the range is full
    HalfCircCells,  \* cells a HalfCirc accepts after our DESTROY (3000)
    PeerWindow      \* what the relay may have unacknowledged on a circuit

VARIABLES
    circ_map,       \* CircMap::m: id -> [state, circ, left]
    open_count,     \* CircMap::open_count
    unused_since,   \* is ChannelDetails::unused_since set?
    drawn,          \* ids that were drawn
    control,        \* control messages to the channel reactor
    to_peer,        \* cells on their way to the relay: [cmd, id, circ]
    from_peer,      \* cells on their way from the relay
    circ,           \* each circuit: [state, id]
    got,            \* what the relay sent to each circuit and the circuit received
    peer,           \* the relay's circuits: id -> [circ, sent]
    reactor         \* "running", or why the channel's reactor ended

ccvars == <<circ_map, open_count, unused_since, drawn, control, to_peer, from_peer, circ, got, peer, reactor>>

\* A function without one of its arguments, and with one more value.
Without(f, x) == [y \in DOMAIN f \ {x} |-> f[y]]
With(f, x, v) == [y \in DOMAIN f \cup {x} |-> IF y = x THEN v ELSE f[y]]

IsOpen(e) == e.state # "DestroySent"

\* The number of open entries stays a count of circuits.
TypeOK ==
    /\ DOMAIN circ_map \subseteq CircIds
    /\ open_count \in 0..Cardinality(Circs)
    /\ unused_since \in BOOLEAN
    /\ \A c \in Circs :
         circ[c].state \in {"none", "allocating", "pending", "creating", "open", "refused", "gone"}
    /\ reactor \in {"running", "nonexistent", "before_created", "unexpected_created", "half_circ",
                    "not_interested"}

Init ==
    /\ circ_map = <<>> /\ open_count = 0 /\ unused_since = TRUE /\ drawn = {}
    /\ control = <<>> /\ to_peer = <<>> /\ from_peer = <<>>
    /\ circ = [c \in Circs |-> [state |-> "none", id |-> 0]]
    /\ got = [c \in Circs |-> {}]
    /\ peer = <<>>
    /\ reactor = "running"

-----------------------------------------------------------------------------
(* The circuits.                                                           *)

\* Channel::new_tunnel asks the reactor for a circuit id.
new_tunnel(c) ==
    /\ reactor = "running" /\ circ[c].state = "none"
    /\ circ' = [circ EXCEPT ![c].state = "allocating"]
    /\ control' = Append(control, [msg |-> "AllocateCircuit", circ |-> c, id |-> 0])
    /\ UNCHANGED <<circ_map, open_count, unused_since, drawn, to_peer, from_peer, got, peer, reactor>>

\* create_impl: CREATE is sent, and the circuit's reactor waits for the answer.
create(c) ==
    /\ reactor = "running" /\ circ[c].state = "pending"
    /\ circ' = [circ EXCEPT ![c].state = "creating"]
    /\ to_peer' = Append(to_peer, [cmd |-> "CREATE", id |-> circ[c].id, circ |-> c])
    /\ UNCHANGED <<circ_map, open_count, unused_since, drawn, control, from_peer, got, peer, reactor>>

\* The circuit is dropped, by its user, on a DESTROY, or because it was refused:
\* Drop for Circuit tells the channel.  While it waits for CREATED it is not.
MutantDropCircuit(c) ==
    /\ circ[c].state \in {"pending", "open", "refused"}
    /\ circ' = [circ EXCEPT ![c].state = "gone"]
    /\ IF circ[c].state = "open" THEN UNCHANGED control
       ELSE control' = Append(control, [msg |-> "CloseCircuit", circ |-> c, id |-> circ[c].id])
    /\ UNCHANGED <<circ_map, open_count, unused_since, drawn, to_peer, from_peer, got, peer, reactor>>
drop_circuit(c) ==
    /\ circ[c].state \in {"pending", "open", "refused"}
    /\ circ' = [circ EXCEPT ![c].state = "gone"]
    /\ control' = Append(control, [msg |-> "CloseCircuit", circ |-> c, id |-> circ[c].id])
    /\ UNCHANGED <<circ_map, open_count, unused_since, drawn, to_peer, from_peer, got, peer, reactor>>

-----------------------------------------------------------------------------
(* The channel's reactor.                                                  *)

\* update_disused_since
disused(n) == unused_since' = (n = 0)

\* The entry is removed, as if no cell could still come.
MutantDestroySent(id) == Without(circ_map, id)
\* CircMap::destroy_sent: the entry is replaced, or inserted if there is none.
destroy_sent(id) ==
    With(circ_map, id, [state |-> "DestroySent", circ |-> "none", left |-> HalfCircCells])

MutantCountAfterDestroy(id) ==
    IF id \in DOMAIN circ_map THEN open_count - 1 ELSE open_count
count_without(id) ==
    IF id \in DOMAIN circ_map /\ IsOpen(circ_map[id]) THEN open_count - 1 ELSE open_count

\* outbound_destroy_circ
outbound_destroy_circ(id) ==
    /\ circ_map' = destroy_sent(id)
    /\ open_count' = count_without(id)
    /\ disused(count_without(id))
    /\ to_peer' = Append(to_peer, [cmd |-> "DESTROY", id |-> id, circ |-> "none"])

\* CircMap::add_ent, and update_disused_since whether or not it found an id.
allocate_circuit(m) ==
    /\ m.msg = "AllocateCircuit"
    /\ IF CircIds \ drawn = {}
         THEN /\ circ' = [circ EXCEPT ![m.circ].state = "gone"]
              /\ disused(open_count)
              /\ UNCHANGED <<circ_map, open_count, drawn>>
         ELSE \E id \in CircIds \ drawn :
              /\ circ_map' = With(circ_map, id, [state |-> "Opening", circ |-> m.circ, left |-> 0])
              /\ open_count' = open_count + 1
              /\ disused(open_count + 1)
              /\ drawn' = drawn \cup {id}
              /\ circ' = [circ EXCEPT ![m.circ] = [state |-> "pending", id |-> id]]
    /\ UNCHANGED to_peer

close_circuit(m) ==
    /\ m.msg = "CloseCircuit"
    /\ outbound_destroy_circ(m.id)
    /\ UNCHANGED <<drawn, circ>>

handle_control ==
    /\ reactor = "running" /\ control # <<>>
    /\ control' = Tail(control)
    /\ allocate_circuit(Head(control)) \/ close_circuit(Head(control))
    /\ UNCHANGED <<from_peer, got, peer, reactor>>

Ended(why) ==
    /\ reactor' = why
    /\ UNCHANGED <<circ_map, open_count, unused_since, to_peer, circ, got>>

\* Does the circuit's reactor still hold the receiving end?
Listening(c) == circ[c].state \in {"creating", "open"}

deliver_relay(cell) ==
    /\ cell.cmd = "RELAY"
    /\ IF cell.id \notin DOMAIN circ_map THEN Ended("nonexistent")
       ELSE LET e == circ_map[cell.id] IN
            CASE e.state = "Opening" -> Ended("before_created")
              [] e.state = "Open" /\ Listening(e.circ) ->
                   /\ got' = [got EXCEPT ![e.circ] = @ \cup {cell.circ}]
                   /\ UNCHANGED <<circ_map, open_count, unused_since, to_peer, circ, reactor>>
              [] e.state = "Open" /\ ~Listening(e.circ) ->
                   outbound_destroy_circ(cell.id) /\ UNCHANGED <<circ, got, reactor>>
              [] e.state = "DestroySent" /\ e.left > 0 ->
                   /\ circ_map' = [circ_map EXCEPT ![cell.id].left = @ - 1]
                   /\ UNCHANGED <<open_count, unused_since, to_peer, circ, got, reactor>>
              [] OTHER -> Ended("half_circ")

\* CircMap::advance_from_opening, and CREATED goes to the circuit.
deliver_created(cell) ==
    /\ cell.cmd = "CREATED"
    /\ IF cell.id \in DOMAIN circ_map /\ circ_map[cell.id].state = "Opening"
         THEN LET c == circ_map[cell.id].circ IN
              /\ circ_map' = [circ_map EXCEPT ![cell.id].state = "Open"]
              /\ IF Listening(c) THEN circ' = [circ EXCEPT ![c].state = "open"] /\ UNCHANGED reactor
                                 ELSE reactor' = "not_interested" /\ UNCHANGED circ
              /\ UNCHANGED <<open_count, unused_since, to_peer, got>>
         ELSE Ended("unexpected_created")

\* CircMap::remove, update_disused_since, and the DESTROY goes to the circuit,
\* which shuts down.
deliver_destroy(cell) ==
    /\ cell.cmd = "DESTROY"
    /\ IF cell.id \notin DOMAIN circ_map THEN Ended("nonexistent")
       ELSE LET e == circ_map[cell.id] IN
            /\ circ_map' = Without(circ_map, cell.id)
            /\ open_count' = count_without(cell.id)
            /\ disused(count_without(cell.id))
            /\ IF ~IsOpen(e) THEN UNCHANGED <<circ, reactor>>
               ELSE IF Listening(e.circ)
                 THEN circ' = [circ EXCEPT ![e.circ].state = "refused"] /\ UNCHANGED reactor
                 ELSE reactor' = "not_interested" /\ UNCHANGED circ
            /\ UNCHANGED <<to_peer, got>>

handle_cell ==
    /\ reactor = "running" /\ from_peer # <<>>
    /\ from_peer' = Tail(from_peer)
    /\ LET cell == Head(from_peer)
       IN  deliver_relay(cell) \/ deliver_created(cell) \/ deliver_destroy(cell)
    /\ UNCHANGED <<drawn, control, peer>>

-----------------------------------------------------------------------------
(* The relay, which follows the protocol.                                  *)

PeerSends(cmd, id, c) == from_peer' = Append(from_peer, [cmd |-> cmd, id |-> id, circ |-> c])

\* A CREATE is answered by CREATED or by DESTROY; a DESTROY ends the circuit
\* and gets no answer.
peer_receives ==
    /\ to_peer # <<>>
    /\ to_peer' = Tail(to_peer)
    /\ LET cell == Head(to_peer)
       IN  \/ /\ cell.cmd = "CREATE"
              /\ PeerSends("CREATED", cell.id, cell.circ)
              /\ peer' = With(peer, cell.id, [circ |-> cell.circ, sent |-> 0])
           \/ /\ cell.cmd = "CREATE"
              /\ PeerSends("DESTROY", cell.id, cell.circ)
              /\ UNCHANGED peer
           \/ /\ cell.cmd = "DESTROY"
              /\ peer' = Without(peer, cell.id)
              /\ UNCHANGED from_peer
    /\ UNCHANGED <<circ_map, open_count, unused_since, drawn, control, circ, got, reactor>>

peer_sends(id) ==
    /\ peer[id].sent < PeerWindow
    /\ peer' = [peer EXCEPT ![id].sent = @ + 1]
    /\ PeerSends("RELAY", id, peer[id].circ)
    /\ UNCHANGED <<circ_map, open_count, unused_since, drawn, control, to_peer, circ, got, reactor>>

peer_destroys(id) ==
    /\ peer' = Without(peer, id)
    /\ PeerSends("DESTROY", id, peer[id].circ)
    /\ UNCHANGED <<circ_map, open_count, unused_since, drawn, control, to_peer, circ, got, reactor>>

CircuitSteps(c) == new_tunnel(c) \/ create(c) \/ drop_circuit(c)

Next ==
    \/ \E c \in Circs : CircuitSteps(c)
    \/ handle_control \/ handle_cell
    \/ peer_receives
    \/ \E id \in DOMAIN peer : peer_sends(id) \/ peer_destroys(id)

-----------------------------------------------------------------------------
\* The count of open entries, which decides when the channel manager may expire
\* the channel, is right after every order of CREATED, DESTROY and CloseCircuit:
\* a channel is marked unused exactly while no circuit is on it.
UnusedIsUnused ==
    reactor = "running" =>
        /\ open_count = Cardinality({id \in DOMAIN circ_map : IsOpen(circ_map[id])})
        /\ unused_since = (open_count = 0)
        /\ \A c \in Circs : circ[c].state \in {"pending", "creating", "open"} => ~unused_since

\* A relay that follows the protocol is never taken for one that does not,
\* whatever crosses: the reactor ends only where a DESTROY meets a circuit that
\* was just dropped and whose CloseCircuit waits in the queue.
PeerNotBlamed ==
    reactor \in {"running", "not_interested"}

\* A RELAY cell only reaches the circuit it was sent on.
OwnCellsOnly ==
    \A c \in Circs : got[c] \subseteq {c}

\* When a circuit was dropped, the relay's end of it is closed too, unless the
\* channel has ended.
PeerCircuitEnds ==
    []<>(\/ reactor # "running"
         \/ \A id \in DOMAIN peer : circ[peer[id].circ].state # "gone")
=============================================================================
