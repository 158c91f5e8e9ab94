----------------------------- MODULE MCCircuits -----------------------------
(***************************************************************************)
(* Tunnels from the manager down to the channel, checked side by side: a   *)
(* behaviour is one of the tunnel manager, of the circuits on a channel,   *)
(* or of the queues between a channel and its circuits.                    *)
(***************************************************************************)
EXTENDS TunnelManager

\* ChannelCircuits
VARIABLES circ_map, open_count, unused_since, drawn, control, to_peer, from_peer, circ, got, peer, reactor
\* CellQueues
VARIABLES cells, parked, buf, produced, written, inq, arrived, delivering
VARIABLE part       \* whose behaviour this is

circuitVars == <<circ_map, open_count, unused_since, drawn, control, to_peer, from_peer, circ, got, peer, reactor>>
queueVars == <<cells, parked, buf, produced, written, inq, arrived, delivering>>
vars == <<part, tmvars, circuitVars, queueVars>>

\* A second request that may not share, needs two tunnels launched, or is
\* preemptive.  All tunnels may be retired once, except in the second case.
Req(k, p, i, n) == [kind |-> k, port |-> p, isolation |-> i, circs |-> 1, parallelism |-> n]
MCUsages ==
    {[r1 |-> Req("Exit", 80, "a", 1), r2 |-> u] :
        u \in {Req("Exit", 80, "b", 1), Req("Exit", 80, "a", 2), Req("Preemptive", 80, "None", 1)}}

CC == INSTANCE ChannelCircuits WITH Circs <- {"a", "b", "c"}, CircIds <- {1, 2},
    HalfCircCells <- 1, PeerWindow <- 1

\* One circuit sends enough for its buffer to be overtaken, another fills the queue;
\* the third only receives, more than its input queue holds.
MCWindow == [c1 |-> 1, c2 |-> 1, c3 |-> 2]
MCMaxOut == [c1 |-> 3, c2 |-> 1, c3 |-> 0]
Q == INSTANCE CellQueues WITH Circuits <- DOMAIN MCWindow, CHANNEL_BUFFER_SIZE <- 1,
    InputBuffer <- 1, Window <- MCWindow, MaxIn <- 2, MaxOut <- MCMaxOut

MCInit ==
    /\ part \in {"tunnels", "circuits", "queues"}
    /\ Init /\ CC!Init /\ Q!Init
    /\ epoch = IF wanted.r2.parallelism = 2 THEN 1 ELSE 0
    /\ part # "tunnels" => wanted.r2.isolation = "b"

Tunnels(A) == part = "tunnels" /\ A /\ UNCHANGED <<part, circuitVars, queueVars>>
Circuit(A) == part = "circuits" /\ A /\ UNCHANGED <<part, tmvars, queueVars>>
Queue(A) == part = "queues" /\ A /\ UNCHANGED <<part, tmvars, circuitVars>>

MCNext == Tunnels(Next) \/ Circuit(CC!Next) \/ Queue(Q!Next)

\* Requests and build tasks run, and builds end (by their timeout); the reactors of
\* channels and circuits are polled while they can move; the relay reads, and the
\* channel's output is writable again some time.
MCFairness ==
    /\ \A r \in Requests : WF_tmvars(Tunnels(RequestStep(r)))
    /\ \A b \in Builds : WF_tmvars(Tunnels(BuildStep(b)))
    /\ WF_circuitVars(Circuit(CC!handle_control))
    /\ WF_circuitVars(Circuit(CC!handle_cell))
    /\ WF_circuitVars(Circuit(CC!peer_receives))
    /\ \A c \in DOMAIN MCWindow : WF_queueVars(Queue(Q!CircuitStep(c)))
    /\ WF_queueVars(Queue(Q!write_output))
    /\ WF_queueVars(Queue(Q!delivered))

MCSpec == MCInit /\ [][MCNext]_vars /\ MCFairness

-----------------------------------------------------------------------------
\* Every request for a tunnel is answered, however launches fail, are cancelled or are
\* lost to another request (RequestsEnd, where requests are what is modelled).
RequestsAnswered == <>(part # "tunnels" \/ \A r \in Requests : answer[r] # None)

\* A relay that follows the protocol is never taken for one that does not, and what it
\* sends reaches only the circuit it was sent on, whatever crosses (PeerNotBlamed,
\* OwnCellsOnly).
PeerNotBlamed == CC!PeerNotBlamed /\ CC!OwnCellsOnly

\* The other properties of the channel's two parts, by their own names.
UnusedIsUnused == CC!UnusedIsUnused
PeerCircuitEnds == CC!PeerCircuitEnds
CellsInOrder == Q!CellsInOrder
AllWritten == Q!AllWritten
=============================================================================
