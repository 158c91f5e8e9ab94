---------------------------- MODULE StreamProofs ----------------------------
(***************************************************************************)
(* Proofs about the flow control of a stream.  Closing a stream is safe    *)
(* for every window and every increment: with stream SENDMEs an honest     *)
(* peer never overruns the window of the half-stream (HalfStream), however *)
(* many cells were in flight or dropped; without them it does so only by   *)
(* sending more than a whole window.  With XON and XOFF (XonXoff) what the *)
(* receiver must hold is bounded, for every limit, window and queue.       *)
(***************************************************************************)
EXTENDS HalfStream, DataLemmas, TLAPS

(* The multiples of the increment, kept folded away in the proofs below. *)
Multiple(a) == a % Increment = 0

(* Zero and the initial window are multiples of the increment. *)
LEMMA MultipleZero == Multiple(0) /\ Multiple(WINDOW_INIT)
<1>1. (Increment * 0) % Increment = 0
  BY HalfStreamAssumption, ProductIsMultiple DEF HalfStreamAssumption
<1>2. Increment * 0 = 0
  BY HalfStreamAssumption DEF HalfStreamAssumption
<1> QED BY <1>1, <1>2, HalfStreamAssumption DEF Multiple, HalfStreamAssumption

(* Adding or taking away one increment keeps a multiple a multiple. *)
LEMMA MultipleShift ==
    ASSUME NEW a \in Int, Multiple(a)
    PROVE  Multiple(a + Increment) /\ Multiple(a - Increment)
BY HalfStreamAssumption, ShiftMultiple, Zenon DEF HalfStreamAssumption, Multiple

(* The only multiple in the last increment below the window is its lower end. *)
LEMMA MultipleNext ==
    ASSUME NEW x \in Int, Multiple(x), WINDOW_INIT - Increment <= x, x < WINDOW_INIT
    PROVE  x = WINDOW_INIT - Increment
<1>1. WINDOW_INIT \in Int /\ Increment \in Nat \ {0} /\ WINDOW_INIT % Increment = 0
  BY HalfStreamAssumption DEF HalfStreamAssumption
<1> QED BY <1>1, NextMultipleDown, Zenon DEF Multiple

(* A positive multiple is at least one increment. *)
LEMMA MultiplePositive ==
    ASSUME NEW a \in Nat, Multiple(a), a > 0
    PROVE  a >= Increment
BY HalfStreamAssumption, PositiveMultiple DEF HalfStreamAssumption, Multiple

(* With stream SENDMEs: the window is conserved while the application holds the *)
(* stream; from the drop on, what the peer may still send is bounded by what    *)
(* the half-stream will accept.                                                 *)
Window ==
    /\ circ = "open" /\ entry # "None"
    /\ entry = "Open" /\ reader =>
         sendw + data + sink + (WINDOW_INIT - readw) + acks + dropped = WINDOW_INIT
    /\ entry = "Open" /\ ~reader => sendw + data + acks + dropped <= WINDOW_INIT
    /\ entry = "EndSent" => sendw + data + acks <= recvw

(* In either mode: what was dropped, or charged to the half-stream, was sent. *)
Charged ==
    /\ entry = "Open" => data + dropped <= sent
    /\ entry = "EndSent" => ~reader /\ data + (WINDOW_INIT - recvw) <= sent
    /\ entry = "None" => ~reader /\ sent > WINDOW_INIT
    /\ circ # "open" /\ ~uses_stream_sendme => ~reader /\ sent > WINDOW_INIT

HInv ==
    /\ TypeOK
    /\ Multiple(acks)
    /\ WINDOW_INIT - readw < Increment
    /\ ~uses_stream_sendme => acks = 0
    /\ uses_stream_sendme => Window
    /\ Charged

(* The constants, without the remainder. *)
LEMMA Constants == WINDOW_INIT \in Nat \ {0} /\ Increment \in Nat \ {0} /\ MaxData \in Nat
BY HalfStreamAssumption DEF HalfStreamAssumption

(* The invariant holds initially. *)
LEMMA HInvInit == ASSUME Init PROVE HInv
<1>1. TypeOK
  BY Constants DEF Init, TypeOK
<1>2. Window /\ Charged
  BY Constants DEF Init, Window, Charged
<1> QED BY <1>1, <1>2, MultipleZero, Constants DEF Init, HInv

(* Reading a cell: the reader's window comes round exactly when a SENDME is due. *)
LEMMA ReadStep == ASSUME HInv, read, UNCHANGED uses_stream_sendme PROVE HInv'
<1>a. TypeOK /\ Multiple(acks) /\ WINDOW_INIT - readw < Increment
  BY DEF HInv
<1>b. /\ readw \in Nat /\ readw >= 1 /\ readw <= WINDOW_INIT
      /\ acks \in Nat
  BY <1>a, Constants DEF TypeOK
<1>1. /\ readw \in Nat /\ readw >= 1 /\ readw <= WINDOW_INIT /\ WINDOW_INIT - readw < Increment
      /\ acks \in Nat /\ Multiple(acks)
  BY <1>a, <1>b
<1>2. entry = "Open"
  BY DEF HInv, Charged, TypeOK, read
<1>3. CASE sendme_due(readw - 1)
  <2>1. Multiple(readw - 1)
    BY <1>3 DEF sendme_due, Multiple
  <2>2. readw - 1 = WINDOW_INIT - Increment
    BY <1>1, <2>1, Constants, MultipleNext
  <2>3. readw' = WINDOW_INIT /\ acks' = IF uses_stream_sendme THEN acks + Increment ELSE acks
    BY <1>1, <1>3, <2>2, Constants DEF read
  <2>4. Multiple(acks + Increment)
    BY <1>1, MultipleShift
  <2>5. Multiple(acks')
    BY <1>1, <2>3, <2>4
  <2>6. TypeOK'
    BY <2>3, Constants DEF HInv, TypeOK, read
  <2>7. uses_stream_sendme' => Window'
    BY <1>1, <1>2, <2>2, <2>3, Constants DEF HInv, TypeOK, Window, read
  <2>8. Charged'
    BY <1>2 DEF HInv, TypeOK, Charged, read
  <2> QED BY <2>3, <2>5, <2>6, <2>7, <2>8, Constants DEF HInv
<1>4. CASE ~sendme_due(readw - 1)
  <2>1. ~Multiple(readw - 1)
    BY <1>4 DEF sendme_due, Multiple
  <2>2. Multiple(WINDOW_INIT - Increment)
    BY MultipleZero, MultipleShift, Constants
  <2>3. readw - 1 # WINDOW_INIT - Increment
    BY <2>1, <2>2
  <2>4. readw' = readw - 1 /\ acks' = acks
    BY <1>4 DEF read
  <2>5. WINDOW_INIT >= Increment
    BY Constants, MultipleZero, MultiplePositive
  <2>6. readw' \in 1..WINDOW_INIT /\ WINDOW_INIT - readw' < Increment
    BY <1>1, <2>3, <2>4, <2>5, Constants
  <2>7. TypeOK'
    BY <2>4, <2>6, Constants DEF HInv, TypeOK, read
  <2>8. uses_stream_sendme' => Window'
    BY <1>1, <1>2, <2>4, Constants DEF HInv, TypeOK, Window, read
  <2>9. Charged'
    BY <1>2 DEF HInv, TypeOK, Charged, read
  <2> QED BY <1>1, <2>4, <2>6, <2>7, <2>8, <2>9 DEF HInv
<1> QED BY <1>3, <1>4

(* A SENDME never overfills the peer's window. *)
LEMMA SendmeStep ==
    ASSUME HInv, put_for_incoming_sendme, UNCHANGED uses_stream_sendme PROVE HInv'
<1>a. /\ TypeOK /\ Multiple(acks) /\ (~uses_stream_sendme => acks = 0)
      /\ uses_stream_sendme => Window
  BY DEF HInv
<1>b. acks \in Nat /\ acks > 0 /\ acks # 0
  BY <1>a DEF TypeOK, put_for_incoming_sendme
<1>1. acks \in Nat /\ Multiple(acks) /\ acks > 0 /\ uses_stream_sendme /\ Window
  BY <1>a, <1>b
<1>2. acks >= Increment
  BY <1>1, MultiplePositive
<1>3. Multiple(acks - Increment)
  BY <1>1, MultipleShift
<1>4. sendw + Increment <= WINDOW_INIT
  BY <1>1, <1>2, Constants DEF HInv, TypeOK, Window
<1>c. ~(sendw + Increment > WINDOW_INIT)
  BY <1>a, <1>4, Constants DEF TypeOK
<1>5. acks' = acks - Increment /\ sendw' = sendw + Increment /\ circ' = circ
  BY <1>c DEF put_for_incoming_sendme
<1>6. Multiple(acks')
  BY <1>3, <1>5
<1>7. TypeOK'
  BY <1>1, <1>2, <1>4, <1>5, Constants DEF HInv, TypeOK, put_for_incoming_sendme
<1>8. Window'
  BY <1>1, <1>5, Constants DEF HInv, TypeOK, Window, put_for_incoming_sendme
<1>9. Charged'
  BY <1>1, <1>5 DEF HInv, Charged, put_for_incoming_sendme
<1> QED BY <1>1, <1>6, <1>7, <1>8, <1>9 DEF HInv, put_for_incoming_sendme

(* Every step preserves the invariant. *)
LEMMA HInvNext == ASSUME HInv, [Next]_vars PROVE HInv'
<1>1. CASE UNCHANGED vars
  BY <1>1 DEF HInv, TypeOK, Window, Charged, Multiple, vars
<1>2. CASE Next
  <2>0. UNCHANGED uses_stream_sendme
    BY <1>2 DEF Next
  <2>a. TypeOK /\ (uses_stream_sendme => Window) /\ Charged
    BY DEF HInv
  <2>1. CASE put_for_incoming_sendme
    BY <2>0, <2>1, SendmeStep
  <2>2. CASE read
    BY <2>0, <2>2, ReadStep
  <2>3. ASSUME UNCHANGED <<acks, readw>>, TypeOK', uses_stream_sendme => Window', Charged'
        PROVE  HInv'
    BY <2>0, <2>3 DEF HInv, Multiple
  <2>4. CASE peer_send
    <3>1. TypeOK'
      BY <2>a, <2>0, <2>4, Constants DEF TypeOK, peer_send, can_send
    <3>2. uses_stream_sendme => Window'
      BY <2>a, <2>4, Constants DEF TypeOK, Window, peer_send, can_send
    <3>3. Charged'
      BY <2>a, <2>0, <2>4, Constants DEF TypeOK, Charged, peer_send
    <3> QED BY <2>3, <2>4, <3>1, <3>2, <3>3 DEF peer_send
  <2>5. CASE ending_msg_received
    BY <2>0, <2>3, <2>5 DEF HInv, TypeOK, Window, Charged, ending_msg_received
  <2>6. CASE drop
    <3>1. TypeOK'
      BY <2>a, <2>0, <2>6, Zenon DEF TypeOK, drop
    <3>2. uses_stream_sendme => Window'
      BY <2>a, <2>6, Constants DEF TypeOK, Window, Charged, drop
    <3>3. Charged'
      BY <2>a, <2>0, <2>6 DEF TypeOK, Charged, drop
    <3> QED BY <2>3, <2>6, <3>1, <3>2, <3>3 DEF drop
  <2>7. CASE terminate
    <3>1. TypeOK'
      BY <2>a, <2>0, <2>7, Constants DEF TypeOK, terminate, half_window
    <3>2. uses_stream_sendme => Window'
      BY <2>a, <2>7, Constants DEF TypeOK, Window, terminate, half_window
    <3>3. Charged'
      BY <2>a, <2>0, <2>7, Constants DEF TypeOK, Charged, terminate, half_window
    <3> QED BY <2>3, <2>7, <3>1, <3>2, <3>3 DEF terminate
  <2>8. CASE deliver_msg_to_stream
    <3>1. TypeOK'
      BY <2>a, <2>0, <2>8 DEF TypeOK, deliver_msg_to_stream
    <3>2. uses_stream_sendme => Window'
      BY <2>a, <2>8, Constants DEF TypeOK, Window, deliver_msg_to_stream
    <3>3. Charged'
      BY <2>a, <2>0, <2>8, Constants DEF TypeOK, Charged, deliver_msg_to_stream
    <3> QED BY <2>3, <2>8, <3>1, <3>2, <3>3 DEF deliver_msg_to_stream
  <2>9. CASE half_stream_msg
    <3>1. TypeOK'
      BY <2>a, <2>0, <2>9, Constants DEF TypeOK, half_stream_msg
    <3>2. uses_stream_sendme => Window'
      BY <2>a, <2>9, Constants DEF TypeOK, Window, half_stream_msg
    <3>3. Charged'
      BY <2>a, <2>0, <2>9, Constants DEF TypeOK, Charged, half_stream_msg
    <3> QED BY <2>3, <2>9, <3>1, <3>2, <3>3 DEF half_stream_msg
  <2>10. CASE nonexistent_stream
    <3>1. TypeOK'
      BY <2>a, <2>0, <2>10 DEF TypeOK, nonexistent_stream
    <3>2. ~uses_stream_sendme
      BY <2>a, <2>10 DEF Window, nonexistent_stream
    <3>3. Charged'
      BY <2>a, <2>0, <2>10 DEF Charged, nonexistent_stream
    <3> QED BY <2>3, <2>10, <3>1, <3>2, <3>3 DEF nonexistent_stream
  <2> QED BY <1>2, <2>1, <2>2, <2>4, <2>5, <2>6, <2>7, <2>8, <2>9, <2>10 DEF Next
<1> QED BY <1>1, <1>2

(* The invariant holds throughout. *)
THEOREM HInvHolds == Spec => []HInv
<1>1. Init => HInv
  BY HInvInit
<1>2. HInv /\ [Next]_vars => HInv'
  BY HInvNext
<1> QED BY <1>1, <1>2, PTL DEF Spec

(* With stream SENDMEs, closing a stream never makes an honest peer's cells close   *)
(* the circuit (StreamMap::terminate, HalfStream::handle_msg, SendWindow::put).     *)
THEOREM HalfStreamTolerant == Spec => []PeerTolerated
<1>1. HInv => PeerTolerated
  BY DEF HInv, Window, PeerTolerated
<1> QED BY <1>1, HInvHolds, PTL

(* In either mode the circuit is closed for the data of a stream only when the peer *)
(* has sent more than a whole window on one that the application has dropped        *)
(* (HalfStream::handle_msg).                                                        *)
THEOREM HalfStreamNoFalseAlarm == Spec => []NoFalseAlarm
<1>1. HInv => NoFalseAlarm
  BY DEF HInv, TypeOK, Window, Charged, NoFalseAlarm
<1> QED BY <1>1, HInvHolds, PTL

(* The stream's window is conserved while the application holds the stream          *)
(* (RecvWindow::take in StreamReceiver, SendWindow::put at the peer).               *)
THEOREM HalfStreamConservation == Spec => []Conservation
<1>1. HInv => Conservation
  BY DEF HInv, Window, Conservation
<1> QED BY <1>1, HInvHolds, PTL

(* Type correctness: no window leaves its range. *)
THEOREM HalfStreamTypeOK == Spec => []TypeOK
<1>1. HInv => TypeOK
  BY DEF HInv
<1> QED BY <1>1, HInvHolds, PTL

-----------------------------------------------------------------------------
(* XON/XOFF flow control (XonXoff), for any limit, congestion window and    *)
(* queue.                                                                   *)

CONSTANTS CC_XOFF_CLIENT, CircCwnd, QueueSize, MaxWritten
VARIABLES written, rate, queued, credit, x_data, back, buffered, last_sent_xon_xoff, reactor,
          notified, updates, pending_drain_rate_update, x_reader, registered

X == INSTANCE XonXoff WITH data <- x_data, reader <- x_reader, Cwnd <- CircCwnd, MaxData <- MaxWritten
XonXoffSpec == X!Init /\ [][X!Next]_(X!vars)

XonXoffParameters == CC_XOFF_CLIENT \in Nat /\ CircCwnd \in Nat /\ QueueSize \in Nat /\ MaxWritten \in Nat

-----------------------------------------------------------------------------
(* How many SENDMEs are among the first i messages of a queue q is n[i].    *)

Messages == {"SENDME", "XON", "XOFF"}
One(m) == IF m = "SENDME" THEN 1 ELSE 0
Sendmes(q, n) ==
    /\ n \in [0..Len(q) -> Nat] /\ n[0] = 0
    /\ \A i \in 1..Len(q) : n[i] = n[i - 1] + One(q[i])
    /\ \A i, j \in 0..Len(q) : i <= j => n[i] <= n[j]

LEMMA SendmesAppend ==
    ASSUME NEW q \in Seq(Messages), NEW n, Sendmes(q, n), NEW m \in Messages
    PROVE  \E k : /\ Sendmes(Append(q, m), k) /\ k[Len(q) + 1] = n[Len(q)] + One(m)
                  /\ \A i \in 0..Len(q) : k[i] = n[i]
<1> DEFINE len == Len(q)
           r == Append(q, m)
           k == [i \in 0..len + 1 |-> IF i <= len THEN n[i] ELSE n[len] + One(m)]
<1>1. /\ len \in Nat /\ Len(r) = len + 1
      /\ (\A i \in 1..len : r[i] = q[i]) /\ r[len + 1] = m
  BY AppendFacts
<1>2. /\ (\A i \in 0..len : n[i] \in Nat) /\ n[0] = 0
      /\ (\A i \in 1..len : n[i] = n[i - 1] + One(q[i]))
      /\ \A i, j \in 0..len : i <= j => n[i] <= n[j]
  BY DEF Sendmes
<1> HIDE DEF len, r
<1>3. One(m) \in Nat
  BY DEF One
<1>4. /\ k \in [0..len + 1 -> Nat]
      /\ (\A i \in 0..len : k[i] = n[i]) /\ k[len + 1] = n[len] + One(m)
  BY <1>1, <1>2, <1>3
<1> HIDE DEF k
<1>5. \A i \in 1..len + 1 : k[i] = k[i - 1] + One(r[i])
  <2> SUFFICES ASSUME NEW i \in 1..len + 1 PROVE k[i] = k[i - 1] + One(r[i])
    OBVIOUS
  <2>1. CASE i \in 1..len
    BY <1>1, <1>2, <1>4, <2>1
  <2>2. CASE i = len + 1
    BY <1>1, <1>2, <1>4, <2>2
  <2> QED BY <1>1, <2>1, <2>2
<1>6. \A i, j \in 0..len + 1 : i <= j => k[i] <= k[j]
  <2> SUFFICES ASSUME NEW i \in 0..len + 1, NEW j \in 0..len + 1, i <= j PROVE k[i] <= k[j]
    OBVIOUS
  <2>1. CASE j \in 0..len
    BY <1>1, <1>2, <1>4, <2>1
  <2>2. CASE j = len + 1 /\ i \in 0..len
    <3>1. n[i] <= n[len] /\ n[i] \in Nat /\ n[len] \in Nat
      BY <1>1, <1>2, <2>2
    <3> QED BY <1>3, <1>4, <2>2, <3>1
  <2>3. CASE i = len + 1 /\ j = len + 1
    BY <1>1, <1>2, <1>3, <1>4, <2>3
  <2> QED BY <1>1, <2>1, <2>2, <2>3
<1>7. k[0] = 0
  BY <1>1, <1>2, <1>4
<1>8. Sendmes(r, k)
  BY <1>1, <1>4, <1>5, <1>6, <1>7 DEF Sendmes
<1> QED BY <1>4, <1>8 DEF len, r

LEMMA SendmesTail ==
    ASSUME NEW q \in Seq(Messages), q # << >>, NEW n, Sendmes(q, n)
    PROVE  \E k : /\ Sendmes(Tail(q), k)
                  /\ \A i \in 0..Len(q) - 1 : n[i + 1] = k[i] + One(Head(q))
<1> DEFINE len == Len(q)
           t == Tail(q)
           k == [i \in 0..len - 1 |-> n[i + 1] - One(Head(q))]
<1>1. /\ len \in Nat \ {0} /\ Len(t) = len - 1 /\ Head(q) = q[1]
      /\ \A i \in 1..len - 1 : t[i] = q[i + 1]
  BY TailFacts
<1>2. /\ (\A i \in 0..len : n[i] \in Nat) /\ n[0] = 0
      /\ (\A i \in 1..len : n[i] = n[i - 1] + One(q[i]))
      /\ \A i, j \in 0..len : i <= j => n[i] <= n[j]
  BY DEF Sendmes
<1> HIDE DEF len, t
<1>3. One(Head(q)) \in Nat /\ n[1] = One(Head(q))
  <2>1. n[1] = n[0] + One(q[1])
    BY <1>1, <1>2
  <2> QED BY <1>1, <1>2, <2>1 DEF One
<1>4. ASSUME NEW i \in 0..len - 1 PROVE n[i + 1] \in Nat /\ n[1] <= n[i + 1] /\ i + 1 \in 1..len
  BY <1>1, <1>2
<1>5. k \in [0..len - 1 -> Nat] /\ \A i \in 0..len - 1 : k[i] = n[i + 1] - One(Head(q))
  BY <1>3, <1>4
<1> HIDE DEF k
<1>6. \A i \in 1..len - 1 : k[i] = k[i - 1] + One(t[i])
  <2> SUFFICES ASSUME NEW i \in 1..len - 1 PROVE k[i] = k[i - 1] + One(t[i])
    OBVIOUS
  <2>1. i \in 0..len - 1 /\ i - 1 \in 0..len - 1 /\ i + 1 \in 1..len /\ i - 1 + 1 = i
    BY <1>1
  <2>2. n[i + 1] = n[i] + One(q[i + 1]) /\ n[i] \in Nat /\ n[i + 1] \in Nat
    BY <1>1, <1>2, <2>1
  <2>3. One(q[i + 1]) \in Nat /\ t[i] = q[i + 1]
    BY <1>1 DEF One
  <2>4. k[i] = n[i + 1] - One(Head(q)) /\ k[i - 1] = n[i] - One(Head(q))
    BY <1>5, <2>1
  <2> QED BY <1>3, <2>2, <2>3, <2>4
<1>7. \A i, j \in 0..len - 1 : i <= j => k[i] <= k[j]
  <2> SUFFICES ASSUME NEW i \in 0..len - 1, NEW j \in 0..len - 1, i <= j PROVE k[i] <= k[j]
    OBVIOUS
  <2>1. i + 1 \in 0..len /\ j + 1 \in 0..len /\ i + 1 <= j + 1
    BY <1>1
  <2>2. n[i + 1] <= n[j + 1] /\ n[i + 1] \in Nat /\ n[j + 1] \in Nat
    BY <1>2, <2>1
  <2> QED BY <1>3, <1>5, <2>2
<1>8. k[0] = 0
  BY <1>1, <1>3, <1>5
<1>9. Sendmes(t, k)
  BY <1>1, <1>5, <1>6, <1>7, <1>8 DEF Sendmes
<1>10. \A i \in 0..len - 1 : n[i + 1] = k[i] + One(Head(q))
  BY <1>3, <1>4, <1>5
<1> QED BY <1>9, <1>10 DEF len, t

-----------------------------------------------------------------------------
(* The invariant.                                                           *)

Limit == CC_XOFF_CLIENT + 1

\* Nothing is read that was not written; while no XOFF has been sent, no more is
\* buffered than the limit and the cell that exceeds it.
XCounts ==
    /\ buffered + x_data + queued <= written
    /\ last_sent_xon_xoff # "Xoff" => buffered <= Limit /\ (reactor = "idle" => buffered <= CC_XOFF_CLIENT)
    /\ reactor = "xoff" => last_sent_xon_xoff = "Xoff" /\ buffered <= Limit

\* The last XOFF is on its way: what arrives before the writer hears of it fits in the
\* congestion window as it was when the XOFF was sent.
Stopping(n) ==
    \E p \in 1..Len(back) :
        /\ back[p] = "XOFF" /\ \A j \in p + 1..Len(back) : back[j] = "SENDME"
        /\ buffered + x_data + credit + n[p] <= Limit + CircCwnd

\* The writer has stopped, and only its queue is left.
Stopped ==
    /\ rate = "ZERO" /\ \A j \in 1..Len(back) : back[j] = "SENDME"
    /\ buffered + x_data + queued <= Limit + CircCwnd + QueueSize

\* The congestion window is conserved, and an XOFF that was sent takes effect.
Credit(n) ==
    /\ Sendmes(back, n)
    /\ credit + x_data + n[Len(back)] = CircCwnd
    /\ last_sent_xon_xoff = "Xoff" /\ reactor # "xoff" => Stopping(n) \/ Stopped

XInv == X!TypeOK /\ XCounts /\ \E n : Credit(n)

\* The types, as the steps below use them.
XTyped ==
    /\ written \in Nat /\ queued \in Nat /\ queued <= QueueSize /\ credit \in Nat /\ x_data \in Nat
    /\ back \in Seq(Messages) /\ Len(back) \in Nat /\ buffered \in Nat /\ Limit \in Nat
    /\ CC_XOFF_CLIENT \in Nat /\ CircCwnd \in Nat /\ QueueSize \in Nat /\ MaxWritten \in Nat

LEMMA XTypes == ASSUME XonXoffParameters, XInv PROVE XTyped
<1>1. back \in Seq(Messages)
  BY DEF XInv, X!TypeOK, Messages
<1>2. Len(back) \in Nat
  BY <1>1, SeqFacts
<1> QED BY <1>1, <1>2 DEF XInv, X!TypeOK, XonXoffParameters, Limit, XTyped

(* Arithmetic of the counters, apart from the queue of messages.            *)
LEMMA WindowKept ==
    ASSUME NEW c1 \in Nat, NEW x1 \in Nat, NEW c \in Nat, NEW x \in Nat, NEW m \in Nat, NEW w \in Nat,
           c1 + x1 = c + x, c + x + m = w
    PROVE  c1 + x1 + m = w /\ c1 <= w /\ x1 <= w
OBVIOUS

LEMMA BoundKept ==
    ASSUME NEW b1 \in Nat, NEW c1 \in Nat, NEW x1 \in Nat, NEW b \in Nat, NEW c \in Nat, NEW x \in Nat,
           NEW m \in Nat, NEW w \in Nat,
           b1 <= b, c1 + x1 = c + x, b + x + c + m <= w
    PROVE  b1 + x1 + c1 + m <= w
OBVIOUS

LEMMA LessBuffered ==
    ASSUME NEW b1 \in Nat, NEW b \in Nat, NEW x \in Nat, NEW q \in Nat, NEW w \in Nat, b1 <= b
    PROVE  b + x + q <= w => b1 + x + q <= w
OBVIOUS

LEMMA LastOrBefore ==
    ASSUME NEW p \in Nat, NEW l \in Nat, NEW j \in p + 1..l + 1
    PROVE  j \in p + 1..l \/ j = l + 1
OBVIOUS

(* A step that leaves the messages to the writer alone.                     *)
LEMMA SameBack ==
    ASSUME XonXoffParameters, XInv, back' = back, credit' \in Nat, x_data' \in Nat, buffered' \in Nat,
           credit' + x_data' = credit + x_data, buffered' <= buffered, Stopped => Stopped',
           last_sent_xon_xoff' = "Xoff" /\ reactor' # "xoff" => last_sent_xon_xoff = "Xoff" /\ reactor # "xoff"
    PROVE  /\ \E n : Credit(n)'
           /\ credit' <= CircCwnd /\ x_data' <= CircCwnd
<1>0. XTyped
  BY XTypes
<1> USE <1>0 DEF XTyped
<1>1. PICK n : Credit(n)
  BY DEF XInv
<1>2. Sendmes(back, n) /\ credit + x_data + n[Len(back)] = CircCwnd
  BY <1>1 DEF Credit
<1>3. (\A i \in 0..Len(back) : n[i] \in Nat) /\ n[Len(back)] \in Nat
  BY <1>2, SMTT(30) DEF Sendmes
<1>4. credit' + x_data' + n[Len(back)] = CircCwnd /\ credit' <= CircCwnd /\ x_data' <= CircCwnd
  <2> DEFINE N == n[Len(back)]
  <2>1. N \in Nat /\ credit + x_data + N = CircCwnd
    BY <1>2, <1>3
  <2> HIDE DEF N
  <2>2. credit' + x_data' + N = CircCwnd /\ credit' <= CircCwnd /\ x_data' <= CircCwnd
    BY <2>1, WindowKept, Zenon
  <2> QED BY <2>2 DEF N
<1>5. ASSUME Stopping(n) PROVE Stopping(n)'
  <2>1. PICK p \in 1..Len(back) :
          /\ back[p] = "XOFF" /\ \A j \in p + 1..Len(back) : back[j] = "SENDME"
          /\ buffered + x_data + credit + n[p] <= Limit + CircCwnd
    BY <1>5 DEF Stopping
  <2>2. n[p] \in Nat
    BY <1>3
  <2>3. buffered' + x_data' + credit' + n[p] <= Limit + CircCwnd
    <3> DEFINE N == n[p]
    <3>1. N \in Nat /\ buffered + x_data + credit + N <= Limit + CircCwnd
      BY <2>1, <2>2
    <3> HIDE DEF N
    <3>2. Limit + CircCwnd \in Nat
      OBVIOUS
    <3>3. buffered' + x_data' + credit' + N <= Limit + CircCwnd
      BY <3>1, <3>2, BoundKept, ZenonT(30)
    <3> QED BY <3>3 DEF N
  <2> QED BY <2>1, <2>3, SMTT(30) DEF Stopping, Limit
<1>6. Credit(n)'
  BY <1>1, <1>2, <1>4, <1>5 DEF Credit
<1> QED BY <1>4, <1>6

(* A message is added: n counts the SENDMEs before and k after it.          *)
LEMMA MoreBack ==
    ASSUME XonXoffParameters, XInv, NEW m \in Messages, back' = Append(back, m), NEW n, Credit(n)
    PROVE  \E k : /\ Sendmes(back', k) /\ k[Len(back')] = n[Len(back)] + One(m) /\ n[Len(back)] \in Nat
                  /\ (\A i \in 0..Len(back) : k[i] = n[i] /\ n[i] \in Nat)
                  /\ back' \in Seq(Messages) /\ Len(back') = Len(back) + 1
                  /\ (\A i \in 1..Len(back) : back'[i] = back[i]) /\ back'[Len(back) + 1] = m
<1>0. XTyped
  BY XTypes
<1> USE <1>0 DEF XTyped
<1>1. back \in Seq(Messages) /\ Sendmes(back, n)
  BY DEF Credit
<1>2. PICK k : /\ Sendmes(Append(back, m), k) /\ k[Len(back) + 1] = n[Len(back)] + One(m)
               /\ \A i \in 0..Len(back) : k[i] = n[i]
  BY <1>1, SendmesAppend
<1>3. /\ back' \in Seq(Messages) /\ Len(back') = Len(back) + 1
      /\ (\A i \in 1..Len(back) : back'[i] = back[i]) /\ back'[Len(back) + 1] = m
  BY <1>1, AppendFacts
<1>4. \A i \in 0..Len(back) : n[i] \in Nat
  BY <1>1 DEF Sendmes
<1>5. n[Len(back)] \in Nat
  BY <1>4
<1> QED BY <1>2, <1>3, <1>4, <1>5

(* The writer's end.                                                        *)
LEMMA WriteStep ==
    ASSUME XonXoffParameters, XInv, X!write \/ X!send_ready
    PROVE  XInv'
<1>0. XTyped
  BY XTypes
<1> USE <1>0 DEF XTyped
<1>1. CASE X!write
  <2>1. /\ rate # "ZERO" /\ written < MaxWritten /\ queued < QueueSize
        /\ written' = written + 1 /\ queued' = queued + 1
        /\ UNCHANGED <<rate, credit, x_data, back, buffered, last_sent_xon_xoff, reactor, notified, updates,
                       pending_drain_rate_update, x_reader, registered>>
    BY <1>1 DEF X!write, X!link, X!receiver, X!reading
  <2>2. ~Stopped
    BY <2>1 DEF Stopped
  <2>3. \E n : Credit(n)'
    BY <2>1, <2>2, SameBack
  <2>4. XCounts'
    BY <2>1 DEF XInv, XCounts, Limit
  <2>5. X!TypeOK'
    BY <2>1 DEF XInv, X!TypeOK
  <2> QED BY <2>3, <2>4, <2>5 DEF XInv
<1>2. CASE X!send_ready
  <2>1. /\ queued > 0 /\ credit > 0 /\ queued' = queued - 1 /\ credit' = credit - 1 /\ x_data' = x_data + 1
        /\ UNCHANGED <<written, rate, back, buffered, last_sent_xon_xoff, reactor, notified, updates,
                       pending_drain_rate_update, x_reader, registered>>
    BY <1>2 DEF X!send_ready, X!receiver, X!reading
  <2>2. Stopped => Stopped'
    BY <2>1 DEF Stopped, Limit
  <2>3. (\E n : Credit(n)') /\ x_data' <= CircCwnd /\ credit' <= CircCwnd
    BY <2>1, <2>2, SameBack
  <2>4. XCounts'
    BY <2>1 DEF XInv, XCounts, Limit
  <2>5. X!TypeOK'
    BY <2>1, <2>3 DEF XInv, X!TypeOK
  <2> QED BY <2>3, <2>4, <2>5 DEF XInv
<1> QED BY <1>1, <1>2

(* The writer hears of an XOFF only after the SENDMEs sent before it.       *)
LEMMA IncomingStep ==
    ASSUME XonXoffParameters, XInv, X!handle_incoming
    PROVE  XInv'
<1>0. XTyped
  BY XTypes
<1> USE <1>0 DEF XTyped
<1> DEFINE h == Head(back)
<1>1. /\ back # << >> /\ back' = Tail(back) /\ credit' = credit + One(h)
      /\ rate' = (CASE h = "XON" -> "MAX" [] h = "XOFF" -> "ZERO" [] OTHER -> rate)
      /\ UNCHANGED <<written, queued, x_data, buffered, last_sent_xon_xoff, reactor, notified, updates,
                     pending_drain_rate_update, x_reader, registered>>
  BY DEF X!handle_incoming, X!receiver, X!reading, One
<1>2. /\ Len(back) \in Nat \ {0} /\ h = back[1] /\ h \in Messages
      /\ Tail(back) \in Seq(Messages) /\ Len(back') = Len(back) - 1
      /\ \A i \in 1..Len(back') : back'[i] = back[i + 1]
  BY <1>1, TailFacts
<1> HIDE DEF h
<1>3. One(h) \in Nat
  BY DEF One
<1>4. PICK n : Credit(n)
  BY DEF XInv
<1>5. PICK k : Sendmes(back', k) /\ \A i \in 0..Len(back) - 1 : n[i + 1] = k[i] + One(h)
  BY <1>1, <1>4, SendmesTail DEF Credit, h
<1>6. \A i \in 0..Len(back) - 1 : k[i] \in Nat
  BY <1>2, <1>5, Zenon DEF Sendmes
<1>7. credit' + x_data' + k[Len(back')] = CircCwnd /\ credit' <= CircCwnd /\ credit' \in Nat
  <2>1. Len(back') \in 0..Len(back) - 1 /\ Len(back') + 1 = Len(back)
    BY <1>2
  <2>2. n[Len(back)] = k[Len(back')] + One(h) /\ k[Len(back')] \in Nat
    BY <1>5, <1>6, <2>1
  <2>3. credit + x_data + n[Len(back)] = CircCwnd
    BY <1>4 DEF Credit
  <2> DEFINE K == k[Len(back')]
             o == One(h)
  <2>4. K \in Nat /\ o \in Nat /\ credit' = credit + o /\ credit + x_data + (K + o) = CircCwnd /\ x_data' = x_data
    BY <1>1, <1>3, <2>2, <2>3
  <2> HIDE DEF K, o
  <2>5. credit' + x_data' + K = CircCwnd /\ credit' <= CircCwnd /\ credit' \in Nat
    BY <2>4
  <2> QED BY <2>5 DEF K
<1>8. ASSUME Stopping(n) PROVE Stopping(k)' \/ Stopped'
  <2>1. PICK p \in 1..Len(back) :
          /\ back[p] = "XOFF" /\ \A j \in p + 1..Len(back) : back[j] = "SENDME"
          /\ buffered + x_data + credit + n[p] <= Limit + CircCwnd
    BY <1>8 DEF Stopping
  <2>2. p - 1 \in 0..Len(back) - 1 /\ p - 1 + 1 = p
    BY <1>2
  <2>3. n[p] = k[p - 1] + One(h) /\ k[p - 1] \in Nat
    BY <1>5, <1>6, <2>2
  <2>4. CASE p = 1
    <3>1. rate' = "ZERO"
      BY <1>1, <1>2, <2>1, <2>4
    <3>2. \A j \in 1..Len(back') : back'[j] = "SENDME"
      BY <1>2, <2>1, <2>4
    <3>3. buffered + x_data + queued <= Limit + CircCwnd + QueueSize
      BY <1>3, <2>1, <2>3
    <3> QED BY <1>1, <3>1, <3>2, <3>3 DEF Stopped, Limit
  <2>5. CASE p # 1
    <3>1. p - 1 \in 1..Len(back') /\ back'[p - 1] = "XOFF"
      BY <1>2, <2>1, <2>2, <2>5
    <3>2. \A j \in p - 1 + 1..Len(back') : back'[j] = "SENDME"
      BY <1>2, <2>1, <2>2
    <3>3. buffered' + x_data' + credit' + k[p - 1] <= Limit + CircCwnd
      <4> DEFINE K == k[p - 1]
                 o == One(h)
      <4>1. K \in Nat /\ o \in Nat /\ buffered + x_data + credit + (K + o) <= Limit + CircCwnd
        BY <1>3, <2>1, <2>3
      <4>2. buffered' = buffered /\ x_data' = x_data /\ credit' = credit + o
        BY <1>1
      <4> HIDE DEF K, o
      <4>3. buffered' + x_data' + credit' + K <= Limit + CircCwnd
        BY <4>1, <4>2
      <4> QED BY <4>3 DEF K
    <3> QED BY <3>1, <3>2, <3>3 DEF Stopping, Limit
  <2> QED BY <2>4, <2>5
<1>9. ASSUME Stopped PROVE Stopped'
  <2>1. h = "SENDME" /\ \A j \in 1..Len(back') : back'[j] = "SENDME"
    BY <1>2, <1>9 DEF Stopped
  <2>2. rate' = rate
    BY <1>1, <2>1
  <2> QED BY <1>1, <1>9, <2>1, <2>2 DEF Stopped, Limit
<1>10. Credit(k)'
  BY <1>1, <1>4, <1>5, <1>7, <1>8, <1>9 DEF Credit
<1>11. XCounts'
  BY <1>1 DEF XInv, XCounts, Limit
<1>12. rate' \in {"MAX", "ZERO"}
  BY <1>1, <1>2 DEF Messages, XInv, X!TypeOK
<1>13. X!TypeOK'
  BY <1>1, <1>2, <1>7, <1>12 DEF XInv, X!TypeOK, Messages
<1> QED BY <1>10, <1>11, <1>13 DEF XInv

(* The receiving reactor: a cell delivered, the decision to send an XOFF,   *)
(* the XOFF, and an update that may become an XON.                          *)
LEMMA DataStep ==
    ASSUME XonXoffParameters, XInv, X!handle_data
    PROVE  XInv'
<1>0. XTyped
  BY XTypes
<1> USE <1>0 DEF XTyped
<1>1. /\ reactor = "idle" /\ x_data > 0 /\ x_data' = x_data - 1 /\ buffered' = buffered + 1
      /\ back' = Append(back, "SENDME") /\ reactor' = "delivered"
      /\ UNCHANGED <<written, rate, queued, credit, last_sent_xon_xoff, notified, updates,
                     pending_drain_rate_update, x_reader, registered>>
  BY DEF X!handle_data, X!writer, X!reading
<1>2. PICK n : Credit(n)
  BY DEF XInv
<1>3. "SENDME" \in Messages /\ One("SENDME") = 1
  BY DEF Messages, One
<1>4. PICK k : /\ Sendmes(back', k) /\ k[Len(back')] = n[Len(back)] + 1 /\ n[Len(back)] \in Nat
               /\ (\A i \in 0..Len(back) : k[i] = n[i] /\ n[i] \in Nat)
               /\ back' \in Seq(Messages) /\ Len(back') = Len(back) + 1
               /\ (\A i \in 1..Len(back) : back'[i] = back[i]) /\ back'[Len(back) + 1] = "SENDME"
  BY <1>1, <1>2, <1>3, MoreBack
<1>5. credit' + x_data' + k[Len(back')] = CircCwnd
  BY <1>1, <1>2, <1>4 DEF Credit
<1>6. ASSUME Stopping(n) PROVE Stopping(k)'
  <2>1. PICK p \in 1..Len(back) :
          /\ back[p] = "XOFF" /\ \A j \in p + 1..Len(back) : back[j] = "SENDME"
          /\ buffered + x_data + credit + n[p] <= Limit + CircCwnd
    BY <1>6 DEF Stopping
  <2>2. p \in 1..Len(back') /\ back'[p] = "XOFF" /\ k[p] = n[p] /\ n[p] \in Nat
    BY <1>4, <2>1
  <2>3. ASSUME NEW j \in p + 1..Len(back') PROVE back'[j] = "SENDME"
    <3>1. j \in p + 1..Len(back) \/ j = Len(back) + 1
      <4>1. Len(back') = Len(back) + 1 /\ p \in Nat
        BY <1>4
      <4> QED BY <4>1, LastOrBefore, Zenon
    <3>2. CASE j \in p + 1..Len(back)
      <4>1. j \in 1..Len(back) /\ back[j] = "SENDME"
        BY <2>1, <3>2
      <4> QED BY <1>4, <4>1
    <3> QED BY <1>4, <3>1, <3>2
  <2>4. buffered' + x_data' + credit' + k[p] <= Limit + CircCwnd
    BY <1>1, <2>1, <2>2
  <2> QED BY <2>2, <2>3, <2>4 DEF Stopping, Limit
<1>7. ASSUME Stopped PROVE Stopped'
  <2>1. \A j \in 1..Len(back') : back'[j] = "SENDME"
    BY <1>4, <1>7 DEF Stopped
  <2> QED BY <1>1, <1>7, <2>1 DEF Stopped, Limit
<1>8. Credit(k)'
  BY <1>1, <1>2, <1>4, <1>5, <1>6, <1>7 DEF Credit
<1>9. XCounts'
  BY <1>1 DEF XInv, XCounts, Limit
<1>10. X!TypeOK'
  BY <1>1, <1>4, <1>9 DEF XInv, X!TypeOK, XCounts, Messages
<1> QED BY <1>8, <1>9, <1>10 DEF XInv

LEMMA XoffStep ==
    ASSUME XonXoffParameters, XInv, X!send_xoff
    PROVE  XInv'
<1>0. XTyped
  BY XTypes
<1> USE <1>0 DEF XTyped
<1>1. /\ reactor = "xoff" /\ reactor' = "idle" /\ notified' = TRUE /\ back' = Append(back, "XOFF")
      /\ UNCHANGED <<written, rate, queued, credit, x_data, buffered, last_sent_xon_xoff, updates,
                     pending_drain_rate_update, x_reader, registered>>
  BY DEF X!send_xoff, X!writer, X!reading
<1>2. PICK n : Credit(n)
  BY DEF XInv
<1>3. "XOFF" \in Messages /\ One("XOFF") = 0
  BY DEF Messages, One
<1>4. PICK k : /\ Sendmes(back', k) /\ k[Len(back')] = n[Len(back)] + 0 /\ n[Len(back)] \in Nat
               /\ back' \in Seq(Messages) /\ Len(back') = Len(back) + 1
               /\ back'[Len(back) + 1] = "XOFF"
  BY <1>1, <1>2, <1>3, MoreBack
<1>5. credit' + x_data' + k[Len(back')] = CircCwnd /\ last_sent_xon_xoff = "Xoff" /\ buffered <= Limit
  BY <1>1, <1>2, <1>4 DEF Credit, XInv, XCounts
<1>6. Stopping(k)'
  <2>1. Len(back') \in 1..Len(back') /\ back'[Len(back')] = "XOFF"
    BY <1>4
  <2>2. \A j \in Len(back') + 1..Len(back') : back'[j] = "SENDME"
    BY <1>4
  <2>3. buffered' + x_data' + credit' + k[Len(back')] <= Limit + CircCwnd
    BY <1>1, <1>4, <1>5
  <2> QED BY <2>1, <2>2, <2>3 DEF Stopping, Limit
<1>7. Credit(k)'
  BY <1>4, <1>5, <1>6 DEF Credit
<1>8. XCounts'
  BY <1>1, <1>5 DEF XInv, XCounts, Limit
<1>9. X!TypeOK'
  BY <1>1, <1>4 DEF XInv, X!TypeOK, Messages
<1> QED BY <1>7, <1>8, <1>9 DEF XInv

LEMMA UpdateStep ==
    ASSUME XonXoffParameters, XInv, X!handle_drain_rate_update
    PROVE  XInv'
<1>0. XTyped
  BY XTypes
<1> USE <1>0 DEF XTyped
<1>1. /\ reactor = "idle" /\ updates > 0 /\ updates' = updates - 1
      /\ UNCHANGED <<written, rate, queued, credit, x_data, buffered, reactor,
                     pending_drain_rate_update, x_reader, registered>>
  BY DEF X!handle_drain_rate_update, X!writer, X!reading
<1>2. updates' \in Nat
  BY <1>1 DEF XInv, X!TypeOK
<1>3. CASE buffered > CC_XOFF_CLIENT
  <2>1. notified' = TRUE /\ last_sent_xon_xoff' = last_sent_xon_xoff /\ back' = back
    BY <1>3 DEF X!handle_drain_rate_update, X!maybe_send_xon
  <2>2. Stopped => Stopped'
    BY <1>1, <2>1 DEF Stopped, Limit
  <2>3. \E n : Credit(n)'
    BY <1>1, <2>1, <2>2, SameBack
  <2>4. XCounts'
    BY <1>1, <2>1 DEF XInv, XCounts, Limit
  <2>5. X!TypeOK'
    BY <1>1, <1>2, <2>1 DEF XInv, X!TypeOK
  <2> QED BY <2>3, <2>4, <2>5 DEF XInv
<1>4. CASE ~(buffered > CC_XOFF_CLIENT)
  <2>1. last_sent_xon_xoff' = "Xon" /\ back' = Append(back, "XON") /\ notified' = notified
    BY <1>4 DEF X!handle_drain_rate_update, X!maybe_send_xon
  <2>2. PICK n : Credit(n)
    BY DEF XInv
  <2>3. "XON" \in Messages /\ One("XON") = 0
    BY DEF Messages, One
  <2>4. PICK k : /\ Sendmes(back', k) /\ k[Len(back')] = n[Len(back)] + 0 /\ n[Len(back)] \in Nat
                 /\ back' \in Seq(Messages)
    BY <2>1, <2>2, <2>3, MoreBack
  <2>5. credit' + x_data' + k[Len(back')] = CircCwnd
    BY <1>1, <2>2, <2>4 DEF Credit
  <2>6. Credit(k)'
    BY <2>1, <2>4, <2>5 DEF Credit
  <2>7. XCounts'
    BY <1>1, <1>4, <2>1 DEF XInv, XCounts, Limit
  <2>8. X!TypeOK'
    BY <1>1, <1>2, <2>1, <2>4 DEF XInv, X!TypeOK, Messages
  <2> QED BY <2>6, <2>7, <2>8 DEF XInv
<1> QED BY <1>3, <1>4

(* The decision to send an XOFF, and the reader's steps, send nothing.      *)
LEMMA QuietStep ==
    ASSUME XonXoffParameters, XInv, X!maybe_send_xoff \/ X!Reader \/ UNCHANGED X!vars
    PROVE  XInv'
<1>0. /\ written \in Nat /\ queued \in Nat /\ x_data \in Nat /\ credit \in Nat /\ buffered \in Nat
      /\ Limit \in Nat /\ CC_XOFF_CLIENT \in Nat /\ CircCwnd \in Nat /\ QueueSize \in Nat
  BY XTypes DEF XTyped
<1>1. ASSUME UNCHANGED <<written, rate, queued, credit, x_data, back, last_sent_xon_xoff, reactor>>,
             buffered' \in Nat, buffered' <= buffered, notified' \in BOOLEAN, updates' \in Nat,
             pending_drain_rate_update' \in BOOLEAN, registered' \in BOOLEAN,
             x_reader' \in {"idle", "polled", "read", "read-pending", "asleep"}
      PROVE  XInv'
  <2>0. buffered' \in Nat /\ buffered' <= buffered
    BY <1>1, Zenon
  <2>1. Stopped => Stopped'
    <3> DEFINE w == Limit + CircCwnd + QueueSize
    <3>1. w \in Nat
      BY <1>0
    <3> HIDE DEF w
    <3>2. x_data \in Nat /\ queued \in Nat /\ buffered \in Nat
      BY <1>0
    <3>3. buffered + x_data + queued <= w => buffered' + x_data + queued <= w
      BY <2>0, <3>1, <3>2, LessBuffered, Zenon
    <3> QED BY <1>1, <3>3, Zenon DEF Stopped, Limit, w
  <2>2. \E n : Credit(n)'
    BY <1>0, <1>1, <2>1, SameBack
  <2>3. XCounts'
    <3>0. x_data \in Nat /\ queued \in Nat /\ buffered \in Nat /\ written \in Nat
      BY <1>0
    <3>1. buffered + x_data + queued <= written => buffered' + x_data + queued <= written
      BY <2>0, <3>0, LessBuffered, ZenonT(30)
    <3>2. buffered <= Limit => buffered' <= Limit
      BY <1>0, <2>0
    <3>3. buffered <= CC_XOFF_CLIENT => buffered' <= CC_XOFF_CLIENT
      BY <1>0, <2>0
    <3> QED BY <1>1, <3>1, <3>2, <3>3, Zenon DEF XInv, XCounts, Limit
  <2>4. X!TypeOK'
    <3>1. X!TypeOK
      BY DEF XInv
    <3>2. buffered \in 0..MaxWritten /\ MaxWritten \in Nat
      BY <3>1 DEF X!TypeOK, XonXoffParameters
    <3>3. buffered' \in 0..MaxWritten
      BY <2>0, <3>2
    <3> QED BY <1>1, <3>1, <3>3, Zenon DEF X!TypeOK
  <2> QED BY <2>2, <2>3, <2>4 DEF XInv
<1>2. /\ notified \in BOOLEAN /\ updates \in Nat /\ pending_drain_rate_update \in BOOLEAN /\ registered \in BOOLEAN
      /\ x_reader \in {"idle", "polled", "read", "read-pending", "asleep"}
  BY DEF XInv, X!TypeOK
<1>3. CASE X!maybe_send_xoff
  <2>1. /\ reactor = "delivered" /\ reactor' = (IF X!xoff_due THEN "xoff" ELSE "idle")
        /\ last_sent_xon_xoff' = (IF X!xoff_due THEN "Xoff" ELSE last_sent_xon_xoff)
        /\ UNCHANGED <<written, rate, queued, credit, x_data, back, buffered, notified, updates,
                       pending_drain_rate_update, x_reader, registered>>
    BY <1>3 DEF X!maybe_send_xoff, X!writer, X!link, X!reading
  <2>2. Stopped => Stopped'
    BY <2>1 DEF Stopped, Limit
  <2>3. last_sent_xon_xoff' = "Xoff" /\ reactor' # "xoff" => last_sent_xon_xoff = "Xoff" /\ reactor # "xoff"
    BY <2>1
  <2>4. \E n : Credit(n)'
    BY <1>0, <2>1, <2>2, <2>3, SameBack
  <2>5. XCounts'
    BY <1>0, <2>1 DEF XInv, XCounts, Limit, X!xoff_due
  <2>6. X!TypeOK'
    BY <2>1 DEF XInv, X!TypeOK
  <2> QED BY <2>4, <2>5, <2>6 DEF XInv
<1>4. CASE X!poll_request
  <2>1. /\ x_reader' = "polled" /\ pending_drain_rate_update' = (pending_drain_rate_update \/ notified)
        /\ notified' = FALSE /\ registered' = ~notified
        /\ UNCHANGED <<written, rate, queued, credit, x_data, back, buffered, last_sent_xon_xoff, reactor, updates>>
    BY <1>4 DEF X!poll_request, X!writer, X!link
  <2>2. pending_drain_rate_update' \in BOOLEAN /\ notified' \in BOOLEAN /\ registered' \in BOOLEAN
    BY <2>1, Zenon
  <2> QED BY <1>0, <1>1, <1>2, <2>1, <2>2
<1>5. CASE X!read_inner
  BY <1>0, <1>1, <1>2, <1>5 DEF X!read_inner, X!writer, X!link
<1>6. CASE X!send_update
  <2>1. /\ x_reader' \in {"idle", "asleep"} /\ updates' \in {updates, updates + 1}
        /\ pending_drain_rate_update' \in {pending_drain_rate_update, FALSE}
        /\ UNCHANGED <<written, rate, queued, credit, x_data, back, buffered, last_sent_xon_xoff, reactor,
                       notified, registered>>
    BY <1>6, Zenon DEF X!send_update, X!writer, X!link
  <2>2. pending_drain_rate_update' \in BOOLEAN
    BY <1>2, <2>1, Zenon
  <2>3. updates' \in Nat
    BY <1>2, <2>1
  <2> QED BY <1>0, <1>1, <1>2, <2>1, <2>2, <2>3
<1>7. CASE X!wake_reader
  BY <1>0, <1>1, <1>2, <1>7 DEF X!wake_reader, X!writer, X!link, X!receiver
<1>8. CASE UNCHANGED X!vars
  BY <1>0, <1>1, <1>2, <1>8 DEF X!vars, X!writer, X!link, X!receiver, X!reading
<1> QED BY <1>3, <1>4, <1>5, <1>6, <1>7, <1>8 DEF X!Reader

LEMMA XInvInit == ASSUME XonXoffParameters, X!Init PROVE XInv
<1>1. /\ written = 0 /\ queued = 0 /\ credit = CircCwnd /\ x_data = 0 /\ back = << >> /\ buffered = 0
      /\ last_sent_xon_xoff = "None" /\ reactor = "idle"
  BY DEF X!Init
<1>2. X!TypeOK
  <2>1. /\ rate = "MAX" /\ notified = FALSE /\ updates = 0 /\ pending_drain_rate_update = FALSE
        /\ x_reader = "idle" /\ registered = FALSE
    BY DEF X!Init
  <2>2. back \in Seq({"SENDME", "XON", "XOFF"})
    BY <1>1
  <2>3. written \in 0..MaxWritten /\ queued \in 0..QueueSize /\ credit \in 0..CircCwnd /\ x_data \in 0..CircCwnd
        /\ buffered \in 0..MaxWritten
    BY <1>1 DEF XonXoffParameters
  <2>4. updates \in Nat
    BY <2>1
  <2> QED BY <1>1, <2>1, <2>2, <2>3, <2>4, Zenon DEF X!TypeOK
<1>3. XCounts
  BY <1>1 DEF XCounts, Limit, XonXoffParameters
<1>4. Credit([i \in 0..0 |-> 0])
  <2>1. Len(back) = 0
    BY <1>1
  <2>2. Sendmes(back, [i \in 0..0 |-> 0])
    BY <2>1 DEF Sendmes
  <2> QED BY <1>1, <2>1, <2>2 DEF Credit, XonXoffParameters
<1> QED BY <1>2, <1>3, <1>4 DEF XInv

THEOREM XonXoffInvariant == ASSUME XonXoffParameters PROVE XonXoffSpec => []XInv
<1>1. X!Init => XInv
  BY XInvInit
<1>2. XInv /\ [X!Next]_(X!vars) => XInv'
  BY WriteStep, IncomingStep, DataStep, XoffStep, UpdateStep, QuietStep DEF X!Next, X!Reactor
<1> QED BY <1>1, <1>2, PTL DEF XonXoffSpec

(* What the receiver must hold is bounded by the limit, one cell, one       *)
(* congestion window and the writer's queue, however slow the reader and    *)
(* however XONs and XOFFs cross (StreamFlowControl::maybe_send_xoff).       *)
THEOREM XonXoffBufferBounded == ASSUME XonXoffParameters PROVE XonXoffSpec => []X!BufferBounded
<1>1. XInv => X!BufferBounded
  <2> SUFFICES ASSUME XInv PROVE X!BufferBounded
    OBVIOUS
  <2>0. XTyped
    BY XTypes
  <2>1. PICK n : Credit(n)
    BY DEF XInv
  <2>2. CASE last_sent_xon_xoff # "Xoff" \/ reactor = "xoff"
    BY <2>0, <2>2 DEF XInv, XCounts, Limit, X!BufferBounded, XTyped
  <2>3. CASE Stopped
    BY <2>0, <2>3 DEF Stopped, Limit, X!BufferBounded, XTyped
  <2>4. CASE Stopping(n)
    <3>1. PICK p \in 1..Len(back) : buffered + x_data + credit + n[p] <= Limit + CircCwnd
      BY <2>4 DEF Stopping
    <3>2. n[p] \in Nat
      BY <2>0, <2>1 DEF Credit, Sendmes, XTyped
    <3> QED BY <2>0, <3>1, <3>2 DEF Limit, X!BufferBounded, XTyped
  <2> QED BY <2>1, <2>2, <2>3, <2>4 DEF Credit
<1> QED BY <1>1, XonXoffInvariant, PTL

(* The debug_assert of maybe_send_xon: while more is buffered than the      *)
(* limit, the last message sent was an XOFF.                                *)
THEOREM XonXoffSentWhenFull == ASSUME XonXoffParameters PROVE XonXoffSpec => []X!XoffSentWhenFull
<1>1. XInv => X!XoffSentWhenFull
  <2> SUFFICES ASSUME XInv PROVE X!XoffSentWhenFull
    OBVIOUS
  <2>1. XTyped
    BY XTypes
  <2> QED BY <2>1 DEF XInv, XCounts, X!XoffSentWhenFull, XTyped
<1> QED BY <1>1, XonXoffInvariant, PTL
=============================================================================
