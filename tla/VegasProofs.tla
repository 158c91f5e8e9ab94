------------------------------ MODULE VegasProofs ------------------------------
(***************************************************************************)
(* Proofs about VegasCircuit, for every value of its parameters that       *)
(* satisfies VegasAssumption (and, for the bounds of the window,           *)
(* WindowParameters).                                                      *)
(***************************************************************************)
EXTENDS VegasCircuit, DataLemmas, TLAPS

(* Parameters under which the window cannot fall below one increment: the  *)
(* documented requirement on cwnd_min, and the same for every value that   *)
(* CongestionWindow::set is given.                                         *)
WindowParameters ==
    /\ SendmeInc <= CwndInit
    /\ SendmeInc <= CwndMin
    /\ CwndMin <= CwndMax
    /\ SendmeInc <= SsCwndMax
    /\ SendmeInc <= Gamma
    /\ SendmeInc <= Delta - CwndInc

(* Cells acknowledged by SENDMEs that the sender has accepted. *)
Acked == nsent - inflight

(* The receiver owes a SENDME after at most one increment. *)
UntilInRange == until_sendme \in 1 .. SendmeInc

(* The cells on the way are the last ones sent, in order. *)
DataInOrder == \A i \in 1 .. Len(data) : data[i] = (nsent - Len(data)) + i

(* SENDMEs on the way acknowledge consecutive increments. *)
SendmesInOrder == \A i \in 1 .. Len(sendmes) : sendmes[i] = Acked + Cells(i)

(* The sender expects the tags of consecutive increments. *)
TagsInOrder == \A i \in 1 .. Len(tags) : tags[i] = Acked + Cells(i)

(* What the accounting needs to know of the types. *)
CountsOK ==
    /\ inflight \in Nat /\ nsent \in Nat /\ expected \in Nat /\ until_sendme \in Nat
    /\ tags \in Seq(Nat) /\ data \in Seq(Nat) /\ sendmes \in Seq(Nat)

(* One entry in each of the sender's queues for every increment in flight. *)
QueuesMatch ==
    /\ expected = Len(tags)
    /\ Cells(Len(tags)) <= inflight /\ inflight < Cells(Len(tags) + 1)

(* The inductive invariant behind NeverClosed and QueuesAgree. *)
IInv ==
    /\ CountsOK
    /\ UntilInRange
    /\ Conservation
    /\ QueuesMatch
    /\ NeverClosed
    /\ DataInOrder
    /\ SendmesInOrder
    /\ TagsInOrder

-----------------------------------------------------------------------------
(* Cells, without its multiplication. *)
LEMMA CellsFacts ==
    ASSUME NEW n \in Nat
    PROVE  /\ Cells(n) \in Nat
           /\ Cells(n + 1) \in Nat
           /\ Cells(n + 1) = Cells(n) + SendmeInc
BY VegasAssumption DEF Cells

(* No SENDME acknowledges nothing, one an increment. *)
LEMMA CellsZero == Cells(0) = 0 /\ Cells(0 + 1) = SendmeInc /\ Cells(1) = SendmeInc
BY VegasAssumption DEF Cells

(* Fewer cells take fewer SENDMEs. *)
LEMMA CellsCancel ==
    ASSUME NEW m \in Nat, NEW n \in Nat, Cells(m) < Cells(n)
    PROVE  m < n
BY VegasAssumption, ProductCancel DEF Cells

(* Among the counts of one increment, only the whole one is a multiple of  *)
(* the increment.                                                          *)
LEMMA WholeIncrements ==
    ASSUME NEW l \in Nat, NEW v \in Int, Cells(l) < v, v <= Cells(l + 1)
    PROVE  v % SendmeInc = 0 <=> v = Cells(l + 1)
<1>0. SendmeInc \in Nat \ {0}
  BY VegasAssumption
<1>2. ASSUME v % SendmeInc = 0 PROVE v = Cells(l + 1)
  <2>1. PICK q \in Int : v = SendmeInc * q
    BY <1>0, <1>2, MultipleIsProduct
  <2>3. l < q
    BY <1>0, <2>1, ProductCancel DEF Cells
  <2>4. Cells(l + 1) <= SendmeInc * q
    BY <1>0, <2>1, <2>3, ProductMonotone DEF Cells
  <2> QED BY <1>0, <2>1, <2>4 DEF Cells
<1>3. ASSUME v = Cells(l + 1) PROVE v % SendmeInc = 0
  <2>1. v = SendmeInc * (l + 1) /\ l + 1 \in Int
    BY <1>0, <1>3 DEF Cells
  <2>2. \A k \in Int : (SendmeInc * k) % SendmeInc = 0
    BY <1>0
  <2> QED BY <2>1, <2>2
<1> QED BY <1>2, <1>3

(* The initial state satisfies the invariant. *)
LEMMA InitIInv == Init => IInv
<1> SUFFICES ASSUME Init PROVE IInv
  OBVIOUS
<1>0. SendmeInc \in Nat \ {0}
  BY VegasAssumption
<1>1. CountsOK /\ UntilInRange /\ NeverClosed
  BY <1>0 DEF Init, CountsOK, UntilInRange, NeverClosed
<1>2. /\ inflight = 0 /\ nsent = 0 /\ expected = 0 /\ until_sendme = SendmeInc
      /\ Len(data) = 0 /\ Len(sendmes) = 0 /\ Len(tags) = 0
  BY DEF Init
<1>3. Conservation /\ QueuesMatch
  BY <1>0, <1>2, CellsZero DEF Conservation, QueuesMatch
<1>4. DataInOrder /\ SendmesInOrder /\ TagsInOrder
  BY <1>2 DEF DataInOrder, SendmesInOrder, TagsInOrder
<1> QED BY <1>1, <1>3, <1>4 DEF IInv

(* Sending a cell preserves the invariant: its tag is recorded exactly when *)
(* it completes an increment.                                               *)
LEMMA SendIInv ==
    ASSUME IInv, note_data_sent
    PROVE  IInv'
<1>i. SendmeInc \in Nat \ {0}
  BY VegasAssumption
<1>0. /\ inflight \in Nat /\ nsent \in Nat /\ expected \in Nat
      /\ until_sendme \in 1 .. SendmeInc
      /\ tags \in Seq(Nat) /\ data \in Seq(Nat) /\ sendmes \in Seq(Nat)
      /\ Len(tags) \in Nat /\ Len(data) \in Nat /\ Len(sendmes) \in Nat
  BY DEF IInv, CountsOK, UntilInRange
<1>1. /\ inflight' = inflight + 1
      /\ nsent' = nsent + 1
      /\ data' = Append(data, nsent + 1)
      /\ until_sendme' = until_sendme /\ sendmes' = sendmes /\ closed' = closed
  BY DEF note_data_sent
<1>c. /\ Cells(Len(tags)) \in Nat /\ Cells(Len(tags) + 1) \in Nat
      /\ Cells(Len(sendmes)) \in Nat
  BY <1>0, CellsFacts
<1>2. Acked' = Acked /\ Acked \in Int
  BY <1>0, <1>1 DEF Acked
<1>3. data' \in Seq(Nat) /\ Len(data') = Len(data) + 1
  BY <1>0, <1>1, AppendFacts
<1>4. Conservation'
  <2>1. inflight = Len(data) + (SendmeInc - until_sendme) + Cells(Len(sendmes))
    BY DEF IInv, Conservation
  <2>2. inflight' = Len(data') + (SendmeInc - until_sendme) + Cells(Len(sendmes))
    <3>1. Len(data) \in Int /\ SendmeInc - until_sendme \in Int /\ Cells(Len(sendmes)) \in Int
      BY <1>i, <1>0, <1>c
    <3>2. inflight' = inflight + 1 /\ Len(data') = Len(data) + 1
      BY <1>1, <1>3
    <3> QED BY <2>1, <3>1, <3>2
  <2> QED BY <1>1, <2>2 DEF Conservation
<1>5. DataInOrder'
  <2> SUFFICES ASSUME NEW i \in 1 .. Len(data')
               PROVE  data'[i] = (nsent' - Len(data')) + i
    BY DEF DataInOrder
  <2>1. CASE i \in 1 .. Len(data)
    BY <1>0, <1>1, <1>3, <2>1, AppendFacts DEF IInv, DataInOrder
  <2>2. CASE i = Len(data) + 1
    BY <1>0, <1>1, <1>3, <2>2, AppendFacts
  <2> QED BY <1>0, <1>3, <2>1, <2>2
<1>6. SendmesInOrder' /\ UntilInRange' /\ NeverClosed'
  BY <1>1, <1>2 DEF IInv, SendmesInOrder, UntilInRange, NeverClosed
<1>q. /\ expected = Len(tags)
      /\ Cells(Len(tags)) <= inflight /\ inflight < Cells(Len(tags) + 1)
  BY DEF IInv, QueuesMatch
<1>7. /\ tags' \in Seq(Nat) /\ expected' \in Nat
      /\ TagsInOrder' /\ QueuesMatch'
  <2>1. is_next_cell_sendme(inflight + 1) <=> inflight + 1 = Cells(Len(tags) + 1)
    <3>1. /\ inflight + 1 \in Int
          /\ Cells(Len(tags)) < inflight + 1
          /\ inflight + 1 <= Cells(Len(tags) + 1)
      BY <1>0, <1>c, <1>q
    <3> QED BY <1>0, <3>1, WholeIncrements DEF is_next_cell_sendme
  <2>2. CASE is_next_cell_sendme(inflight + 1)
    <3>1. tags' = Append(tags, nsent + 1) /\ expected' = expected + 1
      BY <2>2 DEF note_data_sent
    <3>2. tags' \in Seq(Nat) /\ Len(tags') = Len(tags) + 1
      BY <1>0, <3>1, AppendFacts
    <3>3. nsent + 1 = Acked + Cells(Len(tags) + 1)
      BY <1>0, <1>c, <2>1, <2>2 DEF Acked
    <3>4. \A i \in 1 .. Len(tags') : tags'[i] = Acked' + Cells(i)
      <4> TAKE i \in 1 .. Len(tags')
      <4>1. CASE i <= Len(tags)
        <5>1. i \in 1 .. Len(tags) /\ tags'[i] = tags[i]
          BY <1>0, <3>1, <4>1, AppendFacts
        <5> QED BY <1>2, <5>1 DEF IInv, TagsInOrder
      <4>2. CASE i = Len(tags) + 1
        BY <1>0, <1>2, <3>1, <3>3, <4>2, AppendFacts
      <4> QED BY <1>0, <3>2, <4>1, <4>2
    <3>5. Cells(Len(tags) + 1) < Cells((Len(tags) + 1) + 1)
      <4>1. Len(tags) + 1 \in Nat
        BY <1>0
      <4> QED BY <1>i, <4>1, CellsFacts
    <3>6. /\ Cells(Len(tags')) <= inflight'
          /\ inflight' < Cells(Len(tags') + 1)
      BY <1>1, <1>0, <2>1, <2>2, <3>2, <3>5
    <3> QED BY <1>0, <1>q, <3>1, <3>2, <3>4, <3>6 DEF TagsInOrder, QueuesMatch
  <2>3. CASE ~is_next_cell_sendme(inflight + 1)
    <3>1. tags' = tags /\ expected' = expected
      BY <2>3 DEF note_data_sent
    <3>2. inflight + 1 # Cells(Len(tags) + 1)
      BY <2>1, <2>3
    <3>3. Cells(Len(tags)) <= inflight + 1 /\ inflight + 1 < Cells(Len(tags) + 1)
      BY <1>0, <1>c, <1>q, <3>2
    <3>4. \A i \in 1 .. Len(tags') : tags'[i] = Acked' + Cells(i)
      BY <1>2, <3>1 DEF IInv, TagsInOrder
    <3>5. QueuesMatch'
      BY <1>1, <1>q, <3>1, <3>3 DEF QueuesMatch
    <3> QED BY <1>0, <3>1, <3>4, <3>5 DEF TagsInOrder
  <2> QED BY <2>2, <2>3
<1>8. CountsOK'
  BY <1>0, <1>1, <1>3, <1>7 DEF CountsOK
<1> QED BY <1>4, <1>5, <1>6, <1>7, <1>8 DEF IInv

(* Where the next cell to be received lies in the stream when it completes  *)
(* an increment.                                                            *)
LEMMA FirstUnacked ==
    ASSUME NEW d \in Int, NEW c \in Int, NEW next \in Int, NEW n \in Int,
           NEW f \in Int,
           f = d + (SendmeInc - 1) + c, next = c + SendmeInc
    PROVE  (n - d) + 1 = (n - f) + next
BY VegasAssumption

(* Receiving a cell preserves the invariant: the SENDME it causes carries   *)
(* the tag of the cell that completes the increment.                        *)
LEMMA ReceiveIInv ==
    ASSUME IInv, note_data_received
    PROVE  IInv'
<1>i. SendmeInc \in Nat \ {0}
  BY VegasAssumption
<1>0. /\ inflight \in Nat /\ nsent \in Nat /\ expected \in Nat
      /\ until_sendme \in 1 .. SendmeInc
      /\ tags \in Seq(Nat) /\ data \in Seq(Nat) /\ sendmes \in Seq(Nat)
      /\ Len(tags) \in Nat /\ Len(data) \in Nat /\ Len(sendmes) \in Nat
  BY DEF IInv, CountsOK, UntilInRange
<1>1. /\ data # << >> /\ data' = Tail(data)
      /\ inflight' = inflight /\ tags' = tags /\ nsent' = nsent
      /\ expected' = expected /\ closed' = closed
  BY DEF note_data_received
<1>2. /\ data' \in Seq(Nat) /\ Len(data) >= 1 /\ Len(data') = Len(data) - 1
      /\ Head(data) \in Nat /\ Head(data) = (nsent - Len(data)) + 1
  BY <1>0, <1>1, TailFacts DEF IInv, DataInOrder
<1>3. /\ Cells(Len(sendmes)) \in Nat /\ Cells(Len(sendmes) + 1) \in Nat
      /\ Cells(Len(sendmes) + 1) = Cells(Len(sendmes)) + SendmeInc
  BY <1>0, CellsFacts
<1>4. inflight = Len(data) + (SendmeInc - until_sendme) + Cells(Len(sendmes))
  BY DEF IInv, Conservation
<1>5. until_sendme # 0
  BY <1>i, <1>0
<1>6. /\ Acked' = Acked /\ Acked \in Int
      /\ TagsInOrder' /\ QueuesMatch' /\ NeverClosed'
  BY <1>0, <1>1 DEF IInv, TagsInOrder, QueuesMatch, NeverClosed, Acked
<1>7. DataInOrder'
  BY <1>0, <1>1, <1>2, TailFacts DEF IInv, DataInOrder
<1>9. CASE until_sendme = 1
  <2>1. sendmes' = Append(sendmes, Head(data)) /\ until_sendme' = SendmeInc
    BY <1>5, <1>9 DEF note_data_received, cells_until_sendme
  <2>2. /\ sendmes' \in Seq(Nat) /\ Len(sendmes') = Len(sendmes) + 1
        /\ \A i \in 1 .. Len(sendmes) : sendmes'[i] = sendmes[i]
        /\ sendmes'[Len(sendmes) + 1] = Head(data)
    BY <1>0, <1>2, <2>1, AppendFacts
  <2>4. Head(data) = Acked + Cells(Len(sendmes) + 1)
    <3>1. inflight = Len(data) + (SendmeInc - 1) + Cells(Len(sendmes))
      BY <1>4, <1>9
    <3>2. /\ Len(data) \in Int /\ Cells(Len(sendmes)) \in Int
          /\ Cells(Len(sendmes) + 1) \in Int /\ nsent \in Int /\ inflight \in Int
      BY <1>0, <1>3
    <3>3. Cells(Len(sendmes) + 1) = Cells(Len(sendmes)) + SendmeInc
      BY <1>3
    <3>4. (nsent - Len(data)) + 1 = (nsent - inflight) + Cells(Len(sendmes) + 1)
      BY <3>1, <3>2, <3>3, FirstUnacked, SMTT(30)
    <3> QED BY <1>2, <3>4 DEF Acked
  <2>5. SendmesInOrder'
    <3> SUFFICES ASSUME NEW i \in 1 .. Len(sendmes')
                 PROVE  sendmes'[i] = Acked' + Cells(i)
      BY DEF SendmesInOrder
    <3>1. CASE i \in 1 .. Len(sendmes)
      BY <1>6, <2>2, <3>1 DEF IInv, SendmesInOrder
    <3>2. CASE i = Len(sendmes) + 1
      BY <1>6, <2>2, <2>4, <3>2
    <3> QED BY <1>0, <2>2, <3>1, <3>2
  <2>6. inflight = Len(data') + (SendmeInc - until_sendme') + Cells(Len(sendmes) + 1)
    <3>1. Len(data') = Len(data) - 1 /\ Len(data) \in Nat
      BY <1>0, <1>2
    <3> QED BY <1>i, <1>3, <1>4, <1>9, <2>1, <3>1, SMTT(30)
  <2>7. Conservation' /\ UntilInRange'
    BY <1>i, <1>1, <2>1, <2>2, <2>6 DEF Conservation, UntilInRange
  <2>8. CountsOK'
    BY <1>i, <1>0, <1>1, <1>2, <2>1, <2>2 DEF CountsOK
  <2> QED BY <1>6, <1>7, <2>5, <2>7, <2>8 DEF IInv
<1>10. CASE until_sendme # 1
  <2>1. sendmes' = sendmes /\ until_sendme' = until_sendme - 1
    BY <1>5, <1>10 DEF note_data_received
  <2>4. inflight = Len(data') + (SendmeInc - until_sendme') + Cells(Len(sendmes))
    <3>1. Len(data') = Len(data) - 1 /\ Len(data) \in Nat /\ until_sendme \in Nat
      BY <1>0, <1>2
    <3> QED BY <1>i, <1>3, <1>4, <2>1, <3>1
  <2>5. Conservation' /\ SendmesInOrder'
    BY <1>1, <1>6, <2>1, <2>4 DEF IInv, Conservation, SendmesInOrder
  <2>6. UntilInRange' /\ until_sendme' \in Nat
    BY <1>i, <1>0, <1>10, <2>1 DEF UntilInRange
  <2>7. CountsOK'
    BY <1>0, <1>1, <1>2, <2>1, <2>6 DEF CountsOK
  <2> QED BY <1>6, <1>7, <2>5, <2>6, <2>7 DEF IInv
<1> QED BY <1>9, <1>10

(* Receiving a SENDME preserves the invariant: its tag is the one at the    *)
(* head of the validator's queue and the RTT estimator has a departure time *)
(* for it; whatever the algorithm does to the window, inflight falls by one *)
(* increment.                                                               *)
LEMMA SendmeIInv ==
    ASSUME IInv, note_sendme_received
    PROVE  /\ IInv'
           /\ expected # 0
           /\ \E raw \in RawRtts, size \in QueueSizes :
                 rtt_update(raw) /\ sendme_received(channel_blocked, size)
<1>i. SendmeInc \in Nat \ {0}
  BY VegasAssumption
<1>0. /\ inflight \in Nat /\ nsent \in Nat /\ expected \in Nat
      /\ until_sendme \in 1 .. SendmeInc
      /\ tags \in Seq(Nat) /\ data \in Seq(Nat) /\ sendmes \in Seq(Nat)
      /\ Len(tags) \in Nat /\ Len(data) \in Nat /\ Len(sendmes) \in Nat
  BY DEF IInv, CountsOK, UntilInRange
<1>1. /\ sendmes # << >> /\ sendmes' = Tail(sendmes)
      /\ until_sendme' = until_sendme /\ data' = data /\ nsent' = nsent
  BY Zenon DEF note_sendme_received
<1>2. /\ sendmes' \in Seq(Nat) /\ Len(sendmes) >= 1
      /\ Len(sendmes') = Len(sendmes) - 1 /\ Len(sendmes') \in Nat
      /\ Head(sendmes) = Acked + Cells(1)
  BY <1>0, <1>1, TailFacts DEF IInv, SendmesInOrder
<1>3. Cells(Len(sendmes')) \in Nat
      /\ Cells(Len(sendmes)) = Cells(Len(sendmes')) + SendmeInc
  <2>1. Len(sendmes) = Len(sendmes') + 1
    BY <1>0, <1>2
  <2>2. Cells(Len(sendmes') + 1) = Cells(Len(sendmes')) + SendmeInc
        /\ Cells(Len(sendmes')) \in Nat
    BY <1>2, CellsFacts, Zenon
  <2> QED BY <2>1, <2>2
<1>4. inflight = Len(data) + (SendmeInc - until_sendme) + Cells(Len(sendmes))
  BY DEF IInv, Conservation
<1>5. SendmeInc - until_sendme \in Nat
  BY <1>i, <1>0
<1>6. inflight >= Cells(Len(sendmes)) /\ inflight >= SendmeInc
  BY <1>i, <1>0, <1>3, <1>4, <1>5
<1>q. /\ expected = Len(tags)
      /\ Cells(Len(tags)) <= inflight /\ inflight < Cells(Len(tags) + 1)
  BY DEF IInv, QueuesMatch
<1>7. tags # << >> /\ expected # 0
  <2>1. Cells(Len(tags) + 1) \in Nat /\ Cells(Len(sendmes)) \in Nat
    BY <1>0, CellsFacts
  <2>3. Cells(Len(sendmes)) < Cells(Len(tags) + 1)
    BY <1>0, <1>6, <1>q, <2>1
  <2>4. Len(sendmes) < Len(tags) + 1
    BY <1>0, <2>3, CellsCancel
  <2> QED BY <1>0, <1>2, <1>q, <2>4
<1>8. /\ tags[1] = Head(tags) /\ Tail(tags) \in Seq(Nat) /\ Len(tags) >= 1
      /\ Len(Tail(tags)) = Len(tags) - 1 /\ Len(Tail(tags)) \in Nat
  BY <1>0, <1>7, TailFacts
<1>9. validate(Head(sendmes)) = "open"
  <2>1. Head(tags) = Acked + Cells(1)
    BY <1>0, <1>8 DEF IInv, TagsInOrder
  <2> QED BY <1>2, <1>7, <2>1 DEF validate
<1>10. /\ tags' = Tail(tags) /\ expected' = expected - 1 /\ closed' = closed
       /\ \E raw \in RawRtts, size \in QueueSizes :
             rtt_update(raw) /\ sendme_received(channel_blocked, size)
  BY <1>7, <1>9 DEF note_sendme_received
<1>11. inflight' = inflight - SendmeInc
  <2>1. inflight' = saturating_sub(inflight, SendmeInc)
    BY <1>10 DEF sendme_received
  <2> QED BY <1>6, <2>1 DEF saturating_sub
<1>12. Acked' = Acked + SendmeInc /\ Acked \in Int /\ inflight' \in Nat
  BY <1>i, <1>0, <1>1, <1>6, <1>11 DEF Acked
<1>13. ASSUME NEW i \in Nat PROVE Acked + Cells(i + 1) = Acked' + Cells(i)
  BY <1>i, <1>12, CellsFacts
<1>14. SendmesInOrder'
  <2> SUFFICES ASSUME NEW i \in 1 .. Len(sendmes')
               PROVE  sendmes'[i] = Acked' + Cells(i)
    BY DEF SendmesInOrder
  <2>1. i \in Nat /\ i + 1 \in 1 .. Len(sendmes) /\ sendmes'[i] = sendmes[i + 1]
    BY <1>0, <1>1, <1>2, TailFacts
  <2> QED BY <1>13, <2>1 DEF IInv, SendmesInOrder
<1>15. TagsInOrder' /\ QueuesMatch'
  <2>1. \A i \in 1 .. Len(tags') : tags'[i] = Acked' + Cells(i)
    <3> TAKE i \in 1 .. Len(tags')
    <3>1. i \in Nat /\ i + 1 \in 1 .. Len(tags) /\ tags'[i] = tags[i + 1]
      BY <1>0, <1>7, <1>8, <1>10, TailFacts
    <3> QED BY <1>13, <3>1 DEF IInv, TagsInOrder
  <2>2. Len(tags) = Len(tags') + 1 /\ Len(tags') \in Nat
    BY <1>0, <1>8, <1>10
  <2>3. /\ Cells(Len(tags)) = Cells(Len(tags')) + SendmeInc
        /\ Cells(Len(tags) + 1) = Cells(Len(tags') + 1) + SendmeInc
        /\ Cells(Len(tags')) \in Nat /\ Cells(Len(tags') + 1) \in Nat
    <3>1. /\ Cells(Len(tags') + 1) = Cells(Len(tags')) + SendmeInc
          /\ Cells(Len(tags')) \in Nat /\ Cells(Len(tags') + 1) \in Nat
      BY <2>2, CellsFacts
    <3>2. Cells(Len(tags) + 1) = Cells(Len(tags)) + SendmeInc
      BY <1>0, CellsFacts
    <3> QED BY <2>2, <3>1, <3>2
  <2>6. Cells(Len(tags')) <= inflight' /\ inflight' < Cells(Len(tags') + 1)
    BY <1>i, <1>0, <1>11, <1>q, <2>3
  <2>7. expected' = Len(tags')
    BY <1>0, <1>10, <1>q, <2>2
  <2> QED BY <2>1, <2>6, <2>7 DEF TagsInOrder, QueuesMatch
<1>16. Conservation'
  <2>1. inflight' = Len(data') + (SendmeInc - until_sendme') + Cells(Len(sendmes'))
    BY <1>i, <1>0, <1>1, <1>3, <1>4, <1>5, <1>11, SMTT(60)
  <2> QED BY <2>1 DEF Conservation
<1>17. UntilInRange' /\ DataInOrder' /\ NeverClosed'
  BY <1>1, <1>10 DEF IInv, UntilInRange, DataInOrder, NeverClosed
<1>18. CountsOK'
  BY <1>0, <1>1, <1>2, <1>7, <1>8, <1>10, <1>12 DEF IInv, CountsOK
<1> QED BY <1>7, <1>10, <1>14, <1>15, <1>16, <1>17, <1>18 DEF IInv

-----------------------------------------------------------------------------
(* The invariant is inductive: it holds in every reachable state.           *)
THEOREM IInvHolds == Spec => []IInv
<1>1. IInv /\ [Next]_vars => IInv'
  <2> SUFFICES ASSUME IInv, [Next]_vars PROVE IInv'
    OBVIOUS
  <2>1. CASE note_data_sent
    BY <2>1, SendIInv
  <2>2. CASE note_data_received
    BY <2>2, ReceiveIInv
  <2>3. CASE note_sendme_received
    BY <2>3, SendmeIInv
  <2>4. CASE channel_changes \/ UNCHANGED vars
    BY <2>4, SMTT(30) DEF channel_changes, vars, link_vars, IInv, CountsOK, UntilInRange,
                Conservation, QueuesMatch, NeverClosed, DataInOrder,
                SendmesInOrder, TagsInOrder, Acked
  <2> QED BY <2>1, <2>2, <2>3, <2>4 DEF Next
<1> QED BY <1>1, InitIInv, PTL DEF Spec

(* A SENDME on its way means at least one increment in flight. *)
LEMMA IInvQueuesAgree == IInv => QueuesAgree
<1> SUFFICES ASSUME IInv, sendmes # << >> PROVE inflight >= SendmeInc
  BY DEF IInv, QueuesMatch, QueuesAgree
<1>0. /\ SendmeInc \in Nat \ {0} /\ inflight \in Nat /\ Len(data) \in Nat
      /\ until_sendme \in 1 .. SendmeInc
      /\ sendmes \in Seq(Nat) /\ Len(sendmes) \in Nat \ {0}
  BY VegasAssumption, TailFacts DEF IInv, CountsOK, UntilInRange
<1>1. PICK k \in Nat : Len(sendmes) = k + 1
  <2>1. Len(sendmes) - 1 \in Nat /\ Len(sendmes) = (Len(sendmes) - 1) + 1
    BY <1>0
  <2> QED BY <2>1, Zenon
<1>2. Cells(Len(sendmes)) = Cells(k) + SendmeInc /\ Cells(k) \in Nat
  BY <1>1, CellsFacts, Zenon
<1>3. inflight = Len(data) + (SendmeInc - until_sendme) + Cells(Len(sendmes))
  BY DEF IInv, Conservation
<1> QED BY <1>0, <1>2, <1>3

(* For every increment and all parameters, two ends that run Vegas          *)
(* congestion control never close the circuit on each other (the SENDME     *)
(* validator and the RTT estimator never refuse an honest SENDME).          *)
THEOREM VegasNeverCloses == Spec => []NeverClosed
BY IInvHolds, PTL DEF IInv

(* The validator's and the RTT estimator's queues always agree with the     *)
(* cells in flight; the debug_assert of sendme_received never fires.        *)
THEOREM VegasQueuesAgree == Spec => []QueuesAgree
BY IInvHolds, IInvQueuesAgree, PTL

(* The cells in flight are always accounted for at the receiver or on the   *)
(* links (data_sent, data_received and sendme_received agree).              *)
THEOREM VegasConservation == Spec => []Conservation
BY IInvHolds, PTL DEF IInv

-----------------------------------------------------------------------------
(* The window and the estimates.  WInv is inductive together with IInv.     *)
WInv ==
    /\ TypeOK
    /\ WindowBounded
    /\ EwmaWithinSamples

(* What the proofs use of the parameters. *)
LEMMA Parameters ==
    /\ SendmeInc \in Nat \ {0} /\ CwndIncRate \in Nat \ {0} /\ MaxU32 \in Nat \ {0}
    /\ CwndInit \in Nat /\ CwndMin \in Nat /\ CwndMax \in Nat /\ CwndInc \in Nat
    /\ CwndIncPctSs \in Nat /\ Delta \in Nat /\ Gamma \in Nat
    /\ SsCwndCap \in Nat /\ SsCwndMax \in Nat
    /\ EwmaCwndPct \in Nat /\ EwmaMax \in Nat /\ EwmaSsMax \in Nat
    /\ RttResetPct \in Nat /\ RttResetPct <= 100
    /\ RawRtts \subseteq Nat /\ QueueSizes \subseteq Nat
BY VegasAssumption

(* Quotients of natural numbers are natural numbers ... *)
LEMMA NatQuotient ==
    ASSUME NEW a \in Nat, NEW b \in Nat \ {0}
    PROVE  a \div b \in Nat
OBVIOUS

(* ... and so are products. *)
LEMMA NatProduct ==
    ASSUME NEW a \in Nat, NEW b \in Nat
    PROVE  a * b \in Nat
OBVIOUS

(* The counters derived from the window are natural numbers. *)
LEMMA RatesAreNat ==
    ASSUME NEW st, NEW window \in Nat
    PROVE  update_rate(st, window) \in Nat /\ sendme_per_cwnd(window) \in Nat
<1>1. CwndIncRate * SendmeInc \in Nat \ {0}
  BY Parameters
<1>2. (CwndIncRate * SendmeInc) \div 2 \in Nat /\ SendmeInc \div 2 \in Nat
  BY <1>1, Parameters, NatQuotient
<1>3. (window + (CwndIncRate * SendmeInc) \div 2) \div (CwndIncRate * SendmeInc) \in Nat
  BY <1>1, <1>2, NatQuotient
<1>4. (window + SendmeInc \div 2) \div SendmeInc \in Nat
  BY <1>2, Parameters, NatQuotient
<1> QED BY <1>3, <1>4 DEF update_rate, sendme_per_cwnd

(* A weighted mean lies between the two values. *)
LEMMA WeightedMean ==
    ASSUME NEW a \in Nat, NEW b \in Nat, NEW n \in Nat, n >= 2,
           NEW low \in Nat, NEW high \in Nat,
           low <= a, a <= high, low <= b, b <= high
    PROVE  LET mean == (a * 2 + (n - 1) * b) \div (n + 1)
           IN  mean \in Nat /\ low <= mean /\ mean <= high
<1> DEFINE sum == a * 2 + (n - 1) * b
<1>1. sum \in Nat /\ n + 1 \in Nat \ {0}
  <2>1. n - 1 \in Nat
    OBVIOUS
  <2>2. (n - 1) * b \in Nat
    BY <2>1, NatProduct
  <2> QED BY <2>2
<1>2. low * (n + 1) <= sum
  <2>1. (n - 1) * low <= (n - 1) * b
    OBVIOUS
  <2>2. low * (n + 1) = (n - 1) * low + low * 2
    OBVIOUS
  <2> QED BY <2>1, <2>2
<1>3. sum <= high * (n + 1)
  <2>1. (n - 1) * b <= (n - 1) * high
    OBVIOUS
  <2>2. high * (n + 1) = (n - 1) * high + high * 2
    OBVIOUS
  <2> QED BY <2>1, <2>2
<1> HIDE DEF sum
<1>4. sum \div (n + 1) \in Nat
  BY <1>1, NatQuotient
<1>5. sum = (n + 1) * (sum \div (n + 1)) + (sum % (n + 1)) /\ sum % (n + 1) \in 0 .. n
  BY <1>1
<1>6. low <= sum \div (n + 1)
  BY <1>1, <1>2, <1>4, <1>5
<1>7. sum \div (n + 1) <= high
  BY <1>1, <1>3, <1>4, <1>5
<1> QED BY <1>4, <1>6, <1>7 DEF sum

(* The RTT estimates after a measurement are again of their types, and the  *)
(* smoothed one lies between two measurements.                              *)
LEMMA RttStep ==
    ASSUME WInv, NEW raw \in RawRtts, rtt_update(raw)
    PROVE  /\ clock_stalled' \in BOOLEAN
           /\ ewma_rtt' \in Nat \cup {None} /\ min_rtt' \in Nat \cup {None}
           /\ EwmaWithinSamples'
<1>0. /\ ewma_rtt \in Nat \cup {None} /\ min_rtt \in Nat \cup {None}
      /\ clock_stalled \in BOOLEAN /\ cwnd \in Nat /\ raw \in Nat
  BY Parameters DEF WInv, TypeOK
<1>1. clock_stalled' \in BOOLEAN
  BY <1>0, Zenon DEF rtt_update, stalled_after
<1>2. CASE is_clock_stalled(raw)
  <2>1. ewma_rtt' = ewma_rtt /\ min_rtt' = min_rtt
    BY <1>2 DEF rtt_update
  <2> QED BY <1>0, <1>1, <2>1 DEF WInv, EwmaWithinSamples
<1>3. CASE ~is_clock_stalled(raw)
  <2>1. raw # 0 /\ ewma_rtt' = new_ewma(raw) /\ min_rtt' = new_min_rtt(new_ewma(raw))
    BY <1>3 DEF rtt_update, is_clock_stalled
  <2>2. /\ new_ewma(raw) \in Nat
        /\ \E low, high \in RawRtts \ {0} : low <= new_ewma(raw) /\ new_ewma(raw) <= high
    <3>1. CASE ewma_rtt = None
      <4>1. new_ewma(raw) = raw
        BY <3>1 DEF new_ewma
      <4> QED BY <1>0, <2>1, <4>1
    <3>2. CASE ewma_rtt # None
      <4>1. new_ewma(raw) = (raw * 2 + (ewma_n - 1) * ewma_rtt) \div (ewma_n + 1)
        BY <3>2 DEF new_ewma
      <4>2. PICK low \in RawRtts \ {0}, high \in RawRtts \ {0} :
              low <= ewma_rtt /\ ewma_rtt <= high
        BY <3>2 DEF WInv, EwmaWithinSamples
      <4>3. ewma_n \in Nat /\ ewma_n >= 2
        <5>1. update_rate(state, cwnd) * EwmaCwndPct \in Nat
          BY <1>0, Parameters, RatesAreNat, NatProduct
        <5>2. (update_rate(state, cwnd) * EwmaCwndPct) \div 100 \in Nat
          BY <5>1, NatQuotient
        <5> QED BY <5>2, Parameters DEF ewma_n, Greatest, Least
      <4> DEFINE lo == Least(low, raw)
                 hi == Greatest(high, raw)
      <4>4. /\ lo \in RawRtts \ {0} /\ hi \in RawRtts \ {0} /\ lo \in Nat /\ hi \in Nat
            /\ lo <= raw /\ raw <= hi /\ lo <= ewma_rtt /\ ewma_rtt <= hi
            /\ ewma_rtt \in Nat
        BY <1>0, <2>1, <3>2, <4>2, Parameters DEF Least, Greatest
      <4> HIDE DEF lo, hi
      <4>5. new_ewma(raw) \in Nat /\ lo <= new_ewma(raw) /\ new_ewma(raw) <= hi
        BY <1>0, <4>1, <4>3, <4>4, WeightedMean
      <4> QED BY <4>4, <4>5
    <3> QED BY <3>1, <3>2
  <2>3. new_min_rtt(new_ewma(raw)) \in Nat
    <3> DEFINE e == new_ewma(raw)
    <3>1. e \in Nat
      BY <2>2
    <3> HIDE DEF e
    <3>2. ASSUME min_rtt # None
          PROVE  /\ Greatest(e, min_rtt) \in Nat /\ Least(e, min_rtt) \in Nat
                 /\ (RttResetPct * Greatest(e, min_rtt)) \div 100 \in Nat
                 /\ ((100 - RttResetPct) * Least(e, min_rtt)) \div 100 \in Nat
      <4>1. Greatest(e, min_rtt) \in Nat /\ Least(e, min_rtt) \in Nat
        BY <1>0, <3>1, <3>2 DEF Greatest, Least
      <4>2. 100 - RttResetPct \in Nat /\ RttResetPct \in Nat
        BY Parameters
      <4>3. /\ RttResetPct * Greatest(e, min_rtt) \in Nat
            /\ (100 - RttResetPct) * Least(e, min_rtt) \in Nat
        BY <4>1, <4>2, NatProduct
      <4> QED BY <4>1, <4>3, NatQuotient
    <3>3. new_min_rtt(e) \in Nat
      BY <1>0, <3>1, <3>2 DEF new_min_rtt
    <3> QED BY <3>3 DEF e
  <2> QED BY <1>1, <2>1, <2>2, <2>3 DEF EwmaWithinSamples
<1> QED BY <1>2, <1>3

(* The BDP estimate is a natural number: the division is never by zero. *)
LEMMA BdpIsNat ==
    ASSUME NEW blocked \in BOOLEAN, NEW size \in Nat, NEW stalled \in BOOLEAN,
           NEW ewma \in (Nat \ {0}) \cup {None}, NEW min \in Nat \cup {None},
           cwnd \in Nat
    PROVE  new_bdp(blocked, size, stalled, ewma, min) \in Nat
<1>1. CASE stalled
  BY <1>1, Parameters DEF new_bdp, saturating_sub, Greatest
<1>2. CASE ~stalled
  <2>1. usec(min) \in Nat /\ usec(ewma) \in Nat \ {0}
    BY Parameters DEF usec, None
  <2>2. cwnd * usec(min) \in Nat
    BY <2>1, NatProduct
  <2>3. saturating_mul(cwnd, usec(min)) \in Nat
    BY <2>2, Parameters DEF saturating_mul, Least
  <2>4. saturating_mul(cwnd, usec(min)) \div usec(ewma) \in Nat
    BY <2>1, <2>3, NatQuotient
  <2> QED BY <1>2, <2>4 DEF new_bdp
<1> QED BY <1>1, <1>2

(* One run of the algorithm keeps the window between one increment and the  *)
(* larger of its maxima.                                                    *)
LEMMA AlgorithmStep ==
    ASSUME WindowParameters, cwnd \in Nat, state \in {"SlowStart", "Steady"},
           WindowBounded,
           NEW blocked \in BOOLEAN, NEW full \in BOOLEAN, NEW new \in Nat,
           NEW until \in Nat, run_algorithm(blocked, full, new, until)
    PROVE  cwnd' \in Nat /\ WindowBounded' /\ state' \in {"SlowStart", "Steady"}
<1> DEFINE top == Greatest(CwndInit, Greatest(SsCwndMax, CwndMax))
           use == saturating_sub(cwnd, new)
<1>0. /\ SendmeInc <= cwnd /\ cwnd <= top /\ cwnd \in Nat \ {0} /\ top \in Nat
      /\ SsCwndMax <= top /\ CwndMax <= top
      /\ SendmeInc <= SsCwndMax /\ SendmeInc <= CwndMin /\ CwndMin <= CwndMax
      /\ SendmeInc <= Gamma /\ SendmeInc <= Delta - CwndInc
  BY Parameters DEF WindowBounded, WindowParameters, Greatest
<1>1. use \in Nat /\ (use > 0 => use = cwnd - new)
  BY <1>0 DEF saturating_sub
<1> HIDE DEF top, use
<1>2. CASE state = "SlowStart"
  <2> DEFINE window == slow_start_cwnd(use, blocked, full, new)
  <2>1. rfc3742_ss_inc(cwnd) \in Nat
    <3>1. CwndIncPctSs * SendmeInc \in Nat /\ SendmeInc * SsCwndCap \in Nat
      BY Parameters, NatProduct
    <3>2. cwnd * 2 \in Nat \ {0}
      BY <1>0
    <3>3. /\ (CwndIncPctSs * SendmeInc + 50) \div 100 \in Nat
          /\ (SendmeInc * SsCwndCap + cwnd) \div (cwnd * 2) \in Nat
      BY <1>0, <3>1, <3>2, NatQuotient
    <3> QED BY <3>3 DEF rfc3742_ss_inc, Greatest
  <2>2. window \in Nat /\ SendmeInc <= window
    BY <1>0, <2>1, Parameters DEF slow_start_cwnd
  <2>3. cwnd' = Least(window, SsCwndMax) /\ state' \in {"SlowStart", "Steady"}
    BY <1>2 DEF run_algorithm, use
  <2> HIDE DEF window
  <2>4. cwnd' \in Nat /\ SendmeInc <= cwnd' /\ cwnd' <= top
    BY <1>0, <2>2, <2>3, Parameters DEF Least
  <2> QED BY <2>3, <2>4 DEF WindowBounded, top
<1>3. CASE state # "SlowStart"
  <2>1. state' = state
    BY <1>3 DEF run_algorithm
  <2>2. CASE until # 0
    <3>1. cwnd' = cwnd
      BY <1>3, <2>2 DEF run_algorithm
    <3> QED BY <2>1, <3>1 DEF WindowBounded
  <2>3. CASE until = 0
    <3>1. cwnd' = steady_cwnd(use, blocked, full, new)
      BY <1>3, <2>3 DEF run_algorithm, use
    <3>2. CASE use > Delta
      <4>1. cwnd' = new + Delta - CwndInc
        BY <3>1, <3>2 DEF steady_cwnd
      <4>2. cwnd' \in Nat /\ SendmeInc <= cwnd' /\ cwnd' <= top
        BY <1>0, <1>1, <3>2, <4>1, Parameters
      <4> QED BY <2>1, <4>2 DEF WindowBounded, top
    <3>3. CASE ~(use > Delta)
      <4>1. cwnd' = dec(cwnd) \/ cwnd' = inc(cwnd) \/ cwnd' = cwnd
        BY <3>1, <3>3 DEF steady_cwnd
      <4>2. cwnd' \in Nat /\ SendmeInc <= cwnd' /\ cwnd' <= top
        BY <1>0, <4>1, Parameters DEF dec, inc, saturating_sub, Greatest, Least
      <4> QED BY <2>1, <4>2 DEF WindowBounded, top
    <3> QED BY <3>2, <3>3
  <2> QED BY <2>2, <2>3
<1> QED BY <1>2, <1>3

(* A SENDME preserves WInv. *)
LEMMA SendmeWInv ==
    ASSUME WindowParameters, IInv, WInv, note_sendme_received
    PROVE  WInv'
<1>0. /\ cwnd \in Nat /\ until_update \in Nat /\ per_cwnd \in Nat /\ bdp \in Nat
      /\ state \in {"SlowStart", "Steady"} /\ chan_ready \in BOOLEAN
      /\ is_full \in BOOLEAN /\ is_blocked_on_chan \in BOOLEAN
  BY DEF WInv, TypeOK
<1>1. PICK raw \in RawRtts, size \in QueueSizes :
        rtt_update(raw) /\ sendme_received(chan_ready, size)
  BY SendmeIInv DEF channel_blocked
<1>2. IInv'
  BY SendmeIInv
<1>3. /\ clock_stalled' \in BOOLEAN
      /\ ewma_rtt' \in Nat \cup {None} /\ min_rtt' \in Nat \cup {None}
      /\ EwmaWithinSamples'
  BY <1>1, RttStep
<1>4. bdp' \in Nat
  <2>1. ewma_rtt' \in (Nat \ {0}) \cup {None}
    BY <1>3, Parameters DEF EwmaWithinSamples
  <2>2. bdp' = new_bdp(chan_ready, size, clock_stalled', ewma_rtt', min_rtt')
    BY <1>1 DEF sendme_received
  <2>3. size \in Nat
    BY Parameters
  <2> QED BY <1>0, <1>3, <2>1, <2>2, <2>3, BdpIsNat, Zenon
<1> DEFINE ready == is_ready(clock_stalled', ewma_rtt')
           until == IF ready /\ chan_ready # is_blocked_on_chan THEN 0
                    ELSE saturating_sub(until_update, 1)
           per == saturating_sub(per_cwnd, 1)
           full == eval_fullness(cwnd)
<1>5. until \in Nat /\ per \in Nat /\ full \in BOOLEAN
  <2>1. until \in Nat /\ per \in Nat
    BY <1>0 DEF saturating_sub
  <2>2. full = TRUE \/ full = FALSE \/ full = is_full
    BY Zenon DEF eval_fullness
  <2> QED BY <1>0, <2>1, <2>2, Zenon
<1>6. is_blocked_on_chan' = chan_ready
  BY <1>1 DEF sendme_received
<1> DEFINE Result ==
             /\ cwnd' \in Nat /\ WindowBounded' /\ state' \in {"SlowStart", "Steady"}
             /\ until_update' \in Nat /\ per_cwnd' \in Nat /\ is_full' \in BOOLEAN
<1>7. ASSUME ~ready, ~chan_ready PROVE Result
  <2>1. /\ until_update' = until /\ per_cwnd' = per
        /\ cwnd' = cwnd /\ state' = state /\ is_full' = is_full
    BY <1>1, <1>7 DEF sendme_received
  <2> QED BY <1>0, <1>5, <2>1, SMTT(30) DEF WInv, WindowBounded
<1>8. ASSUME ready \/ chan_ready PROVE Result
  <2>1. /\ run_algorithm(chan_ready, full, bdp', until)
        /\ until_update' = IF until = 0 THEN update_rate(state', cwnd') ELSE until
        /\ per_cwnd' = IF per = 0 THEN sendme_per_cwnd(cwnd') ELSE per
        /\ is_full' \in BOOLEAN
    BY <1>1, <1>5, <1>8, Zenon DEF sendme_received
  <2> HIDE DEF ready, until, per, full
  <2>2. cwnd' \in Nat /\ WindowBounded' /\ state' \in {"SlowStart", "Steady"}
    BY <1>0, <1>4, <1>5, <2>1, AlgorithmStep DEF WInv
  <2>3. until_update' \in Nat /\ per_cwnd' \in Nat
    BY <1>5, <2>1, <2>2, RatesAreNat
  <2> QED BY <2>1, <2>2, <2>3
<1>9. Result
  BY <1>7, <1>8
<1>10. chan_ready' = chan_ready /\ closed' \in Causes
  BY <1>2 DEF note_sendme_received, IInv, NeverClosed, Causes
<1>11. TypeOK'
  BY <1>0, <1>2, <1>3, <1>4, <1>6, <1>9, <1>10 DEF TypeOK, IInv, CountsOK
<1> QED BY <1>3, <1>9, <1>11 DEF WInv

(* The window invariant holds in every reachable state, for parameters that *)
(* respect the documented minimum.                                          *)
THEOREM WInvHolds ==
    ASSUME WindowParameters
    PROVE  Spec => []WInv
<1>1. Init => WInv
  <2> SUFFICES ASSUME Init PROVE WInv
    OBVIOUS
  <2>1. TypeOK
    <3>1. update_rate("SlowStart", CwndInit) \in Nat
      BY Parameters, RatesAreNat
    <3>2. /\ cwnd \in Nat /\ inflight \in Nat /\ until_update \in Nat
          /\ per_cwnd \in Nat /\ bdp \in Nat /\ expected \in Nat
          /\ until_sendme \in Nat /\ nsent \in Nat
      BY <3>1, Parameters DEF Init
    <3>3. /\ tags \in Seq(Nat) /\ data \in Seq(Nat) /\ sendmes \in Seq(Nat)
      BY DEF Init
    <3>4. /\ state \in {"SlowStart", "Steady"} /\ closed \in Causes
          /\ ewma_rtt = None /\ min_rtt = None
          /\ is_full = FALSE /\ is_blocked_on_chan = FALSE
          /\ clock_stalled = FALSE /\ chan_ready = TRUE
      BY DEF Init, Causes
    <3> QED BY <3>2, <3>3, <3>4, Zenon DEF TypeOK
  <2>2. WindowBounded
    BY Parameters DEF Init, WindowBounded, WindowParameters, Greatest
  <2>3. EwmaWithinSamples
    BY DEF Init, EwmaWithinSamples
  <2> QED BY <2>1, <2>2, <2>3 DEF WInv
<1>2. IInv /\ IInv' /\ WInv /\ [Next]_vars => WInv'
  <2> SUFFICES ASSUME IInv, IInv', WInv, [Next]_vars PROVE WInv'
    OBVIOUS
  <2>1. CASE note_sendme_received
    BY <2>1, SendmeWInv
  <2>2. CASE note_data_sent \/ note_data_received \/ channel_changes \/ UNCHANGED vars
    <3>1. UNCHANGED window_vars /\ UNCHANGED rtt_vars /\ chan_ready' \in BOOLEAN
      BY <2>2, ZenonT(30) DEF note_data_sent, note_data_received, channel_changes, vars,
                  WInv, TypeOK
    <3>2. TypeOK'
      BY <3>1 DEF window_vars, rtt_vars, WInv, TypeOK, IInv, CountsOK,
                  NeverClosed, Causes
    <3>3. WindowBounded' /\ EwmaWithinSamples'
      BY <3>1 DEF window_vars, rtt_vars, WInv, WindowBounded, EwmaWithinSamples
    <3> QED BY <3>2, <3>3 DEF WInv
  <2> QED BY <2>1, <2>2 DEF Next
<1> QED BY <1>1, <1>2, IInvHolds, PTL DEF Spec

(* Every variable keeps its type: in particular the window, set to          *)
(* bdp + delta - increment without a check, never goes below zero.          *)
THEOREM VegasTypeOK ==
    ASSUME WindowParameters
    PROVE  Spec => []TypeOK
BY WInvHolds, PTL DEF WInv

(* The window never falls below one increment nor above its maxima,         *)
(* whatever round-trip times are measured and whatever the channel does.    *)
THEOREM VegasWindowBounded ==
    ASSUME WindowParameters
    PROVE  Spec => []WindowBounded
BY WInvHolds, PTL DEF WInv

(* The smoothed RTT stays between two measurements (so the BDP never        *)
(* divides by zero).                                                        *)
THEOREM VegasEwmaWithinSamples ==
    ASSUME WindowParameters
    PROVE  Spec => []EwmaWithinSamples
BY WInvHolds, PTL DEF WInv

(* A sender that may not send is owed a SENDME: it cannot wait for one that *)
(* the receiver will never send.                                            *)
THEOREM VegasBlockedIsOwedSendme ==
    ASSUME WindowParameters
    PROVE  Spec => []BlockedIsOwedSendme
<1>1. IInv /\ WInv => BlockedIsOwedSendme
  <2> SUFFICES ASSUME IInv, WInv, tags = << >> PROVE can_send
    BY DEF BlockedIsOwedSendme
  <2>1. inflight < SendmeInc /\ inflight \in Nat
    BY CellsZero DEF IInv, CountsOK, QueuesMatch
  <2>2. SendmeInc <= cwnd /\ cwnd \in Nat
    BY DEF WInv, WindowBounded, TypeOK
  <2> QED BY <2>1, <2>2, Parameters DEF can_send
<1> QED BY <1>1, IInvHolds, WInvHolds, PTL
=============================================================================
