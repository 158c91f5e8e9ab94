--------------------------- MODULE CircuitProofs ----------------------------
(***************************************************************************)
(* Proofs about the cells of a circuit: the fixed windows and their        *)
(* authenticated SENDMEs (FixedWindowCircuit), for every increment and     *)
(* every window that satisfies WindowParameters, and the queues between    *)
(* circuits and their channel (CellQueues), for any number of circuits and *)
(* any sizes.                                                              *)
(***************************************************************************)
EXTENDS FixedWindowCircuit, DataLemmas, TLAPS

(* circwindow is a multiple of the SENDME increment, so that the sender      *)
(* records the tags of the very cells that the receiver acknowledges.       *)
AlignedWindow == SendStart % Increment = 0

(* Cells acknowledged by SENDMEs that the sender has accepted. *)
Acked == nsent - (SendStart - sendwindow)

(* The receiver acknowledges as soon as a whole increment is received. *)
RecvInc == RecvStart - recvwindow \in 0 .. (Increment - 1)

(* The cells on the way are the last ones sent, in order. *)
DataInOrder == \A i \in 1 .. Len(data) : data[i] = (nsent - Len(data)) + i

(* SENDMEs on the way acknowledge consecutive increments. *)
SendmesInOrder == \A i \in 1 .. Len(sendmes) : sendmes[i] = Acked + Cells(i)

(* The sender expects exactly the tags of whole increments not yet           *)
(* acknowledged.                                                            *)
TagsInOrder ==
    /\ \A i \in 1 .. Len(tags) : tags[i] = Acked + Cells(i)
    /\ Cells(Len(tags)) <= SendStart - sendwindow
    /\ SendStart - sendwindow < Cells(Len(tags) + 1)

(* The inductive invariant behind NeverClosed. *)
IInv ==
    /\ TypeOK
    /\ NeverClosed
    /\ Conservation
    /\ RecvInc
    /\ DataInOrder
    /\ SendmesInOrder
    /\ TagsInOrder

-----------------------------------------------------------------------------
(* Cells, without its multiplication. *)
LEMMA CellsFacts ==
    ASSUME WindowParameters, NEW n \in Nat
    PROVE  /\ Cells(n) \in Nat
           /\ Cells(n + 1) \in Nat
           /\ Cells(n + 1) = Cells(n) + Increment
BY DEF WindowParameters, Cells

(* No SENDME acknowledges nothing, one an increment. *)
LEMMA CellsZero ==
    ASSUME WindowParameters
    PROVE  Cells(0) = 0 /\ Cells(0 + 1) = Increment
BY DEF WindowParameters, Cells

(* Fewer cells take fewer SENDMEs. *)
LEMMA CellsCancel ==
    ASSUME WindowParameters, NEW m \in Nat, NEW n \in Nat, Cells(m) < Cells(n)
    PROVE  m < n
BY ProductCancel DEF WindowParameters, Cells

(* A window that starts at a multiple of the increment is a multiple of it  *)
(* exactly when whole increments have been taken from it.                   *)
LEMMA WholeIncrements ==
    ASSUME WindowParameters, NEW s \in Int, s % Increment = 0, NEW l \in Nat, NEW v \in Int,
           Cells(l) < v, v <= Cells(l + 1)
    PROVE  (s - v) % Increment = 0 <=> v = Cells(l + 1)
<1>0. Increment \in Nat \ {0}
  BY DEF WindowParameters
<1>1. PICK p \in Int : s = Increment * p
  BY <1>0, MultipleIsProduct, Zenon
<1>2. ASSUME (s - v) % Increment = 0 PROVE v = Cells(l + 1)
  <2>1. PICK q \in Int : s - v = Increment * q
    <3>1. s - v \in Int
      OBVIOUS
    <3> QED BY <1>0, <1>2, <3>1, MultipleIsProduct, Zenon
  <2>2. v = Increment * (p - q) /\ p - q \in Int
    BY <1>0, <1>1, <2>1
  <2>3. l < p - q
    BY <1>0, <2>2, ProductCancel DEF Cells
  <2>4. Cells(l + 1) <= Increment * (p - q)
    BY <1>0, <2>2, <2>3, ProductMonotone DEF Cells
  <2> QED BY <1>0, <2>2, <2>4 DEF Cells
<1>3. ASSUME v = Cells(l + 1) PROVE (s - v) % Increment = 0
  <2>1. s - v = Increment * (p - (l + 1))
    BY <1>0, <1>1, <1>3 DEF Cells
  <2>2. \A k \in Int : (Increment * k) % Increment = 0
    BY <1>0
  <2> QED BY <2>1, <2>2
<1> QED BY <1>2, <1>3

(* Where the next cell to be received lies in the stream, from the balance  *)
(* of the windows.                                                          *)
LEMMA FirstUnacked ==
    ASSUME WindowParameters, NEW w \in Int, NEW d \in Int, NEW r \in Int, NEW c \in Int,
           NEW next \in Int, NEW n \in Int,
           w + d + r + c = SendStart, r = Increment - 1, next = c + Increment
    PROVE  (n - d) + 1 = (n - (SendStart - w)) + next
BY DEF WindowParameters

(* A cell that completes an increment leaves the balance of the windows.    *)
LEMMA SendmeBalance ==
    ASSUME WindowParameters, NEW w \in Int, NEW d \in Int, NEW r \in Int, NEW c \in Int,
           w + d + r + c = SendStart, r = Increment - 1
    PROVE  w + (d - 1) + (RecvStart - RecvStart) + (c + Increment) = SendStart
BY DEF WindowParameters

(* What the proofs use of the constants, without the divisibility. *)
Sizes ==
    /\ Increment \in Nat \ {0} /\ Increment \in Nat
    /\ Maximum \in Nat /\ RecvStart \in Nat /\ SendStart \in Nat
    /\ SendStart <= RecvStart /\ SendStart <= Maximum
(* It holds of all parameters. *)
LEMMA Constants == ASSUME WindowParameters PROVE Sizes
BY DEF WindowParameters, Sizes

(* The initial state satisfies the invariant. *)
LEMMA InitIInv == ASSUME WindowParameters PROVE Init => IInv
<1>k. Sizes
  BY Constants
<1> USE <1>k DEF Sizes
<1> SUFFICES ASSUME Init PROVE IInv
  OBVIOUS
<1>1. TypeOK /\ NeverClosed
  BY DEF Init, TypeOK, NeverClosed, Causes
<1>2. /\ sendwindow = SendStart /\ recvwindow = RecvStart /\ nsent = 0
      /\ Len(data) = 0 /\ Len(sendmes) = 0 /\ Len(tags) = 0
  BY DEF Init
<1>3. Conservation /\ TagsInOrder
  BY <1>2, CellsZero DEF Conservation, TagsInOrder
<1>4. RecvInc /\ DataInOrder /\ SendmesInOrder
  BY <1>2 DEF RecvInc, DataInOrder, SendmesInOrder
<1> QED BY <1>1, <1>3, <1>4 DEF IInv

(* Sending a cell preserves the invariant: the tag recorded, if any, is the *)
(* one that completes an increment.                                         *)
LEMMA SendIInv ==
    ASSUME WindowParameters, AlignedWindow, IInv, note_data_sent
    PROVE  IInv'
<1>k. Sizes
  BY Constants
<1> USE <1>k DEF Sizes
<1>0. /\ sendwindow \in Nat /\ nsent \in Nat /\ recvwindow \in Nat
      /\ tags \in Seq(Nat) /\ data \in Seq(Nat) /\ sendmes \in Seq(Nat)
      /\ Len(tags) \in Nat /\ Len(data) \in Nat /\ Len(sendmes) \in Nat
  BY DEF IInv, TypeOK
<1>1. /\ sendwindow > 0
      /\ sendwindow' = sendwindow - 1
      /\ nsent' = nsent + 1
      /\ data' = Append(data, nsent + 1)
      /\ recvwindow' = recvwindow /\ sendmes' = sendmes /\ closed' = closed
  BY DEF note_data_sent, can_send
<1>c. /\ Cells(Len(tags)) \in Nat /\ Cells(Len(tags) + 1) \in Nat
      /\ Cells(Len(tags) + 1) = Cells(Len(tags)) + Increment
      /\ Cells(Len(sendmes)) \in Nat
  BY <1>0, CellsFacts
<1>2. Acked' = Acked /\ Acked \in Int
  BY <1>0, <1>1 DEF Acked
<1>3. data' \in Seq(Nat) /\ Len(data') = Len(data) + 1
  BY <1>0, <1>1, AppendFacts
<1>4. Conservation'
  <2>2. sendwindow + Len(data) + (RecvStart - recvwindow)
            + Cells(Len(sendmes)) = SendStart
    BY DEF IInv, NeverClosed, Conservation
  <2>3. sendwindow' + Len(data') + (RecvStart - recvwindow')
            + Cells(Len(sendmes)) = SendStart
    BY <1>0, <1>c, <1>1, <1>3, <2>2
  <2> QED BY <1>1, <2>3 DEF Conservation
<1>5. DataInOrder'
  <2> SUFFICES ASSUME NEW i \in 1 .. Len(data')
               PROVE  data'[i] = (nsent' - Len(data')) + i
    BY DEF DataInOrder
  <2>1. CASE i \in 1 .. Len(data)
    BY <1>0, <1>1, <1>3, <2>1, AppendFacts DEF IInv, DataInOrder
  <2>2. CASE i = Len(data) + 1
    BY <1>0, <1>1, <1>3, <2>2, AppendFacts
  <2> QED BY <1>0, <1>3, <2>1, <2>2
<1>6. SendmesInOrder' /\ RecvInc' /\ NeverClosed'
  BY <1>1, <1>2 DEF IInv, SendmesInOrder, RecvInc, NeverClosed
<1>7. tags' \in Seq(Nat) /\ TagsInOrder'
  <2>1. should_record_tag(sendwindow - 1)
          <=> SendStart - (sendwindow - 1) = Cells(Len(tags) + 1)
    <3>1. /\ SendStart - (sendwindow - 1) \in Int
          /\ Cells(Len(tags)) < SendStart - (sendwindow - 1)
          /\ SendStart - (sendwindow - 1) <= Cells(Len(tags) + 1)
      BY <1>0, <1>1, <1>c, SMTT(60) DEF IInv, TagsInOrder
    <3>2. (SendStart - (SendStart - (sendwindow - 1))) % Increment = 0
            <=> SendStart - (sendwindow - 1) = Cells(Len(tags) + 1)
      <4>1. SendStart \in Int /\ SendStart % Increment = 0
        BY DEF AlignedWindow
      <4> QED BY <1>0, <3>1, <4>1, WholeIncrements, ZenonT(30)
    <3>3. SendStart - (SendStart - (sendwindow - 1)) = sendwindow - 1
      BY <1>0
    <3> QED BY <3>1, <3>2, <3>3 DEF should_record_tag
  <2>2. CASE should_record_tag(sendwindow - 1)
    <3>1. tags' = Append(tags, nsent + 1)
      BY <2>2 DEF note_data_sent
    <3>2. tags' \in Seq(Nat) /\ Len(tags') = Len(tags) + 1
      BY <1>0, <3>1, AppendFacts
    <3>3. nsent + 1 = Acked + Cells(Len(tags) + 1)
      BY <1>0, <1>c, <2>1, <2>2 DEF Acked
    <3>4. \A i \in 1 .. Len(tags') : tags'[i] = Acked' + Cells(i)
      <4> TAKE i \in 1 .. Len(tags')
      <4>1. CASE i <= Len(tags)
        <5>1. i \in 1 .. Len(tags) /\ tags'[i] = tags[i]
          BY <1>0, <3>1, <4>1, AppendFacts
        <5> QED BY <1>2, <5>1 DEF IInv, TagsInOrder
      <4>2. CASE i = Len(tags) + 1
        BY <1>0, <1>2, <3>1, <3>3, <4>2, AppendFacts
      <4> QED BY <1>0, <3>2, <4>1, <4>2
    <3>5. Cells(Len(tags) + 1) < Cells((Len(tags) + 1) + 1)
      <4>1. Len(tags) + 1 \in Nat
        BY <1>0
      <4> QED BY <4>1, CellsFacts
    <3>6. /\ Cells(Len(tags')) <= SendStart - sendwindow'
          /\ SendStart - sendwindow' < Cells(Len(tags') + 1)
      BY <1>1, <2>1, <2>2, <3>2, <3>5
    <3> QED BY <3>2, <3>4, <3>6 DEF TagsInOrder
  <2>3. CASE ~should_record_tag(sendwindow - 1)
    <3>1. tags' = tags
      BY <2>3 DEF note_data_sent
    <3>2. SendStart - (sendwindow - 1) # Cells(Len(tags) + 1)
      BY <2>1, <2>3
    <3>3. /\ Cells(Len(tags')) <= SendStart - sendwindow'
          /\ SendStart - sendwindow' < Cells(Len(tags') + 1)
      <4>2. /\ Cells(Len(tags)) <= SendStart - sendwindow
            /\ SendStart - sendwindow < Cells(Len(tags) + 1)
        BY DEF IInv, TagsInOrder
      <4>3. SendStart - sendwindow' = (SendStart - sendwindow) + 1
        BY <1>0, <1>1
      <4>4. (SendStart - sendwindow) + 1 # Cells(Len(tags) + 1)
        BY <1>0, <3>2
      <4>5. SendStart - sendwindow \in Int
        BY <1>0
      <4>6. /\ Cells(Len(tags)) <= (SendStart - sendwindow) + 1
            /\ (SendStart - sendwindow) + 1 < Cells(Len(tags) + 1)
        BY <1>c, <4>2, <4>4, <4>5
      <4> QED BY <3>1, <4>3, <4>6
    <3>4. \A i \in 1 .. Len(tags') : tags'[i] = Acked' + Cells(i)
      BY <1>2, <3>1 DEF IInv, TagsInOrder
    <3> QED BY <1>0, <3>1, <3>3, <3>4 DEF TagsInOrder
  <2> QED BY <2>2, <2>3
<1>8. TypeOK'
  BY <1>0, <1>1, <1>3, <1>7 DEF IInv, TypeOK
<1> QED BY <1>4, <1>5, <1>6, <1>7, <1>8 DEF IInv

(* Receiving a cell preserves the invariant: the window is never empty, and *)
(* a SENDME goes out exactly when a whole increment has been received.      *)
LEMMA ReceiveIInv ==
    ASSUME WindowParameters, IInv, note_data_received
    PROVE  IInv'
<1>k. Sizes
  BY Constants
<1> USE <1>k DEF Sizes
<1>0. /\ sendwindow \in Nat /\ nsent \in Nat /\ recvwindow \in Nat
      /\ tags \in Seq(Nat) /\ data \in Seq(Nat) /\ sendmes \in Seq(Nat)
      /\ Len(tags) \in Nat /\ Len(data) \in Nat /\ Len(sendmes) \in Nat
  BY DEF IInv, TypeOK
<1>1. /\ data # << >> /\ data' = Tail(data)
      /\ sendwindow' = sendwindow /\ tags' = tags /\ nsent' = nsent
  BY Zenon DEF note_data_received
<1>2. /\ data' \in Seq(Nat) /\ Len(data) >= 1 /\ Len(data') = Len(data) - 1
      /\ Head(data) \in Nat /\ Head(data) = (nsent - Len(data)) + 1
  BY <1>0, <1>1, TailFacts DEF IInv, DataInOrder
<1>3. /\ Cells(Len(sendmes)) \in Nat /\ Cells(Len(sendmes) + 1) \in Nat
      /\ Cells(Len(sendmes) + 1) = Cells(Len(sendmes)) + Increment
  BY <1>0, CellsFacts
<1>4. sendwindow + Len(data) + (RecvStart - recvwindow)
        + Cells(Len(sendmes)) = SendStart
  BY DEF IInv, NeverClosed, Conservation
<1>t. /\ sendwindow \in Nat /\ nsent \in Nat /\ recvwindow \in Nat
      /\ Len(data) \in Nat /\ Len(data) >= 1
  BY <1>0, <1>2
<1>5. recvwindow > 0 /\ recvwindow # 0
  BY <1>t, <1>3, <1>4
<1>6. Acked' = Acked /\ Acked \in Int /\ TagsInOrder'
  BY <1>0, <1>1 DEF IInv, TagsInOrder, Acked
<1>7. DataInOrder'
  BY <1>0, <1>1, <1>2, TailFacts DEF IInv, DataInOrder
<1>8. sendme_due(recvwindow - 1) <=> RecvStart - (recvwindow - 1) = Increment
  <2>1. /\ RecvStart - (recvwindow - 1) \in Int
        /\ Cells(0) < RecvStart - (recvwindow - 1)
        /\ RecvStart - (recvwindow - 1) <= Cells(0 + 1)
    BY <1>0, CellsZero DEF IInv, RecvInc
  <2>2. RecvStart \in Int /\ RecvStart % Increment = 0
    BY DEF WindowParameters
  <2>3. (RecvStart - (RecvStart - (recvwindow - 1))) % Increment = 0
          <=> RecvStart - (recvwindow - 1) = Cells(0 + 1)
    BY <2>1, <2>2, WholeIncrements
  <2>4. RecvStart - (RecvStart - (recvwindow - 1)) = recvwindow - 1
    BY <1>0
  <2> QED BY <2>3, <2>4, CellsZero DEF sendme_due
<1>9. CASE sendme_due(recvwindow - 1)
  <2>1. /\ sendmes' = Append(sendmes, Head(data))
        /\ recvwindow' = (recvwindow - 1) + Increment
        /\ closed' = closed
    BY <1>5, <1>9 DEF note_data_received, put
  <2>2. /\ sendmes' \in Seq(Nat) /\ Len(sendmes') = Len(sendmes) + 1
        /\ \A i \in 1 .. Len(sendmes) : sendmes'[i] = sendmes[i]
        /\ sendmes'[Len(sendmes) + 1] = Head(data)
    BY <1>0, <1>2, <2>1, AppendFacts
  <2>3. RecvStart - recvwindow = Increment - 1 /\ recvwindow' = RecvStart
    BY <1>0, <1>8, <1>9, <2>1
  <2>4. Head(data) = Acked + Cells(Len(sendmes) + 1)
    <3>1. Head(data) = (nsent - Len(data)) + 1
      BY <1>2
    <3>2. RecvStart - recvwindow \in Int
      BY <1>t
    <3> QED BY <1>t, <1>3, <1>4, <2>3, <3>1, <3>2, FirstUnacked, SMTT(60) DEF Acked
  <2>5. SendmesInOrder'
    <3> SUFFICES ASSUME NEW i \in 1 .. Len(sendmes')
                 PROVE  sendmes'[i] = Acked' + Cells(i)
      BY DEF SendmesInOrder
    <3>1. CASE i \in 1 .. Len(sendmes)
      BY <1>6, <2>2, <3>1 DEF IInv, SendmesInOrder
    <3>2. CASE i = Len(sendmes) + 1
      BY <1>6, <2>2, <2>4, <3>2
    <3> QED BY <1>0, <2>2, <3>1, <3>2
  <2>6. sendwindow + Len(data') + (RecvStart - recvwindow')
          + Cells(Len(sendmes) + 1) = SendStart
    <3>1. RecvStart - recvwindow \in Int
      BY <1>t
    <3>2. sendwindow + (Len(data) - 1) + (RecvStart - RecvStart)
            + (Cells(Len(sendmes)) + Increment) = SendStart
      BY <1>t, <1>3, <1>4, <2>3, <3>1, SendmeBalance, SMTT(60)
    <3>3. Len(data') = Len(data) - 1
      BY <1>2
    <3> QED BY <1>3, <2>3, <3>2, <3>3
  <2>7. Conservation' /\ RecvInc' /\ NeverClosed'
    BY <1>0, <1>1, <2>1, <2>2, <2>3, <2>6
       DEF IInv, Conservation, RecvInc, NeverClosed
  <2>8. TypeOK'
    BY <1>0, <1>1, <1>2, <2>1, <2>2, <2>3 DEF IInv, TypeOK
  <2> QED BY <1>6, <1>7, <2>5, <2>7, <2>8 DEF IInv
<1>10. CASE ~sendme_due(recvwindow - 1)
  <2>1. sendmes' = sendmes /\ recvwindow' = recvwindow - 1 /\ closed' = closed
    BY <1>5, <1>10 DEF note_data_received
  <2>2. RecvStart - (recvwindow - 1) # Increment
    BY <1>8, <1>10
  <2>3. RecvInc'
    BY <1>0, <2>1, <2>2 DEF IInv, RecvInc
  <2>4. sendwindow + Len(data') + (RecvStart - recvwindow')
          + Cells(Len(sendmes)) = SendStart
    BY <1>0, <1>2, <1>3, <1>4, <2>1
  <2>5. Conservation' /\ SendmesInOrder' /\ NeverClosed'
    BY <1>1, <1>6, <2>1, <2>4
       DEF IInv, Conservation, SendmesInOrder, NeverClosed
  <2>6. TypeOK'
    BY <1>0, <1>1, <1>2, <1>5, <2>1 DEF IInv, TypeOK
  <2> QED BY <1>6, <1>7, <2>3, <2>5, <2>6 DEF IInv
<1> QED BY <1>9, <1>10

(* Receiving a SENDME preserves the invariant: its tag is the one at the    *)
(* head of the validator's queue, and the window does not overflow.         *)
LEMMA SendmeIInv ==
    ASSUME WindowParameters, IInv, note_sendme_received
    PROVE  IInv'
<1>k. Sizes
  BY Constants
<1> USE <1>k DEF Sizes
<1>0. /\ sendwindow \in Nat /\ nsent \in Nat /\ recvwindow \in Nat
      /\ tags \in Seq(Nat) /\ data \in Seq(Nat) /\ sendmes \in Seq(Nat)
      /\ Len(tags) \in Nat /\ Len(data) \in Nat /\ Len(sendmes) \in Nat
  BY DEF IInv, TypeOK
<1>1. /\ sendmes # << >> /\ sendmes' = Tail(sendmes)
      /\ recvwindow' = recvwindow /\ data' = data /\ nsent' = nsent
  BY Zenon DEF note_sendme_received
<1>2. /\ sendmes' \in Seq(Nat) /\ Len(sendmes) >= 1
      /\ Len(sendmes') = Len(sendmes) - 1 /\ Len(sendmes') \in Nat
      /\ Head(sendmes) = Acked + Cells(1)
  BY <1>0, <1>1, TailFacts DEF IInv, SendmesInOrder
<1>3. Cells(Len(sendmes')) \in Nat
      /\ Cells(Len(sendmes)) = Cells(Len(sendmes')) + Increment
  <2>1. Len(sendmes) = Len(sendmes') + 1
    BY <1>0, <1>2
  <2>2. Cells(Len(sendmes') + 1) = Cells(Len(sendmes')) + Increment
        /\ Cells(Len(sendmes')) \in Nat
    BY <1>2, CellsFacts, Zenon
  <2> QED BY <2>1, <2>2
<1>4. sendwindow + Len(data) + (RecvStart - recvwindow)
        + Cells(Len(sendmes)) = SendStart
  BY DEF IInv, NeverClosed, Conservation
<1>5. RecvStart - recvwindow \in Nat
  BY <1>0 DEF IInv, RecvInc
<1>6. SendStart - sendwindow >= Cells(Len(sendmes)) /\ SendStart - sendwindow \in Int
  BY <1>0, <1>3, <1>4, <1>5
<1>7. tags # << >>
  <2>1. Cells(Len(tags) + 1) \in Nat /\ Cells(Len(sendmes)) \in Nat
    BY <1>0, CellsFacts
  <2>2. SendStart - sendwindow < Cells(Len(tags) + 1)
    BY DEF IInv, TagsInOrder
  <2>3. Cells(Len(sendmes)) < Cells(Len(tags) + 1)
    BY <1>6, <2>1, <2>2
  <2>4. Len(sendmes) < Len(tags) + 1
    BY <1>0, <2>3, CellsCancel
  <2> QED BY <1>0, <1>2, <2>4
<1>8. /\ tags[1] = Head(tags) /\ Tail(tags) \in Seq(Nat) /\ Len(tags) >= 1
      /\ Len(Tail(tags)) = Len(tags) - 1 /\ Len(Tail(tags)) \in Nat
  BY <1>0, <1>7, TailFacts
<1>9. validate(Head(sendmes)) = "open"
  <2>1. Head(tags) = Acked + Cells(1)
    BY <1>0, <1>8 DEF IInv, TagsInOrder
  <2> QED BY <1>2, <1>7, <2>1 DEF validate
<1>10. sendwindow + Increment <= SendStart
  BY <1>0, <1>3, <1>6
<1>11. /\ tags' = Tail(tags)
       /\ sendwindow' = sendwindow + Increment
       /\ closed' = closed
  <2>1. ~(sendwindow + Increment > Maximum)
    BY <1>0, <1>10
  <2> QED BY <1>9, <2>1 DEF note_sendme_received
<1>12. Acked' = Acked + Increment /\ Acked \in Int
  BY <1>0, <1>1, <1>11 DEF Acked
<1>13. ASSUME NEW i \in Nat PROVE Acked + Cells(i + 1) = Acked' + Cells(i)
  BY <1>12, CellsFacts
<1>14. SendmesInOrder'
  <2> SUFFICES ASSUME NEW i \in 1 .. Len(sendmes')
               PROVE  sendmes'[i] = Acked' + Cells(i)
    BY DEF SendmesInOrder
  <2>1. i \in Nat /\ i + 1 \in 1 .. Len(sendmes) /\ sendmes'[i] = sendmes[i + 1]
    BY <1>0, <1>1, <1>2, TailFacts
  <2> QED BY <1>13, <2>1 DEF IInv, SendmesInOrder
<1>15. TagsInOrder'
  <2>1. \A i \in 1 .. Len(tags') : tags'[i] = Acked' + Cells(i)
    <3> TAKE i \in 1 .. Len(tags')
    <3>1. i \in Nat /\ i + 1 \in 1 .. Len(tags) /\ tags'[i] = tags[i + 1]
      BY <1>0, <1>7, <1>8, <1>11, TailFacts
    <3> QED BY <1>13, <3>1 DEF IInv, TagsInOrder
  <2>2. Len(tags) = Len(tags') + 1 /\ Len(tags') \in Nat
    BY <1>0, <1>8, <1>11
  <2>3. /\ Cells(Len(tags)) = Cells(Len(tags')) + Increment
        /\ Cells(Len(tags) + 1) = Cells(Len(tags') + 1) + Increment
        /\ Cells(Len(tags')) \in Nat /\ Cells(Len(tags') + 1) \in Nat
    <3>1. /\ Cells(Len(tags') + 1) = Cells(Len(tags')) + Increment
          /\ Cells(Len(tags')) \in Nat /\ Cells(Len(tags') + 1) \in Nat
      BY <2>2, CellsFacts
    <3>2. Cells(Len(tags) + 1) = Cells(Len(tags)) + Increment
      BY <1>0, CellsFacts
    <3> QED BY <2>2, <3>1, <3>2
  <2>4. /\ Cells(Len(tags)) <= SendStart - sendwindow
        /\ SendStart - sendwindow < Cells(Len(tags) + 1)
    BY DEF IInv, TagsInOrder
  <2>5. SendStart - sendwindow' = (SendStart - sendwindow) - Increment
    BY <1>0, <1>11
  <2>6. /\ Cells(Len(tags')) <= SendStart - sendwindow'
        /\ SendStart - sendwindow' < Cells(Len(tags') + 1)
    BY <1>6, <2>3, <2>4, <2>5, SMTT(30)
  <2> QED BY <2>1, <2>6 DEF TagsInOrder
<1>16. Conservation'
  <2>1. sendwindow' + Len(data') + (RecvStart - recvwindow')
          + Cells(Len(sendmes')) = SendStart
    BY <1>0, <1>1, <1>3, <1>4, <1>5, <1>11
  <2> QED BY <2>1 DEF Conservation
<1>17. RecvInc' /\ DataInOrder' /\ NeverClosed'
  BY <1>1, <1>11 DEF IInv, RecvInc, DataInOrder, NeverClosed
<1>18. TypeOK'
  BY <1>0, <1>1, <1>2, <1>8, <1>11 DEF IInv, TypeOK
<1> QED BY <1>14, <1>15, <1>16, <1>17, <1>18 DEF IInv

-----------------------------------------------------------------------------
(* The invariant is inductive and holds in every reachable state of a       *)
(* circuit whose send window is a multiple of the increment.                *)
THEOREM IInvHolds ==
    ASSUME WindowParameters, AlignedWindow
    PROVE  Spec => []IInv
<1>1. IInv /\ [Next]_vars => IInv'
  <2> SUFFICES ASSUME IInv, [Next]_vars PROVE IInv'
    OBVIOUS
  <2>1. CASE note_data_sent
    BY <2>1, SendIInv
  <2>2. CASE note_data_received
    BY <2>2, ReceiveIInv
  <2>3. CASE note_sendme_received
    BY <2>3, SendmeIInv
  <2>4. CASE UNCHANGED vars
    BY <2>4 DEF vars, IInv, TypeOK, NeverClosed, Conservation, RecvInc,
                DataInOrder, SendmesInOrder, TagsInOrder, Acked
  <2> QED BY <2>1, <2>2, <2>3, <2>4 DEF Next
<1> QED BY <1>1, InitIInv, PTL DEF Spec

(* The variables of both ends keep their types: in particular neither       *)
(* window, an unsigned 16-bit counter in the code, goes below zero.         *)
THEOREM FixedWindowTypeOK ==
    ASSUME WindowParameters, AlignedWindow
    PROVE  Spec => []TypeOK
BY IInvHolds, PTL DEF IInv

(* Two ends that run fixed-window flow control with an aligned window never *)
(* close the circuit on each other (sendme.rs validate, SendWindow::put and *)
(* RecvWindow::take never fail), whatever the window sizes.                 *)
THEOREM FixedWindowNeverCloses ==
    ASSUME WindowParameters, AlignedWindow
    PROVE  Spec => []NeverClosed
BY IInvHolds, PTL DEF IInv

(* Every cell the sender may send is accounted for at one of the two ends   *)
(* or on a link (take and put of the two windows agree).                    *)
THEOREM FixedWindowConservation ==
    ASSUME WindowParameters, AlignedWindow
    PROVE  Spec => []Conservation
BY IInvHolds, PTL DEF IInv

-----------------------------------------------------------------------------
(* The queues between the circuits and their channel (CellQueues), for any  *)
(* number of circuits and any sizes.                                        *)

CONSTANTS Circuits, CHANNEL_BUFFER_SIZE, InputBuffer, Window, MaxIn, MaxOut
VARIABLES cells, parked, buf, produced, written, inq, arrived, delivering

Q == INSTANCE CellQueues
QueuesSpec == Q!Init /\ [][Q!Next]_(Q!qvars)

\* The queues have a size; "none" is no circuit.
QueueParameters ==
    /\ CHANNEL_BUFFER_SIZE \in Nat /\ InputBuffer \in Nat
    /\ MaxOut \in [Circuits -> Nat] /\ "none" \notin Circuits

QTypes ==
    /\ cells \in Seq(Circuits \X Nat) /\ parked \in Seq(Circuits)
    /\ buf \in [Circuits -> Seq(Nat)]
    /\ produced \in [Circuits -> Nat] /\ written \in [Circuits -> Nat]

\* The number of circuit c's last cell that has left its buffer.
Through(c) == produced[c] - Len(buf[c])

\* A circuit's cells from `low` up to `high` are in the queue qs, each once, in order.
Holds(qs, c, low, high) ==
    /\ \A i \in 1..Len(qs) : qs[i][1] = c => low < qs[i][2] /\ qs[i][2] <= high
    /\ \A i, j \in 1..Len(qs) : i < j /\ qs[i][1] = c /\ qs[j][1] = c => qs[i][2] < qs[j][2]
    /\ \A n \in Nat : low < n /\ n <= high => \E i \in 1..Len(qs) : qs[i][1] = c /\ qs[i][2] = n

\* The rest waits in its buffer, in order.
Waits(c) == \A k \in 1..Len(buf[c]) : buf[c][k] = Through(c) + k

\* What circuit c has produced and not yet seen written is in the queue, then in its buffer.
Kept(c) ==
    /\ written[c] <= Through(c) /\ produced[c] <= MaxOut[c]
    /\ Holds(cells, c, written[c], Through(c))
    /\ Waits(c)

\* A parked sender has one cell too many in the queue, and is parked once.
Parked ==
    /\ Len(cells) <= CHANNEL_BUFFER_SIZE + Len(parked)
    /\ \A i, j \in 1..Len(parked) : parked[i] = parked[j] => i = j

\* Only the circuit that the channel waits for has more input than its queue's buffer.
Input ==
    /\ inq \in [Circuits -> Nat] /\ delivering \in Circuits \cup {"none"}
    /\ \A c \in Circuits : inq[c] <= IF c = delivering THEN InputBuffer + 1 ELSE InputBuffer

QInv == QTypes /\ (\A c \in Circuits : Kept(c)) /\ Parked /\ Input

(* A circuit's next cell put at the end of the queue: it holds one more of  *)
(* that circuit's, and the same of the others'.                             *)
LEMMA HoldsAppend ==
    ASSUME NEW qs \in Seq(Circuits \X Nat), NEW c \in Circuits, NEW low \in Nat, NEW high \in Nat,
           NEW d \in Circuits, NEW n \in Nat, low <= high, Holds(qs, c, low, high),
           c = d => n = high + 1
    PROVE  Holds(Append(qs, <<d, n>>), c, low, IF c = d THEN n ELSE high)
<1> DEFINE e == <<d, n>>
           r == Append(qs, e)
           top == IF c = d THEN n ELSE high
<1>1. e \in Circuits \X Nat /\ e[1] = d /\ e[2] = n
  OBVIOUS
<1> HIDE DEF e
<1>2. /\ Len(qs) \in Nat /\ Len(r) = Len(qs) + 1
      /\ \A i \in 1..Len(qs) : r[i] = qs[i] /\ qs[i][2] \in Nat
      /\ r[Len(qs) + 1] = e
  BY <1>1, AppendFacts, SeqFacts
<1> HIDE DEF r
<1>3. \A i \in 1..Len(r) : i \in 1..Len(qs) \/ i = Len(qs) + 1
  BY <1>2
<1>4. top \in Nat /\ high <= top /\ (c = d => top = high + 1 /\ top = n) /\ (c # d => top = high)
  OBVIOUS
<1> HIDE DEF top
<1>5. ASSUME NEW i \in 1..Len(r), r[i][1] = c PROVE low < r[i][2] /\ r[i][2] <= top
  <2>1. CASE i \in 1..Len(qs)
    BY <1>2, <1>4, <1>5, <2>1, SMTT(30) DEF Holds
  <2>2. CASE i = Len(qs) + 1
    BY <1>1, <1>2, <1>4, <1>5, <2>2
  <2> QED BY <1>3, <2>1, <2>2
<1>6. ASSUME NEW i \in 1..Len(r), NEW j \in 1..Len(r), i < j, r[i][1] = c, r[j][1] = c
      PROVE  r[i][2] < r[j][2]
  <2>1. i \in 1..Len(qs)
    BY <1>2, <1>6
  <2>2. CASE j \in 1..Len(qs)
    BY <1>2, <1>6, <2>1, <2>2, Zenon DEF Holds
  <2>3. CASE j = Len(qs) + 1
    BY <1>1, <1>2, <1>4, <1>6, <2>1, <2>3, SMTT(30) DEF Holds
  <2> QED BY <1>3, <2>2, <2>3
<1>7. ASSUME NEW m \in Nat, low < m, m <= top PROVE \E i \in 1..Len(r) : r[i][1] = c /\ r[i][2] = m
  <2>1. CASE m <= high
    <3>1. PICK i \in 1..Len(qs) : qs[i][1] = c /\ qs[i][2] = m
      BY <1>7, <2>1 DEF Holds
    <3> QED BY <1>2, <3>1
  <2>2. CASE ~(m <= high)
    <3>1. c = d /\ m = n
      BY <1>4, <1>7, <2>2
    <3>2. Len(qs) + 1 \in 1..Len(r)
      BY <1>2
    <3> QED BY <1>1, <1>2, <3>1, <3>2
  <2> QED BY <2>1, <2>2
<1> QED BY <1>5, <1>6, <1>7, Zenon DEF Holds, r, top, e

(* The first cell leaves: it was its circuit's next.                        *)
LEMMA HoldsTail ==
    ASSUME NEW qs \in Seq(Circuits \X Nat), qs # << >>, NEW c \in Circuits, NEW low \in Nat, NEW high \in Nat,
           Holds(qs, c, low, high)
    PROVE  /\ Head(qs)[1] = c => Head(qs)[2] = low + 1 /\ low + 1 <= high
           /\ Holds(Tail(qs), c, IF Head(qs)[1] = c THEN low + 1 ELSE low, high)
<1> DEFINE t == Tail(qs)
           new == IF Head(qs)[1] = c THEN low + 1 ELSE low
<1>1. /\ Len(qs) \in Nat \ {0} /\ Head(qs) = qs[1] /\ Len(t) = Len(qs) - 1
      /\ \A i \in 1..Len(t) : t[i] = qs[i + 1] /\ i + 1 \in 1..Len(qs)
      /\ \A i \in 1..Len(qs) : qs[i][2] \in Nat
  BY TailFacts, SeqFacts
<1>2. ASSUME qs[1][1] = c PROVE qs[1][2] = low + 1 /\ low + 1 <= high
  <2>1. 1 \in 1..Len(qs) /\ low < qs[1][2] /\ qs[1][2] <= high
    BY <1>1, <1>2 DEF Holds
  <2>2. PICK i \in 1..Len(qs) : qs[i][1] = c /\ qs[i][2] = low + 1
    BY <1>1, <2>1, SMTT(30) DEF Holds
  <2>3. CASE i = 1
    BY <1>1, <2>1, <2>2, <2>3
  <2>4. CASE 1 < i
    <3>1. qs[1][2] < qs[i][2]
      BY <1>2, <2>1, <2>2, <2>4, SMTT(30) DEF Holds
    <3> QED BY <1>1, <2>1, <2>2, <3>1
  <2> QED BY <1>1, <2>2, <2>3, <2>4
<1> HIDE DEF t
<1>3. new \in Nat /\ (qs[1][1] = c => new = low + 1) /\ (qs[1][1] # c => new = low)
  BY <1>1
<1> HIDE DEF new
<1>4. ASSUME NEW i \in 1..Len(t), t[i][1] = c PROVE new < t[i][2] /\ t[i][2] <= high
  <2>1. i + 1 \in 1..Len(qs) /\ 1 \in 1..Len(qs) /\ 1 < i + 1 /\ t[i] = qs[i + 1]
    BY <1>1
  <2>2. CASE qs[1][1] = c
    <3>1. qs[1][2] < qs[i + 1][2] /\ qs[i + 1][2] <= high
      BY <1>4, <2>1, <2>2, SMTT(30) DEF Holds
    <3> QED BY <1>2, <1>3, <2>1, <2>2, <3>1
  <2>3. CASE qs[1][1] # c
    BY <1>3, <1>4, <2>1, <2>3 DEF Holds
  <2> QED BY <2>2, <2>3
<1>5. ASSUME NEW i \in 1..Len(t), NEW j \in 1..Len(t), i < j, t[i][1] = c, t[j][1] = c
      PROVE  t[i][2] < t[j][2]
  <2>1. i + 1 \in 1..Len(qs) /\ j + 1 \in 1..Len(qs) /\ i + 1 < j + 1 /\ t[i] = qs[i + 1] /\ t[j] = qs[j + 1]
    <3>1. i \in Nat /\ j \in Nat /\ i >= 1 /\ j <= Len(t)
      BY <1>1
    <3>2. i + 1 < j + 1
      BY <1>5, <3>1
    <3> QED BY <1>1, <3>2, Zenon
  <2>2. \A a, b \in 1..Len(qs) : a < b /\ qs[a][1] = c /\ qs[b][1] = c => qs[a][2] < qs[b][2]
    BY Zenon DEF Holds
  <2>3. qs[i + 1][1] = c /\ qs[j + 1][1] = c
    BY <1>5, <2>1
  <2>4. qs[i + 1][2] < qs[j + 1][2]
    BY <2>1, <2>2, <2>3, Zenon
  <2> QED BY <2>1, <2>4
<1>6. ASSUME NEW m \in Nat, new < m, m <= high PROVE \E i \in 1..Len(t) : t[i][1] = c /\ t[i][2] = m
  <2>1. low < m
    BY <1>3, <1>6
  <2>2. PICK i \in 1..Len(qs) : qs[i][1] = c /\ qs[i][2] = m
    BY <1>6, <2>1, SMTT(30) DEF Holds
  <2>3. i # 1
    BY <1>2, <1>3, <1>6, <2>2
  <2>4. i - 1 \in 1..Len(t) /\ t[i - 1] = qs[i]
    BY <1>1, <2>2, <2>3, SMTT(30)
  <2> QED BY <2>2, <2>4
<1>7. Holds(t, c, new, high)
  BY <1>4, <1>5, <1>6, Zenon DEF Holds
<1> QED BY <1>1, <1>2, <1>7 DEF t, new

(* A circuit's next cell goes into the queue, from its buffer or past it.   *)
LEMMA SendKeeps ==
    ASSUME QueueParameters, QInv, NEW c \in Circuits, ~Q!is_parked(c), NEW n \in Nat, n = Through(c) + 1,
           Q!start_send(c, n), written' = written,
           buf' \in [Circuits -> Seq(Nat)], produced' \in [Circuits -> Nat],
           Through(c)' = n, Waits(c)', produced'[c] <= MaxOut[c],
           \A d \in Circuits \ {c} : buf'[d] = buf[d] /\ produced'[d] = produced[d]
    PROVE  QTypes' /\ (\A d \in Circuits : Kept(d)') /\ Parked'
<1>1. cells' = Append(cells, <<c, n>>) /\ cells \in Seq(Circuits \X Nat) /\ parked \in Seq(Circuits)
  BY DEF Q!start_send, QInv, QTypes
<1>2. cells' \in Seq(Circuits \X Nat) /\ Len(cells') = Len(cells) + 1 /\ Len(cells) \in Nat
  <2>1. <<c, n>> \in Circuits \X Nat
    OBVIOUS
  <2> QED BY <1>1, <2>1, AppendFacts
<1>3. parked' \in Seq(Circuits) /\ Parked'
  <2>1. CASE Len(cells) >= CHANNEL_BUFFER_SIZE
    <3>1. parked' = Append(parked, c)
      BY <2>1 DEF Q!start_send
    <3>2. /\ parked' \in Seq(Circuits) /\ Len(parked') = Len(parked) + 1 /\ Len(parked) \in Nat
          /\ (\A i \in 1..Len(parked) : parked'[i] = parked[i]) /\ parked'[Len(parked) + 1] = c
      BY <1>1, <3>1, AppendFacts
    <3>3. \A i \in 1..Len(parked) : parked[i] # c
      BY <1>1, SeqFacts, SMTT(30) DEF Q!is_parked
    <3>4. Len(cells') <= CHANNEL_BUFFER_SIZE + Len(parked')
      BY <1>2, <3>2 DEF QueueParameters, QInv, Parked
    <3>5. ASSUME NEW i \in 1..Len(parked'), NEW j \in 1..Len(parked'), parked'[i] = parked'[j] PROVE i = j
      <4>1. \A a, b \in 1..Len(parked) : parked[a] = parked[b] => a = b
        BY DEF QInv, Parked
      <4>2. (i \in 1..Len(parked) \/ i = Len(parked) + 1) /\ (j \in 1..Len(parked) \/ j = Len(parked) + 1)
        BY <3>2, SMTT(30)
      <4> QED BY <3>2, <3>3, <3>5, <4>1, <4>2, ZenonT(30)
    <3> QED BY <3>2, <3>4, <3>5, Zenon DEF Parked
  <2>2. CASE ~(Len(cells) >= CHANNEL_BUFFER_SIZE)
    <3>1. parked' = parked /\ Len(parked) \in Nat
      BY <1>1, <2>2, SeqFacts DEF Q!start_send
    <3>2. Len(cells') <= CHANNEL_BUFFER_SIZE + Len(parked')
      BY <1>2, <2>2, <3>1 DEF QueueParameters
    <3> QED BY <1>1, <3>1, <3>2 DEF QInv, Parked
  <2> QED BY <2>1, <2>2
<1>4. QTypes'
  BY <1>2, <1>3, Zenon DEF QInv, QTypes
<1>5. ASSUME NEW d \in Circuits PROVE Kept(d)'
  <2>1. /\ written[d] \in Nat /\ Through(d) \in Nat /\ written[d] <= Through(d)
        /\ Holds(cells, d, written[d], Through(d)) /\ Waits(d) /\ produced[d] <= MaxOut[d]
    <3>1. written[d] \in Nat /\ produced[d] \in Nat /\ buf[d] \in Seq(Nat)
      BY DEF QInv, QTypes
    <3>2. Len(buf[d]) \in Nat
      BY <3>1, SeqFacts
    <3>3. Kept(d)
      BY DEF QInv
    <3>4. written[d] <= Through(d)
      BY <3>3 DEF Kept
    <3>5. Through(d) \in Nat
      BY <3>1, <3>2, <3>4, SMTT(30) DEF Through
    <3> QED BY <3>1, <3>3, <3>5, Zenon DEF Kept
  <2>2. d = c => n = Through(d) + 1
    OBVIOUS
  <2>3. Holds(cells', d, written[d], IF d = c THEN n ELSE Through(d))
    BY <1>1, <2>1, <2>2, HoldsAppend, Zenon
  <2>4. CASE d = c
    BY <2>1, <2>3, <2>4 DEF Kept
  <2>5. CASE d # c
    <3>1. buf'[d] = buf[d] /\ produced'[d] = produced[d]
      BY <2>5
    <3>2. Through(d)' = Through(d) /\ Waits(d)'
      BY <2>1, <3>1 DEF Through, Waits
    <3> QED BY <2>1, <2>3, <2>5, <3>1, <3>2 DEF Kept
  <2> QED BY <2>4, <2>5
<1> QED BY <1>3, <1>4, <1>5

(* pollish_send_unbounded: the new cell goes into the queue or waits its turn. *)
LEMMA PollishKeeps ==
    ASSUME QueueParameters, QInv, NEW c \in Circuits, produced[c] < MaxOut[c],
           Q!pollish_send_unbounded(c), written' = written
    PROVE  QTypes' /\ (\A d \in Circuits : Kept(d)') /\ Parked'
<1>1. /\ produced \in [Circuits -> Nat] /\ buf \in [Circuits -> Seq(Nat)] /\ written \in [Circuits -> Nat]
      /\ buf[c] \in Seq(Nat) /\ produced[c] \in Nat /\ MaxOut[c] \in Nat
  BY DEF QInv, QTypes, QueueParameters
<1>2. /\ produced' = [produced EXCEPT ![c] = produced[c] + 1]
      /\ produced' \in [Circuits -> Nat] /\ produced'[c] = produced[c] + 1
      /\ \A d \in Circuits \ {c} : produced'[d] = produced[d]
  BY <1>1 DEF Q!pollish_send_unbounded
<1>3. CASE Q!ready(c)
  <2>1. Q!start_send(c, produced[c] + 1) /\ buf' = buf
    BY <1>3 DEF Q!pollish_send_unbounded
  <2>2. buf[c] = << >> /\ ~Q!is_parked(c)
    BY <1>3 DEF Q!ready
  <2>3. Len(buf[c]) = 0
    BY <2>2
  <2>4. produced[c] + 1 \in Nat /\ produced[c] + 1 = Through(c) + 1 /\ Through(c)' = produced[c] + 1 /\ Waits(c)'
    BY <1>1, <1>2, <2>1, <2>3 DEF Through, Waits
  <2>5. produced'[c] <= MaxOut[c]
    BY <1>1, <1>2
  <2>6. buf' \in [Circuits -> Seq(Nat)] /\ \A d \in Circuits \ {c} : buf'[d] = buf[d] /\ produced'[d] = produced[d]
    BY <1>1, <1>2, <2>1
  <2> QED BY <1>2, <2>1, <2>2, <2>4, <2>5, <2>6, SendKeeps, Zenon
<1>4. CASE ~Q!ready(c)
  <2>1. buf' = [buf EXCEPT ![c] = Append(buf[c], produced[c] + 1)] /\ cells' = cells /\ parked' = parked
    BY <1>4 DEF Q!pollish_send_unbounded
  <2>2. /\ Append(buf[c], produced[c] + 1) \in Seq(Nat) /\ Len(buf[c]) \in Nat
        /\ Len(Append(buf[c], produced[c] + 1)) = Len(buf[c]) + 1
        /\ \A i \in 1..Len(buf[c]) : Append(buf[c], produced[c] + 1)[i] = buf[c][i]
        /\ Append(buf[c], produced[c] + 1)[Len(buf[c]) + 1] = produced[c] + 1
    BY <1>1, AppendFacts
  <2>3. /\ buf' \in [Circuits -> Seq(Nat)] /\ buf'[c] = Append(buf[c], produced[c] + 1)
        /\ \A d \in Circuits \ {c} : buf'[d] = buf[d]
    BY <1>1, <2>1, <2>2
  <2>4. QTypes' /\ Parked'
    BY <1>1, <1>2, <2>1, <2>3 DEF QInv, QTypes, Parked
  <2>5. ASSUME NEW d \in Circuits PROVE Kept(d)'
    <3>1. Kept(d)
      BY DEF QInv
    <3>2. CASE d = c
      <4>1. Through(c)' = Through(c)
        BY <1>1, <1>2, <2>2, <2>3 DEF Through
      <4>2. Waits(c)'
        <5> SUFFICES ASSUME NEW k \in 1..Len(buf'[c]) PROVE buf'[c][k] = Through(c) + k
          BY <4>1 DEF Waits
        <5>1. CASE k \in 1..Len(buf[c])
          BY <2>2, <2>3, <3>1, <3>2, <5>1 DEF Kept, Waits
        <5>2. CASE k = Len(buf[c]) + 1
          BY <1>1, <2>2, <2>3, <5>2 DEF Through
        <5> QED BY <2>2, <2>3, <5>1, <5>2
      <4> QED BY <1>1, <1>2, <2>1, <3>1, <3>2, <4>1, <4>2 DEF Kept
    <3>3. CASE d # c
      <4>1. buf'[d] = buf[d] /\ produced'[d] = produced[d]
        BY <1>2, <2>3, <3>3
      <4> QED BY <2>1, <3>1, <4>1, Zenon DEF Kept, Through, Waits
    <3> QED BY <3>2, <3>3
  <2> QED BY <2>4, <2>5
<1> QED BY <1>3, <1>4

(* flush_buf: the cell that has waited longest goes into the queue.         *)
LEMMA FlushKeeps ==
    ASSUME QueueParameters, QInv, NEW c \in Circuits, Q!flush_buf(c)
    PROVE  QInv'
<1>1. /\ produced \in [Circuits -> Nat] /\ buf \in [Circuits -> Seq(Nat)] /\ buf[c] \in Seq(Nat)
      /\ produced[c] \in Nat /\ Kept(c) /\ written[c] \in Nat
  BY DEF QInv, QTypes
<1>2. /\ buf[c] # << >> /\ ~Q!is_parked(c) /\ Q!start_send(c, Head(buf[c]))
      /\ buf' = [buf EXCEPT ![c] = Tail(buf[c])]
      /\ produced' = produced /\ written' = written /\ inq' = inq /\ delivering' = delivering
  BY DEF Q!flush_buf
<1>3. /\ Len(buf[c]) \in Nat \ {0} /\ Head(buf[c]) = buf[c][1] /\ Tail(buf[c]) \in Seq(Nat)
      /\ Len(Tail(buf[c])) = Len(buf[c]) - 1
      /\ \A i \in 1..Len(Tail(buf[c])) : Tail(buf[c])[i] = buf[c][i + 1]
  BY <1>1, <1>2, TailFacts
<1>4. /\ buf' \in [Circuits -> Seq(Nat)] /\ buf'[c] = Tail(buf[c])
      /\ \A d \in Circuits \ {c} : buf'[d] = buf[d]
  BY <1>1, <1>2, <1>3
<1>5. Head(buf[c]) = Through(c) + 1 /\ Through(c) \in Nat
  BY <1>1, <1>3 DEF Kept, Waits, Through
<1>6. Through(c)' = Through(c) + 1
  BY <1>1, <1>2, <1>3, <1>4 DEF Through
<1>7. Waits(c)'
  <2> SUFFICES ASSUME NEW k \in 1..Len(buf'[c]) PROVE buf'[c][k] = Through(c) + 1 + k
    BY <1>6 DEF Waits
  <2>1. k + 1 \in 1..Len(buf[c]) /\ buf'[c][k] = buf[c][k + 1]
    BY <1>3, <1>4
  <2>2. buf[c][k + 1] = Through(c) + (k + 1)
    BY <1>1, <2>1, Zenon DEF Kept, Waits
  <2> QED BY <1>5, <2>1, <2>2
<1>8. produced'[c] <= MaxOut[c]
  BY <1>1, <1>2 DEF Kept
<1>9. Through(c) + 1 \in Nat /\ Q!start_send(c, Through(c) + 1)
  BY <1>2, <1>5
<1>10. QTypes' /\ (\A d \in Circuits : Kept(d)') /\ Parked'
  BY <1>1, <1>2, <1>4, <1>6, <1>7, <1>8, <1>9, SendKeeps, SMTT(30)
<1>11. Input'
  BY <1>2 DEF QInv, Input
<1> QED BY <1>10, <1>11 DEF QInv

\* Each circuit's cells leave one after the other, in the order it produced them.
NextOfCircuit == \A c \in Circuits : written'[c] = written[c] \/ written'[c] = written[c] + 1

(* write_output: the first cell of the queue is its circuit's next.         *)
LEMMA WriteKeeps ==
    ASSUME QueueParameters, QInv, Q!write_output
    PROVE  QInv' /\ NextOfCircuit
<1> DEFINE h == Head(cells)
<1>1. /\ cells \in Seq(Circuits \X Nat) /\ cells # << >> /\ parked \in Seq(Circuits)
      /\ written \in [Circuits -> Nat] /\ cells' = Tail(cells)
      /\ written' = [written EXCEPT ![h[1]] = h[2]]
      /\ parked' = IF parked = << >> THEN parked ELSE Tail(parked)
      /\ buf' = buf /\ produced' = produced /\ inq' = inq /\ delivering' = delivering
  BY DEF Q!write_output, QInv, QTypes
<1>2. /\ h \in Circuits \X Nat /\ cells' \in Seq(Circuits \X Nat)
      /\ Len(cells) \in Nat \ {0} /\ Len(cells') = Len(cells) - 1
  BY <1>1, TailFacts
<1> HIDE DEF h
<1>3. h[1] \in Circuits /\ h[2] \in Nat
  BY <1>2
<1>4. /\ written' \in [Circuits -> Nat] /\ written'[h[1]] = h[2]
      /\ \A c \in Circuits \ {h[1]} : written'[c] = written[c]
  BY <1>1, <1>3, SMTT(30)
<1>5. QTypes'
  <2>1. parked' \in Seq(Circuits)
    BY <1>1, TailFacts
  <2> QED BY <1>1, <1>2, <1>4, <2>1, Zenon DEF QInv, QTypes
<1>6. Parked'
  <2>1. CASE parked = << >>
    <3>1. parked' = parked /\ Len(parked) \in Nat
      BY <1>1, <2>1, SeqFacts
    <3>2. Len(cells) <= CHANNEL_BUFFER_SIZE + Len(parked)
      BY DEF QInv, Parked
    <3>3. Len(cells') <= CHANNEL_BUFFER_SIZE + Len(parked')
      BY <1>2, <3>1, <3>2 DEF QueueParameters
    <3> QED BY <3>1, <3>3 DEF QInv, Parked
  <2>2. CASE parked # << >>
    <3>1. /\ parked' = Tail(parked) /\ Len(parked) \in Nat \ {0} /\ Len(parked') = Len(parked) - 1
          /\ \A i \in 1..Len(parked') : parked'[i] = parked[i + 1] /\ i + 1 \in 1..Len(parked)
      BY <1>1, <2>2, TailFacts
    <3>2. Len(cells') <= CHANNEL_BUFFER_SIZE + Len(parked')
      BY <1>2, <3>1 DEF QueueParameters, QInv, Parked
    <3>3. ASSUME NEW i \in 1..Len(parked'), NEW j \in 1..Len(parked'), parked'[i] = parked'[j] PROVE i = j
      <4>1. i + 1 = j + 1
        BY <3>1, <3>3 DEF QInv, Parked
      <4> QED BY <3>1, <4>1
    <3> QED BY <3>2, <3>3 DEF Parked
  <2> QED BY <2>1, <2>2
<1>7. ASSUME NEW c \in Circuits
      PROVE  Kept(c)' /\ (written'[c] = written[c] \/ written'[c] = written[c] + 1)
  <2>1. Kept(c) /\ written[c] \in Nat /\ Through(c) \in Nat
    <3>1. Kept(c) /\ written[c] \in Nat /\ produced[c] \in Nat /\ buf[c] \in Seq(Nat)
      BY DEF QInv, QTypes
    <3>2. Len(buf[c]) \in Nat
      BY <3>1, SeqFacts
    <3>3. written[c] <= Through(c)
      BY <3>1 DEF Kept
    <3>4. Through(c) \in Nat
      BY <3>1, <3>2, <3>3 DEF Through
    <3> QED BY <3>1, <3>4
  <2>2. Holds(cells, c, written[c], Through(c))
    BY <2>1 DEF Kept
  <2>3. /\ h[1] = c => h[2] = written[c] + 1 /\ written[c] + 1 <= Through(c)
        /\ Holds(cells', c, IF h[1] = c THEN written[c] + 1 ELSE written[c], Through(c))
    BY <1>1, <2>1, <2>2, HoldsTail, SMTT(30) DEF h
  <2>4. written'[c] = IF h[1] = c THEN written[c] + 1 ELSE written[c]
    BY <1>4, <2>3
  <2>5. Through(c)' = Through(c) /\ Waits(c)'
    BY <1>1, <2>1 DEF Through, Waits, Kept
  <2>6. written'[c] <= Through(c) /\ Holds(cells', c, written'[c], Through(c))
    BY <2>1, <2>3, <2>4 DEF Kept
  <2>7. Kept(c)'
    BY <1>1, <2>1, <2>5, <2>6 DEF Kept
  <2> QED BY <2>4, <2>7
<1>8. Input'
  BY <1>1 DEF QInv, Input
<1> QED BY <1>5, <1>6, <1>7, <1>8 DEF QInv, NextOfCircuit

(* A step that leaves the circuit's side of the queues alone.               *)
LEMMA SameCells ==
    ASSUME QInv, cells' = cells, parked' = parked, buf' = buf, produced' = produced, written' = written
    PROVE  QTypes' /\ (\A d \in Circuits : Kept(d)') /\ Parked'
<1>1. QTypes' /\ Parked'
  BY DEF QInv, QTypes, Parked
<1>2. ASSUME NEW d \in Circuits PROVE Kept(d)'
  BY DEF QInv, Kept, Through, Waits
<1> QED BY <1>1, <1>2

LEMMA QInvNext ==
    ASSUME QueueParameters, QInv, [Q!Next]_(Q!qvars)
    PROVE  QInv' /\ NextOfCircuit
<1>1. ASSUME written' = written PROVE NextOfCircuit
  BY <1>1 DEF NextOfCircuit
<1>2. ASSUME NEW c \in Circuits, Q!flush_buf(c) PROVE QInv' /\ NextOfCircuit
  <2>1. written' = written
    BY <1>2 DEF Q!flush_buf
  <2> QED BY <1>1, <1>2, <2>1, FlushKeeps
<1>3. ASSUME NEW c \in Circuits, Q!read_input(c) PROVE QInv' /\ NextOfCircuit
  <2>1. /\ inq' = [inq EXCEPT ![c] = inq[c] - 1] /\ inq[c] > 0 /\ written' = written /\ delivering' = delivering
        /\ \/ UNCHANGED <<cells, parked, buf, produced>>
           \/ produced[c] < MaxOut[c] /\ Q!pollish_send_unbounded(c)
    BY <1>3 DEF Q!read_input
  <2>2. Input'
    BY <2>1 DEF QInv, Input, QueueParameters
  <2>3. QTypes' /\ (\A d \in Circuits : Kept(d)') /\ Parked'
    BY <2>1, SameCells, PollishKeeps
  <2> QED BY <1>1, <2>1, <2>2, <2>3 DEF QInv
<1>4. ASSUME NEW c \in Circuits, Q!send_stream(c) \/ Q!handle_control(c) PROVE QInv' /\ NextOfCircuit
  <2>1. /\ produced[c] < MaxOut[c] /\ Q!pollish_send_unbounded(c)
        /\ inq' = inq /\ written' = written /\ delivering' = delivering
    BY <1>4 DEF Q!send_stream, Q!handle_control
  <2>2. Input'
    BY <2>1 DEF QInv, Input
  <2> QED BY <1>1, <2>1, <2>2, PollishKeeps DEF QInv
<1>5. ASSUME NEW c \in Circuits, Q!deliver_relay(c) PROVE QInv' /\ NextOfCircuit
  <2>1. /\ inq' = [inq EXCEPT ![c] = inq[c] + 1] /\ delivering = "none"
        /\ delivering' = IF inq[c] >= InputBuffer THEN c ELSE "none"
        /\ UNCHANGED <<cells, parked, buf, produced, written>>
    BY <1>5 DEF Q!deliver_relay
  <2>2. Input'
    BY <2>1 DEF QInv, Input, QueueParameters
  <2> QED BY <1>1, <2>1, <2>2, SameCells DEF QInv
<1>6. CASE Q!write_output
  BY <1>6, WriteKeeps
<1>7. CASE Q!delivered
  <2>1. /\ delivering # "none" /\ inq[delivering] <= InputBuffer /\ delivering' = "none"
        /\ UNCHANGED <<cells, parked, buf, produced, written, inq>>
    BY <1>7 DEF Q!delivered
  <2>2. Input'
    BY <2>1 DEF QInv, Input, QueueParameters
  <2> QED BY <1>1, <2>1, <2>2, SameCells DEF QInv
<1>8. CASE UNCHANGED Q!qvars
  <2>1. UNCHANGED <<cells, parked, buf, produced, written, inq, delivering>>
    BY <1>8 DEF Q!qvars
  <2>2. Input'
    BY <2>1 DEF QInv, Input
  <2> QED BY <1>1, <2>1, <2>2, SameCells DEF QInv
<1> QED BY <1>2, <1>3, <1>4, <1>5, <1>6, <1>7, <1>8 DEF Q!Next, Q!CircuitStep

LEMMA QInvInit == ASSUME QueueParameters, Q!Init PROVE QInv
<1>1. /\ cells = << >> /\ parked = << >> /\ buf = [c \in Circuits |-> << >>]
      /\ produced = [c \in Circuits |-> 0] /\ written = [c \in Circuits |-> 0]
      /\ inq = [c \in Circuits |-> 0] /\ delivering = "none"
  BY DEF Q!Init
<1>2. QTypes /\ Parked /\ Input
  BY <1>1 DEF QTypes, Parked, Input, QueueParameters
<1>3. ASSUME NEW c \in Circuits PROVE Kept(c)
  <2>1. Len(cells) = 0 /\ Len(buf[c]) = 0 /\ produced[c] = 0 /\ written[c] = 0 /\ MaxOut[c] \in Nat
    BY <1>1 DEF QueueParameters
  <2> QED BY <2>1 DEF Kept, Through, Waits, Holds
<1> QED BY <1>2, <1>3 DEF QInv

(* The queues are never fuller than their sizes, one cell for each parked   *)
(* circuit and one for the circuit the channel waits for (SENDMEs and       *)
(* control messages included, which circuits send without waiting).         *)
THEOREM CellQueuesBounded == ASSUME QueueParameters PROVE QueuesSpec => []Q!TypeOK
<1>1. Q!Init => QInv
  BY QInvInit
<1>2. QInv /\ [Q!Next]_(Q!qvars) => QInv'
  BY QInvNext
<1>3. QInv => Q!TypeOK
  <2> SUFFICES ASSUME QInv PROVE Q!TypeOK
    OBVIOUS
  <2>1. cells \in Seq(Circuits \X Nat) /\ Len(cells) <= CHANNEL_BUFFER_SIZE + Len(parked)
    BY DEF QInv, QTypes, Parked
  <2>2. (\A c \in Circuits : inq[c] \in 0..(InputBuffer + 1)) /\ delivering \in Circuits \cup {"none"}
    BY DEF QInv, Input, QueueParameters
  <2>3. ASSUME NEW i \in DOMAIN cells PROVE cells[i][1] \in Circuits /\ cells[i][2] \in 1..MaxOut[cells[i][1]]
    <3> DEFINE c == cells[i][1]
    <3>1. i \in 1..Len(cells) /\ c \in Circuits /\ cells[i][2] \in Nat
      BY <2>1, <2>3, SeqFacts
    <3>2. /\ Kept(c) /\ written[c] \in Nat /\ produced[c] \in Nat /\ Len(buf[c]) \in Nat /\ MaxOut[c] \in Nat
      <4>1. buf[c] \in Seq(Nat)
        BY <3>1 DEF QInv, QTypes
      <4> QED BY <3>1, <4>1, SeqFacts, ZenonT(30) DEF QInv, QTypes, QueueParameters
    <3>3. written[c] < cells[i][2] /\ cells[i][2] <= produced[c] - Len(buf[c]) /\ produced[c] <= MaxOut[c]
      BY <3>1, <3>2 DEF Kept, Holds, Through
    <3> HIDE DEF c
    <3>4. cells[i][2] \in 1..MaxOut[c]
      BY <3>1, <3>2, <3>3
    <3> QED BY <3>1, <3>4 DEF c
  <2> QED BY <2>1, <2>2, <2>3 DEF Q!TypeOK
<1> QED BY <1>1, <1>2, <1>3, PTL DEF QueuesSpec

(* The cells of a circuit leave in the order it produced them, none lost or *)
(* repeated, although some go past the sink's buffer and some through it.   *)
THEOREM CellsLeaveInOrder == ASSUME QueueParameters PROVE QueuesSpec => [][NextOfCircuit]_(Q!qvars)
<1>1. Q!Init => QInv
  BY QInvInit
<1>2. QInv /\ [Q!Next]_(Q!qvars) => QInv' /\ [NextOfCircuit]_(Q!qvars)
  BY QInvNext
<1> QED BY <1>1, <1>2, PTL DEF QueuesSpec
=============================================================================
