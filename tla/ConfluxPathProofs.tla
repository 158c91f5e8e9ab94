------------------------- MODULE ConfluxPathProofs --------------------------
(***************************************************************************)
(* Proofs about ConfluxPath, for any set of legs and any number of cells:  *)
(* the two ends agree on every sequence number although none is sent, no   *)
(* error of their own making stops them, and the path implements           *)
(* FifoChannel.                                                            *)
(***************************************************************************)
EXTENDS ConfluxPath, DataLemmas, TLAPS

\* Cells that count are sent on the primary leg only (conflux_close has the other case).
PathParameters == MaxCells \in Nat /\ MaxU32 \in Nat /\ OffPrimary = FALSE

-----------------------------------------------------------------------------
(* What is in flight on one leg: a queue of cells q whose receiver has      *)
(* counted to `from`.                                                       *)

Step(c) == IF c.cmd = "SWITCH" THEN c.rel ELSE 1
Chain(q, from) == \A i \in DOMAIN q : q[i].n = (IF i = 1 THEN from ELSE q[i - 1].n) + Step(q[i])
End(q, from) == IF q = << >> THEN from ELSE q[Len(q)].n
Rising(q) == \A i, j \in DOMAIN q : i < j /\ q[j].cmd # "SWITCH" => q[i].n < q[j].n
Nums(q) == {q[i].n : i \in {j \in DOMAIN q : q[j].cmd # "SWITCH"}}

\* A queue that is in order, whose cells bring the receiver from `from` to `to`, and
\* whose numbers are at most `high`.
Queue(q, from, to, high) ==
    /\ q \in Seq(Cell)
    /\ Chain(q, from) /\ End(q, from) = to /\ Rising(q)
    /\ \A i \in DOMAIN q : q[i].n <= high /\ (q[i].cmd = "SWITCH" => q[i].rel # 0)

\* The cell c comes next on such a queue, and has the highest number if it counts.
Appendable(q, from, to, high, c, top) ==
    /\ from \in Nat /\ to \in Nat /\ high \in Nat /\ c \in Cell /\ top \in Nat
    /\ Queue(q, from, to, high)
    /\ high <= top /\ c.n = to + Step(c) /\ c.n <= top
    /\ c.cmd = "SWITCH" => c.rel # 0
    /\ c.cmd # "SWITCH" => c.n > high

(* A cell put at the end of a queue continues it.                           *)
LEMMA QueueAppend ==
    ASSUME NEW q, NEW from, NEW to, NEW high, NEW c, NEW top, Appendable(q, from, to, high, c, top)
    PROVE  /\ Queue(q \o << c >>, from, c.n, top)
           /\ Nums(q \o << c >>) = Nums(q) \cup (IF c.cmd = "SWITCH" THEN {} ELSE {c.n})
<1> USE DEF Appendable
<1> DEFINE r == q \o << c >>
<1>1. q \in Seq(Cell) /\ Len(q) \in Nat /\ DOMAIN q = 1..Len(q) /\ \A i \in 1..Len(q) : q[i] \in Cell
  BY SeqFacts DEF Queue
<1>2. r \in Seq(Cell) /\ Len(r) = Len(q) + 1 /\ DOMAIN r = 1..Len(q) + 1
  BY <1>1, ConcatOne
<1>3. (\A i \in 1..Len(q) : r[i] = q[i]) /\ r[Len(q) + 1] = c
  BY <1>1, ConcatOne
<1>4. q = << >> <=> Len(q) = 0
  BY <1>1, SeqFacts
<1> HIDE DEF r
<1>5. r # << >> /\ End(r, from) = c.n
  BY <1>1, <1>2, <1>3, SeqFacts DEF End
<1>6. Chain(r, from)
  <2> SUFFICES ASSUME NEW i \in 1..Len(q) + 1
               PROVE  r[i].n = (IF i = 1 THEN from ELSE r[i - 1].n) + Step(r[i])
    BY <1>2 DEF Chain
  <2>1. CASE i \in 1..Len(q)
    <3>1. r[i] = q[i] /\ (i # 1 => r[i - 1] = q[i - 1])
      BY <1>1, <1>3, <2>1
    <3> QED BY <1>1, <2>1, <3>1, SMTT(30) DEF Chain, Queue
  <2>2. CASE i = Len(q) + 1
    <3>1. to = IF i = 1 THEN from ELSE r[i - 1].n
      BY <1>1, <1>3, <1>4, <2>2 DEF Queue, End
    <3> QED BY <1>3, <2>2, <3>1
  <2> QED BY <1>1, <2>1, <2>2
<1>7. Rising(r)
  <2> SUFFICES ASSUME NEW i \in 1..Len(q) + 1, NEW j \in 1..Len(q) + 1, i < j, r[j].cmd # "SWITCH"
               PROVE  r[i].n < r[j].n
    BY <1>2 DEF Rising
  <2>1. i \in 1..Len(q) /\ r[i] = q[i] /\ q[i] \in Cell /\ q[i].n \in Nat /\ c.n \in Nat
    BY <1>1, <1>3, SMTT(30) DEF Cell
  <2>2. CASE j \in 1..Len(q)
    BY <1>1, <1>3, <2>1, <2>2, Zenon DEF Queue, Rising
  <2>3. CASE j = Len(q) + 1
    <3>1. q[i].n <= high
      BY <1>1, <2>1, SMTT(30) DEF Queue
    <3> QED BY <1>3, <2>1, <2>3, <3>1
  <2> QED BY <1>1, <2>2, <2>3
<1>8. \A i \in 1..Len(q) + 1 : r[i].n <= top /\ (r[i].cmd = "SWITCH" => r[i].rel # 0)
  <2> SUFFICES ASSUME NEW i \in 1..Len(q) + 1
               PROVE  r[i].n <= top /\ (r[i].cmd = "SWITCH" => r[i].rel # 0)
    OBVIOUS
  <2>1. CASE i \in 1..Len(q)
    <3>1. r[i] = q[i] /\ q[i].n \in Nat
      BY <1>1, <1>3, <2>1 DEF Cell
    <3>2. q[i].n <= high /\ (q[i].cmd = "SWITCH" => q[i].rel # 0)
      BY <1>1, <2>1 DEF Queue
    <3> QED BY <3>1, <3>2
  <2>2. CASE i = Len(q) + 1
    BY <1>3, <2>2
  <2> QED BY <1>1, <2>1, <2>2
<1>9. Nums(r) = Nums(q) \cup (IF c.cmd = "SWITCH" THEN {} ELSE {c.n})
  <2>1. \A i \in 1..Len(q) + 1 : i \in 1..Len(q) \/ i = Len(q) + 1
    BY <1>1
  <2>2. Len(q) + 1 \in 1..Len(q) + 1 /\ \A i \in 1..Len(q) : i \in 1..Len(q) + 1
    BY <1>1
  <2> QED BY <1>1, <1>2, <1>3, <2>1, <2>2, SMTT(30) DEF Nums
<1> QED BY <1>2, <1>5, <1>6, <1>7, <1>8, <1>9 DEF Queue, r

(* Taking the first cell from a queue leaves one that starts at its number. *)
LEMMA QueueTail ==
    ASSUME NEW q, NEW from \in Nat, NEW to \in Nat, NEW high \in Nat, Queue(q, from, to, high), q # << >>
    PROVE  /\ Head(q) \in Cell /\ Head(q).n = from + Step(Head(q))
           /\ Head(q).cmd = "SWITCH" => Head(q).rel # 0
           /\ Queue(Tail(q), Head(q).n, to, high)
           /\ Nums(Tail(q)) \subseteq Nums(q)
           /\ Head(q).cmd # "SWITCH" =>
                Head(q).n \in Nums(q) /\ Head(q).n \notin Nums(Tail(q)) /\ Head(q).n <= high
<1> DEFINE t == Tail(q)
<1>1. q \in Seq(Cell) /\ Len(q) \in Nat /\ DOMAIN q = 1..Len(q) /\ \A i \in 1..Len(q) : q[i] \in Cell
  BY SeqFacts DEF Queue
<1>2. Len(q) >= 1 /\ Head(q) = q[1]
  BY <1>1, SeqFacts
<1>3. t \in Seq(Cell) /\ Len(t) = Len(q) - 1 /\ DOMAIN t = 1..Len(q) - 1 /\ \A i \in 1..Len(q) - 1 : t[i] = q[i + 1]
  BY <1>1, TailFacts, SeqFacts
<1> HIDE DEF t
<1>4. t = << >> <=> Len(q) = 1
  BY <1>1, <1>2, <1>3, SeqFacts
<1>5. q[1] \in Cell /\ q[1].n = from + Step(q[1]) /\ q[1].n <= high /\ (q[1].cmd = "SWITCH" => q[1].rel # 0)
  BY <1>1, <1>2 DEF Queue, Chain
<1>6. Chain(t, q[1].n)
  <2> SUFFICES ASSUME NEW i \in 1..Len(q) - 1
               PROVE  t[i].n = (IF i = 1 THEN q[1].n ELSE t[i - 1].n) + Step(t[i])
    BY <1>3, SMTT(30) DEF Chain
  <2>1. i + 1 \in 1..Len(q) /\ i + 1 # 1 /\ i + 1 - 1 = i /\ (i # 1 => i - 1 \in 1..Len(q) - 1 /\ i - 1 + 1 = i)
    BY <1>1
  <2>2. q[i + 1].n = q[i].n + Step(q[i + 1])
    BY <1>1, <2>1, SMTT(30) DEF Queue, Chain
  <2>3. t[i] = q[i + 1] /\ (i # 1 => t[i - 1] = q[i])
    BY <1>3, <2>1
  <2> QED BY <2>2, <2>3
<1>7. End(t, q[1].n) = to
  <2>1. q[Len(q)].n = to
    BY DEF Queue, End
  <2>2. CASE Len(q) = 1
    BY <1>4, <2>1, <2>2 DEF End
  <2>3. CASE Len(q) # 1
    <3>1. Len(q) - 1 \in 1..Len(q) - 1 /\ Len(q) - 1 + 1 = Len(q)
      BY <1>1, <1>2, <2>3
    <3>2. t[Len(t)] = q[Len(q)]
      BY <1>3, <3>1
    <3> QED BY <1>4, <2>1, <2>3, <3>2 DEF End
  <2> QED BY <2>2, <2>3
<1>8. Rising(t)
  <2> SUFFICES ASSUME NEW i \in 1..Len(q) - 1, NEW j \in 1..Len(q) - 1, i < j, t[j].cmd # "SWITCH"
               PROVE  t[i].n < t[j].n
    BY <1>3 DEF Rising
  <2>1. i + 1 \in 1..Len(q) /\ j + 1 \in 1..Len(q) /\ i + 1 < j + 1
    BY <1>1
  <2> QED BY <1>1, <1>3, <2>1, Zenon DEF Queue, Rising
<1>9. \A i \in 1..Len(q) - 1 : t[i].n <= high /\ (t[i].cmd = "SWITCH" => t[i].rel # 0)
  BY <1>1, <1>3, SMTT(30) DEF Queue
<1>10. Nums(t) \subseteq Nums(q)
  <2> SUFFICES ASSUME NEW x \in Nums(t) PROVE x \in Nums(q)
    OBVIOUS
  <2>1. PICK i \in 1..Len(q) - 1 : t[i].cmd # "SWITCH" /\ x = t[i].n
    BY <1>3 DEF Nums
  <2>2. i + 1 \in 1..Len(q) /\ t[i] = q[i + 1]
    BY <1>1, <1>3
  <2> QED BY <1>1, <2>1, <2>2 DEF Nums
<1>11. q[1].cmd # "SWITCH" => q[1].n \in Nums(q) /\ q[1].n \notin Nums(t)
  <2> SUFFICES ASSUME q[1].cmd # "SWITCH" PROVE q[1].n \in Nums(q) /\ q[1].n \notin Nums(t)
    OBVIOUS
  <2>1. 1 \in 1..Len(q)
    BY <1>1, <1>2
  <2>2. ASSUME NEW i \in 1..Len(q) - 1, t[i].cmd # "SWITCH" PROVE t[i].n # q[1].n
    <3>1. i + 1 \in 1..Len(q) /\ 1 < i + 1 /\ t[i] = q[i + 1]
      BY <1>1, <1>3
    <3>2. q[1].n < q[i + 1].n
      BY <1>1, <2>1, <2>2, <3>1 DEF Queue, Rising
    <3> QED BY <1>1, <2>1, <3>1, <3>2 DEF Cell
  <2> QED BY <1>1, <1>3, <2>1, <2>2, Zenon DEF Nums
<1> QED BY <1>2, <1>3, <1>5, <1>6, <1>7, <1>8, <1>9, <1>10, <1>11 DEF Queue, t

-----------------------------------------------------------------------------
(* The buffer of cells that came early.                                     *)

Buffered == [seqno : Nat, leg : Legs, n : Nat]

-----------------------------------------------------------------------------
(* The inductive invariant, while no error has occurred.                    *)

PathTypes ==
    /\ legs = Legs /\ linked = Legs
    /\ primary_id \in Legs /\ selected_init_primary \in BOOLEAN
    /\ last_seq_sent \in [Legs -> Nat] /\ last_seq_recv \in [Legs -> Nat]
    /\ sent \in 0..MaxCells
    /\ wire \in [Legs -> Seq(Cell)]
    /\ ooo_msgs \subseteq Buffered

\* The primary leg has used the highest number, and no other leg has used it.
PrimaryIsAhead ==
    IF selected_init_primary
      THEN /\ sent > 0 /\ last_seq_sent[primary_id] = sent
           /\ \A l \in Legs : l # primary_id => last_seq_sent[l] < sent
      ELSE sent = 0 /\ \A l \in Legs : last_seq_sent[l] = 0

\* What a leg carries brings its receiver to where its sender is.
Queues == \A l \in Legs : Queue(wire[l], last_seq_recv[l], last_seq_sent[l], sent)

\* A number is on one leg only, and not once more in the buffer or delivered.
Apart ==
    /\ \A l, m \in Legs : l # m => Nums(wire[l]) \cap Nums(wire[m]) = {}
    /\ \A l \in Legs : \A n \in Nums(wire[l]) :
          n > last_seq_delivered /\ \A e \in ooo_msgs : e.seqno # n

\* The buffer holds each number once, as what it is, and none that was delivered.
Buffer ==
    /\ \A e \in ooo_msgs : e.seqno = e.n /\ e.seqno > last_seq_delivered /\ e.seqno <= sent
    /\ \A e, f \in ooo_msgs : e.seqno = f.seqno => e = f

\* What was delivered is 1, 2, 3, ...
Delivered ==
    /\ last_seq_delivered \in Nat /\ last_seq_delivered <= sent
    /\ got = [i \in 1..last_seq_delivered |-> i]

Body == PathTypes /\ PrimaryIsAhead /\ Queues /\ Apart /\ Buffer /\ Delivered

\* A difference too large for a SWITCH needs more cells than a u32 can count.
PInv == \/ fault = "none" /\ Body
        \/ fault = "seqno delta" /\ MaxCells > MaxU32

(* The first state satisfies it.                                            *)
LEMMA PInvInit ==
    ASSUME PathParameters, Init
    PROVE  PInv
<1>1. PathTypes /\ PrimaryIsAhead /\ Buffer /\ fault = "none"
  <2>1. << >> \in Seq(Cell)
    OBVIOUS
  <2>2. wire \in [Legs -> Seq(Cell)] /\ sent \in 0..MaxCells
    BY <2>1 DEF PathParameters, Init
  <2>3. PathTypes
    BY <2>2, Zenon DEF Init, PathTypes
  <2>4. PrimaryIsAhead /\ Buffer /\ fault = "none"
    BY DEF Init, PrimaryIsAhead, Buffer
  <2> QED BY <2>3, <2>4
<1>2. Delivered
  <2>1. got = [i \in 1..0 |-> i]
    BY DEF Init
  <2> QED BY <2>1 DEF Init, Delivered
<1>3. \A l \in Legs : wire[l] = << >> /\ last_seq_recv[l] = 0 /\ last_seq_sent[l] = 0 /\ sent = 0
  BY DEF Init
<1>4. Queue(<< >>, 0, 0, 0) /\ Nums(<< >>) = {}
  <2>1. DOMAIN << >> = {} /\ << >> \in Seq(Cell)
    OBVIOUS
  <2> QED BY <2>1 DEF Queue, Chain, End, Rising, Nums
<1>5. Queues /\ Apart
  BY <1>3, <1>4 DEF Queues, Apart
<1> QED BY <1>1, <1>2, <1>5 DEF PInv, Body

(* A queue stays one when more cells have been sent elsewhere.              *)
LEMMA QueueHigher ==
    ASSUME NEW q, NEW from, NEW to, NEW high \in Nat, NEW top \in Nat, high <= top,
           Queue(q, from, to, high)
    PROVE  Queue(q, from, to, top)
<1>1. q \in Seq(Cell) /\ DOMAIN q = 1..Len(q) /\ \A i \in 1..Len(q) : q[i] \in Cell
  BY SeqFacts DEF Queue
<1>2. \A i \in DOMAIN q : q[i].n \in Nat
  BY <1>1 DEF Cell
<1> QED BY <1>2 DEF Queue

(* Every way of sending a cell that counts: it goes on the leg that is then *)
(* the primary one, after a SWITCH if the leg is behind.                    *)
Sends(l, c, before) ==
    /\ l \in Legs /\ c \in {"DATA", "BEGIN"}
    /\ primary_id' = l /\ selected_init_primary' = TRUE /\ UNCHANGED <<set, receiver, fault>>
    /\ send_relay_cell(l, c, sent, before)
    /\ \/ before = << >> /\ last_seq_sent[l] = sent
       \/ before = << Switch(sent - last_seq_sent[l], sent) >> /\ last_seq_sent[l] < sent

LEMMA SendsPreserves ==
    ASSUME PathParameters, Body, sent < MaxCells, NEW l, NEW c, NEW before, Sends(l, c, before)
    PROVE  Body'
<1> DEFINE cell == Counted(c, sent + 1)
           mid == wire[l] \o before
<1>1. /\ l \in Legs /\ c \in {"DATA", "BEGIN"} /\ sent \in Nat /\ sent' = sent + 1 /\ sent + 1 <= MaxCells
      /\ cell \in Cell /\ cell.cmd # "SWITCH" /\ cell.n = sent + 1
      /\ wire' = [wire EXCEPT ![l] = mid \o << cell >>]
      /\ last_seq_sent' = [last_seq_sent EXCEPT ![l] = sent + 1]
      /\ primary_id' = l /\ selected_init_primary' = TRUE
      /\ legs' = legs /\ linked' = linked /\ last_seq_recv' = last_seq_recv
      /\ last_seq_delivered' = last_seq_delivered /\ ooo_msgs' = ooo_msgs /\ got' = got
  BY DEF PathParameters, Body, PathTypes, Sends, send_relay_cell, set, receiver, Counted, Cell
<1>2. \A m \in Legs : last_seq_sent[m] \in Nat /\ last_seq_recv[m] \in Nat
                       /\ Queue(wire[m], last_seq_recv[m], last_seq_sent[m], sent)
  BY DEF Body, PathTypes, Queues
<1>3. Queue(mid, last_seq_recv[l], sent, sent) /\ Nums(mid) = Nums(wire[l])
  <2>1. CASE before = << >> /\ last_seq_sent[l] = sent
    <3>1. mid = wire[l]
      BY <1>1, <2>1, ConcatEmpty DEF Body, PathTypes
    <3> QED BY <1>1, <1>2, <2>1, <3>1
  <2>2. CASE before = << Switch(sent - last_seq_sent[l], sent) >> /\ last_seq_sent[l] < sent
    <3> DEFINE s == Switch(sent - last_seq_sent[l], sent)
    <3>1. s \in Cell /\ s.cmd = "SWITCH" /\ s.rel # 0 /\ s.n = sent /\ s.n = last_seq_sent[l] + Step(s)
      BY <1>1, <1>2, <2>2 DEF Switch, Cell, Step
    <3> HIDE DEF s
    <3>2. Queue(wire[l] \o << s >>, last_seq_recv[l], s.n, sent) /\ Nums(wire[l] \o << s >>) = Nums(wire[l])
      <4>1. Appendable(wire[l], last_seq_recv[l], last_seq_sent[l], sent, s, sent)
        BY <1>1, <1>2, <3>1 DEF Appendable
      <4>2. /\ Queue(wire[l] \o << s >>, last_seq_recv[l], s.n, sent)
            /\ Nums(wire[l] \o << s >>) = Nums(wire[l]) \cup (IF s.cmd = "SWITCH" THEN {} ELSE {s.n})
        BY <4>1, QueueAppend
      <4> QED BY <3>1, <4>2
    <3> QED BY <2>2, <3>1, <3>2 DEF s
  <2> QED BY <2>1, <2>2 DEF Sends
<1> HIDE DEF mid, cell
<1>4. Queue(mid \o << cell >>, last_seq_recv[l], sent + 1, sent + 1) /\ Nums(mid \o << cell >>) = Nums(wire[l]) \cup {sent + 1}
  <2>1. cell.n = sent + Step(cell) /\ cell.n > sent
    BY <1>1 DEF Step
  <2>2. Appendable(mid, last_seq_recv[l], sent, sent, cell, sent + 1)
    BY <1>1, <1>2, <1>3, <2>1 DEF Appendable
  <2>3. /\ Queue(mid \o << cell >>, last_seq_recv[l], cell.n, sent + 1)
        /\ Nums(mid \o << cell >>) = Nums(mid) \cup (IF cell.cmd = "SWITCH" THEN {} ELSE {cell.n})
    BY <2>2, QueueAppend
  <2> QED BY <1>1, <1>3, <2>3
<1>5. /\ wire'[l] = mid \o << cell >> /\ last_seq_sent'[l] = sent + 1
      /\ \A m \in Legs : m # l => wire'[m] = wire[m] /\ last_seq_sent'[m] = last_seq_sent[m]
  BY <1>1, SMTT(30) DEF Body, PathTypes
<1>6. Queues'
  <2> SUFFICES ASSUME NEW m \in Legs
               PROVE  Queue(wire'[m], last_seq_recv[m], last_seq_sent'[m], sent + 1)
    BY <1>1 DEF Queues
  <2>1. CASE m = l
    <3>1. wire'[m] = mid \o << cell >> /\ last_seq_sent'[m] = sent + 1
      BY <1>5, <2>1
    <3> QED BY <1>4, <2>1, <3>1
  <2>2. CASE m # l
    BY <1>1, <1>2, <1>5, <2>2, QueueHigher
  <2> QED BY <2>1, <2>2
<1>7. PathTypes'
  <2>1. wire' \in [Legs -> Seq(Cell)]
    BY <1>1, <1>4 DEF Body, PathTypes, Queue
  <2>2. last_seq_sent' \in [Legs -> Nat]
    BY <1>1 DEF Body, PathTypes
  <2> QED BY <1>1, <2>1, <2>2 DEF PathParameters, Body, PathTypes
<1>8. PrimaryIsAhead'
  <2>1. \A m \in Legs : last_seq_sent[m] <= sent
    BY <1>1, <1>2 DEF Body, PrimaryIsAhead
  <2>2. last_seq_sent'[l] = sent + 1
    BY <1>1, <1>5
  <2>3. \A m \in Legs : m # l => last_seq_sent'[m] < sent + 1
    BY <1>1, <1>2, <1>5, <2>1
  <2> QED BY <1>1, <2>2, <2>3 DEF PrimaryIsAhead
<1>9. \A m \in Legs : Nums(wire'[m]) = IF m = l THEN Nums(wire[l]) \cup {sent + 1} ELSE Nums(wire[m])
  <2> TAKE m \in Legs
  <2>1. CASE m = l
    <3>1. wire'[m] = mid \o << cell >>
      BY <1>5, <2>1
    <3> QED BY <1>4, <2>1, <3>1
  <2>2. CASE m # l
    BY <1>5, <2>2
  <2> QED BY <2>1, <2>2
<1>10. \A m \in Legs : \A n \in Nums(wire[m]) : n <= sent /\ n \in Nat
  <2> SUFFICES ASSUME NEW m \in Legs, NEW i \in DOMAIN wire[m] PROVE wire[m][i].n <= sent /\ wire[m][i].n \in Nat
    BY DEF Nums
  <2>1. wire[m][i] \in Cell
    BY <1>2, SeqFacts DEF Queue
  <2> QED BY <1>2, <2>1 DEF Queue, Cell
<1>11. \A e \in ooo_msgs : e.seqno \in Nat /\ e.seqno <= sent
  BY DEF Body, PathTypes, Buffer, Buffered
<1>12. Apart'
  <2>1. ASSUME NEW m \in Legs, NEW k \in Legs, m # k PROVE Nums(wire'[m]) \cap Nums(wire'[k]) = {}
    <3>1. Nums(wire[m]) \cap Nums(wire[k]) = {}
      BY <2>1 DEF Body, Apart
    <3>2. sent + 1 \notin Nums(wire[m]) /\ sent + 1 \notin Nums(wire[k])
      BY <1>1, <1>10
    <3> QED BY <1>9, <2>1, <3>1, <3>2
  <2>2. ASSUME NEW m \in Legs, NEW n \in Nums(wire'[m])
        PROVE  n > last_seq_delivered /\ \A e \in ooo_msgs : e.seqno # n
    <3>1. CASE n \in Nums(wire[m])
      BY <3>1 DEF Body, Apart
    <3>2. CASE n = sent + 1
      BY <1>1, <1>11, <3>2 DEF Body, Delivered
    <3> QED BY <1>9, <2>2, <3>1, <3>2
  <2> QED BY <1>1, <2>1, <2>2, Zenon DEF Apart
<1>13. Buffer' /\ Delivered'
  BY <1>1, <1>11 DEF Body, Buffer, Delivered
<1> QED BY <1>6, <1>7, <1>8, <1>12, <1>13 DEF Body

(* A multiplexed cell, whichever leg is chosen for it.                      *)
LEMMA MultiplexStep ==
    ASSUME PathParameters, Body, fault = "none", sent < MaxCells, NEW c \in {"DATA", "BEGIN"},
           multiplex(c), UNCHANGED <<set, receiver>>
    PROVE  PInv'
<1>1. /\ legs = Legs /\ linked = Legs /\ primary_id \in Legs /\ selected_init_primary \in BOOLEAN
      /\ sent \in Nat /\ last_seq_sent \in [Legs -> Nat] /\ MaxU32 \in Nat /\ MaxCells \in Nat
  BY DEF PathParameters, Body, PathTypes
<1>2. ~no_rtt
  BY <1>1 DEF no_rtt, Candidates
<1>3. PICK new \in select_primary_leg : send_relay_cell_on_leg(c, new)
  BY <1>2 DEF multiplex
<1>4. new \in Legs /\ legs \cap linked # {} /\ init_primary_selected
  BY <1>1 DEF select_primary_leg, Candidates, init_primary_selected
<1>5. /\ primary_id' = new /\ selected_init_primary' = init_primary_selected
      /\ selected_init_primary' \in BOOLEAN
  BY <1>1, <1>3, Zenon DEF send_relay_cell_on_leg, init_primary_selected
<1>6. selected_init_primary' = TRUE
  BY <1>4, <1>5
<1>7. CASE bad_delta(new)
  <2>1. fault' = "seqno delta"
    BY <1>3, <1>7, Zenon DEF send_relay_cell_on_leg
  <2>2. last_seq_sent[primary_id] = sent /\ last_seq_sent[new] \in Nat /\ last_seq_sent[new] < sent
    BY <1>1, <1>4, <1>7 DEF bad_delta, switches, Body, PrimaryIsAhead
  <2>3. MaxCells > MaxU32
    BY <1>1, <1>7, <2>2 DEF bad_delta, seqno_delta
  <2> QED BY <2>1, <2>3, Zenon DEF PInv
<1>8. CASE ~bad_delta(new)
  <2> DEFINE before == IF switches(new) THEN << Switch(seqno_delta(new), last_seq_sent[primary_id]) >> ELSE << >>
  <2>1. send_relay_cell(new, c, carried_over(new), before) /\ fault' = "none"
    BY <1>1, <1>3, <1>4, <1>8 DEF send_relay_cell_on_leg
  <2>2. CASE switches(new)
    <3>1. last_seq_sent[primary_id] = sent /\ last_seq_sent[new] < sent
      BY <1>4, <2>2 DEF switches, Body, PrimaryIsAhead
    <3>2. carried_over(new) = sent /\ before = << Switch(sent - last_seq_sent[new], sent) >>
      BY <2>2, <3>1 DEF carried_over, seqno_delta
    <3>3. Sends(new, c, << Switch(sent - last_seq_sent[new], sent) >>)
      BY <1>4, <1>5, <1>6, <2>1, <3>1, <3>2 DEF Sends
    <3> QED BY <2>1, <3>3, SendsPreserves DEF PInv
  <2>3. CASE ~switches(new)
    <3>1. last_seq_sent[new] = sent
      BY <1>1, <1>4, <2>3 DEF switches, Body, PrimaryIsAhead
    <3>2. carried_over(new) = sent /\ before = << >>
      BY <2>3, <3>1 DEF carried_over
    <3>3. Sends(new, c, << >>)
      BY <1>4, <1>5, <1>6, <2>1, <3>1, <3>2 DEF Sends
    <3> QED BY <2>1, <3>3, SendsPreserves DEF PInv
  <2> QED BY <2>2, <2>3
<1> QED BY <1>7, <1>8

(* The other ways to send, and what does not touch the counters.            *)
LEMMA SenderStep ==
    ASSUME PathParameters, Body, fault = "none",
           send_data \/ send_control \/ send_on_primary \/ close_stream \/ \E l \in Legs : handle_sendme(l)
    PROVE  PInv'
<1>1. CASE send_data
  BY <1>1, MultiplexStep DEF send_data
<1>2. CASE send_control
  BY <1>2, MultiplexStep DEF send_control
<1>3. ASSUME sent > 0, sent < MaxCells, send_relay_cell(primary_id, "BEGIN", last_seq_sent[primary_id], << >>),
             UNCHANGED <<set, primary_id, selected_init_primary, receiver, fault>>
      PROVE  PInv'
  <2>1. primary_id \in Legs /\ sent \in Nat /\ selected_init_primary \in BOOLEAN
    BY DEF Body, PathTypes
  <2>2. selected_init_primary = TRUE /\ last_seq_sent[primary_id] = sent
    BY <1>3, <2>1 DEF Body, PrimaryIsAhead
  <2>3. Sends(primary_id, "BEGIN", << >>)
    BY <1>3, <2>1, <2>2 DEF Sends
  <2> QED BY <1>3, <2>3, SendsPreserves DEF PInv
<1>4. CASE send_on_primary
  BY <1>3, <1>4 DEF send_on_primary
<1>5. CASE close_stream
  BY <1>3, <1>5 DEF close_stream, PathParameters
<1>6. CASE \E l \in Legs : handle_sendme(l)
  BY <1>6 DEF handle_sendme, PInv, Body, PathTypes, PrimaryIsAhead, Queues, Apart, Buffer, Delivered, set, receiver
<1> QED BY <1>1, <1>2, <1>4, <1>5, <1>6

(* A SWITCH brings the receiver of its leg to the number it was sent with.  *)
LEMMA SwitchStep ==
    ASSUME PathParameters, Body, fault = "none", NEW l \in Legs, handle_conflux_switch(l)
    PROVE  PInv'
<1> DEFINE h == Head(wire[l])
<1>1. /\ \A m \in Legs : last_seq_recv[m] \in Nat /\ last_seq_sent[m] \in Nat
      /\ sent \in Nat /\ wire[l] # << >> /\ wire \in [Legs -> Seq(Cell)] /\ last_seq_recv \in [Legs -> Nat]
      /\ Queue(wire[l], last_seq_recv[l], last_seq_sent[l], sent)
  <2>1. wire[l] # << >>
    BY Zenon DEF handle_conflux_switch
  <2> QED BY <2>1 DEF Body, PathTypes, Queues
<1>2. /\ h \in Cell /\ h.n = last_seq_recv[l] + Step(h) /\ h.cmd = "SWITCH" /\ h.rel # 0
      /\ Queue(Tail(wire[l]), h.n, last_seq_sent[l], sent)
      /\ Nums(Tail(wire[l])) \subseteq Nums(wire[l])
  BY <1>1, QueueTail, Zenon DEF handle_conflux_switch
<1>3. /\ wire' = [wire EXCEPT ![l] = Tail(wire[l])]
      /\ last_seq_recv' = [last_seq_recv EXCEPT ![l] = h.n] /\ h.n \in Nat
      /\ fault' = "none" /\ UNCHANGED <<set, sender, last_seq_delivered, ooo_msgs, got>>
  BY <1>1, <1>2 DEF handle_conflux_switch, Step, Cell
<1>4. \A m \in Legs : Nums(wire'[m]) \subseteq Nums(wire[m])
  <2> TAKE m \in Legs
  <2>1. CASE m = l
    <3>1. wire'[m] = Tail(wire[l])
      BY <1>1, <1>3, <2>1
    <3> QED BY <1>2, <2>1, <3>1
  <2>2. CASE m # l
    <3>1. wire'[m] = wire[m]
      BY <1>1, <1>3, <2>2
    <3> QED BY <3>1
  <2> QED BY <2>1, <2>2
<1>5. Queues'
  <2> SUFFICES ASSUME NEW m \in Legs PROVE Queue(wire'[m], last_seq_recv'[m], last_seq_sent[m], sent)
    BY <1>3 DEF Queues, sender
  <2>1. CASE m = l
    <3>1. wire'[m] = Tail(wire[l]) /\ last_seq_recv'[m] = h.n
      BY <1>1, <1>3, <2>1
    <3> QED BY <1>2, <2>1, <3>1
  <2>2. CASE m # l
    BY <1>1, <1>3, <2>2 DEF Body, Queues
  <2> QED BY <2>1, <2>2
<1>6. PathTypes'
  <2>1. Tail(wire[l]) \in Seq(Cell)
    BY <1>2 DEF Queue
  <2> QED BY <1>1, <1>3, <2>1, SMTT(30) DEF Body, PathTypes, set, sender
<1>7. PrimaryIsAhead' /\ Buffer' /\ Delivered'
  BY <1>3 DEF Body, PrimaryIsAhead, Buffer, Delivered, sender
<1>8. Apart'
  BY <1>3, <1>4, Zenon DEF Body, Apart
<1> QED BY <1>3, <1>5, <1>6, <1>7, <1>8 DEF PInv, Body

-----------------------------------------------------------------------------
(* A cell that counts arrives: what is known of it and of what follows it.  *)

Arrives(l, n) ==
    /\ l \in Legs /\ wire[l] # << >> /\ Head(wire[l]).cmd # "SWITCH"
    /\ n = Head(wire[l]).n /\ n \in Nat /\ n = last_seq_recv[l] + 1
    /\ n > last_seq_delivered /\ n <= sent
    /\ \A e \in ooo_msgs : e.seqno # n

LEMMA Arrival ==
    ASSUME PathParameters, Body, NEW l \in Legs, wire[l] # << >>, Head(wire[l]).cmd # "SWITCH",
           wire' = [wire EXCEPT ![l] = Tail(@)],
           last_seq_recv' = [last_seq_recv EXCEPT ![l] = last_seq_recv[l] + 1]
    PROVE  /\ Arrives(l, Head(wire[l]).n)
           /\ wire' \in [Legs -> Seq(Cell)] /\ last_seq_recv' \in [Legs -> Nat]
           /\ \A m \in Legs : Queue(wire'[m], last_seq_recv'[m], last_seq_sent[m], sent)
           /\ \A m \in Legs : Nums(wire'[m]) \subseteq Nums(wire[m]) \ {Head(wire[l]).n}
<1> DEFINE h == Head(wire[l])
<1>1. /\ \A m \in Legs : last_seq_recv[m] \in Nat /\ last_seq_sent[m] \in Nat
      /\ sent \in Nat /\ wire \in [Legs -> Seq(Cell)] /\ last_seq_recv \in [Legs -> Nat]
      /\ Queue(wire[l], last_seq_recv[l], last_seq_sent[l], sent)
  BY DEF Body, PathTypes, Queues
<1>2. /\ h \in Cell /\ h.n = last_seq_recv[l] + Step(h)
      /\ Queue(Tail(wire[l]), h.n, last_seq_sent[l], sent)
      /\ Nums(Tail(wire[l])) \subseteq Nums(wire[l])
      /\ h.n \in Nums(wire[l]) /\ h.n \notin Nums(Tail(wire[l])) /\ h.n <= sent
  BY <1>1, QueueTail, Zenon
<1>3. h.n = last_seq_recv[l] + 1 /\ h.n \in Nat
  BY <1>1, <1>2 DEF Step
<1>4. Arrives(l, h.n)
  BY <1>2, <1>3 DEF Arrives, Body, Apart
<1>5. /\ wire'[l] = Tail(wire[l]) /\ last_seq_recv'[l] = h.n
      /\ \A m \in Legs : m # l => wire'[m] = wire[m] /\ last_seq_recv'[m] = last_seq_recv[m]
  BY <1>1, <1>3
<1>6. wire' \in [Legs -> Seq(Cell)] /\ last_seq_recv' \in [Legs -> Nat]
  <2>1. Tail(wire[l]) \in Seq(Cell)
    BY <1>2 DEF Queue
  <2> QED BY <1>1, <1>3, <2>1
<1>7. ASSUME NEW m \in Legs PROVE Queue(wire'[m], last_seq_recv'[m], last_seq_sent[m], sent)
  <2>1. CASE m = l
    <3>1. wire'[m] = Tail(wire[l]) /\ last_seq_recv'[m] = h.n
      BY <1>5, <2>1
    <3> QED BY <1>2, <2>1, <3>1
  <2>2. CASE m # l
    BY <1>5, <2>2 DEF Body, Queues
  <2> QED BY <2>1, <2>2
<1>8. ASSUME NEW m \in Legs PROVE Nums(wire'[m]) \subseteq Nums(wire[m]) \ {h.n}
  <2>1. CASE m = l
    <3>1. wire'[m] = Tail(wire[l])
      BY <1>5, <2>1
    <3> QED BY <1>2, <2>1, <3>1
  <2>2. CASE m # l
    <3>1. wire'[m] = wire[m]
      BY <1>5, <2>2
    <3>2. Nums(wire[m]) \cap Nums(wire[l]) = {}
      BY <2>2, ZenonT(30) DEF Body, Apart
    <3> QED BY <1>2, <3>1, <3>2
  <2> QED BY <2>1, <2>2
<1> QED BY <1>4, <1>6, <1>7, <1>8

(* The cell and the row of buffered ones behind it are delivered.           *)
Delivers(n, k) ==
    /\ n = last_seq_delivered + 1 /\ k \in Nat
    /\ \A i \in 1..k : \E e \in ooo_msgs : e.seqno = n + i
    /\ last_seq_delivered' = n + k
    /\ ooo_msgs' = {e \in ooo_msgs : e.seqno \notin n + 1..n + k}
    /\ got' = [i \in 1..n + k |-> i]

LEMMA DeliverStep ==
    ASSUME PathParameters, Body, NEW l, NEW n, NEW k, Arrives(l, n), Delivers(n, k),
           wire' \in [Legs -> Seq(Cell)], last_seq_recv' \in [Legs -> Nat],
           \A m \in Legs : Queue(wire'[m], last_seq_recv'[m], last_seq_sent[m], sent),
           \A m \in Legs : Nums(wire'[m]) \subseteq Nums(wire[m]) \ {n},
           UNCHANGED <<set, sender>>
    PROVE  Body' /\ n + k <= sent
<1>1. /\ ooo_msgs \subseteq Buffered /\ sent \in Nat /\ n \in Nat /\ k \in Nat
      /\ \A e \in ooo_msgs : e.seqno \in Nat /\ e.seqno # n
      /\ last_seq_delivered \in Nat /\ n = last_seq_delivered + 1 /\ n <= sent
  <2>1. ooo_msgs \subseteq Buffered /\ sent \in Nat
    BY DEF Body, PathTypes
  <2>2. \A e \in ooo_msgs : e.seqno \in Nat
    BY <2>1 DEF Buffered
  <2>3. last_seq_delivered \in Nat /\ n = last_seq_delivered + 1 /\ k \in Nat
    BY DEF Body, Delivered, Delivers
  <2>4. n <= sent /\ \A e \in ooo_msgs : e.seqno # n
    BY DEF Arrives
  <2> QED BY <2>1, <2>2, <2>3, <2>4
<1>2. \A i \in 1..k : \E e \in ooo_msgs : e.seqno = n + i
  BY DEF Delivers
<1>3. n + k <= sent
  <2>1. CASE k = 0
    BY <1>1, <2>1, SMTT(30)
  <2>2. CASE k # 0
    <3>1. k \in 1..k
      BY <1>1, <2>2
    <3>2. PICK e \in ooo_msgs : e.seqno = n + k
      BY <1>2, <3>1, SMTT(30)
    <3> QED BY <3>2 DEF Body, Buffer
  <2> QED BY <2>1, <2>2
<1>4. ASSUME NEW x \in Nat, x > last_seq_delivered, x # n, \A e \in ooo_msgs : e.seqno # x PROVE x > n + k
  <2> SUFFICES ASSUME x <= n + k PROVE FALSE
    BY <1>1
  <2>1. x - n \in 1..k /\ n + (x - n) = x
    BY <1>1, <1>4, SMTT(30)
  <2>2. PICK e \in ooo_msgs : e.seqno = n + (x - n)
    BY <1>2, <2>1
  <2> QED BY <1>4, <2>1, <2>2
<1>5. /\ ooo_msgs' \subseteq ooo_msgs /\ \A e \in ooo_msgs' : e.seqno \notin n + 1..n + k
      /\ last_seq_delivered' = n + k /\ sent' = sent
  BY SMTT(30) DEF Delivers, sender
<1>6. Buffer'
  <2>1. ASSUME NEW e \in ooo_msgs' PROVE e.seqno > n + k
    BY <1>1, <1>5, <2>1, SMTT(30) DEF Body, Buffer
  <2> QED BY <1>5, <2>1 DEF Body, Buffer
<1>7. Apart'
  <2>1. \A m, p \in Legs : m # p => Nums(wire'[m]) \cap Nums(wire'[p]) = {}
    BY Zenon DEF Body, Apart
  <2>2. ASSUME NEW m \in Legs, NEW x \in Nums(wire'[m])
        PROVE  x > n + k /\ \A e \in ooo_msgs : e.seqno # x
    <3>1. x \in Nums(wire[m]) /\ x # n
      BY <2>2
    <3>2. x > last_seq_delivered /\ \A e \in ooo_msgs : e.seqno # x
      BY <3>1, ZenonT(30) DEF Body, Apart
    <3>3. x \in Nat
      <4>1. PICK i \in DOMAIN wire[m] : x = wire[m][i].n
        BY <3>1 DEF Nums
      <4>2. wire[m] \in Seq(Cell)
        BY SMTT(30) DEF Body, PathTypes
      <4>3. wire[m][i] \in Cell
        BY <4>1, <4>2, SeqFacts, SMTT(30)
      <4> QED BY <4>1, <4>3, SMTT(30) DEF Cell
    <3> QED BY <1>4, <3>1, <3>2, <3>3, SMTT(30)
  <2> QED BY <1>5, <2>1, <2>2 DEF Apart
<1>8. Delivered'
  BY <1>1, <1>3, SMTT(30) DEF Delivers, Delivered, sender
<1>9. Queues' /\ PrimaryIsAhead'
  BY DEF Body, Queues, PrimaryIsAhead, sender
<1>10. PathTypes'
  BY <1>1, <1>5, SMTT(30) DEF Body, PathTypes, Delivers, set, sender
<1> QED BY <1>3, <1>6, <1>7, <1>8, <1>9, <1>10, SMTT(30) DEF Body

(* The cell is early: it waits in the buffer.                               *)
LEMMA EnqueueStep ==
    ASSUME PathParameters, Body, NEW l, NEW n, Arrives(l, n), n # last_seq_delivered + 1,
           ooo_msgs' = ooo_msgs \cup {[seqno |-> n, leg |-> l, n |-> n]},
           wire' \in [Legs -> Seq(Cell)], last_seq_recv' \in [Legs -> Nat],
           \A m \in Legs : Queue(wire'[m], last_seq_recv'[m], last_seq_sent[m], sent),
           \A m \in Legs : Nums(wire'[m]) \subseteq Nums(wire[m]) \ {n},
           UNCHANGED <<set, sender, last_seq_delivered, got>>
    PROVE  Body'
<1> DEFINE e0 == [seqno |-> n, leg |-> l, n |-> n]
<1>1. e0 \in Buffered /\ e0.seqno = n /\ e0.n = n
  BY SMTT(30) DEF Arrives, Buffered
<1>2. ooo_msgs' = ooo_msgs \cup {e0} /\ sent' = sent /\ last_seq_delivered' = last_seq_delivered
  BY SMTT(30) DEF sender
<1> HIDE DEF e0
<1>3. Buffer'
  BY <1>1, <1>2 DEF Body, Buffer, Arrives
<1>4. Apart'
  <2>1. \A m, p \in Legs : m # p => Nums(wire'[m]) \cap Nums(wire'[p]) = {}
    BY Zenon DEF Body, Apart
  <2>2. ASSUME NEW m \in Legs, NEW x \in Nums(wire'[m])
        PROVE  x > last_seq_delivered /\ \A e \in ooo_msgs' : e.seqno # x
    <3>1. x \in Nums(wire[m]) /\ x # n
      BY <2>2, SMTT(30)
    <3> QED BY <1>1, <1>2, <3>1, ZenonT(30) DEF Body, Apart
  <2> QED BY <1>2, <2>1, <2>2, Zenon DEF Apart
<1>5. Delivered' /\ Queues' /\ PrimaryIsAhead'
  BY DEF Body, Delivered, Queues, PrimaryIsAhead, sender
<1>6. PathTypes'
  BY <1>1, <1>2 DEF Body, PathTypes, set, sender
<1> QED BY <1>3, <1>4, <1>5, <1>6, SMTT(30) DEF Body

(* handle_relay_msg either delivers or enqueues.                            *)
Enqueues(l, n) ==
    /\ n # last_seq_delivered + 1
    /\ ooo_msgs' = ooo_msgs \cup {[seqno |-> n, leg |-> l, n |-> n]}
    /\ UNCHANGED <<last_seq_delivered, got>>
Taken(l, n) ==
    /\ Arrives(l, n) /\ fault' = "none" /\ UNCHANGED <<set, sender>>
    /\ wire' \in [Legs -> Seq(Cell)] /\ last_seq_recv' \in [Legs -> Nat]
    /\ \A m \in Legs : Queue(wire'[m], last_seq_recv'[m], last_seq_sent[m], sent)
    /\ \A m \in Legs : Nums(wire'[m]) \subseteq Nums(wire[m]) \ {n}
    /\ Enqueues(l, n) \/ \E k : Delivers(n, k)

LEMMA MsgCases ==
    ASSUME PathParameters, Body, fault = "none", NEW l \in Legs, handle_relay_msg(l)
    PROVE  Taken(l, Head(wire[l]).n)
<1> DEFINE n == Head(wire[l]).n
           seqno == last_seq_recv[l] + 1
<1>1. /\ wire[l] # << >> /\ Head(wire[l]).cmd # "SWITCH" /\ UNCHANGED <<set, sender>>
      /\ wire' = [wire EXCEPT ![l] = Tail(@)]
      /\ last_seq_recv' = [last_seq_recv EXCEPT ![l] = last_seq_recv[l] + 1]
  BY Zenon DEF handle_relay_msg
<1>2. /\ Arrives(l, n)
      /\ wire' \in [Legs -> Seq(Cell)] /\ last_seq_recv' \in [Legs -> Nat]
      /\ \A m \in Legs : Queue(wire'[m], last_seq_recv'[m], last_seq_sent[m], sent)
      /\ \A m \in Legs : Nums(wire'[m]) \subseteq Nums(wire[m]) \ {n}
  BY <1>1, Arrival, Zenon
<1>3. /\ n = seqno /\ n \in Nat /\ n > last_seq_delivered /\ last_seq_delivered \in Nat /\ n <= sent /\ sent \in Nat
      /\ \A e \in ooo_msgs : e.seqno \in Nat /\ e.n = e.seqno /\ e.seqno <= sent /\ e.leg \in legs
  <2>1. n = seqno /\ n \in Nat /\ n > last_seq_delivered /\ n <= sent
    BY <1>2, Zenon DEF Arrives
  <2>2. last_seq_delivered \in Nat /\ sent \in Nat /\ ooo_msgs \subseteq Buffered /\ legs = Legs
    BY DEF Body, Delivered, PathTypes
  <2>3. \A e \in ooo_msgs : e.seqno \in Nat /\ e.leg \in legs
    BY <2>2 DEF Buffered
  <2>4. \A e \in ooo_msgs : e.n = e.seqno /\ e.seqno <= sent
    BY DEF Body, Buffer
  <2> HIDE DEF n, seqno
  <2> QED BY <2>1, <2>2, <2>3, <2>4
<1>4. \/ seqno <= last_seq_delivered
      \/ /\ is_msg_in_order(seqno)
         /\ \E to \in {seqno} \cup {e.seqno : e \in ooo_msgs} :
              /\ dequeued(seqno, to)
              /\ last_seq_delivered' = to
              /\ got' = Append(got, n) \o [i \in 1..to - seqno |-> at_seqno(seqno + i).n]
              /\ ooo_msgs' = {e \in ooo_msgs : e.seqno \notin seqno + 1..to}
              /\ fault' = IF \E e \in ooo_msgs : e.seqno = to + 1 /\ e.leg \notin legs
                            THEN "no such leg" ELSE fault
      \/ /\ ~is_msg_in_order(seqno)
         /\ ooo_msgs' = ooo_msgs \cup {[seqno |-> seqno, leg |-> l, n |-> n]}
         /\ UNCHANGED <<last_seq_delivered, got, fault>>
  BY Zenon DEF handle_relay_msg
<1>5. got = CountTo(last_seq_delivered)
  BY SMTT(30) DEF Body, Delivered, CountTo
<1> SUFFICES Taken(l, n)
  BY SMTT(30)
<1> HIDE DEF n, seqno
<1>6. ASSUME is_msg_in_order(seqno), NEW to \in {seqno} \cup {e.seqno : e \in ooo_msgs}, dequeued(seqno, to),
             last_seq_delivered' = to,
             got' = Append(got, n) \o [i \in 1..to - seqno |-> at_seqno(seqno + i).n],
             ooo_msgs' = {e \in ooo_msgs : e.seqno \notin seqno + 1..to},
             fault' = IF \E e \in ooo_msgs : e.seqno = to + 1 /\ e.leg \notin legs THEN "no such leg" ELSE fault
      PROVE  Taken(l, n)
  <2> DEFINE k == to - n
  <2>1. n = last_seq_delivered + 1 /\ to \in Nat /\ to >= n
    BY <1>3, <1>6, Zenon DEF is_msg_in_order, dequeued
  <2>2. k \in Nat /\ n + k = to
    BY <1>3, <2>1
  <2> HIDE DEF k
  <2>3. ASSUME NEW i \in 1..k PROVE \E e \in ooo_msgs : e.seqno = n + i
    <3>1. n + i \in seqno + 1..to
      BY <1>3, <2>2
    <3> QED BY <1>6, <3>1, Zenon DEF dequeued
  <2>4. ASSUME NEW i \in 1..k PROVE at_seqno(seqno + i).n = n + i
    <3>1. at_seqno(seqno + i) \in ooo_msgs /\ at_seqno(seqno + i).seqno = n + i
      BY <1>3, <2>3 DEF at_seqno
    <3> QED BY <1>3, <3>1
  <2>5. [i \in 1..to - seqno |-> at_seqno(seqno + i).n] = [i \in 1..k |-> n + i]
    BY <1>3, <2>4 DEF k
  <2>6. Append(got, n) = CountTo(n)
    BY <1>3, <1>5, <2>1, CountOn, Zenon
  <2>7. got' = CountTo(n) \o [i \in 1..k |-> n + i]
    BY <1>6, <2>5, <2>6, Zenon
  <2>8. got' = CountTo(n + k)
    BY <1>3, <2>2, <2>7, CountOn, ZenonT(30)
  <2>9. Delivers(n, k)
    BY <1>3, <1>6, <2>1, <2>2, <2>3, <2>8, ZenonT(30) DEF Delivers, CountTo
  <2>10. fault' = "none"
    BY <1>3, <1>6, Zenon
  <2> QED BY <1>1, <1>2, <2>9, <2>10, SMTT(30) DEF Taken
<1>7. CASE ~is_msg_in_order(seqno) /\ ooo_msgs' = ooo_msgs \cup {[seqno |-> seqno, leg |-> l, n |-> n]}
            /\ UNCHANGED <<last_seq_delivered, got, fault>>
  <2>1. n # last_seq_delivered + 1
    BY <1>3, <1>7 DEF is_msg_in_order
  <2>2. Enqueues(l, n)
    BY <1>3, <1>7, <2>1 DEF Enqueues
  <2>3. fault' = "none"
    BY <1>7
  <2> QED BY <1>1, <1>2, <2>2, <2>3 DEF Taken
<1>8. ~(seqno <= last_seq_delivered)
  BY <1>3
<1> QED BY <1>4, <1>6, <1>7, <1>8, Zenon

LEMMA MsgStep ==
    ASSUME PathParameters, Body, fault = "none", NEW l \in Legs, handle_relay_msg(l)
    PROVE  PInv'
<1>1. PICK n : Taken(l, n)
  BY MsgCases
<1>2. CASE Enqueues(l, n)
  <2>1. UNCHANGED <<set, sender, last_seq_delivered, got>>
    BY <1>1, <1>2, SMTT(30) DEF Taken, Enqueues
  <2>2. Body'
    BY <1>1, <1>2, <2>1, EnqueueStep, SMTT(30) DEF Taken, Enqueues
  <2> QED BY <1>1, <2>2, ZenonT(30) DEF Taken, PInv
<1>3. CASE \E k : Delivers(n, k)
  <2>1. PICK k : Delivers(n, k)
    BY <1>3
  <2>2. Body'
    BY <1>1, <2>1, DeliverStep, Zenon DEF Taken
  <2> QED BY <1>1, <2>2 DEF Taken, PInv
<1> QED BY <1>1, <1>2, <1>3, Zenon DEF Taken

(* Every step keeps the invariant.                                          *)
LEMMA PInvStep ==
    ASSUME PathParameters, PInv, [Next]_vars
    PROVE  PInv'
<1>1. CASE Next
  <2>1. fault = "none"
    BY <1>1, Zenon DEF Next, send_data, send_control, send_on_primary, close_stream, handle_sendme,
                handle_conflux_switch, handle_relay_msg
  <2>2. Body
    BY <2>1 DEF PInv
  <2> QED BY <1>1, <2>1, <2>2, SenderStep, SwitchStep, MsgStep DEF Next
<1>2. CASE UNCHANGED vars
  BY <1>2, Zenon DEF vars, set, sender, receiver, PInv, Body, PathTypes, PrimaryIsAhead, Queues, Apart, Buffer, Delivered
<1> QED BY <1>1, <1>2

-----------------------------------------------------------------------------
(* The legs' counters, the queues and the buffer are always as PInv says.   *)
THEOREM PathInvariant == ASSUME PathParameters PROVE Spec => []PInv
<1>1. Init => PInv
  BY PInvInit
<1>2. PInv /\ [Next]_vars => PInv'
  BY PInvStep
<1> QED BY <1>1, <1>2, PTL DEF Spec

(* No end runs into an error of its own making, and the receiver works out  *)
(* the number that the sender meant for every cell (action_for_msg,         *)
(* handle_conflux_switch, maybe_update_primary_leg), as long as the cells   *)
(* can be counted in a u32.                                                 *)
THEOREM SeqnosStayInStep ==
    ASSUME PathParameters, MaxCells <= MaxU32
    PROVE  Spec => [](NoFault /\ SeqnosAgree)
<1>1. PInv => NoFault /\ SeqnosAgree
  <2> SUFFICES ASSUME PInv PROVE NoFault /\ SeqnosAgree
    OBVIOUS
  <2>0. ~(MaxCells > MaxU32)
    BY DEF PathParameters
  <2>1. fault = "none" /\ Body
    BY <2>0, ZenonT(30) DEF PInv
  <2>2. ASSUME NEW l \in Legs, NEW i \in DOMAIN wire[l]
        PROVE  wire[l][i].n = Before(l, i) + (IF wire[l][i].cmd = "SWITCH" THEN wire[l][i].rel ELSE 1)
    <3>1. Chain(wire[l], last_seq_recv[l])
      BY <2>1, <2>2 DEF Body, Queues, Queue
    <3> QED BY <2>2, <3>1, SMTT(30) DEF Chain, Before, Step
  <2> QED BY <2>1, <2>2 DEF NoFault, SeqnosAgree, Body, Buffer
<1> QED BY <1>1, PathInvariant, PTL

-----------------------------------------------------------------------------
(* Congestion windows: send_data goes on a leg with room.                   *)

CwndParameters ==
    /\ HighThroughput = TRUE
    /\ Cwnd \in Nat \ {0} /\ SendmeInc \in Nat

CInv ==
    /\ inflight \in [Legs -> Int]
    /\ \A l \in Legs : inflight[l] <= Cwnd
    /\ ~selected_init_primary => \A l \in Legs : inflight[l] <= 0

(* A multiplexed DATA cell goes on a leg with room.                         *)
LEMMA RoomOnSelected ==
    ASSUME CwndParameters, CInv, legs = Legs, linked = Legs, primary_id \in Legs, polling_legs # {},
           NEW new \in select_primary_leg
    PROVE  new \in Legs /\ inflight[new] < Cwnd
<1>1. PICK p \in Legs : inflight[p] < Cwnd
  BY DEF polling_legs, can_send
<1>2. CASE ~selected_init_primary
  <2>1. new \in Legs
    BY <1>2 DEF select_primary_leg
  <2>2. Cwnd > 0
    BY DEF CwndParameters
  <2> QED BY <1>2, <2>1, <2>2 DEF CInv, CwndParameters
<1>3. CASE selected_init_primary
  <2>1. p \in Candidates /\ \A l \in Candidates : l \in Legs /\ inflight[l] < Cwnd
    BY <1>1 DEF Candidates, can_send, CwndParameters
  <2>2. CASE few_legs
    <3>1. new = primary_id
      BY <1>3, <2>2 DEF select_primary_leg
    <3> QED BY <1>1, <2>2, <3>1 DEF few_legs
  <2>3. CASE ~few_legs
    BY <1>3, <2>1, <2>3 DEF select_primary_leg
  <2> QED BY <2>2, <2>3
<1> QED BY <1>2, <1>3

(* Every step keeps the windows.                                            *)
LEMMA CInvStep ==
    ASSUME PathParameters, CwndParameters, PInv, CInv, [Next]_vars
    PROVE  CInv'
<1>1. ASSUME NEW l \in Legs, NEW x \in Int, x <= Cwnd, inflight' = [inflight EXCEPT ![l] = x],
             selected_init_primary' = TRUE
      PROVE  CInv'
  BY <1>1 DEF CInv
<1>2. ASSUME inflight' = inflight,
             selected_init_primary' = selected_init_primary \/ selected_init_primary' = TRUE
      PROVE  CInv'
  BY <1>2 DEF CInv
<1>3. \A l \in Legs : inflight[l] \in Int /\ [inflight EXCEPT ![l] = inflight[l]] = inflight
  BY DEF CInv
<1>4. ASSUME Next PROVE fault = "none" /\ legs = Legs /\ linked = Legs /\ primary_id \in Legs
  <2>1. fault = "none"
    BY <1>4, Zenon DEF Next, send_data, send_control, send_on_primary, close_stream, handle_sendme,
                handle_conflux_switch, handle_relay_msg
  <2>2. Body
    BY <2>1 DEF PInv
  <2> QED BY <2>1, <2>2 DEF Body, PathTypes
<1>5. ASSUME NEW c, multiplex(c), fault = "none", legs = Legs, linked = Legs, primary_id \in Legs
      PROVE  /\ selected_init_primary' = TRUE
             /\ \/ inflight' = inflight
                \/ c = "DATA" /\ \E new \in select_primary_leg : inflight' = [inflight EXCEPT ![new] = @ + 1]
  <2>1. ~no_rtt
    BY <1>5 DEF no_rtt, Candidates
  <2>2. PICK new \in select_primary_leg : send_relay_cell_on_leg(c, new)
    BY <1>5, <2>1 DEF multiplex
  <2>3. legs \cap linked # {} /\ new \in Legs
    BY <1>5 DEF select_primary_leg, Candidates
  <2>4. selected_init_primary' = TRUE
    BY <2>2, <2>3, Zenon DEF send_relay_cell_on_leg, init_primary_selected
  <2>5. \/ inflight' = inflight
        \/ inflight' = [inflight EXCEPT ![new] = IF c = "DATA" THEN @ + 1 ELSE @]
    BY <2>2, Zenon DEF send_relay_cell_on_leg, send_relay_cell
  <2> QED BY <1>3, <2>3, <2>4, <2>5
<1>6. CASE send_data
  <2>1. /\ fault = "none" /\ legs = Legs /\ linked = Legs /\ primary_id \in Legs
        /\ polling_legs # {} /\ multiplex("DATA")
    BY <1>4, <1>6 DEF Next, send_data
  <2>2. CASE inflight' = inflight
    BY <1>2, <1>5, <2>1, <2>2, Zenon
  <2>3. ASSUME NEW new \in select_primary_leg, inflight' = [inflight EXCEPT ![new] = @ + 1]
        PROVE  CInv'
    <3>1. new \in Legs /\ inflight[new] < Cwnd
      BY <2>1, <2>3, RoomOnSelected
    <3>2. inflight[new] + 1 \in Int /\ inflight[new] + 1 <= Cwnd
      BY <1>3, <3>1 DEF CwndParameters
    <3>3. inflight' = [inflight EXCEPT ![new] = inflight[new] + 1]
      BY <2>3
    <3> QED BY <1>1, <1>5, <2>1, <3>1, <3>2, <3>3, Zenon
  <2> QED BY <1>5, <2>1, <2>2, <2>3, ZenonT(30)
<1>7. CASE send_control
  <2>1. /\ fault = "none" /\ legs = Legs /\ linked = Legs /\ primary_id \in Legs /\ multiplex("BEGIN")
    BY <1>4, <1>7 DEF Next, send_control
  <2>2. selected_init_primary' = TRUE /\ (inflight' = inflight \/ "BEGIN" = "DATA")
    BY <1>5, <2>1, ZenonT(30)
  <2> QED BY <1>2, <2>2
<1>8. CASE send_on_primary
  BY <1>2, <1>3, <1>4, <1>8 DEF Next, send_on_primary, send_relay_cell
<1>9. CASE close_stream
  <2>1. PICK l \in Legs : send_relay_cell(l, "BEGIN", last_seq_sent[l], << >>)
    BY <1>4, <1>9, SMTT(30) DEF Next, close_stream
  <2>2. inflight' = inflight /\ selected_init_primary' = selected_init_primary
    BY <1>3, <1>9, <2>1 DEF close_stream, send_relay_cell
  <2> QED BY <1>2, <2>2, SMTT(30)
<1>10. ASSUME NEW l \in Legs, handle_sendme(l) PROVE CInv'
  <2>1. inflight' = [inflight EXCEPT ![l] = inflight[l] - SendmeInc] /\ selected_init_primary' = selected_init_primary
    BY <1>10 DEF handle_sendme
  <2>2. inflight[l] - SendmeInc \in Int /\ inflight[l] - SendmeInc <= inflight[l]
    BY <1>3, <1>10 DEF CwndParameters
  <2> QED BY <1>3, <1>10, <2>1, <2>2, SMTT(30) DEF CInv, CwndParameters
<1>11. ASSUME NEW l \in Legs, handle_conflux_switch(l) \/ handle_relay_msg(l) PROVE CInv'
  BY <1>2, <1>11, Zenon DEF handle_conflux_switch, handle_relay_msg, sender
<1>12. CASE UNCHANGED vars
  BY <1>2, <1>12 DEF vars, sender
<1> QED BY <1>6, <1>7, <1>8, <1>9, <1>10, <1>11, <1>12 DEF Next

(* No leg carries more than its congestion window, when the preference is   *)
(* for throughput (select_primary_leg_min_rtt with check_can_send).         *)
THEOREM WindowsOfLegs ==
    ASSUME PathParameters, CwndParameters
    PROVE  Spec => []CwndRespected
<1>1. Init => CInv
  BY DEF Init, CInv, CwndParameters
<1>2. PInv /\ CInv /\ [Next]_vars => CInv'
  BY CInvStep
<1>3. CInv => CwndRespected
  BY DEF CInv, CwndRespected
<1> QED BY <1>1, <1>2, <1>3, PathInvariant, PTL DEF Spec

(* LegsInStep, the property that TLC checks for three legs and four cells,  *)
(* holds for any number of them.                                            *)
THEOREM ConfluxLegsInStep ==
    ASSUME PathParameters, CwndParameters, MaxCells <= MaxU32
    PROVE  Spec => []LegsInStep
<1>1. NoFault /\ SeqnosAgree /\ CwndRespected <=> LegsInStep
  BY DEF LegsInStep
<1> QED BY <1>1, SeqnosStayInStep, WindowsOfLegs, PTL

-----------------------------------------------------------------------------
(* The path implements FifoChannel: a step of it is a Send, a Deliver of    *)
(* one cell and those that waited for it, or neither.                       *)
LEMMA PathSimulates ==
    ASSUME PathParameters, PInv, [Next]_vars
    PROVE  [Fifo!Next]_<<sent, got>>
<1>1. ASSUME sent' = sent + 1, got' = got PROVE Fifo!Next
  BY <1>1 DEF Fifo!Next, Fifo!Send
<1>2. ASSUME NEW c, multiplex(c), UNCHANGED <<set, receiver>> PROVE [Fifo!Next]_<<sent, got>>
  <2>1. got' = got
    BY <1>2 DEF receiver
  <2>2. sent' = sent + 1 \/ sent' = sent
    BY <1>2, Zenon DEF multiplex, send_relay_cell_on_leg, send_relay_cell, sender
  <2> QED BY <1>1, <2>1, <2>2
<1>3. CASE send_data \/ send_control
  BY <1>2, <1>3, SMTT(30) DEF send_data, send_control
<1>4. CASE send_on_primary \/ close_stream
  BY <1>1, <1>4 DEF send_on_primary, close_stream, send_relay_cell, receiver
<1>5. ASSUME NEW l \in Legs, handle_sendme(l) \/ handle_conflux_switch(l) PROVE [Fifo!Next]_<<sent, got>>
  BY <1>5, Zenon DEF handle_sendme, handle_conflux_switch, receiver, sender
<1>6. ASSUME NEW l \in Legs, handle_relay_msg(l) PROVE [Fifo!Next]_<<sent, got>>
  <2>1. fault = "none" /\ Body
    <3>1. fault = "none"
      BY <1>6, Zenon DEF handle_relay_msg
    <3> QED BY <3>1 DEF PInv
  <2>2. PICK n : Taken(l, n)
    BY <1>6, <2>1, MsgCases
  <2>3. sent' = sent
    BY <2>2, Zenon DEF Taken, sender
  <2>4. CASE Enqueues(l, n)
    BY <2>3, <2>4 DEF Enqueues
  <2>5. ASSUME NEW k, Delivers(n, k) PROVE Fifo!Next
    <3>1. n + k <= sent
      BY <2>1, <2>2, <2>5, DeliverStep, ZenonT(30) DEF Taken
    <3>2. /\ last_seq_delivered \in Nat /\ k \in Nat /\ sent \in Nat
          /\ n = last_seq_delivered + 1 /\ got' = CountTo(n + k) /\ got = CountTo(last_seq_delivered)
      BY <2>1, <2>5 DEF Delivers, Body, Delivered, PathTypes, CountTo
    <3>3. PICK d : d = k + 1
      OBVIOUS
    <3>4. /\ d \in Nat /\ n + k = last_seq_delivered + d
          /\ d \in 1..(sent - last_seq_delivered)
      BY <3>1, <3>2, <3>3
    <3>5. /\ Len(got) = last_seq_delivered
          /\ got \o [i \in 1..d |-> last_seq_delivered + i] = CountTo(last_seq_delivered + d)
      BY <3>2, <3>4, CountOn, Zenon
    <3>6. d \in 1..(sent - Len(got)) /\ got' = got \o [i \in 1..d |-> Len(got) + i]
      BY <3>2, <3>4, <3>5, Zenon
    <3>7. Fifo!Deliver
      BY <2>3, <3>6 DEF Fifo!Deliver
    <3> QED BY <3>7 DEF Fifo!Next
  <2> QED BY <2>2, <2>4, <2>5, Zenon DEF Taken
<1>7. CASE UNCHANGED vars
  BY <1>7 DEF vars, sender, receiver
<1> QED BY <1>3, <1>4, <1>5, <1>6, <1>7 DEF Next

(* The cells are handled in the order they were sent, each once, whichever  *)
(* legs they took: the path with its counters, SWITCHes and reordering      *)
(* buffer implements the channel that has none of them.                     *)
THEOREM ConfluxImplementsFifo == ASSUME PathParameters PROVE Spec => DeliveredInOrder
<1>1. Init => Fifo!Init
  BY DEF Init, Fifo!Init
<1>2. PInv /\ [Next]_vars => [Fifo!Next]_<<sent, got>>
  BY PathSimulates
<1> QED BY <1>1, <1>2, PathInvariant, PTL DEF Spec, DeliveredInOrder, Fifo!Spec
=============================================================================
