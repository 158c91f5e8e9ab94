------------------------- MODULE MemoryQuotaProofs --------------------------
(***************************************************************************)
(* The memory tracker's record of a participant is exact for every number  *)
(* of accounts and queues and every size of the caches: it is what the two *)
(* handles cache, what is queued and what is on its way into the queue.    *)
(* From that, a participant without data is never taken for a liar.        *)
(***************************************************************************)
EXTENDS MemoryQuota, TLAPS

(* The cost of n items, kept folded away in the proofs below. *)
Weight(n) == Cost * n

Items(q) == Len(queue[q]) + IF inflight[q] = 0 THEN 0 ELSE 1

Types ==
    /\ status \in [Queues -> Stages]
    /\ tx \in [Queues -> BOOLEAN]
    /\ recorded \subseteq Queues
    /\ used \in [Queues -> Nat]
    /\ tx_cache \in [Queues -> 0..MAX_CACHE]
    /\ rx_cache \in [Queues -> 0..MAX_CACHE]
    /\ queue \in [Queues -> Seq(Nat)]
    /\ inflight \in [Queues -> Nat]
    /\ sent \in Nat

(* What is true of each queue: its record is exact; a handle that is gone     *)
(* left nothing behind; a queue is recorded only between its registration and *)
(* its end; and the cache has room for an item whose claim may be undone.     *)
QInv(q) ==
    /\ q \in recorded => used[q] = tx_cache[q] + rx_cache[q] + Weight(Items(q))
    /\ ~tx[q] => tx_cache[q] = 0 /\ inflight[q] = 0
    /\ ~HasRx(q) => rx_cache[q] = 0 /\ queue[q] = <<>>
    /\ status[q] = "constructing" => tx[q] /\ inflight[q] = 0
    /\ status[q] = "unused" => ~tx[q]
    /\ status[q] \in {"unused", "closed"} => q \notin recorded
    /\ inflight[q] # 0 => tx_cache[q] + Cost <= MAX_CACHE

IInv == Types /\ \A q \in Queues : QInv(q)

(* Nothing of the queue q changes, except that its record may go. *)
Frame(q) ==
    /\ status'[q] = status[q] /\ tx'[q] = tx[q]
    /\ tx_cache'[q] = tx_cache[q] /\ rx_cache'[q] = rx_cache[q]
    /\ queue'[q] = queue[q] /\ inflight'[q] = inflight[q]
    /\ q \in recorded' => q \in recorded /\ used'[q] = used[q]

(* The constants are numbers. *)
LEMMA CacheConstants ==
    /\ MAX_CACHE \in Nat /\ Cost \in Nat /\ Cost >= 1
    /\ TARGET_CACHE_CLAIMING \in Nat /\ TARGET_CACHE_RELEASING \in Nat
    /\ TARGET_CACHE_RELEASING <= MAX_CACHE
    /\ Cost <= TARGET_CACHE_CLAIMING /\ Cost + TARGET_CACHE_CLAIMING <= MAX_CACHE
BY CacheAssumption DEF CacheAssumption

(* Each item adds its cost. *)
LEMMA WeightStep ==
    /\ Weight(0) = 0 /\ Weight(1) = Cost
    /\ \A n \in Nat : Weight(n) \in Nat /\ Weight(n + 1) = Weight(n) + Cost
<1>1. \A n \in Nat : Cost * n \in Nat
  BY CacheConstants, SMTT(30)
<1>2. \A n \in Nat : Cost * (n + 1) = Cost * n + Cost
  BY CacheConstants, SMTT(30)
<1>3. Cost * 0 = 0 /\ Cost * 1 = Cost
  BY CacheConstants
<1> QED BY <1>1, <1>2, <1>3, Zenon DEF Weight

(* A claim that fills the cache t up to g as it pays for an item of cost c. *)
LEMMA Refilled ==
    ASSUME NEW u, NEW t \in Nat, NEW r \in Nat, NEW w \in Nat, NEW c \in Nat, NEW g \in Nat,
           u = t + r + w
    PROVE  u + c + g - t = g + r + (w + c)
OBVIOUS

(* A queue that nothing happens to keeps its invariant. *)
LEMMA FrameStep ==
    ASSUME NEW q, QInv(q), Frame(q)
    PROVE  QInv(q)'
BY Zenon DEF QInv, Frame, Items, HasRx

(* Records that go through auto_release leave the others as they are. *)
LEMMA AutoReleaseStep ==
    ASSUME Types, NEW qs, auto_release(qs)
    PROVE  /\ recorded' \subseteq Queues /\ used' \in [Queues -> Nat]
           /\ \A q \in Queues : q \in recorded' => q \in recorded /\ q \notin qs /\ used'[q] = used[q]
BY DEF Types, auto_release

(* So a step that only takes records away, and touches no queue, is safe: the *)
(* drop of an account, a wakeup, and everything the reclamation task does     *)
(* under the lock.                                                            *)
LEMMA QuietStep ==
    ASSUME IInv, UNCHANGED queuevars, NEW qs, auto_release(qs) \/ UNCHANGED bookvars
    PROVE  IInv'
<1>1. Types'
  BY AutoReleaseStep DEF IInv, Types, queuevars, bookvars
<1>2. ASSUME NEW q \in Queues PROVE QInv(q)'
  <2>1. Frame(q)
    BY AutoReleaseStep DEF IInv, Frame, queuevars, bookvars
  <2> QED BY <2>1, FrameStep DEF IInv
<1> QED BY <1>1, <1>2 DEF IInv

(* A new queue starts with a full cache and nothing else. *)
LEMMA RegisterStep ==
    ASSUME IInv, NEW p \in Queues, NEW a \in Accounts, register_participant(p, a)
    PROVE  IInv'
<1>1. Types'
  BY CacheConstants DEF IInv, Types, register_participant, Stages
<1>2. ASSUME NEW q \in Queues, q # p PROVE QInv(q)'
  <2>1. Frame(q)
    BY <1>2 DEF IInv, Types, Frame, register_participant
  <2> QED BY <2>1, FrameStep DEF IInv
<1>3. QInv(p)'
  <2>1. /\ rx_cache[p] = 0 /\ queue[p] = <<>> /\ inflight[p] = 0
    BY DEF IInv, QInv, HasRx, register_participant
  <2>2. Items(p)' = 0
    BY <2>1 DEF Items, register_participant, IInv, Types
  <2>3. /\ status'[p] = "constructing" /\ tx'[p] /\ used'[p] = MAX_CACHE /\ tx_cache'[p] = MAX_CACHE
        /\ rx_cache'[p] = 0 /\ queue'[p] = <<>> /\ inflight'[p] = 0
    BY <2>1 DEF IInv, Types, register_participant
  <2> QED BY <2>2, <2>3, WeightStep, CacheConstants DEF QInv, HasRx
<1> QED BY <1>1, <1>2, <1>3 DEF IInv

(* The constructor's queue opens, or ends without a record. *)
LEMMA CallbacksStep ==
    ASSUME IInv, NEW p \in Queues, set_participant_callbacks(p)
    PROVE  IInv'
<1>1. CASE UNCHANGED <<tx, tx_cache, bookvars>> /\ status' = [status EXCEPT ![p] = "open"]
  <2>1. Types'
    BY <1>1 DEF IInv, Types, set_participant_callbacks, Stages, bookvars
  <2>2. ASSUME NEW q \in Queues PROVE QInv(q)'
    BY <1>1, <2>2 DEF IInv, Types, QInv, Items, HasRx, set_participant_callbacks, bookvars
  <2> QED BY <2>1, <2>2 DEF IInv
<1>2. CASE /\ status' = [status EXCEPT ![p] = "closed"]
           /\ tx' = [tx EXCEPT ![p] = FALSE]
           /\ tx_cache' = [tx_cache EXCEPT ![p] = 0]
           /\ auto_release(recorded \cap {p})
  <2>1. Types'
    BY <1>2, AutoReleaseStep, CacheConstants, SMTT(30) DEF IInv, Types, set_participant_callbacks, Stages
  <2>2. ASSUME NEW q \in Queues, q # p PROVE QInv(q)'
    <3>1. Frame(q)
      BY <1>2, <2>2, AutoReleaseStep, SMTT(30) DEF IInv, Types, Frame, set_participant_callbacks
    <3> QED BY <3>1, FrameStep DEF IInv
  <2>3. p \notin recorded'
    BY <1>2 DEF auto_release
  <2>4. inflight[p] = 0 /\ rx_cache[p] = 0 /\ queue[p] = <<>>
    BY DEF IInv, QInv, HasRx, set_participant_callbacks
  <2>5. QInv(p)'
    BY <1>2, <2>3, <2>4 DEF IInv, Types, QInv, HasRx, set_participant_callbacks
  <2> QED BY <2>1, <2>2, <2>5 DEF IInv
<1> QED BY <1>1, <1>2 DEF set_participant_callbacks

(* An item that is claimed is paid for from the cache, or by a claim that     *)
(* fills the cache as well, and either way the cache has room for it.         *)
LEMMA ClaimStep ==
    ASSUME IInv, NEW p \in Queues, claim_qty(p)
    PROVE  IInv'
<1>1. /\ tx_cache[p] \in Nat /\ tx_cache[p] <= MAX_CACHE /\ rx_cache[p] \in Nat
      /\ Len(queue[p]) \in Nat /\ sent \in Nat /\ used[p] \in Nat
  BY CacheConstants DEF IInv, Types
<1>2. tx[p] /\ status[p] # "constructing" /\ inflight[p] = 0
  BY DEF claim_qty, Sending
<1>3. /\ inflight'[p] = sent + 1 /\ inflight'[p] # 0 /\ inflight' \in [Queues -> Nat]
      /\ \A q \in Queues : q # p => inflight'[q] = inflight[q]
  BY <1>1 DEF IInv, Types, claim_qty
<1>4. UNCHANGED <<status, tx, rx_cache, queue>> /\ sent' \in Nat
  BY <1>1 DEF claim_qty
<1>5. Weight(Items(p))' = Weight(Items(p)) + Cost
  <2>1. Items(p) \in Nat /\ Items(p)' = Items(p) + 1
    BY <1>1, <1>2, <1>3, <1>4 DEF Items
  <2> QED BY <2>1, WeightStep
<1>6. CASE tx_cache[p] >= Cost /\ tx_cache' = [tx_cache EXCEPT ![p] = @ - Cost] /\ UNCHANGED bookvars
  <2>1. tx_cache'[p] = tx_cache[p] - Cost /\ tx_cache' \in [Queues -> 0..MAX_CACHE]
    BY <1>1, <1>6, CacheConstants DEF IInv, Types
  <2>2. Types'
    BY <1>3, <1>4, <1>6, <2>1, SMTT(30) DEF IInv, Types, bookvars
  <2>3. ASSUME NEW q \in Queues, q # p PROVE QInv(q)'
    <3>1. Frame(q)
      BY <1>3, <1>4, <1>6, <2>3 DEF IInv, Types, Frame, bookvars
    <3> QED BY <3>1, FrameStep DEF IInv
  <2>4. QInv(p)'
    <3>1. p \in recorded' => used'[p] = tx_cache'[p] + rx_cache'[p] + Weight(Items(p))'
      <4>1. Items(p) \in Nat
        BY <1>1, <1>2 DEF Items
      <4>2. Weight(Items(p)) \in Nat
        BY <4>1, WeightStep
      <4>3. p \in recorded => used[p] = tx_cache[p] + rx_cache[p] + Weight(Items(p))
        BY DEF IInv, QInv
      <4> QED BY <1>1, <1>4, <1>5, <1>6, <2>1, <4>2, <4>3, CacheConstants DEF bookvars
    <3> QED BY <1>1, <1>2, <1>3, <1>4, <1>6, <2>1, <3>1, CacheConstants, SMTT(30) DEF IInv, QInv, HasRx, bookvars
  <2> QED BY <2>2, <2>3, <2>4 DEF IInv
<1>7. CASE /\ tx_cache[p] < Cost /\ p \in recorded
           /\ tx_cache' = [tx_cache EXCEPT ![p] = @ + want_more_cache(p)]
           /\ claim(p, Cost + want_more_cache(p))
  <2>1. want_more_cache(p) = TARGET_CACHE_CLAIMING - tx_cache[p]
    BY CacheConstants DEF want_more_cache
  <2>2. tx_cache'[p] = TARGET_CACHE_CLAIMING /\ tx_cache' \in [Queues -> 0..MAX_CACHE]
    BY <1>1, <1>7, <2>1, CacheConstants DEF IInv, Types
  <2>3. /\ used' = [used EXCEPT ![p] = @ + (Cost + want_more_cache(p))]
        /\ recorded' = recorded
    BY <1>7 DEF claim
  <2>4. used'[p] = used[p] + Cost + TARGET_CACHE_CLAIMING - tx_cache[p] /\ used' \in [Queues -> Nat]
    BY <1>1, <1>7, <2>1, <2>3, CacheConstants, SMTT(30) DEF IInv, Types
  <2>5. Types'
    BY <1>3, <1>4, <2>2, <2>3, <2>4, SMTT(30) DEF IInv, Types
  <2>6. ASSUME NEW q \in Queues, q # p PROVE QInv(q)'
    <3>1. Frame(q)
      BY <1>3, <1>4, <1>7, <2>3, <2>6 DEF IInv, Types, Frame
    <3> QED BY <3>1, FrameStep DEF IInv
  <2>7. QInv(p)'
    <3>1. used'[p] = tx_cache'[p] + rx_cache'[p] + Weight(Items(p))'
      <4>1. Items(p) \in Nat
        BY <1>1, <1>2 DEF Items
      <4>2. Weight(Items(p)) \in Nat
        BY <4>1, WeightStep
      <4>3. used[p] = tx_cache[p] + rx_cache[p] + Weight(Items(p))
        BY <1>7 DEF IInv, QInv
      <4>4. rx_cache'[p] = rx_cache[p]
        BY <1>4
      <4>5. used'[p] = TARGET_CACHE_CLAIMING + rx_cache[p] + (Weight(Items(p)) + Cost)
        <5>1. tx_cache[p] \in Nat /\ rx_cache[p] \in Nat /\ Cost \in Nat /\ TARGET_CACHE_CLAIMING \in Nat
          BY <1>1, CacheConstants
        <5>2. used[p] + Cost + TARGET_CACHE_CLAIMING - tx_cache[p]
                = TARGET_CACHE_CLAIMING + rx_cache[p] + (Weight(Items(p)) + Cost)
          BY <4>2, <4>3, <5>1, Refilled
        <5> QED BY <2>4, <5>2
      <4> QED BY <1>5, <2>2, <4>4, <4>5
    <3>2. QInv(p)
      BY DEF IInv
    <3> QED BY <1>2, <1>3, <1>4, <2>2, <2>3, <3>1, <3>2, CacheConstants DEF QInv, HasRx
  <2> QED BY <2>5, <2>6, <2>7 DEF IInv
<1> QED BY <1>6, <1>7 DEF claim_qty

(* Items are counted by a natural number, and so is their cost. *)
LEMMA ItemsNat ==
    ASSUME Types, NEW q \in Queues
    PROVE  Items(q) \in Nat /\ Weight(Items(q)) \in Nat
<1>1. Items(q) \in Nat
  BY DEF Types, Items
<1> QED BY <1>1, WeightStep

(* An item on its way goes into the queue; or the queue has ended, and what   *)
(* was claimed for the item goes back into the cache.                         *)
LEMMA SendStep ==
    ASSUME IInv, NEW p \in Queues, start_send(p)
    PROVE  IInv'
<1>1. /\ inflight[p] # 0 /\ tx[p] /\ status[p] # "constructing"
      /\ inflight'[p] = 0 /\ inflight' \in [Queues -> Nat]
      /\ \A q \in Queues : q # p => inflight'[q] = inflight[q]
      /\ UNCHANGED <<status, tx, rx_cache, sent>>
  BY DEF IInv, Types, start_send, Sending
<1>2. /\ tx_cache[p] \in Nat /\ queue[p] \in Seq(Nat) /\ inflight[p] \in Nat
      /\ tx_cache[p] + Cost <= MAX_CACHE
  BY <1>1, CacheConstants DEF IInv, Types, QInv
<1>3. CASE status[p] # "closed" /\ queue' = [queue EXCEPT ![p] = Append(@, inflight[p])] /\ UNCHANGED <<tx_cache, bookvars>>
  <2>1. queue'[p] = Append(queue[p], inflight[p])
    BY <1>3 DEF IInv, Types
  <2>2. queue'[p] \in Seq(Nat) /\ Len(queue'[p]) = Len(queue[p]) + 1
    BY <1>2, <2>1
  <2>3. queue' \in [Queues -> Seq(Nat)]
    BY <1>3, <2>1, <2>2 DEF IInv, Types
  <2>4. Types'
    BY <1>1, <1>3, <2>3 DEF IInv, Types, bookvars
  <2>5. ASSUME NEW q \in Queues, q # p PROVE QInv(q)'
    <3>1. Frame(q)
      BY <1>1, <1>3, <2>5 DEF IInv, Types, Frame, bookvars
    <3> QED BY <3>1, FrameStep DEF IInv
  <2>6. QInv(p)'
    <3>1. Items(p)' = Items(p)
      BY <1>1, <1>2, <2>2 DEF Items
    <3>2. HasRx(p)
      BY <1>1, <1>3, SMTT(30) DEF IInv, Types, QInv, HasRx, Stages
    <3>3. QInv(p)
      BY DEF IInv
    <3> QED BY <1>1, <1>3, <3>1, <3>2, <3>3 DEF QInv, HasRx, bookvars
  <2> QED BY <2>4, <2>5, <2>6 DEF IInv
<1>4. CASE /\ status[p] = "closed"
           /\ tx_cache' = [tx_cache EXCEPT ![p] = cache_after(p, @)]
           /\ release_qty(p, tx_cache[p])
           /\ UNCHANGED queue
  <2>1. p \notin recorded
    BY <1>4 DEF IInv, QInv
  <2>2. UNCHANGED bookvars
    BY <1>4, <2>1 DEF release_qty
  <2>3. cache_after(p, tx_cache[p]) \in 0..MAX_CACHE
    BY <1>2, <2>1, CacheConstants DEF cache_after, Full
  <2>4. Types'
    BY <1>1, <1>4, <2>2, <2>3 DEF IInv, Types, bookvars
  <2>5. ASSUME NEW q \in Queues, q # p PROVE QInv(q)'
    <3>1. Frame(q)
      BY <1>1, <1>4, <2>2, <2>5, SMTT(30) DEF IInv, Types, Frame, bookvars
    <3> QED BY <3>1, FrameStep DEF IInv
  <2>6. QInv(p)'
    BY <1>1, <1>4, <2>1, <2>2 DEF IInv, QInv, HasRx, bookvars
  <2> QED BY <2>4, <2>5, <2>6 DEF IInv
<1> QED BY <1>3, <1>4 DEF start_send

(* The tail of a sequence is shorter by one. *)
LEMMA TailStep ==
    ASSUME NEW s \in Seq(Nat), s # <<>>
    PROVE  Tail(s) \in Seq(Nat) /\ Len(s) = Len(Tail(s)) + 1
BY SMTT(30)

(* An item that is received is released into the cache of the receiver, and   *)
(* from there to the tracker when the cache would hold too much.              *)
LEMMA PollStep ==
    ASSUME IInv, NEW p \in Queues, poll_next(p)
    PROVE  IInv'
<1>1. /\ status[p] = "open" /\ queue[p] # <<>>
      /\ queue' = [queue EXCEPT ![p] = Tail(@)]
      /\ rx_cache' = [rx_cache EXCEPT ![p] = cache_after(p, @)]
      /\ release_qty(p, rx_cache[p])
      /\ UNCHANGED <<status, tx, tx_cache, inflight, sent>>
  BY DEF poll_next
<1>2. /\ rx_cache[p] \in Nat /\ rx_cache[p] <= MAX_CACHE /\ queue[p] \in Seq(Nat)
      /\ tx_cache[p] \in Nat
  BY CacheConstants DEF IInv, Types
<1>3. /\ queue'[p] = Tail(queue[p]) /\ queue'[p] \in Seq(Nat) /\ Len(queue[p]) = Len(queue'[p]) + 1
      /\ queue' \in [Queues -> Seq(Nat)]
  <2>1. queue'[p] = Tail(queue[p])
    BY <1>1 DEF IInv, Types
  <2>2. queue'[p] \in Seq(Nat) /\ Len(queue[p]) = Len(queue'[p]) + 1
    BY <1>1, <1>2, <2>1, TailStep, Zenon
  <2> QED BY <1>1, <2>1, <2>2 DEF IInv, Types
<1>4. /\ cache_after(p, rx_cache[p]) \in 0..MAX_CACHE
      /\ rx_cache'[p] = cache_after(p, rx_cache[p])
      /\ rx_cache' \in [Queues -> 0..MAX_CACHE]
  <2>1. cache_after(p, rx_cache[p]) \in 0..MAX_CACHE
    BY <1>2, CacheConstants, SMTT(30) DEF cache_after, Full
  <2> QED BY <1>1, <2>1 DEF IInv, Types
<1>5. /\ recorded' = recorded /\ used' \in [Queues -> Nat]
      /\ \A q \in Queues : q # p => used'[q] = used[q]
  <2>1. CASE UNCHANGED bookvars
    BY <2>1 DEF IInv, Types, bookvars
  <2>2. CASE release(p, rx_cache[p] + Cost - TARGET_CACHE_RELEASING)
    <3>1. saturating_sub(used[p], rx_cache[p] + Cost - TARGET_CACHE_RELEASING) \in Nat
      BY <1>2, CacheConstants, SMTT(30) DEF IInv, Types, saturating_sub
    <3> QED BY <2>2, <3>1 DEF release, IInv, Types
  <2> QED BY <1>1, <2>1, <2>2 DEF release_qty
<1>6. Types'
  BY <1>1, <1>3, <1>4, <1>5, SMTT(30) DEF IInv, Types
<1>7. ASSUME NEW q \in Queues, q # p PROVE QInv(q)'
  <2>1. Frame(q)
    BY <1>1, <1>5, <1>7 DEF IInv, Types, Frame
  <2> QED BY <2>1, FrameStep DEF IInv
<1>8. p \in recorded => used'[p] = tx_cache'[p] + rx_cache'[p] + Weight(Items(p)')
  <2> SUFFICES ASSUME p \in recorded PROVE used'[p] = tx_cache'[p] + rx_cache'[p] + Weight(Items(p)')
    OBVIOUS
  <2>1. Items(p)' \in Nat /\ Items(p) = Items(p)' + 1
    BY <1>1, <1>2, <1>3 DEF IInv, Types, Items
  <2>2. Weight(Items(p)') \in Nat /\ Weight(Items(p)) = Weight(Items(p)') + Cost
    BY <2>1, WeightStep
  <2>3. used[p] = tx_cache[p] + rx_cache[p] + Weight(Items(p))
    BY SMTT(30) DEF IInv, QInv
  <2>4. used[p] = (rx_cache[p] + Cost) + (tx_cache[p] + Weight(Items(p)'))
    BY <1>2, <2>2, <2>3, CacheConstants, SMTT(30)
  <2>5. CASE Full(rx_cache[p])
    <3>1. used'[p] = saturating_sub(used[p], rx_cache[p] + Cost - TARGET_CACHE_RELEASING)
      BY <1>1, <2>5 DEF release_qty, release, IInv, Types
    <3>2. rx_cache'[p] = TARGET_CACHE_RELEASING
      BY <1>4, <2>5 DEF cache_after
    <3>3. /\ rx_cache[p] + Cost \in Nat /\ tx_cache[p] + Weight(Items(p)') \in Nat
          /\ TARGET_CACHE_RELEASING <= rx_cache[p] + Cost
      BY <1>2, <2>2, <2>5, CacheConstants, SMTT(30) DEF Full
    <3>4. used'[p] = TARGET_CACHE_RELEASING + (tx_cache[p] + Weight(Items(p)'))
      <4>1. rx_cache[p] + Cost - TARGET_CACHE_RELEASING = (rx_cache[p] + Cost) - TARGET_CACHE_RELEASING
        BY <1>2, CacheConstants
      <4>2. TARGET_CACHE_RELEASING \in Nat
        BY CacheConstants
      <4>3. saturating_sub(used[p], (rx_cache[p] + Cost) - TARGET_CACHE_RELEASING)
              = TARGET_CACHE_RELEASING + (tx_cache[p] + Weight(Items(p)'))
        <5> DEFINE w == tx_cache[p] + Weight(Items(p)')
                   c == rx_cache[p] + Cost
        <5>1. w \in Nat /\ c \in Nat /\ TARGET_CACHE_RELEASING <= c /\ used[p] = c + w
          BY <2>4, <3>3
        <5> HIDE DEF w, c
        <5>2. saturating_sub(used[p], c - TARGET_CACHE_RELEASING) = TARGET_CACHE_RELEASING + w
          BY <4>2, <5>1, SMTT(30) DEF saturating_sub
        <5> QED BY <5>2 DEF w, c
      <4> QED BY <3>1, <4>1, <4>3
    <3> QED BY <1>1, <1>2, <2>2, <3>2, <3>4, CacheConstants
  <2>6. CASE ~Full(rx_cache[p])
    <3>1. used' = used /\ rx_cache'[p] = rx_cache[p] + Cost
      BY <1>1, <1>4, <2>6, SMTT(30) DEF release_qty, cache_after, bookvars
    <3> QED BY <1>1, <1>2, <2>2, <2>4, <3>1, CacheConstants
  <2> QED BY <2>5, <2>6
<1>9. QInv(p)'
  <2>1. QInv(p)
    BY DEF IInv
  <2> QED BY <1>1, <1>5, <1>8, <2>1, SMTT(30) DEF QInv, HasRx
<1> QED BY <1>6, <1>7, <1>9 DEF IInv

(* A sender that goes releases its cache, or takes the record with it. *)
LEMMA SenderDropStep ==
    ASSUME IInv, NEW p \in Queues, sender_drop(p)
    PROVE  IInv'
<1>1. /\ tx[p] /\ status[p] # "constructing" /\ inflight[p] = 0
      /\ tx' = [tx EXCEPT ![p] = FALSE]
      /\ tx_cache' = [tx_cache EXCEPT ![p] = 0]
      /\ UNCHANGED <<status, rx_cache, queue, inflight, sent>>
  BY SMTT(30) DEF sender_drop, Sending
<1>2. /\ recorded' \subseteq recorded /\ used' \in [Queues -> Nat]
      /\ \A q \in recorded' : q # p => used'[q] = used[q]
      /\ p \in recorded' => used'[p] = rx_cache[p] + Weight(Items(p))
  <2>1. CASE p \in recorded /\ release(p, tx_cache[p])
    <3>1. /\ used[p] = tx_cache[p] + rx_cache[p] + Weight(Items(p))
          /\ tx_cache[p] \in Nat /\ rx_cache[p] \in Nat
      BY <2>1, CacheConstants DEF IInv, Types, QInv
    <3>2. Weight(Items(p)) \in Nat
      BY ItemsNat DEF IInv
    <3>3. saturating_sub(used[p], tx_cache[p]) = rx_cache[p] + Weight(Items(p))
      BY <3>1, <3>2 DEF saturating_sub
    <3> QED BY <2>1, <3>1, <3>2, <3>3 DEF release, IInv, Types
  <2>2. CASE auto_release({p})
    BY <2>2, AutoReleaseStep DEF IInv, Types, auto_release
  <2>3. CASE p \notin recorded /\ UNCHANGED bookvars
    BY <2>3 DEF IInv, Types, bookvars
  <2> QED BY <2>1, <2>2, <2>3 DEF sender_drop
<1>3. Types'
  <2>1. tx' \in [Queues -> BOOLEAN] /\ tx_cache' \in [Queues -> 0..MAX_CACHE]
    BY <1>1, CacheConstants DEF IInv, Types
  <2> QED BY <1>1, <1>2, <2>1 DEF IInv, Types
<1>4. ASSUME NEW q \in Queues, q # p PROVE QInv(q)'
  <2>1. Frame(q)
    BY <1>1, <1>2, <1>4, SMTT(30) DEF IInv, Types, Frame
  <2> QED BY <2>1, FrameStep DEF IInv
<1>5. QInv(p)'
  <2>1. QInv(p) /\ tx'[p] = FALSE /\ tx_cache'[p] = 0
    BY <1>1, SMTT(30) DEF IInv, Types
  <2>2. Items(p)' = Items(p)
    BY <1>1 DEF Items
  <2>3. rx_cache[p] \in Nat /\ Weight(Items(p)) \in Nat
    BY ItemsNat, CacheConstants DEF IInv, Types
  <2>4. p \in recorded' => used'[p] = 0 + rx_cache[p] + Weight(Items(p))
    BY <1>2, <2>3
  <2> QED BY <1>1, <1>2, <2>1, <2>2, <2>4 DEF QInv, HasRx
<1> QED BY <1>3, <1>4, <1>5 DEF IInv

(* A receiver that goes, by itself or because it was reclaimed, takes the     *)
(* record with it, whatever its cache and its queue still hold.               *)
LEMMA DestroyStep ==
    ASSUME IInv, NEW p \in Queues, HasRx(p), destroy_participant(p),
           UNCHANGED <<tx, tx_cache, inflight, sent>>
    PROVE  IInv'
<1>1. Types'
  <2>1. recorded' \subseteq Queues /\ used' \in [Queues -> Nat]
    BY AutoReleaseStep DEF IInv, destroy_participant
  <2>2. status' \in [Queues -> Stages] /\ rx_cache' \in [Queues -> 0..MAX_CACHE]
    BY CacheConstants DEF IInv, Types, destroy_participant, Stages
  <2>3. queue' \in [Queues -> Seq(Nat)]
    BY DEF IInv, Types, destroy_participant
  <2> QED BY <2>1, <2>2, <2>3 DEF IInv, Types
<1>2. ASSUME NEW q \in Queues, q # p PROVE QInv(q)'
  <2>1. Frame(q)
    BY <1>2, AutoReleaseStep, SMTT(30) DEF IInv, Types, Frame, destroy_participant
  <2> QED BY <2>1, FrameStep DEF IInv
<1>3. QInv(p)'
  <2>1. p \notin recorded'
    BY DEF destroy_participant, auto_release
  <2>2. status'[p] = "closed" /\ rx_cache'[p] = 0 /\ queue'[p] = <<>>
    BY DEF destroy_participant, IInv, Types
  <2>3. QInv(p)
    BY DEF IInv
  <2> QED BY <2>1, <2>2, <2>3 DEF QInv, HasRx
<1> QED BY <1>1, <1>2, <1>3 DEF IInv

(* A queue may pass from one of the receiver's stages to another. *)
LEMMA StageStep ==
    ASSUME IInv, NEW p \in Queues, NEW st \in {"collapsing", "dropping"}, status[p] = "open",
           status' = [status EXCEPT ![p] = st],
           UNCHANGED <<tx, tx_cache, rx_cache, queue, inflight, sent, bookvars>>
    PROVE  IInv'
<1>1. Types'
  BY SMTT(30) DEF IInv, Types, Stages, bookvars
<1>2. ASSUME NEW q \in Queues PROVE QInv(q)'
  BY SMTT(30) DEF IInv, Types, QInv, Items, HasRx, bookvars
<1> QED BY <1>1, <1>2 DEF IInv

(* The reclamation task's choice of victims only takes records away. *)
LEMMA ChooseStep ==
    ASSUME IInv, UNCHANGED queuevars, NEW acc, NEW rec, NEW tot, NEW hp, choose_victims(acc, rec, tot, hp)
    PROVE  IInv'
<1>1. \E qs : auto_release(qs)
  BY Zenon DEF choose_victims
<1> QED BY <1>1, QuietStep

(* The invariant holds initially. *)
LEMMA IInvInit == ASSUME Init PROVE IInv
<1>1. Types
  BY CacheConstants DEF Init, Types, Stages
<1>2. ASSUME NEW q \in Queues PROVE QInv(q)
  BY DEF Init, QInv, HasRx
<1> QED BY <1>1, <1>2 DEF IInv

(* Every step of the accounts, the queues and the reclamation task keeps it. *)
LEMMA IInvNext == ASSUME IInv, [Next]_mqvars PROVE IInv'
<1>1. CASE UNCHANGED mqvars
  BY <1>1, QuietStep, SMTT(30) DEF mqvars, bookvars
<1>2. ASSUME NEW a \in Accounts,
             account_clone(a) \/ account_drop(a) \/ \E b \in Accounts \cup {"none"} : new_account(a, b)
      PROVE  IInv'
  BY <1>2, QuietStep DEF account_clone, account_drop, new_account
<1>3. ASSUME NEW c \in Configs, reconfigure(c) PROVE IInv'
  BY <1>3, QuietStep DEF reconfigure
<1>4. ASSUME NEW q \in Queues, NEW a \in Accounts, register_participant(q, a) PROVE IInv'
  BY <1>4, RegisterStep
<1>5. ASSUME NEW q \in Queues, QueueStep(q) PROVE IInv'
  <2>1. CASE set_participant_callbacks(q)
    BY <2>1, CallbacksStep
  <2>2. CASE start_send(q)
    BY <2>2, SendStep
  <2>3. CASE receiver_state_drop(q)
    BY <2>3, DestroyStep DEF receiver_state_drop, HasRx
  <2> QED BY <1>5, <2>1, <2>2, <2>3 DEF QueueStep
<1>6. ASSUME NEW q \in Queues, claim_qty(q) \/ poll_next(q) \/ sender_drop(q) PROVE IInv'
  BY <1>6, ClaimStep, PollStep, SenderDropStep
<1>7. ASSUME NEW q \in Queues, receiver_drop(q) PROVE IInv'
  BY <1>7, StageStep, ZenonT(30) DEF receiver_drop
<1>8. CASE maybe_start
  BY <1>8, QuietStep, ChooseStep DEF maybe_start
<1>9. CASE handle_victim_responses
  BY <1>9, ChooseStep DEF handle_victim_responses
<1>10. CASE wakeup_next
  BY <1>10, QuietStep DEF wakeup_next
<1>11. ASSUME NEW q \in Queues, NEW kind \in {"real", "temp"}, reclaim(q, kind) PROVE IInv'
  <2>1. CASE status[q] = "open" /\ status' = [status EXCEPT ![q] = "collapsing"] /\ UNCHANGED <<rx_cache, queue, bookvars>>
    BY <1>11, <2>1, StageStep, Zenon DEF reclaim
  <2>2. CASE status[q] = "collapsing" /\ destroy_participant(q)
    BY <1>11, <2>2, DestroyStep DEF reclaim, HasRx
  <2>3. CASE UNCHANGED <<status, rx_cache, queue, bookvars>>
    <3>1. UNCHANGED <<status, tx, tx_cache, rx_cache, queue, inflight, sent, bookvars>>
      BY <1>11, <2>3 DEF reclaim
    <3>2. Types'
      BY <3>1 DEF IInv, Types, bookvars
    <3>3. ASSUME NEW p \in Queues PROVE QInv(p)'
      <4>1. Frame(p)
        BY <3>1 DEF Frame, bookvars
      <4> QED BY <4>1, FrameStep DEF IInv
    <3> QED BY <3>2, <3>3 DEF IInv
  <2> QED BY <1>11, <2>1, <2>2, <2>3 DEF reclaim
<1> QED BY <1>1, <1>2, <1>3, <1>4, <1>5, <1>6, <1>7, <1>8, <1>9, <1>10, <1>11 DEF Next, TaskStep

(* The invariant holds throughout. *)
THEOREM MemoryQuotaInvariant == Spec => []IInv
BY IInvInit, IInvNext, PTL DEF Spec

(* Every byte that the tracker holds against a participant is in a cache, in  *)
(* the queue, or on its way there (mtracker.rs, mq_queue.rs), for any number  *)
(* of accounts, queues and items and while any of them go.                    *)
THEOREM MemoryQuotaUsedIsHeld == Spec => []UsedIsHeld
<1>1. IInv => UsedIsHeld
  BY Zenon DEF IInv, Types, QInv, UsedIsHeld, Held, Weight, Items
<1> QED BY <1>1, MemoryQuotaInvariant, PTL

(* A participant with an empty queue never appears to use more than the       *)
(* caches of its handles (analyse_particip, reclaim.rs).                      *)
THEOREM MemoryQuotaNeverAccused == Spec => []NeverAccusedOfLying
<1>1. ASSUME IInv, NEW q \in recorded, status[q] # "constructing", queue[q] = <<>>
      PROVE  used[q] <= Handles(q) * MAX_CACHE
  <2>1. q \in Queues /\ QInv(q)
    BY <1>1, SMTT(30) DEF IInv, Types
  <2>2. HasRx(q)
    BY <1>1, <2>1 DEF IInv, Types, QInv, HasRx, Stages
  <2>3. /\ tx_cache[q] \in Nat /\ tx_cache[q] <= MAX_CACHE
        /\ rx_cache[q] \in Nat /\ rx_cache[q] <= MAX_CACHE
    BY <1>1, <2>1, CacheConstants, SMTT(30) DEF IInv, Types
  <2>4. used[q] = tx_cache[q] + rx_cache[q] + Weight(IF inflight[q] = 0 THEN 0 ELSE 1)
    <3>1. Items(q) = IF inflight[q] = 0 THEN 0 ELSE 1
      BY <1>1, SMTT(30) DEF Items
    <3> QED BY <2>1, <3>1 DEF QInv
  <2>5. CASE tx[q]
    <3>1. tx_cache[q] + Weight(IF inflight[q] = 0 THEN 0 ELSE 1) <= MAX_CACHE
      <4>1. CASE inflight[q] = 0
        BY <2>3, <4>1, WeightStep, CacheConstants
      <4>2. CASE inflight[q] # 0
        BY <2>1, <4>2, WeightStep, Zenon DEF QInv
      <4> QED BY <4>1, <4>2, SMTT(30)
    <3>2. Handles(q) * MAX_CACHE = MAX_CACHE + MAX_CACHE
      <4>1. Handles(q) = 2
        BY <2>2, <2>5 DEF Handles
      <4> QED BY <4>1, CacheConstants
    <3>3. Weight(IF inflight[q] = 0 THEN 0 ELSE 1) \in Nat
      BY WeightStep
    <3> QED BY <2>3, <2>4, <3>1, <3>2, <3>3, CacheConstants
  <2>6. CASE ~tx[q]
    <3>1. used[q] = rx_cache[q]
      <4>1. tx_cache[q] = 0 /\ inflight[q] = 0
        BY <2>1, <2>6 DEF QInv
      <4> QED BY <2>3, <2>4, <4>1, WeightStep, SMTT(30)
    <3>2. Handles(q) * MAX_CACHE = MAX_CACHE
      <4>1. Handles(q) = 1
        BY <2>2, <2>6 DEF Handles
      <4> QED BY <4>1, CacheConstants
    <3> QED BY <2>3, <3>1, <3>2
  <2> QED BY <2>5, <2>6
<1>2. IInv => NeverAccusedOfLying
  BY <1>1 DEF NeverAccusedOfLying
<1> QED BY <1>2, MemoryQuotaInvariant, PTL

=============================================================================
