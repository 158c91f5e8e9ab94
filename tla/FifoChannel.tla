---------------------------- MODULE FifoChannel ----------------------------
(***************************************************************************)
(* What a conflux tunnel promises in each direction: the cells that one    *)
(* end sends, numbered 1, 2, 3, ..., are handled by the other end in that  *)
(* order, each of them once, whichever legs they travelled on.             *)
(***************************************************************************)
EXTENDS Naturals, Sequences

VARIABLES
    sent,   \* the number of cells sent
    got     \* the cells handled at the other end

Init == sent = 0 /\ got = << >>

Send == sent' = sent + 1 /\ got' = got

\* One step may handle several cells: the one that was missing and those that
\* were waiting for it.
Deliver ==
    \E k \in 1..(sent - Len(got)) :
        /\ got' = got \o [i \in 1..k |-> Len(got) + i]
        /\ sent' = sent

Next == Send \/ Deliver

Spec == Init /\ [][Next]_<<sent, got>>
=============================================================================
