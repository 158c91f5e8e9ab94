---------------------------- MODULE MCPublisher -----------------------------
(***************************************************************************)
(* The descriptor publisher with one time period, then another, and no     *)
(* failures.                                                               *)
(***************************************************************************)
EXTENDS Publisher

FirstNetdir == <<[tp |-> "p1", ring |-> <<"a">>], [tp |-> "p2", ring |-> <<"a">>]>>
MCNetdirs == {FirstNetdir, <<[tp |-> "p2", ring |-> <<"b", "a">>], [tp |-> "p3", ring |-> <<"a">>]>>}

MCInit == Init /\ netdir = FirstNetdir /\ epoch = 0
MCSpec == MCInit /\ [][Next]_pbvars
=============================================================================
