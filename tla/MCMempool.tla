------------------------------ MODULE MCMempool ------------------------------
(***************************************************************************)
(* An instance of Mempool.                                                 *)
(*                                                                         *)
(*   g - a1 - a2       k is the coinbase of a1, spent by E when mature     *)
(*     \ b1 - b2       F is in both branches; D conflicts with A           *)
(*                                                                         *)
(*   A spends G, B spends A, C spends A and B, H spends C and F.  F is not *)
(*   standard: only a block can have it, and H goes when F is put back.    *)
(***************************************************************************)
EXTENDS Mempool

MCParent == [g |-> NoBlock, a1 |-> "g", a2 |-> "a1", b1 |-> "g", b2 |-> "b1"]
MCVtx == [g |-> <<"G">>, a1 |-> <<"k", "A", "F">>, a2 |-> <<"l", "B", "C">>,
          b1 |-> <<"m", "F">>, b2 |-> <<"n", "D">>]
MCVin == [G |-> <<>>, k |-> <<>>, l |-> <<>>, m |-> <<>>, n |-> <<>>,
          A |-> << <<"G", 1>> >>,
          B |-> << <<"A", 1>> >>,
          C |-> << <<"A", 2>>, <<"B", 1>> >>,
          D |-> << <<"G", 1>> >>,
          E |-> << <<"k", 1>> >>,
          F |-> << <<"G", 2>> >>,
          H |-> << <<"C", 1>>, <<"F", 1>> >>]
MCNOut == [G |-> 2, k |-> 1, l |-> 0, m |-> 0, n |-> 0,
           A |-> 2, B |-> 1, C |-> 1, D |-> 0, E |-> 0, F |-> 1, H |-> 0]
MCFee == [G |-> 0, k |-> 0, l |-> 0, m |-> 0, n |-> 0,
          A |-> 2, B |-> 3, C |-> 2, D |-> 8, E |-> 4, F |-> 1, H |-> 5]
MCSize == [G |-> 1, k |-> 1, l |-> 1, m |-> 1, n |-> 1,
           A |-> 1, B |-> 2, C |-> 1, D |-> 2, E |-> 1, F |-> 1, H |-> 1]
MCLockHeight == [t \in Tx |-> IF t = "B" THEN 2 ELSE 0]
=============================================================================
