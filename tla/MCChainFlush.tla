---------------------------- MODULE MCChainFlush ----------------------------
(***************************************************************************)
(* Instances of ChainFlush.                                                *)
(*                                                                         *)
(*   Fork tree:     g - p - a1 - a2           t1 confirmed at a1 and, one  *)
(*                        \ b1 - b2           height later, at b2; t2 and  *)
(*                                            t3 spend the same coin; t3   *)
(*                                            spends t1 inside its block   *)
(*   Genesis tree:  g - p - q                 t1 of block q spends the     *)
(*                                            coin of the genesis block    *)
(***************************************************************************)
EXTENDS ChainFlush

ForkParent == [g |-> NoBlock, p |-> "g", a1 |-> "p", a2 |-> "a1", b1 |-> "p", b2 |-> "b1"]
ForkVtx == [g |-> <<"cg">>, p |-> <<"cp">>,
            a1 |-> <<"ca1", "t1">>, a2 |-> <<"ca2", "t2">>,
            b1 |-> <<"cb1">>, b2 |-> <<"cb2", "t1", "t3">>]
ForkVin == [cg |-> <<>>, cp |-> <<>>, ca1 |-> <<>>, ca2 |-> <<>>, cb1 |-> <<>>, cb2 |-> <<>>,
            t1 |-> << <<"cp", 1>> >>,
            t2 |-> << <<"t1", 1>>, <<"cp", 2>> >>,
            t3 |-> << <<"cp", 2>>, <<"t1", 2>> >>]
ForkNOut == [cg |-> 1, cp |-> 2, ca1 |-> 1, ca2 |-> 1, cb1 |-> 1, cb2 |-> 1,
             t1 |-> 2, t2 |-> 1, t3 |-> 1]

GenesisParent == [g |-> NoBlock, p |-> "g", q |-> "p"]
GenesisVtx == [g |-> <<"cg">>, p |-> <<"cp">>, q |-> <<"cq", "t1">>]
GenesisVin == [cg |-> <<>>, cp |-> <<>>, cq |-> <<>>, t1 |-> << <<"cg", 1>> >>]
GenesisNOut == [cg |-> 1, cp |-> 1, cq |-> 1, t1 |-> 1]
=============================================================================
