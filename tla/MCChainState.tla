---------------------------- MODULE MCChainState ----------------------------
(***************************************************************************)
(* An instance of ChainState; a block adds one unit of work.               *)
(*                                                                         *)
(*     g - a1 - a2 - a3                                                    *)
(*       \ b1 - b2 - b3                                                    *)
(*             \ c2                                                        *)
(***************************************************************************)
EXTENDS ChainState

MCParent == [b \in Block |-> CASE b = "g" -> NoBlock
                               [] b \in {"a1", "b1"} -> "g"
                               [] b = "a2" -> "a1" [] b \in {"b2", "c2"} -> "b1"
                               [] b = "a3" -> "a2" [] b = "b3" -> "b2"]
MCWork == [b \in Block |-> Height[b] + 1]
MCAddr == [b \in Block |->
              CHOOSE i \in 1..8 : <<"g", "a1", "a2", "a3", "b1", "b2", "b3", "c2">>[i] = b]
MCMinSequenceId == -2
=============================================================================
