--------------------------- MODULE MCBlockDownload ---------------------------
(***************************************************************************)
(* An instance of BlockDownload.                                           *)
(*                                                                         *)
(*   g - a1 - a2 - x3     x3 fails; p relays it, but does not send it       *)
(*                        q may send a2 with other transactions             *)
(***************************************************************************)
EXTENDS BlockDownload

MCParent == [g |-> NoBlock, a1 |-> "g", a2 |-> "a1", x3 |-> "a2"]
MCHas == [p |-> {"a1", "a2"}, q |-> {"a2", "x3"}]
MCAnnounces == [p |-> {"a2"}, q |-> {"x3"}]
MCPushes == [p |-> {}, q |-> {"a2"}]
MCRelays == [p |-> {"x3"}, q |-> {"a2"}]
MCGarbles == [p |-> {}, q |-> {"a2"}]
=============================================================================
