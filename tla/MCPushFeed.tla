----------------------------- MODULE MCPushFeed -----------------------------
(***************************************************************************)
(* Node codes for TLC: one for each status of the node table, the receipt  *)
(* and delivery nodes, and the short codes the table does not have.        *)
(***************************************************************************)
EXTENDS PushFeed

MCNode == {"FIRST_MILE_ARRIVE", "IN_TRANSIT", "DELIVERY_FAILURE", "DELIVERED",
           "XD/ZC", "MD/TT"}
=============================================================================
