----------------------------- MODULE MCP2pPeers -----------------------------
(* Two uids.                *)
EXTENDS P2pPeers
=============================================================================
