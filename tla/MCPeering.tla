----------------------------- MODULE MCPeering -----------------------------
(* Sockets that break and are made again, a request of each node, ready() futures. *)
EXTENDS Peering
=============================================================================
