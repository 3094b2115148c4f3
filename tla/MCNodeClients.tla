--------------------------- MODULE MCNodeClients ---------------------------
(***************************************************************************)
(* Two versions a node may report: one with all fields different, a nonce  *)
(* a double has no room for and bits of three service words; one without a *)
(* user agent.                                                             *)
(***************************************************************************)
EXTENDS NodeClients

Plain ==
  [version |-> 3, services |-> 5, timestamp |-> 4, addr_recv_services |-> 1,
   addr_recv_ip_address |-> 6, addr_recv_port |-> 2, addr_trans_services |-> 8,
   addr_trans_ip_address |-> 7, addr_trans_port |-> 1, nonce |-> 7,
   user_agent |-> <<9, 8>>, start_height |-> 2, relay |-> 1]

NoAgent == [Plain EXCEPT !.user_agent = <<>>, !.relay = 0]

Reported == {Plain, NoAgent}
=============================================================================
