----------------------------- MODULE MCPurchase -----------------------------
EXTENDS LoadTest, TLC

Symmetry == Permutations(Users) \cup Permutations(OrderNos) \cup Permutations(Clients)

(* A bound: one entry of the Stream is processed at a time while the load test *)
(* runs. Consumers that meet are left to the behaviours without it.            *)
OneConsumer ==
  phase # "off" /\ entry = "stream" =>
    Cardinality({c \in Clients : calls[c].step # "idle"}) <= 1

(* Another: a comparison is followed only while its reads of Redis may agree. *)
Followed == probe.step = "buyers" => Still

BoundedSpec == LoadInit /\ [][LoadNext /\ OneConsumer' /\ Followed']_loadVars
=============================================================================
