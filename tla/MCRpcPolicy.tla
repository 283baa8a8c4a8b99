----------------------------- MODULE MCRpcPolicy -----------------------------
(* Instances of RpcPolicy for TLC. *)
EXTENDS RpcPolicy
=============================================================================
