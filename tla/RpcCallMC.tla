----------------------------- MODULE RpcCallMC -----------------------------
(* RpcCall on small instances. *)
EXTENDS RpcCall

\* The methods with more than one call, whose steps can interfere.
CoreApis == {"updateMember", "getBalance"}
=============================================================================
