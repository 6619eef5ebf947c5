---------------------------- MODULE MC_Settlement -----------------------------
(* Settlement for TLC: one gateway is configured at a time.                  *)
EXTENDS Settlement

OneGateway == {Crypto, Cards}
=============================================================================
