--------------------------- MODULE MCProviderCalls ----------------------------
(* A small instance of ProviderCalls for TLC.                              *)
EXTENDS ProviderCalls, TLC

CONSTANTS c1, c2
=============================================================================
