----------------------------- MODULE MCBinanceWs -----------------------------
(* Small instances of BinanceWs for TLC. *)
EXTENDS BinanceWs

CONSTANTS c1, c2
=============================================================================
