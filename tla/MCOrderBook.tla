----------------------------- MODULE MCOrderBook -----------------------------
(* A small instance of OrderBook for TLC. *)
EXTENDS OrderBook
=============================================================================
