-------------------------- MODULE MCBrowserWsClient --------------------------
(* A small instance of BrowserWsClient for TLC. *)
EXTENDS BrowserWsClient

CONSTANTS k1, k2
=============================================================================
