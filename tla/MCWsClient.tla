----------------------------- MODULE MCWsClient -----------------------------
(* Small instances of WsClient for TLC. *)
EXTENDS WsClientProperties, TLC

Setting(on, legacy, max, legacyMax, health, pongs) ==
    [enabled |-> on, auto_reconnect |-> legacy,
     max_attempts |-> max, max_reconnect_attempts |-> legacyMax,
     health_check |-> health, max_missed_pongs |-> pongs]

CONSTANTS l1, l2, c1, c2, k1, k2, k3

\* Reconnection by either flag, by either limit, and off.
MixedConfigs == {Setting(TRUE, TRUE, 2, 1, TRUE, 2),
                 Setting(FALSE, TRUE, 0, 1, FALSE, 2),
                 Setting(FALSE, FALSE, 1, 1, TRUE, 1)}

DefaultConfig == {Setting(TRUE, TRUE, 1, 1, TRUE, 2)}

NoHealthConfig == {Setting(TRUE, TRUE, 1, 1, FALSE, 1)}

LiveConfig == {Setting(TRUE, FALSE, 1, 1, TRUE, 2)}

\* Each key is used by one caller.
OwnKeys == (c1 :> {k1}) @@ (c2 :> {k2})
OneCaller == (c1 :> {k1})
=============================================================================
