----------------------------- MODULE MCBootstrap -----------------------------
(***************************************************************************)
(* Instances of Bootstrap for TLC.                                         *)
(***************************************************************************)
EXTENDS Bootstrap

MCExample ==
    [n \in AppConfig |->
        CASE n = "MODE" -> "API"
          [] n = "NETWORK" -> "sepolia"
          [] n = "LOCK_ID" -> 1
          [] n \in {RpcUrl[w] : w \in Network} -> "alchemy"
          [] n \in {Address[w] : w \in Network} -> "address"
          [] n \in {StartBlockName[w] : w \in Network} -> 0
          [] n = "BATCH_SYNC_INTERVAL_MINUTES" -> 15
          [] n = "BATCH_SYNC_SIZE" -> 1000
          [] n = "LOGS_MAX_RANGE" -> Unset]

MCChoice ==
    [n \in AppConfig |-> {MCExample[n]} \cup
        CASE n = "MODE" -> {Unset, "NFC", "IOT", "api"}
          [] n = "NETWORK" -> {Unset, "mainnet", "MAINNET", "goerli"}
          [] n = "LOCK_ID" -> {Unset, -1, NaN}
          [] n \in {RpcUrl[w] : w \in Network} -> {Unset, "plain"}
          [] n \in {Address[w] : w \in Network} -> {Unset, "malformed"}
          [] n \in {StartBlockName[w] : w \in Network} -> {Unset, -5, 5, 20, NaN}
          [] n = "BATCH_SYNC_INTERVAL_MINUTES" -> {Unset, 0, NaN}
          [] n = "BATCH_SYNC_SIZE" -> {Unset, 0, 4, 10001, NaN}
          [] n = "LOGS_MAX_RANGE" -> {0, 3, NaN}]
=============================================================================
