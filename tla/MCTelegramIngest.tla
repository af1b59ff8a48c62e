-------------------------- MODULE MCTelegramIngest --------------------------
(* Small instances of TelegramIngest: see the MCTelegramIngest*.cfg.       *)
EXTENDS TelegramIngest
=============================================================================
