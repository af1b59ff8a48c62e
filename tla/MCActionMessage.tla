-------------------------- MODULE MCActionMessage --------------------------
(* A small instance of ActionMessage: see MCActionMessage.cfg.             *)
EXTENDS ActionMessage
=============================================================================
