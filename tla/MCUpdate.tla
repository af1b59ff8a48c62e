------------------------------ MODULE MCUpdate ------------------------------
(* A small instance of Update: see MCUpdate.cfg.                           *)
EXTENDS Update
=============================================================================
