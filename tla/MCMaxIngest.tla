---------------------------- MODULE MCMaxIngest ----------------------------
(* Small instances of MaxIngest: see the MCMaxIngest*.cfg.                 *)
EXTENDS MaxIngest
=============================================================================
