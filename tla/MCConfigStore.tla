--------------------------- MODULE MCConfigStore ---------------------------
(* A small instance of ConfigStore: see MCConfigStore.cfg.                 *)
EXTENDS ConfigStore
=============================================================================
