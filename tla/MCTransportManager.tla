------------------------- MODULE MCTransportManager -------------------------
(* Small instances of TransportManager: see the MCTransportManager*.cfg.   *)
EXTENDS TransportManager
=============================================================================
