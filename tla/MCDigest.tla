------------------------------ MODULE MCDigest ------------------------------
(* Small instances of Digest: see the MCDigest*.cfg.                       *)
EXTENDS Digest
=============================================================================
