---------------------------- MODULE MCCredential ----------------------------
(* A small instance of Credential: see MCCredential.cfg.                   *)
EXTENDS Credential

\* Values below, inside and beyond the limits that Unlock checks.
MCTTLs == {-2, 0, 1, 2, 3}
=============================================================================
