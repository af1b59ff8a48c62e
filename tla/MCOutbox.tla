------------------------------ MODULE MCOutbox ------------------------------
(* Small instances of Outbox: see the MCOutbox*.cfg.                       *)
EXTENDS Outbox

\* Every kind of message.
MCAllKinds == [reply : BOOLEAN, html : BOOLEAN]

\* Plain text.
MCPlainKind == {[reply |-> FALSE, html |-> FALSE]}
=============================================================================
