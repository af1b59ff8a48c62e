---------------------------- MODULE TransportLife ----------------------------
(***************************************************************************)
(* What the transport manager promises to those who read the updates of    *)
(* one transport (pollTelegram, and Drain and pollMAX, which share the     *)
(* marker of one client): goroutines begin, are cancelled and end, and one *)
(* begins only when every other one of the transport is cancelled.  It may *)
(* begin before they have ended.                                           *)
(***************************************************************************)
CONSTANT Goroutines   \* all that are ever created

VARIABLES
    alive,      \* the goroutines that run
    cancelled   \* those of them whose context is cancelled

life == <<alive, cancelled>>

Init == alive = {} /\ cancelled = {}

Begin(g) ==
    /\ g \notin alive
    /\ alive \subseteq cancelled
    /\ alive' = alive \cup {g}
    /\ UNCHANGED cancelled

\* The transport is switched off.
Cancel ==
    /\ cancelled' = alive
    /\ UNCHANGED alive

\* A goroutine returns: it was cancelled, refused, or has handed over to the next.
End(g) ==
    /\ alive' = alive \ {g}
    /\ cancelled' = cancelled \ {g}

Next == Cancel \/ \E g \in Goroutines : Begin(g) \/ End(g)

Spec == Init /\ [][Next]_life

-----------------------------------------------------------------------------

\* Only one of the goroutines may still ask the platform for updates: the others are
\* on their way out.
OneLive ==
    /\ cancelled \subseteq alive /\ alive \subseteq Goroutines
    /\ \A g, h \in alive \ cancelled : g = h
=============================================================================
