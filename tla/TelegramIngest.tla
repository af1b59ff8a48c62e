--------------------------- MODULE TelegramIngest ---------------------------
(***************************************************************************)
(* pollTelegram (cmd/picoman/daemon.go) and the offset that the outbox's   *)
(* database keeps for it: how often, and in which order, an update reaches *)
(* handleMessage.  The offset is stored once a batch is handled, the       *)
(* process may end at any step, and the poller of a transport that was     *)
(* switched off finishes its batch beside the one that replaces it.        *)
(* Telegram is external: it forgets every update below an offset it gets.  *)
(***************************************************************************)
EXTENDS Integers

CONSTANTS
    Pollers,      \* the goroutines of startPoll, used again when they end
    MaxUpdates,   \* bound: updates that arrive
    MaxSwitches,  \* bound: commands that switch the transport
    MaxFaults     \* bound: ends of the process, failed writes, overlaps

ASSUME BoundsAssumption ==
    MaxUpdates \in Nat /\ MaxSwitches \in Nat /\ MaxFaults \in Nat

VARIABLES
    arrived,    \* Telegram has received the updates 1 .. arrived
    confirmed,  \* and forgotten those below confirmed
    stored,     \* tg_offset in the database, 0 for none
    on,         \* the transport is enabled
    start,      \* startPoll is due: the daemon or a switch started the transport
    pc, offset, \* each poller's place and its variable offset
    from, last, \* the updates from .. last of its answer are still to be handled
    stopped,    \* pollers whose context is cancelled
    handled,    \* how often each update was passed to handleMessage
    switches, faults

pollVars == <<pc, offset, from, last>>
vars == <<arrived, confirmed, stored, on, start, pc, offset, from, last, stopped,
          handled, switches, faults>>

Updates == 1 .. MaxUpdates

Init ==
    /\ arrived = 0 /\ confirmed = 1
    /\ stored = 0
    /\ on = TRUE /\ start = TRUE
    /\ pc = [p \in Pollers |-> "off"]
    /\ offset = [p \in Pollers |-> 0]
    /\ from = [p \in Pollers |-> 1]
    /\ last = [p \in Pollers |-> 0]
    /\ stopped = {}
    /\ handled = [u \in Updates |-> 0]
    /\ switches = 0 /\ faults = 0

Running == {p \in Pollers : pc[p] # "off"}
Fault == faults < MaxFaults /\ faults' = faults + 1

\* offset = update.UpdateID + 1.
After(u) == u + 1

-----------------------------------------------------------------------------

Arrive ==
    /\ arrived < MaxUpdates
    /\ arrived' = arrived + 1
    /\ UNCHANGED <<confirmed, stored, on, start, pollVars, stopped, handled, switches, faults>>

\* A start beside a poller that was stopped and still runs is counted as a fault.
StartPoll(p) ==
    /\ start /\ p \notin Running /\ Running \subseteq stopped
    /\ IF Running = {} THEN UNCHANGED faults ELSE Fault
    /\ start' = FALSE
    /\ pc' = [pc EXCEPT ![p] = "asking"]
    /\ offset' = [offset EXCEPT ![p] = stored]
    /\ UNCHANGED <<arrived, confirmed, stored, on, from, last, stopped, handled, switches>>

\* transports off and on, in short: stop cancels, start leads to startPoll.
Switch ==
    /\ switches < MaxSwitches
    /\ switches' = switches + 1
    /\ on' = ~on /\ start' = ~on
    /\ stopped' = IF on THEN Running ELSE stopped
    /\ UNCHANGED <<arrived, confirmed, stored, pollVars, handled, faults>>

\* The end of an iteration of the loop: its condition looks at the context.
Loop(p) ==
    /\ pc' = [pc EXCEPT ![p] = IF p \in stopped THEN "off" ELSE "asking"]
    /\ stopped' = stopped \ {p}

\* Telegram takes the offset and answers with what is left; a long poll may also
\* end with nothing.  A cancelled request is not sent, but one that was sent may
\* still be answered.
Serve(p) ==
    /\ pc[p] = "asking" /\ p \notin stopped
    /\ pc' = [pc EXCEPT ![p] = "asked"]
    /\ confirmed' = IF offset[p] > confirmed THEN offset[p] ELSE confirmed
    /\ from' = [from EXCEPT ![p] = confirmed']
    /\ last' = [last EXCEPT ![p] = arrived]
    /\ UNCHANGED <<arrived, stored, on, start, offset, stopped, handled, switches, faults>>

\* Mutant: the poller returns after any error.
AskFailsForGood(p) ==
    /\ pc[p] \in {"asking", "asked"}
    /\ pc' = [pc EXCEPT ![p] = "off"]
    /\ stopped' = stopped \ {p}
    /\ UNCHANGED <<arrived, confirmed, stored, on, start, offset, from, last, handled,
                   switches, faults>>

\* The request or its answer is lost, or cancelled.
AskFails(p) ==
    /\ pc[p] \in {"asking", "asked"}
    /\ Loop(p)
    /\ UNCHANGED <<arrived, confirmed, stored, on, start, offset, from, last, handled,
                   switches, faults>>

\* Mutant: the offset is stored when a batch arrives, before it is handled.
ReceiveStores(p) ==
    /\ pc[p] = "asked" /\ from[p] <= last[p]
    /\ pc' = [pc EXCEPT ![p] = "handling"]
    /\ stored' = last[p] + 1
    /\ UNCHANGED <<arrived, confirmed, on, start, offset, from, last, stopped, handled,
                   switches, faults>>

Receive(p) ==
    /\ pc[p] = "asked" /\ from[p] <= last[p]
    /\ pc' = [pc EXCEPT ![p] = "handling"]
    /\ UNCHANGED <<arrived, confirmed, stored, on, start, offset, from, last, stopped,
                   handled, switches, faults>>

ReceiveNothing(p) ==
    /\ pc[p] = "asked" /\ from[p] > last[p]
    /\ Loop(p)
    /\ UNCHANGED <<arrived, confirmed, stored, on, start, offset, from, last, handled,
                   switches, faults>>

\* A batch is handled to its end, whether the context is cancelled or not.
Handle(p) ==
    /\ pc[p] = "handling" /\ from[p] <= last[p]
    /\ offset' = [offset EXCEPT ![p] = After(from[p])]
    /\ handled' = [handled EXCEPT ![from[p]] = @ + 1]
    /\ from' = [from EXCEPT ![p] = @ + 1]
    /\ UNCHANGED <<arrived, confirmed, stored, on, start, pc, last, stopped, switches, faults>>

\* Mutant: the offset is only kept in memory.
PersistNever(p) ==
    /\ pc[p] = "handling" /\ from[p] > last[p]
    /\ Loop(p)
    /\ UNCHANGED <<arrived, confirmed, stored, on, start, offset, from, last, handled,
                   switches, faults>>

\* SetTelegramOffset; the poller drops its error.
Persist(p) ==
    /\ pc[p] = "handling" /\ from[p] > last[p]
    /\ Loop(p)
    /\ \/ stored' = offset[p] /\ UNCHANGED faults
       \/ Fault /\ UNCHANGED stored
    /\ UNCHANGED <<arrived, confirmed, on, start, offset, from, last, handled, switches>>

\* The process is killed, or runDaemon returns, which waits for no poller; it is
\* started again.
Restart ==
    /\ Fault
    /\ start' = on
    /\ pc' = [p \in Pollers |-> "off"]
    /\ stopped' = {}
    /\ UNCHANGED <<arrived, confirmed, stored, on, offset, from, last, handled, switches>>

Next ==
    \/ Arrive \/ Switch \/ Restart
    \/ \E p \in Pollers : \/ StartPoll(p) \/ Serve(p) \/ AskFails(p) \/ Receive(p)
                          \/ ReceiveNothing(p) \/ Handle(p) \/ Persist(p)

\* A poller runs, a platform that is asked again and again answers, and a
\* transport that was started is polled.
Fairness ==
    /\ WF_vars(\E p \in Pollers : StartPoll(p))
    /\ \A p \in Pollers : /\ SF_vars(Serve(p)) /\ SF_vars(Receive(p))
                          /\ WF_vars(AskFails(p)) /\ WF_vars(ReceiveNothing(p))
                          /\ WF_vars(Handle(p)) /\ WF_vars(Persist(p))

Spec == Init /\ [][Next]_vars /\ Fairness

-----------------------------------------------------------------------------
(* Properties.                                                             *)

\* Every variable has its type.
TypeOK ==
    /\ arrived \in 0 .. MaxUpdates
    /\ confirmed \in 1 .. MaxUpdates + 1
    /\ stored \in 0 .. MaxUpdates + 1
    /\ on \in BOOLEAN /\ start \in BOOLEAN
    /\ pc \in [Pollers -> {"off", "asking", "asked", "handling"}]
    /\ offset \in [Pollers -> 0 .. MaxUpdates + 1]
    /\ from \in [Pollers -> 1 .. MaxUpdates + 1]
    /\ last \in [Pollers -> 0 .. MaxUpdates]
    /\ stopped \subseteq Pollers
    /\ handled \in [Updates -> Nat]
    /\ switches \in 0 .. MaxSwitches /\ faults \in 0 .. MaxFaults

\* What Telegram may forget has been handled: no command is lost, whenever the
\* process ends and whichever of two pollers writes its offset last.
NoneLost == \A u \in Updates : u < confirmed \/ u < stored => handled[u] > 0

\* Updates are handled for the first time in the order of their arrival.
FirstInOrder ==
    \A u, v \in Updates : u < v /\ handled[v] > 0 => handled[u] > 0

\* An update is handled again at most once for every end of the process, failed
\* write and overlap of two pollers: switching the transport while no batch is
\* under way repeats nothing.
RepeatsExplained == \A u \in Updates : handled[u] <= 1 + faults

\* Every update is handled in the end, unless the transport is switched off.
AllHandled ==
    \A u \in Updates : arrived >= u ~> handled[u] > 0 \/ ~on
=============================================================================
