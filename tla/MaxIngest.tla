----------------------------- MODULE MaxIngest -----------------------------
(***************************************************************************)
(* pollMAX (cmd/picoman/daemon.go) and the marker that the MAX client      *)
(* (internal/max/max.go) keeps in memory: which updates reach              *)
(* handleMessage.  The marker moves when a batch arrives, before it is     *)
(* handled; every connection first drains what it finds; a mutex is held   *)
(* across each request.  Goroutines of a transport that was switched off   *)
(* go on beside those that replace them.  MAX is external: it answers with *)
(* the updates after the marker, or after the last marker it was given.    *)
(***************************************************************************)
EXTENDS Integers

CONSTANTS
    Gens,         \* the goroutines of start and startPoll, used again when they end
    MaxUpdates,   \* bound: updates that arrive
    MaxSwitches,  \* bound: commands that switch the transport
    MaxRestarts   \* bound: ends of the process

ASSUME BoundsAssumption ==
    MaxUpdates \in Nat /\ MaxSwitches \in Nat /\ MaxRestarts \in Nat

VARIABLES
    arrived,     \* MAX has received the updates 1 .. arrived
    given,       \* the last marker MAX was given
    marker,      \* Client.marker, NoMarker in a new process
    on,          \* the transport is enabled
    start,       \* the daemon or a switch has yet to start it
    pc,          \* where each goroutine is
    from, last,  \* the updates from .. last of its answer are still to be handled
    stopped,     \* goroutines whose context is cancelled
    handled,     \* how often each update was passed to handleMessage
    skipped,     \* updates drained, or in a batch when the process ended
    switches, restarts

vars == <<arrived, given, marker, on, start, pc, from, last, stopped, handled, skipped,
          switches, restarts>>

Updates == 1 .. MaxUpdates
NoMarker == -1

Init ==
    /\ arrived = 0 /\ given = 0
    /\ marker = NoMarker
    /\ on = TRUE /\ start = TRUE
    /\ pc = [g \in Gens |-> "off"]
    /\ from = [g \in Gens |-> 1]
    /\ last = [g \in Gens |-> 0]
    /\ stopped = {}
    /\ handled = [u \in Updates |-> 0]
    /\ skipped = {}
    /\ switches = 0 /\ restarts = 0

Running == {g \in Gens : pc[g] # "off"}

\* The updates that g has received and will handle.
Batch(g) == IF pc[g] = "handling" THEN from[g] .. last[g] ELSE {}

-----------------------------------------------------------------------------

Arrive ==
    /\ arrived < MaxUpdates
    /\ arrived' = arrived + 1
    /\ UNCHANGED <<given, marker, on, start, pc, from, last, stopped, handled, skipped,
                   switches, restarts>>

\* Mutant: a connection polls at once.
StartUndrained(g) ==
    /\ start /\ g \notin Running /\ Running \subseteq stopped
    /\ start' = FALSE
    /\ pc' = [pc EXCEPT ![g] = "polling"]
    /\ UNCHANGED <<arrived, given, marker, on, from, last, stopped, handled, skipped,
                   switches, restarts>>

\* start: the handshake ends with Drain.
Start(g) ==
    /\ start /\ g \notin Running /\ Running \subseteq stopped
    /\ start' = FALSE
    /\ pc' = [pc EXCEPT ![g] = "connecting"]
    /\ UNCHANGED <<arrived, given, marker, on, from, last, stopped, handled, skipped,
                   switches, restarts>>

\* transports off and on.
Switch ==
    /\ switches < MaxSwitches
    /\ switches' = switches + 1
    /\ on' = ~on /\ start' = ~on
    /\ stopped' = IF on THEN Running ELSE stopped
    /\ UNCHANGED <<arrived, given, marker, pc, from, last, handled, skipped, restarts>>

\* To another place, or to the end when the context is cancelled.
Go(g, to) ==
    /\ pc' = [pc EXCEPT ![g] = IF g \in stopped THEN "off" ELSE to]
    /\ stopped' = stopped \ {g}

\* Mutant: getUpdates without the mutex.
MutexIgnored == TRUE

\* Nobody is between the request and the answer of getUpdates.
MutexFree == ~\E g \in Gens : pc[g] \in {"draining", "asked"}

\* getUpdates, to the answer of MAX; a cancelled request is not sent, but one that
\* was sent may still be answered.
Ask(g) ==
    /\ pc[g] \in {"connecting", "polling"} /\ g \notin stopped
    /\ MutexFree
    /\ pc' = [pc EXCEPT ![g] = IF @ = "connecting" THEN "draining" ELSE "asked"]
    /\ given' = IF marker > given THEN marker ELSE given
    /\ from' = [from EXCEPT ![g] = (IF marker = NoMarker THEN given ELSE marker) + 1]
    /\ last' = [last EXCEPT ![g] = arrived]
    /\ UNCHANGED <<arrived, marker, on, start, stopped, handled, skipped, switches, restarts>>

\* Mutant: a failed poll ends the poller.
AskFailsForGood(g) ==
    /\ pc[g] \in {"connecting", "draining", "polling", "asked"}
    /\ pc' = [pc EXCEPT ![g] = "off"]
    /\ stopped' = stopped \ {g}
    /\ UNCHANGED <<arrived, given, marker, on, start, from, last, handled, skipped,
                   switches, restarts>>

\* The request or its answer is lost, or cancelled: the marker stays.
AskFails(g) ==
    /\ \/ pc[g] \in {"connecting", "draining"} /\ Go(g, "connecting")
       \/ pc[g] \in {"polling", "asked"} /\ Go(g, "polling")
    /\ UNCHANGED <<arrived, given, marker, on, start, from, last, handled, skipped,
                   switches, restarts>>

\* Drain drops what it got; startPoll refuses a goroutine that was stopped.
Drained(g) ==
    /\ pc[g] = "draining"
    /\ marker' = last[g]
    /\ skipped' = skipped \cup (from[g] .. last[g])
    /\ Go(g, "polling")
    /\ UNCHANGED <<arrived, given, on, start, from, last, handled, switches, restarts>>

\* Mutant: an answer always moves the marker to the newest update.
ReceiveNewest(g) ==
    /\ pc[g] = "asked"
    /\ marker' = arrived
    /\ IF from[g] > last[g]
       THEN Go(g, "polling")
       ELSE pc' = [pc EXCEPT ![g] = "handling"] /\ UNCHANGED stopped
    /\ UNCHANGED <<arrived, given, on, start, from, last, handled, skipped, switches, restarts>>

\* The rest of getUpdates.
Receive(g) ==
    /\ pc[g] = "asked"
    /\ marker' = last[g]
    /\ IF from[g] > last[g]
       THEN Go(g, "polling")
       ELSE pc' = [pc EXCEPT ![g] = "handling"] /\ UNCHANGED stopped
    /\ UNCHANGED <<arrived, given, on, start, from, last, handled, skipped, switches, restarts>>

\* Mutant: the last update of a batch is handled first.
HandleLast(g) ==
    /\ pc[g] = "handling" /\ from[g] <= last[g]
    /\ handled' = [handled EXCEPT ![last[g]] = @ + 1]
    /\ last' = [last EXCEPT ![g] = @ - 1]
    /\ UNCHANGED <<arrived, given, marker, on, start, pc, from, stopped, skipped, switches,
                   restarts>>

Handle(g) ==
    /\ pc[g] = "handling" /\ from[g] <= last[g]
    /\ handled' = [handled EXCEPT ![from[g]] = @ + 1]
    /\ from' = [from EXCEPT ![g] = @ + 1]
    /\ UNCHANGED <<arrived, given, marker, on, start, pc, last, stopped, skipped, switches,
                   restarts>>

BatchDone(g) ==
    /\ pc[g] = "handling" /\ from[g] > last[g]
    /\ Go(g, "polling")
    /\ UNCHANGED <<arrived, given, marker, on, start, from, last, handled, skipped, switches,
                   restarts>>

\* The process is killed, or runDaemon returns, which waits for no poller; it is
\* started again.
Restart ==
    /\ restarts < MaxRestarts
    /\ restarts' = restarts + 1
    /\ marker' = NoMarker
    /\ start' = on
    /\ pc' = [g \in Gens |-> "off"]
    /\ stopped' = {}
    /\ skipped' = skipped \cup UNION {Batch(g) : g \in Gens}
    /\ UNCHANGED <<arrived, given, on, from, last, handled, switches>>

Next ==
    \/ Arrive \/ Switch \/ Restart
    \/ \E g \in Gens : \/ Start(g) \/ Ask(g) \/ AskFails(g) \/ Drained(g) \/ Receive(g)
                       \/ Handle(g) \/ BatchDone(g)

\* Goroutines run, the mutex is fair, a platform that is asked again and again
\* answers, and a transport that was started is polled.
Fairness ==
    /\ WF_vars(\E g \in Gens : Start(g))
    /\ \A g \in Gens : /\ SF_vars(Ask(g)) /\ SF_vars(Drained(g)) /\ SF_vars(Receive(g))
                       /\ WF_vars(AskFails(g)) /\ WF_vars(Handle(g)) /\ WF_vars(BatchDone(g))

Spec == Init /\ [][Next]_vars /\ Fairness

-----------------------------------------------------------------------------
(* Properties.                                                             *)

\* Every variable has its type.
TypeOK ==
    /\ arrived \in 0 .. MaxUpdates
    /\ given \in 0 .. MaxUpdates
    /\ marker \in NoMarker .. MaxUpdates
    /\ on \in BOOLEAN /\ start \in BOOLEAN
    /\ pc \in [Gens -> {"off", "connecting", "draining", "polling", "asked", "handling"}]
    /\ from \in [Gens -> 1 .. MaxUpdates + 1]
    /\ last \in [Gens -> 0 .. MaxUpdates]
    /\ stopped \subseteq Gens
    /\ handled \in [Updates -> Nat]
    /\ skipped \subseteq Updates
    /\ switches \in 0 .. MaxSwitches /\ restarts \in 0 .. MaxRestarts

\* No update is handled twice, nor after it was given up, though the process
\* restarts without its marker and two pollers share one.
AtMostOnce ==
    \A u \in Updates :
        \/ handled[u] = 0
        \/ handled[u] = 1 /\ ~\E g \in Gens : u \in Batch(g)

\* An update behind the marker that was not handled was found by a connection that
\* drained it, was lost with the process, or is in a batch under way.
LossExplained ==
    \A u \in Updates :
        u <= marker => handled[u] > 0 \/ u \in skipped \/ \E g \in Gens : u \in Batch(g)

\* Only the batch of a poller that was stopped is overtaken by a later update.
OvertakesStopped ==
    \A u, v \in Updates :
        u < v /\ handled[v] > 0 =>
            \/ handled[u] > 0
            \/ u \in skipped
            \/ \E g \in stopped : u \in Batch(g)

\* Every update is handled or skipped in the end, unless the transport is off.
AllSettled ==
    \A u \in Updates : arrived >= u ~> handled[u] > 0 \/ u \in skipped \/ ~on
=============================================================================
