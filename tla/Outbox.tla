------------------------------- MODULE Outbox -------------------------------
(***************************************************************************)
(* One transport's lane of the outbox (internal/outbox/outbox.go): the    *)
(* SQLite table that holds its messages and the goroutines that send them.*)
(* The lanes of the two transports share no state, so a lane is the whole *)
(* component.  A sender reads the head of the queue, talks to the         *)
(* platform and writes the result back, and the process may stop between  *)
(* any two of these steps; the table outlives it.                         *)
(***************************************************************************)
EXTENDS Integers, Sequences, FiniteSets

CONSTANTS
    Transport,     \* "tg" or "mx": mx rows carry next_attempt_at
    Installers,    \* install commands that flush the outbox while Run is active
    Kinds,         \* the messages producers enqueue: a reply or not, HTML or not
    MaxAttempts,   \* maxAttempts: permanent errors before a row is dead
    MaxRows,       \* bound: messages enqueued
    MaxFaults,     \* bound: lost answers, transient errors, failed writes, crashes
    MaxShutdowns   \* bound: orderly shutdowns

ASSUME TransportAssumption == Transport \in {"tg", "mx"}
ASSUME KindsAssumption == Kinds \subseteq [reply : BOOLEAN, html : BOOLEAN]
ASSUME MaxAttemptsAssumption == MaxAttempts \in Nat \ {0}
ASSUME BoundsAssumption == /\ MaxRows \in Nat /\ MaxFaults \in Nat
                           /\ MaxShutdowns \in Nat
ASSUME InstallersAssumption == IsFiniteSet(Installers) /\ {"run", "exit"} \cap Installers = {}

VARIABLES
    rows,       \* the table, a row's position being its id
    sender,     \* the goroutines inside runTransport or flushTransport
    cancelled,  \* the senders whose context is cancelled
    enabled,    \* SetTransportEnabled's answer for this transport
    phase,      \* where runDaemon is; "down" when there is no process
    copies,     \* how often the platform accepted each row
    rejects,    \* how often it refused each row for good
    unrecorded, \* how often an acceptance of each row could not be recorded
    alerted,    \* rows that notifyDead told their chat about
    faults, shutdowns

daemonVars == <<cancelled, enabled, phase, faults, shutdowns>>
platformVars == <<copies, rejects, unrecorded, alerted>>
vars == <<rows, sender, cancelled, enabled, phase, copies, rejects, unrecorded,
          alerted, faults, shutdowns>>

\* "run" is Store.Run, "exit" the flush at the end of runDaemon.
Senders == {"run", "exit"} \cup Installers

Row == [reply : BOOLEAN, html : BOOLEAN, sent : BOOLEAN, dead : BOOLEAN,
        deferred : BOOLEAN, attempts : Nat]

\* A sender's copy of the row it read: id 0 before it reads one.
NoMsg == [id |-> 0, reply |-> FALSE, html |-> FALSE, attempts |-> 0]
Off == [pc |-> "off", msg |-> NoMsg]
Goroutine ==
    [pc : {"off", "loop", "sleeping", "sending", "accepted", "plain",
           "plainAccepted", "clearFormat", "markSent", "clearReply", "defer",
           "fail", "markDead"},
     msg : [id : Nat, reply : BOOLEAN, html : BOOLEAN, attempts : Nat]]

Init ==
    /\ rows = <<>>
    /\ sender = [s \in Senders |-> IF s = "run" THEN [Off EXCEPT !.pc = "loop"] ELSE Off]
    /\ cancelled = {}
    /\ enabled = FALSE
    /\ phase = "up"
    /\ copies = <<>> /\ rejects = <<>> /\ unrecorded = <<>>
    /\ alerted = {}
    /\ faults = 0 /\ shutdowns = 0

-----------------------------------------------------------------------------
Ids == 1 .. Len(rows)
Settled(i) == rows[i].sent \/ rows[i].dead
Pending == {i \in Ids : ~Settled(i)}

\* The only row that next considers.
IsHead(i) == i \in Pending /\ \A j \in Pending : i <= j

\* Mutant: next returns the first row that is due, not the head once it is due.
FirstDue(i) ==
    /\ i \in Pending /\ ~rows[i].deferred
    /\ \A j \in Pending : j < i => rows[j].deferred

\* The row next returns: the head, when its next_attempt_at has come.
IsNext(i) == IsHead(i) /\ ~rows[i].deferred

Fault ==
    /\ faults < MaxFaults
    /\ faults' = faults + 1

NoFault == UNCHANGED faults

At(s, pc) == sender[s].pc = pc
Goto(s, pc) == sender' = [sender EXCEPT ![s].pc = pc]
Return(s, pc) == sender' = [sender EXCEPT ![s] = [pc |-> pc, msg |-> NoMsg]]
Id(s) == sender[s].msg.id

\* An update of the sender's row: it takes effect, or SQLite refuses it.
Write(s, new) ==
    /\ rows' = [rows EXCEPT ![Id(s)] = new]
    /\ NoFault
WriteFails == UNCHANGED rows /\ Fault

\* What every step of a sender leaves alone.
SenderStep == UNCHANGED <<cancelled, enabled, phase, shutdowns>>

-----------------------------------------------------------------------------
(* The producers.                                                          *)

\* EnqueueTo: any goroutine of the daemon, at any time.
Enqueue ==
    /\ phase # "down"
    /\ Len(rows) < MaxRows
    /\ \E k \in Kinds :
          rows' = Append(rows, [reply |-> k.reply, html |-> k.html, sent |-> FALSE,
                                dead |-> FALSE, deferred |-> FALSE, attempts |-> 0])
    /\ copies' = Append(copies, 0)
    /\ rejects' = Append(rejects, 0)
    /\ unrecorded' = Append(unrecorded, 0)
    /\ UNCHANGED <<sender, alerted, daemonVars>>

\* next_attempt_at comes.
Due ==
    /\ \E i \in Ids : rows[i].deferred /\ rows' = [rows EXCEPT ![i].deferred = FALSE]
    /\ UNCHANGED <<sender, platformVars, daemonVars>>

\* The transport manager loses or regains the transport, or a user toggles it.
Toggle ==
    /\ phase # "down"
    /\ IF enabled THEN Fault ELSE NoFault
    /\ enabled' = ~enabled
    /\ UNCHANGED <<rows, sender, platformVars, cancelled, phase, shutdowns>>

-----------------------------------------------------------------------------
(* A sender's loop: runTransport for "run", flushTransport for the others. *)

\* The head is read into the sender's copy and sendOne starts with it.  Run does
\* not look at its context here; a send under a cancelled one fails at once.
Pick(s) ==
    /\ At(s, "loop")
    /\ enabled
    /\ s # "run" => s \notin cancelled
    /\ \E i \in Ids :
          /\ IsNext(i)
          /\ sender' = [sender EXCEPT ![s] =
                [pc |-> IF s \in cancelled THEN "defer" ELSE "sending",
                 msg |-> [id |-> i, reply |-> rows[i].reply, html |-> rows[i].html,
                          attempts |-> rows[i].attempts]]]
    /\ NoFault
    /\ SenderStep
    /\ UNCHANGED <<rows, platformVars>>

\* The query of next fails: a backoff like any other error.
PickFails(s) ==
    /\ At(s, "loop")
    /\ enabled
    /\ Fault
    /\ Return(s, "sleeping")
    /\ SenderStep
    /\ UNCHANGED <<rows, platformVars>>

\* Nothing to send: Run sleeps; a flush ends when it is disabled, out of time
\* or when nothing is pending, and sleeps while a deferred head is.
Idle(s) ==
    /\ At(s, "loop")
    /\ \/ ~enabled
       \/ s # "run" /\ s \in cancelled
       \/ ~\E i \in Ids : IsNext(i)
    /\ Return(s, IF s # "run" /\ (~enabled \/ s \in cancelled \/ Pending = {})
                 THEN "off" ELSE "sleeping")
    /\ NoFault
    /\ SenderStep
    /\ UNCHANGED <<rows, platformVars>>

\* Mutants: the loop ends after a delay, or never ends.
WakeQuits(s) ==
    /\ At(s, "sleeping")
    /\ Return(s, "off")
    /\ NoFault
    /\ SenderStep
    /\ UNCHANGED <<rows, platformVars>>
WakeIgnoresContext(s) ==
    /\ At(s, "sleeping")
    /\ Return(s, "loop")
    /\ NoFault
    /\ SenderStep
    /\ UNCHANGED <<rows, platformVars>>

\* sleepCtx: the delay passes, or the context ends it and the loop returns.
Wake(s) ==
    /\ At(s, "sleeping")
    /\ Return(s, IF s \in cancelled THEN "off" ELSE "loop")
    /\ NoFault
    /\ SenderStep
    /\ UNCHANGED <<rows, platformVars>>

-----------------------------------------------------------------------------
(* Sending: the platform acts before the sender learns of it.              *)

\* "sending" is the message as it was read, "plain" its second form, without
\* HTML, and "accepted", "plainAccepted" that the platform has delivered it.
Accept(s) ==
    /\ At(s, "sending") \/ At(s, "plain")
    /\ Goto(s, IF At(s, "plain") THEN "plainAccepted" ELSE "accepted")
    /\ copies' = [copies EXCEPT ![Id(s)] = @ + 1]
    /\ NoFault
    /\ SenderStep
    /\ UNCHANGED <<rows, rejects, unrecorded, alerted>>

Answer(s) ==
    /\ At(s, "accepted") \/ At(s, "plainAccepted")
    /\ Goto(s, IF At(s, "plainAccepted") THEN "clearFormat" ELSE "markSent")
    /\ NoFault
    /\ SenderStep
    /\ UNCHANGED <<rows, platformVars>>

\* A timeout, a broken connection or a cancelled context is a transient error.
LoseAnswer(s) ==
    /\ At(s, "accepted") \/ At(s, "plainAccepted")
    /\ IF s \in cancelled THEN NoFault ELSE Fault
    /\ Goto(s, "defer")
    /\ unrecorded' = [unrecorded EXCEPT ![Id(s)] = @ + 1]
    /\ SenderStep
    /\ UNCHANGED <<rows, copies, rejects, alerted>>

\* The message never arrives, or the platform asks for patience.
Transient(s) ==
    /\ At(s, "sending") \/ At(s, "plain")
    /\ IF s \in cancelled THEN NoFault ELSE Fault
    /\ Goto(s, "defer")
    /\ SenderStep
    /\ UNCHANGED <<rows, platformVars>>

\* The message it replies to is gone: only the first form is checked for it.
ReplyGone(s) ==
    /\ At(s, "sending")
    /\ sender[s].msg.reply
    /\ Goto(s, "clearReply")
    /\ NoFault
    /\ SenderStep
    /\ UNCHANGED <<rows, platformVars>>

\* Mutant: HTML refused for good counts as sent without the plain form.
RejectHTMLForgetsPlain(s) ==
    /\ At(s, "sending")
    /\ sender[s].msg.html
    /\ Goto(s, "clearFormat")
    /\ NoFault
    /\ SenderStep
    /\ UNCHANGED <<rows, platformVars>>

\* HTML refused for good is sent again as plain text, at once.
RejectHTML(s) ==
    /\ At(s, "sending")
    /\ sender[s].msg.html
    /\ Goto(s, IF s \in cancelled THEN "defer" ELSE "plain")
    /\ NoFault
    /\ SenderStep
    /\ UNCHANGED <<rows, platformVars>>

Reject(s) ==
    /\ At(s, "plain") \/ (At(s, "sending") /\ ~sender[s].msg.html)
    /\ Goto(s, "fail")
    /\ rejects' = [rejects EXCEPT ![Id(s)] = @ + 1]
    /\ NoFault
    /\ SenderStep
    /\ UNCHANGED <<rows, copies, unrecorded, alerted>>

-----------------------------------------------------------------------------
(* Recording the result.  Only markSent reports a failed write.            *)

MarkSent(s) ==
    /\ At(s, "markSent")
    /\ \/ /\ Write(s, [rows[Id(s)] EXCEPT !.sent = TRUE])
          /\ Return(s, "loop")
          /\ UNCHANGED unrecorded
       \/ /\ WriteFails
          /\ Return(s, "sleeping")
          /\ unrecorded' = [unrecorded EXCEPT ![Id(s)] = @ + 1]
    /\ SenderStep
    /\ UNCHANGED <<copies, rejects, alerted>>

\* Mutant: sendOne returns after clearFormat and does not mark the row sent.
ClearFormatReturns(s) ==
    /\ At(s, "clearFormat")
    /\ Write(s, [rows[Id(s)] EXCEPT !.html = FALSE]) \/ WriteFails
    /\ Return(s, "loop")
    /\ SenderStep
    /\ UNCHANGED platformVars

ClearFormat(s) ==
    /\ At(s, "clearFormat")
    /\ Write(s, [rows[Id(s)] EXCEPT !.html = FALSE]) \/ WriteFails
    /\ Goto(s, "markSent")
    /\ SenderStep
    /\ UNCHANGED platformVars

ClearReplyTo(s) ==
    /\ At(s, "clearReply")
    /\ Write(s, [rows[Id(s)] EXCEPT !.reply = FALSE]) \/ WriteFails
    /\ Return(s, "sleeping")
    /\ SenderStep
    /\ UNCHANGED platformVars

\* deferMessage: a tg row only records the error.
DeferMessage(s) ==
    /\ At(s, "defer")
    /\ \/ Write(s, [rows[Id(s)] EXCEPT !.deferred = @ \/ Transport = "mx"])
       \/ WriteFails
    /\ Return(s, "sleeping")
    /\ SenderStep
    /\ UNCHANGED platformVars

\* Mutant: attempts counts by two.
AttemptsByTwo(s) == sender[s].msg.attempts + 2

\* fail stores one more than the attempts the sender read.
Attempts(s) == sender[s].msg.attempts + 1

Fail(s) ==
    /\ At(s, "fail")
    /\ Write(s, [rows[Id(s)] EXCEPT !.attempts = Attempts(s)]) \/ WriteFails
    /\ Goto(s, IF Attempts(s) >= MaxAttempts THEN "markDead" ELSE "defer")
    /\ SenderStep
    /\ UNCHANGED platformVars

MarkDead(s) ==
    /\ At(s, "markDead")
    /\ Write(s, [rows[Id(s)] EXCEPT !.dead = TRUE]) \/ WriteFails
    /\ alerted' = alerted \cup {Id(s)}
    /\ Return(s, "loop")
    /\ SenderStep
    /\ UNCHANGED <<copies, rejects, unrecorded>>

-----------------------------------------------------------------------------
(* The process: runDaemon's shutdown, the install command and crashes.     *)

\* The process ends: the rows stay, acceptances not yet written are lost.
Stop ==
    /\ phase' = "down"
    /\ sender' = [s \in Senders |-> Off]
    /\ cancelled' = {}
    /\ unrecorded' = [i \in Ids |-> unrecorded[i] +
          Cardinality({s \in Senders : Id(s) = i /\ sender[s].pc \in
                          {"accepted", "plainAccepted", "clearFormat", "markSent"}})]
    /\ UNCHANGED <<rows, copies, rejects, alerted, enabled, shutdowns>>

Crash ==
    /\ phase # "down"
    /\ Fault
    /\ Stop

Restart ==
    /\ phase = "down"
    /\ phase' = "up"
    /\ sender' = [sender EXCEPT !["run"].pc = "loop"]
    /\ enabled' = FALSE
    /\ UNCHANGED <<rows, cancelled, platformVars, faults, shutdowns>>

\* stopOutbox; runDaemon then waits for Done.
StopOutbox ==
    /\ phase = "up"
    /\ shutdowns < MaxShutdowns
    /\ shutdowns' = shutdowns + 1
    /\ phase' = "stopping"
    /\ cancelled' = cancelled \cup {"run"}
    /\ UNCHANGED <<rows, sender, platformVars, enabled, faults>>

\* Mutant: the shutdown flushes without waiting for Run.
ExitFlushAtOnce ==
    /\ phase = "stopping"
    /\ phase' = "flushing"
    /\ Goto("exit", "loop")
    /\ UNCHANGED <<rows, cancelled, enabled, platformVars, faults, shutdowns>>

\* <-out.Done(), then flushOutbox.
ExitFlush ==
    /\ phase = "stopping"
    /\ At("run", "off")
    /\ phase' = "flushing"
    /\ Goto("exit", "loop")
    /\ UNCHANGED <<rows, cancelled, enabled, platformVars, faults, shutdowns>>

\* flushOutbox gives up after 30 seconds.
FlushTimeout(s) ==
    /\ s # "run" /\ s \notin cancelled
    /\ ~At(s, "off")
    /\ IF s = "exit" THEN NoFault ELSE Fault
    /\ cancelled' = cancelled \cup {s}
    /\ UNCHANGED <<rows, sender, platformVars, enabled, phase, shutdowns>>

Exit ==
    /\ phase = "flushing"
    /\ At("exit", "off")
    /\ NoFault
    /\ Stop

\* handleInstallVersionMessage flushes without stopping Run.
InstallFlush(s) ==
    /\ phase # "down"
    /\ s \in Installers
    /\ At(s, "off")
    /\ Goto(s, "loop")
    /\ cancelled' = cancelled \ {s}
    /\ UNCHANGED <<rows, platformVars, enabled, phase, faults, shutdowns>>

Step(s) ==
    \/ Pick(s) \/ PickFails(s) \/ Idle(s) \/ Wake(s)
    \/ Accept(s) \/ Answer(s) \/ LoseAnswer(s) \/ Transient(s)
    \/ ReplyGone(s) \/ RejectHTML(s) \/ Reject(s)
    \/ MarkSent(s) \/ ClearFormat(s) \/ ClearReplyTo(s)
    \/ DeferMessage(s) \/ Fail(s) \/ MarkDead(s)

Next ==
    \/ Enqueue \/ Due \/ Toggle
    \/ \E s \in Senders : Step(s) \/ FlushTimeout(s)
    \/ StopOutbox \/ ExitFlush \/ Exit
    \/ Crash \/ Restart

\* Goroutines run, requests end (an answer, or an error at the client's
\* timeout), time passes; nothing makes a user enqueue, toggle or shut down.
Fairness ==
    /\ \A s \in Senders : WF_vars(Step(s))
    /\ WF_vars(Due)
    /\ WF_vars(ExitFlush) /\ WF_vars(FlushTimeout("exit")) /\ WF_vars(Exit)

Spec == Init /\ [][Next]_vars /\ Fairness

\* A daemon that also gets install commands.
InstallNext == Next \/ \E s \in Installers : InstallFlush(s)
InstallSpec == Init /\ [][InstallNext]_vars

-----------------------------------------------------------------------------
(* Properties.                                                             *)

\* Every variable has its type.
TypeOK ==
    /\ rows \in Seq(Row)
    /\ sender \in [Senders -> Goroutine]
    /\ cancelled \subseteq Senders
    /\ enabled \in BOOLEAN
    /\ phase \in {"up", "stopping", "flushing", "down"}
    /\ copies \in Seq(Nat) /\ Len(copies) = Len(rows)
    /\ rejects \in Seq(Nat) /\ Len(rejects) = Len(rows)
    /\ unrecorded \in Seq(Nat) /\ Len(unrecorded) = Len(rows)
    /\ alerted \subseteq Ids
    /\ faults \in Nat /\ shutdowns \in Nat

\* Readers of a chat see messages in the order they were enqueued: a message
\* has reached the platform only if each earlier one has, or is dead.  Retries,
\* fallbacks, crashes, the hand-over from Run to Flush and even two concurrent
\* senders do not let a message overtake.
InOrder ==
    \A i, j \in Ids : i < j /\ copies[j] > 0 => copies[i] > 0 \/ rows[i].dead

\* A row marked sent was accepted by the platform at least once.
SentWasAccepted == \A i \in Ids : rows[i].sent => copies[i] > 0

\* A row is dead, and its chat told so, only after the platform refused it for
\* good MaxAttempts times: no transient error, lost answer, stale copy of
\* attempts or crash counts as an attempt.
DeadWasRejected ==
    \A i \in Ids : rows[i].dead \/ i \in alerted => rejects[i] >= MaxAttempts

\* The marks of the table are honest, in every interleaving of the senders (sendOne, markSent,
\* fail).
MarksHonest == SentWasAccepted /\ DeadWasRejected

\* Every second delivery of a message has a cause the outbox could not see: an
\* acceptance whose answer, database write or process was lost.
DuplicatesExplained == \A i \in Ids : copies[i] <= 1 + unrecorded[i]

\* A message is never both delivered and reported dead unless a delivery went
\* unrecorded.
DeadNotDelivered ==
    \A i \in Ids : rows[i].dead /\ copies[i] > 0 => unrecorded[i] > 0

\* Without a flush beside Run, a message reaches its chat once, and is not reported dead besides,
\* unless a delivery went unrecorded (sendOne).
DeliveriesExplained == DuplicatesExplained /\ DeadNotDelivered

\* The senders between next and the write of their result.
Sending(s) == Id(s) # 0

\* No two senders work on the same row (outbox.go:133-134 and daemon.go:140
\* have the shutdown wait for Run so that "two senders don't pick the same row").
OneSenderPerRow ==
    \A s, t \in Senders : Sending(s) /\ Sending(t) /\ Id(s) = Id(t) => s = t

\* Once the transport stays enabled in a daemon that stays up, every message is
\* delivered or dead: a row at the head cannot block the queue for ever.
AllSettled ==
    <>[](enabled /\ phase = "up") =>
        \A i \in 1 .. MaxRows : i \in Ids ~> i \in Ids /\ Settled(i)

\* An orderly shutdown ends: Run notices its context though it looks at it only
\* when it sleeps, and the flush gives up in time.
ShutdownEnds == phase = "stopping" ~> phase = "down"

\* What the marks of the table say of each message.
Outcomes ==
    [i \in Ids |-> IF rows[i].sent THEN "sent" ELSE IF rows[i].dead THEN "dead" ELSE "pending"]

\* Whatever the goroutines do, the lane works on one message at a time, in order, repeats only
\* what was lost, and settles a message by what the platform did with it (Store.Run, Flush).
Lane == INSTANCE MessageLane WITH
    outcome <- Outcomes,
    delivered <- copies,
    lost <- unrecorded,
    refused <- rejects,
    reported <- alerted

LaneSpec == Lane!Spec
=============================================================================
