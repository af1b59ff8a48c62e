--------------------------- MODULE ActionMessage ---------------------------
(***************************************************************************)
(* What the chats are told of one command (daemon.go, control.go).  A      *)
(* command of the control socket, or run, get and put of a chat, is        *)
(* announced by a start message that is sent while the command runs and    *)
(* edited when it has ended.  Sends and edits go to the platforms directly *)
(* and may fail, also after they took effect; the fallback is a queued     *)
(* reply, and the fallback of the queue is a critical notice.  The process *)
(* may end at any moment and waits for none of this.                       *)
(***************************************************************************)
EXTENDS Naturals

CONSTANTS
    Chats,       \* recipients, each of a transport of its own
    Origin,      \* the chat of a chat command
    MaxSwitches, \* bound: changes of the log level and of what is reachable
    MaxFaults    \* bound: writes of the outbox and of the counts that fail

ASSUME ActionAssumption == Origin \in Chats /\ MaxSwitches \in Nat /\ MaxFaults \in Nat

Kinds == {"control", "action", "plain", "unknown"}

VARIABLES
    kind, allowed,       \* the command, and whether its sender may give it
    digest, reachable,   \* the level is digest; the chats that destinations() returns
    up,                  \* the process has not ended
    pc, result,          \* the command's goroutine, and how the command ended
    starter, starting,   \* the goroutine that announces it, and whom it has yet to tell
    channel, listed,     \* startedCh, and the chats with the message ids in its list
    withId,
    editing, queueing,   \* chats whose message has yet to be edited or queued
    shown, queued,       \* the start message in each chat, and the replies queued for it
    critical,            \* criticalNotifyAddress, by chat
    counted,             \* the command is in the counts of the digest
    owed,                \* the chats that were addressed
    unanswered,          \* chats whose start, or whose edit, took effect without an answer
    unedited,            \* chats whose edit was refused
    away,                \* chats out of reach at some moment since the queue refused their reply
    switches, faults

reach == <<reachable, away, up>>
start == <<starter, starting, channel, listed, withId>>
told == <<shown, queued, critical, counted>>
ghosts == <<owed, unanswered, unedited>>
actionVars == <<kind, allowed, digest, reach, pc, result, start, editing, queueing, told, ghosts,
          switches, faults>>

ActionInit ==
    /\ kind \in Kinds
    /\ allowed \in BOOLEAN /\ (kind = "control" => allowed)
    /\ digest \in BOOLEAN /\ reachable \in SUBSET Chats /\ away = {}
    /\ up = TRUE
    /\ pc = "begin" /\ result = "none"
    /\ starter = "idle" /\ starting = {}
    /\ channel = "nil" /\ listed = {} /\ withId = {}
    /\ editing = {} /\ queueing = {}
    /\ shown = [c \in Chats |-> "no"]
    /\ queued = [c \in Chats |-> 0]
    /\ critical = [c \in Chats |-> "no"]
    /\ counted = FALSE
    /\ owed = {} /\ unanswered = [starts |-> {}, edits |-> {}] /\ unedited = {}
    /\ switches = 0 /\ faults = 0

-----------------------------------------------------------------------------
(* Surroundings.                                                           *)

\* Another command changes the level.
SwitchLevel ==
    /\ up /\ pc # "done" /\ switches < MaxSwitches
    /\ switches' = switches + 1
    /\ digest' = ~digest
    /\ UNCHANGED <<kind, allowed, reach, pc, result, start, editing, queueing, told,
                   ghosts, faults>>

\* A transport is switched, refused or connected.
SwitchTransport(c) ==
    /\ up /\ switches < MaxSwitches
    /\ switches' = switches + 1
    /\ \/ c \in reachable /\ reachable' = reachable \ {c} /\ away' = away \cup {c}
       \/ c \notin reachable /\ reachable' = reachable \cup {c} /\ UNCHANGED away
    /\ UNCHANGED <<kind, allowed, digest, up, pc, result, start, editing, queueing, told,
                   ghosts, faults>>

\* runDaemon returns at a shutdown or a restart, or the process is killed.  Nothing waits for the
\* goroutines of a command, an announcement or a notice; what the chats show and what the
\* database holds, the queue and the counts, stays.
ProcessEnds ==
    /\ up
    /\ up' = FALSE
    /\ UNCHANGED <<kind, allowed, digest, reachable, away, pc, result, start, editing, queueing,
                   told, ghosts, switches, faults>>

-----------------------------------------------------------------------------
(* The start message.                                                      *)

\* handleMessage; a sender who is not allowed gets no answer at all.
HandleMessage ==
    /\ pc = "begin" /\ kind # "control"
    /\ pc' = CASE ~allowed -> "done"
              [] allowed /\ kind = "unknown" -> "finish"
              [] OTHER -> "running"
    /\ queueing' = IF allowed /\ kind = "unknown" THEN {Origin} ELSE {}
    /\ owed' = IF allowed THEN {Origin} ELSE {}
    /\ IF allowed /\ kind = "action"
       THEN channel' = "open" /\ starter' = "sending" /\ starting' = {Origin}
       ELSE UNCHANGED <<channel, starter, starting>>
    /\ UNCHANGED <<kind, allowed, digest, reach, result, listed, withId, editing, told,
                   unanswered, unedited, switches, faults>>

\* startAction: nothing is announced in level digest.
StartAction ==
    /\ pc = "begin" /\ kind = "control"
    /\ pc' = "running"
    /\ IF digest THEN UNCHANGED <<channel, starter>>
       ELSE channel' = "open" /\ starter' = "reading"
    /\ UNCHANGED <<kind, allowed, digest, reach, result, starting, listed, withId, editing,
                   queueing, told, ghosts, switches, faults>>

\* sendActionStart reads its recipients.
ReadDestinations ==
    /\ starter = "reading"
    /\ starter' = "sending" /\ starting' = reachable /\ owed' = reachable
    /\ UNCHANGED <<kind, allowed, digest, reach, pc, result, channel, listed, withId,
                   editing, queueing, told, unanswered, unedited, switches, faults>>

\* Mutant: a chat that could not be told of the start is left out.
ListedWithId(c) == FALSE

\* sendActionStart lists the chat without an id, for a reply; sendActionReplyStart does not.
ListedUnsent(c) == kind = "control"

\* sendDirectMessage: it succeeds, fails, or takes effect while its answer is lost.
SendStart(c) ==
    /\ starter = "sending" /\ c \in starting
    /\ starting' = starting \ {c}
    /\ \/ /\ shown' = [shown EXCEPT ![c] = "start"]
          /\ listed' = listed \cup {c} /\ withId' = withId \cup {c}
          /\ UNCHANGED unanswered
       \/ /\ listed' = IF ListedUnsent(c) THEN listed \cup {c} ELSE listed
          /\ \/ UNCHANGED <<shown, unanswered>>
             \/ /\ shown' = [shown EXCEPT ![c] = "start"]
                /\ unanswered' = [unanswered EXCEPT !.starts = @ \cup {c}]
          /\ UNCHANGED withId
    /\ UNCHANGED <<kind, allowed, digest, reach, pc, result, starter, channel, editing,
                   queueing, queued, critical, counted, owed, unedited, switches, faults>>

\* Mutant: the goroutine that announces the command answers only when it has told somebody.
FillWhenTold ==
    /\ starter = "sending" /\ starting = {} /\ listed # {}
    /\ starter' = "done" /\ channel' = "filled"
    /\ UNCHANGED <<kind, allowed, digest, reach, pc, result, starting, listed, withId,
                   editing, queueing, told, ghosts, switches, faults>>

\* The list goes into startedCh, which has room for it.
Fill ==
    /\ starter = "sending" /\ starting = {}
    /\ starter' = "done" /\ channel' = "filled"
    /\ UNCHANGED <<kind, allowed, digest, reach, pc, result, starting, listed, withId,
                   editing, queueing, told, ghosts, switches, faults>>

-----------------------------------------------------------------------------
(* The answer.                                                             *)

\* The command ends; a plain one may have nothing to say.
CommandReturns ==
    /\ pc = "running"
    /\ result' \in {"ok", "failed"} \cup IF kind = "plain" THEN {"silent"} ELSE {}
    /\ pc' = CASE kind = "plain" -> "finish"
               [] kind = "control" /\ channel = "nil" -> "count"
               [] OTHER -> "await"
    /\ queueing' = IF kind = "plain" /\ result' # "silent" THEN {Origin} ELSE {}
    /\ UNCHANGED <<kind, allowed, digest, reach, start, editing, told, ghosts, switches,
                   faults>>

\* Mutant: a failure is counted like a success.
CountsAny(r) == r \in {"ok", "failed"}

\* succeedAction; a failure goes to finishAction directly.
Counts(r) == r = "ok"

\* notify addresses whom it reaches now.
Notify ==
    /\ pc' = "finish" /\ queueing' = reachable /\ owed' = reachable

\* A command without a start is counted; if that cannot be stored, or it failed, all are told.
Count ==
    /\ pc = "count"
    /\ \/ /\ Counts(result)
          /\ counted' = TRUE /\ pc' = "finish"
          /\ UNCHANGED <<queueing, owed, faults>>
       \/ /\ Counts(result) /\ faults < MaxFaults
          /\ faults' = faults + 1
          /\ Notify
          /\ UNCHANGED counted
       \/ /\ ~Counts(result)
          /\ Notify
          /\ UNCHANGED <<counted, faults>>
    /\ UNCHANGED <<kind, allowed, digest, reach, result, start, editing, shown, queued,
                   critical, unanswered, unedited, switches>>

\* The answer waits for the start: it becomes an edit, or a reply or notice if there is none.
Await ==
    /\ pc = "await" /\ channel = "filled"
    /\ channel' = "empty"
    /\ IF listed # {}
       THEN pc' = "finish" /\ editing' = listed /\ UNCHANGED <<queueing, owed>>
       ELSE /\ UNCHANGED editing
            /\ IF kind = "control" THEN Notify
               ELSE pc' = "finish" /\ queueing' = {Origin} /\ UNCHANGED owed
    /\ UNCHANGED <<kind, allowed, digest, reach, result, starter, starting, listed, withId,
                   told, unanswered, unedited, switches, faults>>

\* Mutant: an edit that fails is not followed by a reply.
NoReply(c) == {}

\* The chats whose edit failed get a queued reply.
ReplyInstead(c) == {c}

\* editActionMessages: the edit succeeds, fails, or takes effect while its answer is lost.
Edit(c) ==
    /\ pc = "finish" /\ queueing = {} /\ c \in editing
    /\ editing' = editing \ {c}
    /\ \/ /\ c \in withId
          /\ shown' = [shown EXCEPT ![c] = "result"]
          /\ UNCHANGED <<queueing, unanswered, unedited>>
       \/ /\ c \in withId
          /\ shown' = [shown EXCEPT ![c] = "result"]
          /\ unanswered' = [unanswered EXCEPT !.edits = @ \cup {c}]
          /\ queueing' = ReplyInstead(c)
          /\ UNCHANGED unedited
       \/ /\ unedited' = IF c \in withId THEN unedited \cup {c} ELSE unedited
          /\ queueing' = IF c \in withId THEN ReplyInstead(c) ELSE {c}
          /\ UNCHANGED <<shown, unanswered>>
    /\ UNCHANGED <<kind, allowed, digest, reach, pc, result, start, queued, critical,
                   counted, owed, switches, faults>>

\* EnqueueTo; when it fails, a goroutine tells the chat of that.
Enqueue(c) ==
    /\ pc = "finish" /\ c \in queueing
    /\ queueing' = queueing \ {c}
    /\ \/ queued' = [queued EXCEPT ![c] = @ + 1] /\ UNCHANGED <<critical, away, faults>>
       \/ /\ faults < MaxFaults /\ faults' = faults + 1
          /\ critical' = [critical EXCEPT ![c] = "trying"]
          /\ away' = IF c \in reachable THEN away \ {c} ELSE away \cup {c}
          /\ UNCHANGED queued
    /\ UNCHANGED <<kind, allowed, digest, reachable, up, pc, result, start, editing, shown, counted,
                   ghosts, switches>>

Finish ==
    /\ pc = "finish" /\ queueing = {} /\ editing = {}
    /\ pc' = "done"
    /\ UNCHANGED <<kind, allowed, digest, reach, result, start, editing, queueing, told,
                   ghosts, switches, faults>>

\* Mutant: a notice that was refused once is not tried again.
GivesUpAny(c) == TRUE

\* criticalNotifyAddress gives up on a transport that is disabled or not routable.
GivesUp(c) == c \notin reachable

\* It looks before each attempt,
CriticalNotify(c) ==
    /\ up /\ critical[c] = "trying"
    /\ \/ GivesUp(c) /\ critical' = [critical EXCEPT ![c] = "stopped"]
       \/ c \in reachable /\ critical' = [critical EXCEPT ![c] = "sending"]
    /\ UNCHANGED <<kind, allowed, digest, reach, pc, result, start, editing, queueing, shown,
                   queued, counted, ghosts, switches, faults>>

\* and tries again until the platform has taken it.
CriticalSend(c) ==
    /\ up /\ critical[c] = "sending"
    /\ \E next \in {"told", "trying"} : critical' = [critical EXCEPT ![c] = next]
    /\ UNCHANGED <<kind, allowed, digest, reach, pc, result, start, editing, queueing, shown,
                   queued, counted, ghosts, switches, faults>>

-----------------------------------------------------------------------------

Perform ==
    /\ up
    /\ \/ HandleMessage \/ StartAction \/ CommandReturns \/ Count \/ Await \/ Finish
       \/ \E c \in Chats : Edit(c) \/ Enqueue(c)

Announce ==
    /\ up
    /\ \/ ReadDestinations \/ Fill
       \/ \E c \in Chats : SendStart(c)

ActionNext ==
    \/ Perform
    \/ Announce
    \/ SwitchLevel
    \/ \E c \in Chats : SwitchTransport(c) \/ CriticalNotify(c) \/ CriticalSend(c)
    \/ ProcessEnds

\* Goroutines run while the process does, requests end by their timeout of ten seconds, and so
\* does the command (RemoteCommand.CommandEnds).
ActionSpec ==
    /\ ActionInit
    /\ [][ActionNext]_actionVars
    /\ WF_actionVars(Perform) /\ WF_actionVars(Announce)

-----------------------------------------------------------------------------
(* Properties.                                                             *)

\* A notice that the reply could not be queued has been sent, or is still being tried.
Noticed(c) == critical[c] = "told" \/ (up /\ critical[c] \in {"trying", "sending"})

Told(c) == shown[c] = "result" \/ queued[c] > 0 \/ Noticed(c)

\* The queue refused the reply, and its notice was given up while the transport was away, or ended
\* with the process.  The comment "retries forever" (daemon.go:526) would leave only the second.
Forsaken(c) == critical[c] # "no" /\ (c \in away \/ ~up)

\* A counted success, a plain command without output and a stranger's command tell nobody.
Silent == counted \/ result = "silent" \/ ~allowed

\* When an action is over, every chat that was addressed has the result, a reply in the queue, or
\* a notice that it could not be queued, except those that are forsaken; a counted success is
\* told to nobody, and a failure is never counted.
Answered ==
    /\ Silent => \A c \in Chats : shown[c] = "no" /\ queued[c] = 0 /\ critical[c] = "no"
    /\ pc = "done" /\ ~Silent => \A c \in owed : Told(c) \/ Forsaken(c)
    /\ counted => result = "ok"

\* A chat is left with the start message only if the platform lost the answer to it or refused
\* the edit, or the process ended before the action was over; it gets the result twice only if
\* the platform lost the answer to the edit.
LeftoversExplained ==
    \A c \in Chats :
        /\ shown[c] = "start" =>
              c \in unanswered.starts \cup unedited \/ pc # "done"
        /\ queued[c] > 0 /\ shown[c] = "result" => c \in unanswered.edits
        /\ queued[c] <= 1

\* What the chats see in the end (handleMessage, startAction, succeedAction, finishAction,
\* criticalNotifyAddress, and runDaemon, which waits for none of them).
EveryoneAnswered == Answered /\ LeftoversExplained

\* An action that was received is over in the end unless the process ends: the answer, which
\* waits for the start message, never waits in vain (handleMessage, daemon.go:809;
\* finishAction, control.go:343).
ActionEnds == <>(pc = "done" \/ ~up)
=============================================================================
