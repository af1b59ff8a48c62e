------------------------------- MODULE Digest -------------------------------
(***************************************************************************)
(* auditState (cmd/picoman/audit.go): successful calls of the control     *)
(* socket are counted, mirrored to the store and reported in a digest.    *)
(* Several goroutines ask for a digest; each waits for the mutex and holds *)
(* it while the parts of the digest are queued.  A count is the set of the *)
(* calls it stands for; the interval that a digest names is left out.      *)
(***************************************************************************)
EXTENDS Naturals, FiniteSets

CONSTANTS
    Calls,       \* run, get and put calls, each made once
    Operators,   \* goroutines that serve lock, seal, digest and loglevel
    MaxFaults    \* bound: crashes, refused notices, failed writes, and stops in
                 \* the middle of a digest

ASSUME CallsAssumption == IsFiniteSet(Calls)
ASSUME OperatorsAssumption == {"main", "hour"} \cap Operators = {}
ASSUME BoundsAssumption == MaxFaults \in Nat

VARIABLES
    up,       \* the process is running
    level,    \* auditState.logLevel (the config file keeps it over a restart)
    call,     \* where each call is
    counts,   \* auditState.counts
    stored,   \* its copy in the outbox database: survives the process
    req,      \* the goroutines that ask for digests
    times,    \* how many queued digest parts report each call
    faults

envVars == <<up, level, faults>>
vars == <<up, level, call, counts, stored, req, times, faults>>

\* runDaemon itself, runDigest, and the command handlers.
Requesters == {"main", "hour"} \cup Operators

Kinds == {"start", "hour", "lock", "demand", "level", "stop"}

\* left is what is not queued yet, owed the counts there were when the digest was asked for.
Request == [pc : {"waiting", "sending", "clearing", "notice", "idle"},
            kind : Kinds, left : SUBSET Calls, owed : SUBSET Calls]

Ask(kind) == [pc |-> "waiting", kind |-> kind, left |-> {}, owed |-> counts]
Idle == [pc |-> "idle", kind |-> "hour", left |-> {}, owed |-> {}]

\* newAuditState, attachStore and the digest that runDaemon asks for first.
Init ==
    /\ up = TRUE
    /\ level \in {"digest", "chat"}
    /\ call = [c \in Calls |-> "idle"]
    /\ counts = {}
    /\ stored = {}
    /\ req = [r \in Requesters |-> IF r = "main" THEN Ask("start") ELSE Idle]
    /\ times = [c \in Calls |-> 0]
    /\ faults = 0

Fault == faults < MaxFaults /\ faults' = faults + 1

Free == \A r \in Requesters : req[r].pc \notin {"sending", "clearing"}

-----------------------------------------------------------------------------
(* Calls.                                                                  *)

\* startAction: in digest level nothing is announced.
Start(c) ==
    /\ up /\ Free
    /\ call[c] = "idle"
    /\ call' = [call EXCEPT ![c] = IF level = "digest" THEN "silent" ELSE "announced"]
    /\ UNCHANGED <<up, level, counts, stored, req, times, faults>>

\* A failed call, or one that was announced, is reported at once.
Report(c) ==
    /\ up
    /\ call[c] \in {"silent", "announced"}
    /\ call' = [call EXCEPT ![c] = "reported"]
    /\ UNCHANGED <<envVars, counts, stored, req, times>>

\* succeedAction: count, or report at once when the count cannot be stored.
Count(c) ==
    /\ up /\ Free
    /\ call[c] = "silent"
    /\ \/ /\ counts' = counts \cup {c}
          /\ stored' = counts \cup {c}
          /\ call' = [call EXCEPT ![c] = "counted"]
          /\ UNCHANGED faults
       \/ /\ Fault
          /\ call' = [call EXCEPT ![c] = "reported"]
          /\ UNCHANGED <<counts, stored>>
    /\ UNCHANGED <<up, level, req, times>>

-----------------------------------------------------------------------------
(* Requests.                                                               *)

\* runDigest starts when the first digest is done.
AskHour ==
    /\ up
    /\ req["main"].kind = "start" => req["main"].pc \in {"notice", "idle"}
    /\ req["hour"].pc = "idle"
    /\ req' = [req EXCEPT !["hour"] = Ask("hour")]
    /\ UNCHANGED <<envVars, call, counts, stored, times>>

\* State is locked or sealed, and the notice of it waits for the digest.
AskOperator(r) ==
    /\ up
    /\ r \in Operators
    /\ req[r].pc = "idle"
    /\ \E kind \in {"lock", "demand"} : req' = [req EXCEPT ![r] = Ask(kind)]
    /\ UNCHANGED <<envVars, call, counts, stored, times>>

\* setLogLevel, under the mutex, before the digest of the level that ends.
SetLogLevel(r) ==
    /\ up /\ Free
    /\ r \in Operators
    /\ req[r].pc = "idle"
    /\ level' \in {"digest", "chat"}
    /\ req' = [req EXCEPT ![r] = Ask("level")]
    /\ UNCHANGED <<up, call, counts, stored, times, faults>>

AskStop ==
    /\ up
    /\ req["main"].pc = "idle"
    /\ req' = [req EXCEPT !["main"] = Ask("stop")]
    /\ UNCHANGED <<envVars, call, counts, stored, times>>

\* Where sendDigest returns to: a notice of what happened comes after it.
Returned(q) == IF q.kind \in {"hour", "demand"} THEN Idle
               ELSE [q EXCEPT !.pc = "notice", !.left = {}]

\* Mutants: sendDigest does not wait for a digest in progress, or sends nothing
\* unless the level is still digest.
BeginUnlessBusy(r) ==
    /\ req[r].pc = "waiting"
    /\ req' = [req EXCEPT ![r] = IF ~Free \/ (counts = {} /\ @.kind # "demand")
                                 THEN Returned(@)
                                 ELSE [@ EXCEPT !.pc = "sending", !.left = counts]]
    /\ UNCHANGED <<envVars, call, counts, stored, times>>
BeginInDigestLevel(r) ==
    /\ req[r].pc = "waiting"
    /\ Free
    /\ req' = [req EXCEPT ![r] = IF counts = {} \/ level # "digest"
                                 THEN Returned(@)
                                 ELSE [@ EXCEPT !.pc = "sending", !.left = counts]]
    /\ UNCHANGED <<envVars, call, counts, stored, times>>

\* sendDigest has the mutex.  Only /digest asks for a digest without calls.
Begin(r) ==
    /\ req[r].pc = "waiting"
    /\ Free
    /\ req' = [req EXCEPT ![r] = IF counts = {} /\ @.kind # "demand"
                                 THEN Returned(@)
                                 ELSE [@ EXCEPT !.pc = "sending", !.left = counts]]
    /\ UNCHANGED <<envVars, call, counts, stored, times>>

\* One part of the digest is queued for somebody; a part holds what fits.
QueuePart(r) ==
    /\ req[r].pc = "sending"
    /\ \E part \in SUBSET req[r].left :
          /\ part = {} => req[r].left = {}
          /\ times' = [c \in Calls |-> times[c] + (IF c \in part THEN 1 ELSE 0)]
          /\ req' = [req EXCEPT ![r].left = @ \ part,
                                ![r].pc = IF req[r].left \subseteq part
                                          THEN "clearing" ELSE "sending"]
    /\ UNCHANGED <<envVars, call, counts, stored>>

\* Mutant: a digest that nobody could be queued is cleared all the same.
QueueFailsClears(r) ==
    /\ req[r].pc = "sending"
    /\ Fault
    /\ req' = [req EXCEPT ![r].pc = "clearing"]
    /\ UNCHANGED <<up, level, call, counts, stored, times>>

\* Nobody could be queued a part: the counts stay.
QueueFails(r) ==
    /\ req[r].pc = "sending"
    /\ Fault
    /\ req' = [req EXCEPT ![r] = Returned(@)]
    /\ UNCHANGED <<up, level, call, counts, stored, times>>

\* Mutant: a digest is not cleared from memory.
ClearKeepsCounts(r) ==
    /\ req[r].pc = "clearing"
    /\ \/ stored' = {} /\ UNCHANGED faults
       \/ UNCHANGED stored /\ Fault
    /\ req' = [req EXCEPT ![r] = Returned(@)]
    /\ UNCHANGED <<up, level, call, counts, times>>

\* The parts are queued: the counts leave memory, and the store if it answers.
Clear(r) ==
    /\ req[r].pc = "clearing"
    /\ counts' = {}
    /\ \/ stored' = {} /\ UNCHANGED faults
       \/ UNCHANGED stored /\ Fault
    /\ req' = [req EXCEPT ![r] = Returned(@)]
    /\ UNCHANGED <<up, level, call, times>>

-----------------------------------------------------------------------------
(* The process.                                                            *)

\* Calls in flight are lost with the process, with their goroutines.
Down ==
    /\ up' = FALSE
    /\ req' = [r \in Requesters |-> Idle]
    /\ call' = [c \in Calls |-> IF call[c] \in {"silent", "announced"}
                                THEN "cut off" ELSE call[c]]
    /\ counts' = {}
    /\ UNCHANGED <<level, stored, times>>

\* The notice is queued; after "stopped" the process flushes and ends, though a
\* command handler may be in the middle of a digest.
Notice(r) ==
    /\ req[r].pc = "notice"
    /\ IF req[r].kind = "stop"
       THEN Down /\ IF Free THEN UNCHANGED faults ELSE Fault
       ELSE /\ req' = [req EXCEPT ![r] = Idle]
            /\ UNCHANGED <<envVars, call, counts, stored, times>>

Crash == up /\ Fault /\ Down

\* attachStore, then the first digest.
Restart ==
    /\ ~up
    /\ up' = TRUE
    /\ counts' = stored
    /\ req' = [req EXCEPT !["main"] = [Ask("start") EXCEPT !.owed = stored]]
    /\ UNCHANGED <<level, call, stored, times, faults>>

Next ==
    \/ \E c \in Calls : Start(c) \/ Report(c) \/ Count(c)
    \/ AskHour \/ AskStop
    \/ \E r \in Operators : AskOperator(r) \/ SetLogLevel(r)
    \/ \E r \in Requesters :
          Begin(r) \/ QueuePart(r) \/ QueueFails(r) \/ Clear(r) \/ Notice(r)
    \/ Crash \/ Restart

\* The hour comes, the mutex is fair, queueing ends, and the service manager
\* starts the daemon again.
Fairness ==
    /\ WF_vars(AskHour) /\ WF_vars(Restart)
    /\ \A r \in Requesters :
          /\ SF_vars(Begin(r))
          /\ WF_vars(QueuePart(r) \/ QueueFails(r))
          /\ WF_vars(Clear(r)) /\ WF_vars(Notice(r))

Spec == Init /\ [][Next]_vars /\ Fairness

-----------------------------------------------------------------------------
(* Properties.                                                             *)

\* Every variable has its type.
TypeOK ==
    /\ up \in BOOLEAN
    /\ level \in {"digest", "chat"}
    /\ call \in [Calls -> {"idle", "silent", "announced", "counted", "reported", "cut off"}]
    /\ counts \subseteq Calls
    /\ stored \subseteq Calls
    /\ req \in [Requesters -> Request]
    /\ times \in [Calls -> Nat]
    /\ faults \in Nat

\* No counted call is lost: at any moment, whatever crashes next, it is in the
\* stored copy or a digest that reports it is queued (audit.go:24-27).
NoneLost ==
    \A c \in Calls : call[c] = "counted" => c \in stored \/ times[c] > 0

\* A call is reported again only for a crash or a stop in the middle of a digest,
\* a refused notice or a failed write.
RepeatsExplained == \A c \in Calls : times[c] <= 1 + faults

\* The notice of a lock, a new level or a stop comes after a digest of everything
\* that was counted before it, even if another goroutine sends that digest.
DigestBeforeNotice ==
    \A r \in Requesters :
        req[r].pc = "notice" /\ faults = 0 => \A c \in req[r].owed : times[c] > 0

\* Counts never pile up for good: a counted call is reported in the end, though
\* the digest level may be left before the call completes.
CountedIsReported ==
    \A c \in Calls : call[c] = "counted" ~> times[c] > 0
=============================================================================
