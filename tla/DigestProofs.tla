---------------------------- MODULE DigestProofs ----------------------------
(***************************************************************************)
(* No counted call is lost, a notice never precedes its digest and every  *)
(* repetition has its fault, for any number of calls, command handlers,   *)
(* faults and crashes.                                                    *)
(***************************************************************************)
EXTENDS Digest, TLAPS

Holding(r) == req[r].pc \in {"sending", "clearing"}
Asking(r) == req[r].pc \in {"waiting", "sending", "clearing"}

\* sendDigest holds the mutex to its end.
MutexHeldOnce == \A r, t \in Requesters : Holding(r) /\ Holding(t) => r = t

\* In memory, a counted call waits for its digest or has had it.
NoneForgotten ==
    up => \A c \in Calls : call[c] = "counted" => c \in counts \/ times[c] > 0

\* Memory is cleared only when everything in it is queued.
PartsCover ==
    \A r \in Requesters :
        /\ Holding(r) => \A c \in counts : c \in req[r].left \/ times[c] > 0
        /\ req[r].pc = "clearing" => req[r].left = {}

\* What was counted when a digest was asked for is still counted or reported.
OwedKept ==
    \A r \in Requesters :
        Asking(r) => \A c \in req[r].owed : c \in counts \/ times[c] > 0

\* Without a process nobody asks.
DownIsIdle == ~up => \A r \in Requesters : req[r].pc = "idle"

IInv ==
    /\ TypeOK
    /\ DownIsIdle
    /\ NoneLost
    /\ MutexHeldOnce
    /\ NoneForgotten
    /\ PartsCover
    /\ OwedKept
    /\ DigestBeforeNotice

USE CallsAssumption, OperatorsAssumption, BoundsAssumption DEF Requesters, Kinds, Request

LEMMA InitIInv == Init => IInv
BY DEF Init, IInv, TypeOK, DownIsIdle, NoneLost, MutexHeldOnce, NoneForgotten, PartsCover,
       OwedKept, DigestBeforeNotice, Holding, Asking, Ask, Idle

-----------------------------------------------------------------------------
(* Calls.                                                                  *)

LEMMA TypeFacts ==
    ASSUME TypeOK
    PROVE  /\ faults \in Nat
           /\ req \in [Requesters -> Request]
           /\ times \in [Calls -> Nat]
           /\ counts \subseteq Calls
BY DEF TypeOK

LEMMA FaultCounts ==
    ASSUME TypeOK, Fault
    PROVE  faults' \in Nat /\ faults' # 0
<1>1. faults \in Nat /\ faults' = faults + 1
  BY TypeFacts DEF Fault
<1> QED
  BY <1>1

LEMMA StartOrReportOK ==
    ASSUME IInv, NEW c \in Calls, Start(c) \/ Report(c)
    PROVE  IInv'
<1> USE DEF IInv
<1>1. /\ UNCHANGED <<up, level, counts, stored, req, times, faults>>
      /\ call' \in [Calls -> {"idle", "silent", "announced", "counted", "reported", "cut off"}]
      /\ \A d \in Calls : call'[d] = "counted" => call[d] = "counted"
  <2>1. CASE Start(c)
    BY <2>1 DEF Start, TypeOK
  <2>2. CASE Report(c)
    BY <2>2 DEF Report, envVars, TypeOK
  <2> QED
    BY <2>1, <2>2
<1>2. TypeOK'
  BY <1>1 DEF TypeOK
<1>3. NoneLost' /\ NoneForgotten'
  BY <1>1 DEF NoneLost, NoneForgotten
<1>4. MutexHeldOnce' /\ PartsCover' /\ OwedKept' /\ DigestBeforeNotice' /\ DownIsIdle'
  BY <1>1 DEF MutexHeldOnce, PartsCover, OwedKept, DigestBeforeNotice, Holding, Asking,
     DownIsIdle
<1> QED
  BY <1>2, <1>3, <1>4

\* A count reaches memory and the store in one step, while nobody sends.
LEMMA CountOK ==
    ASSUME IInv, NEW c \in Calls, Count(c)
    PROVE  IInv'
<1> USE DEF IInv
<1>1. /\ UNCHANGED <<up, level, req, times>>
      /\ Free
  BY DEF Count
<1>2. CASE /\ counts' = counts \cup {c}
           /\ stored' = counts \cup {c}
           /\ call' = [call EXCEPT ![c] = "counted"]
           /\ UNCHANGED faults
  <2>1. TypeOK'
    BY <1>1, <1>2 DEF TypeOK
  <2>2. NoneForgotten'
    BY <1>1, <1>2 DEF NoneForgotten, TypeOK
  <2>3. NoneLost'
    <3>1. up
      BY DEF Count
    <3> QED
      BY <1>1, <1>2, <3>1 DEF NoneLost, NoneForgotten, TypeOK
  <2>4. MutexHeldOnce' /\ OwedKept' /\ DigestBeforeNotice' /\ DownIsIdle'
    BY <1>1, <1>2 DEF MutexHeldOnce, OwedKept, DigestBeforeNotice, Holding, Asking,
       DownIsIdle
  <2>5. PartsCover'
    BY <1>1, <1>2 DEF PartsCover, Holding, Free
  <2> QED
    BY <2>1, <2>2, <2>3, <2>4, <2>5
<1>3. CASE /\ Fault
           /\ call' = [call EXCEPT ![c] = "reported"]
           /\ UNCHANGED <<counts, stored>>
  <2>0. faults \in Nat /\ faults' = faults + 1
    BY <1>3 DEF TypeOK, Fault
  <2>1. TypeOK'
    <3>1. call' \in [Calls -> {"idle", "silent", "announced", "counted", "reported", "cut off"}]
      BY <1>3 DEF TypeOK
    <3>2. faults' \in Nat
      BY <2>0
    <3>3. UNCHANGED <<up, level, req, times, counts, stored>>
      BY <1>1, <1>3
    <3> QED
      BY <3>1, <3>2, <3>3 DEF TypeOK
  <2>2. NoneLost' /\ NoneForgotten'
    BY <1>1, <1>3 DEF NoneLost, NoneForgotten, TypeOK
  <2>3. MutexHeldOnce' /\ OwedKept' /\ PartsCover' /\ DownIsIdle'
    BY <1>1, <1>3 DEF MutexHeldOnce, OwedKept, PartsCover, Holding, Asking, DownIsIdle
  <2>4. DigestBeforeNotice'
    BY <2>0 DEF DigestBeforeNotice
  <2> QED
    BY <2>1, <2>2, <2>3, <2>4
<1> QED
  BY <1>2, <1>3 DEF Count

-----------------------------------------------------------------------------
(* Requests.                                                               *)

\* A new request owes what is counted at that moment.
LEMMA AskOK ==
    ASSUME IInv, NEW r \in Requesters, NEW kind \in Kinds,
           req[r].pc = "idle", req' = [req EXCEPT ![r] = Ask(kind)], up,
           UNCHANGED <<up, call, counts, stored, times, faults>>,
           level' \in {"digest", "chat"}
    PROVE  IInv'
<1> USE DEF IInv
<1>1. /\ req'[r] = Ask(kind)
      /\ \A t \in Requesters : t # r => req'[t] = req[t]
      /\ req' \in [Requesters -> Request]
  BY DEF TypeOK, Ask
<1>2. TypeOK'
  BY <1>1 DEF TypeOK
<1>3. NoneLost' /\ NoneForgotten' /\ DownIsIdle'
  BY DEF NoneLost, NoneForgotten, DownIsIdle
<1>4. MutexHeldOnce' /\ PartsCover' /\ OwedKept' /\ DigestBeforeNotice'
  BY <1>1 DEF MutexHeldOnce, PartsCover, OwedKept, DigestBeforeNotice, Holding,
     Asking, Ask
<1> QED
  BY <1>2, <1>3, <1>4

\* What sendDigest leaves of a request when it returns.
LEMMA ReturnedRequest ==
    ASSUME NEW q \in Request
    PROVE  /\ Returned(q) \in Request
           /\ Returned(q).pc \in {"idle", "notice"}
           /\ Returned(q).pc = "notice" => Returned(q).owed = q.owed
BY DEF Returned, Idle

\* Whoever asks, sends or waits, the daemon is up.
LEMMA BusyIsUp ==
    ASSUME IInv, NEW r \in Requesters, req[r].pc # "idle"
    PROVE  up
BY DEF IInv, DownIsIdle, TypeOK

LEMMA BeginOK ==
    ASSUME IInv, NEW r \in Requesters, Begin(r)
    PROVE  IInv'
<1> USE DEF IInv
<1> DEFINE q == IF counts = {} /\ req[r].kind # "demand"
                THEN Returned(req[r])
                ELSE [req[r] EXCEPT !.pc = "sending", !.left = counts]
<1>1. /\ req[r].pc = "waiting" /\ Free
      /\ req' = [req EXCEPT ![r] = q]
      /\ UNCHANGED <<up, level, call, counts, stored, times, faults>>
  BY DEF Begin, envVars, TypeOK
<1>2. /\ q \in Request
      /\ q.pc = "sending" => q.left = counts
      /\ q.pc \in {"sending", "idle", "notice"}
      /\ q.pc # "idle" => q.owed = req[r].owed
      /\ q.pc = "notice" => counts = {}
  <2>1. req[r] \in Request /\ counts \subseteq Calls
    BY TypeFacts
  <2>2. CASE counts = {} /\ req[r].kind # "demand"
    <3>1. q = Returned(req[r])
      BY <2>2
    <3> HIDE DEF q
    <3> QED
      BY <2>1, <2>2, <3>1, ReturnedRequest
  <2>3. CASE ~(counts = {} /\ req[r].kind # "demand")
    BY <2>1, <2>3
  <2> QED
    BY <2>2, <2>3
<1>3. /\ req'[r] = q
      /\ \A t \in Requesters : t # r => req'[t] = req[t]
      /\ req' \in [Requesters -> Request]
  BY <1>1, <1>2 DEF TypeOK
<1> HIDE DEF q
<1>4. TypeOK'
  BY <1>1, <1>3 DEF TypeOK
<1>5. NoneLost' /\ NoneForgotten'
  BY <1>1 DEF NoneLost, NoneForgotten
<1>6. MutexHeldOnce' /\ PartsCover'
  BY <1>1, <1>2, <1>3 DEF MutexHeldOnce, PartsCover, Holding, Free
<1>7. OwedKept' /\ DigestBeforeNotice'
  BY <1>1, <1>2, <1>3 DEF OwedKept, DigestBeforeNotice, Asking
<1>8. DownIsIdle'
  BY <1>1, <1>3, BusyIsUp DEF DownIsIdle
<1> QED
  BY <1>4, <1>5, <1>6, <1>7, <1>8

LEMMA QueuePartOK ==
    ASSUME IInv, NEW r \in Requesters, QueuePart(r)
    PROVE  IInv'
<1> USE DEF IInv
<1>1. PICK part \in SUBSET req[r].left :
          /\ times' = [c \in Calls |-> times[c] + (IF c \in part THEN 1 ELSE 0)]
          /\ req' = [req EXCEPT ![r].left = @ \ part,
                                ![r].pc = IF req[r].left \subseteq part
                                          THEN "clearing" ELSE "sending"]
  BY DEF QueuePart
<1>2. /\ req[r].pc = "sending"
      /\ UNCHANGED <<up, level, call, counts, stored, faults>>
  BY DEF QueuePart, envVars
<1>3. /\ times' \in [Calls -> Nat]
      /\ \A c \in Calls : times[c] > 0 => times'[c] > 0
      /\ \A c \in part : times'[c] > 0
  BY <1>1, TypeFacts DEF Request
<1>4. /\ req'[r].left = req[r].left \ part
      /\ req'[r].pc \in {"sending", "clearing"}
      /\ req'[r].pc = "clearing" => req'[r].left = {}
      /\ req'[r].owed = req[r].owed
      /\ \A t \in Requesters : t # r => req'[t] = req[t]
      /\ req' \in [Requesters -> Request]
  <2> DEFINE pc == IF req[r].left \subseteq part THEN "clearing" ELSE "sending"
             q == [req[r] EXCEPT !.left = req[r].left \ part, !.pc = pc]
  <2>1. req[r] \in Request
    BY TypeFacts
  <2>2. req' = [req EXCEPT ![r] = q]
    BY <1>1
  <2>3. pc \in {"sending", "clearing"} /\ (pc = "clearing" => req[r].left \ part = {})
    OBVIOUS
  <2> HIDE DEF pc
  <2>4. q \in Request
    BY <2>1, <2>3
  <2>5. q.left = req[r].left \ part /\ q.owed = req[r].owed /\ q.pc = pc
    BY <2>1, <2>3
  <2> HIDE DEF q
  <2> QED
    BY <2>2, <2>3, <2>4, <2>5, TypeFacts
<1>5. TypeOK'
  BY <1>2, <1>3, <1>4 DEF TypeOK
<1>6. NoneLost' /\ NoneForgotten'
  BY <1>2, <1>3 DEF NoneLost, NoneForgotten
<1>7. MutexHeldOnce'
  BY <1>2, <1>4 DEF MutexHeldOnce, Holding
<1>8. PartsCover'
  BY <1>2, <1>3, <1>4 DEF PartsCover, Holding, TypeOK
<1>9. OwedKept' /\ DigestBeforeNotice'
  <2>1. \A t \in Requesters : req'[t].owed = req[t].owed /\ req[t].owed \subseteq Calls
    BY <1>4, TypeFacts DEF Request
  <2>2. OwedKept'
    BY <1>2, <1>3, <1>4, <2>1 DEF OwedKept, Asking
  <2>3. DigestBeforeNotice'
    BY <1>2, <1>3, <1>4, <2>1 DEF DigestBeforeNotice
  <2> QED
    BY <2>2, <2>3
<1>10. DownIsIdle'
  BY <1>2, BusyIsUp DEF DownIsIdle
<1> QED
  BY <1>5, <1>6, <1>7, <1>8, <1>9, <1>10

LEMMA QueueFailsOK ==
    ASSUME IInv, NEW r \in Requesters, QueueFails(r)
    PROVE  IInv'
<1> USE DEF IInv
<1>1. /\ req[r].pc = "sending"
      /\ req' = [req EXCEPT ![r] = Returned(req[r])]
      /\ UNCHANGED <<up, level, call, counts, stored, times>>
  BY DEF QueueFails, TypeOK
<1>2. faults' \in Nat /\ faults' # 0
  BY FaultCounts DEF QueueFails
<1>3. /\ req'[r].pc \in {"idle", "notice"}
      /\ \A t \in Requesters : t # r => req'[t] = req[t]
      /\ req' \in [Requesters -> Request]
  BY <1>1, ReturnedRequest DEF TypeOK
<1>4. TypeOK'
  BY <1>1, <1>2, <1>3 DEF TypeOK
<1>5. NoneLost' /\ NoneForgotten'
  BY <1>1 DEF NoneLost, NoneForgotten
<1>6. MutexHeldOnce' /\ PartsCover' /\ OwedKept'
  BY <1>1, <1>3 DEF MutexHeldOnce, PartsCover, OwedKept, Holding, Asking
<1>7. DigestBeforeNotice'
  BY <1>2 DEF DigestBeforeNotice
<1>8. DownIsIdle'
  BY <1>1, BusyIsUp DEF DownIsIdle
<1> QED
  BY <1>4, <1>5, <1>6, <1>7, <1>8

\* All that was counted is queued, so it may leave memory and the store.
LEMMA ClearOK ==
    ASSUME IInv, NEW r \in Requesters, Clear(r)
    PROVE  IInv'
<1> USE DEF IInv
<1>1. /\ req[r].pc = "clearing"
      /\ counts' = {}
      /\ req' = [req EXCEPT ![r] = Returned(req[r])]
      /\ UNCHANGED <<up, level, call, times>>
  BY DEF Clear, TypeOK
<1>2. /\ faults' \in Nat /\ (faults' = 0 => faults = 0)
      /\ stored' = stored \/ stored' = {}
  BY FaultCounts, TypeFacts DEF Clear
<1>3. /\ req'[r].pc \in {"idle", "notice"}
      /\ req'[r].pc = "notice" => req'[r].owed = req[r].owed
      /\ \A t \in Requesters : t # r => req'[t] = req[t]
      /\ req' \in [Requesters -> Request]
  BY <1>1, ReturnedRequest DEF TypeOK
<1>4. \A c \in counts : times[c] > 0
  BY <1>1 DEF PartsCover, Holding
<1>5. TypeOK'
  BY <1>1, <1>2, <1>3 DEF TypeOK
<1>6. NoneLost' /\ NoneForgotten'
  BY <1>1, <1>2, <1>4, BusyIsUp DEF NoneLost, NoneForgotten
<1>7. MutexHeldOnce' /\ PartsCover'
  BY <1>1, <1>3 DEF MutexHeldOnce, PartsCover, Holding
<1>8. OwedKept' /\ DigestBeforeNotice'
  BY <1>1, <1>2, <1>3, <1>4 DEF OwedKept, DigestBeforeNotice, Asking
<1>9. DownIsIdle'
  BY <1>1, BusyIsUp DEF DownIsIdle
<1> QED
  BY <1>5, <1>6, <1>7, <1>8, <1>9

-----------------------------------------------------------------------------
(* The process.                                                            *)

\* The store outlives the process and holds what is not queued.
LEMMA DownOK ==
    ASSUME IInv, Down, faults' \in Nat
    PROVE  IInv'
<1> USE DEF IInv
<1>1. /\ up' = FALSE /\ counts' = {}
      /\ req' = [r \in Requesters |-> Idle]
      /\ call' \in [Calls -> {"idle", "silent", "announced", "counted", "reported", "cut off"}]
      /\ \A c \in Calls : call'[c] = "counted" => call[c] = "counted"
      /\ UNCHANGED <<level, stored, times>>
  BY DEF Down, TypeOK
<1>2. /\ req' \in [Requesters -> Request]
      /\ \A r \in Requesters : req'[r].pc = "idle"
  BY <1>1 DEF Idle
<1>3. TypeOK'
  BY <1>1, <1>2 DEF TypeOK
<1>4. NoneLost' /\ NoneForgotten'
  BY <1>1 DEF NoneLost, NoneForgotten
<1>5. MutexHeldOnce' /\ PartsCover' /\ OwedKept' /\ DigestBeforeNotice' /\ DownIsIdle'
  BY <1>2 DEF MutexHeldOnce, PartsCover, OwedKept, DigestBeforeNotice, DownIsIdle,
     Holding, Asking
<1> QED
  BY <1>3, <1>4, <1>5

LEMMA NoticeOK ==
    ASSUME IInv, NEW r \in Requesters, Notice(r)
    PROVE  IInv'
<1> USE DEF IInv
<1>1. CASE req[r].kind = "stop"
  <2>1. Down /\ faults' \in Nat
    BY <1>1, FaultCounts, TypeFacts DEF Notice
  <2> QED
    BY <2>1, DownOK
<1>2. CASE req[r].kind # "stop"
  <2>1. /\ req[r].pc = "notice"
        /\ req' = [req EXCEPT ![r] = Idle]
        /\ UNCHANGED <<up, level, call, counts, stored, times, faults>>
    BY <1>2 DEF Notice, envVars
  <2>2. /\ req'[r].pc = "idle"
        /\ \A t \in Requesters : t # r => req'[t] = req[t]
        /\ req' \in [Requesters -> Request]
    BY <2>1 DEF Idle, TypeOK
  <2>3. TypeOK'
    BY <2>1, <2>2 DEF TypeOK
  <2>4. NoneLost' /\ NoneForgotten'
    BY <2>1 DEF NoneLost, NoneForgotten
  <2>5. MutexHeldOnce' /\ PartsCover' /\ OwedKept' /\ DigestBeforeNotice' /\ DownIsIdle'
    BY <2>1, <2>2 DEF MutexHeldOnce, PartsCover, OwedKept, DigestBeforeNotice,
       DownIsIdle, Holding, Asking
  <2> QED
    BY <2>3, <2>4, <2>5
<1> QED
  BY <1>1, <1>2

\* What a restart reads back is what was not lost.
LEMMA RestartOK ==
    ASSUME IInv, Restart
    PROVE  IInv'
<1> USE DEF IInv
<1>1. /\ ~up /\ up' = TRUE
      /\ counts' = stored
      /\ req' = [req EXCEPT !["main"] = [Ask("start") EXCEPT !.owed = stored]]
      /\ UNCHANGED <<level, call, stored, times, faults>>
  BY DEF Restart
<1>2. stored \subseteq Calls
  BY DEF TypeOK
<1>3. /\ req'["main"].pc = "waiting" /\ req'["main"].owed = counts'
      /\ \A t \in Requesters : t # "main" => req'[t].pc = "idle"
      /\ req' \in [Requesters -> Request]
  BY <1>1, <1>2 DEF Ask, TypeOK, DownIsIdle
<1>4. TypeOK'
  BY <1>1, <1>2, <1>3 DEF TypeOK
<1>5. NoneLost' /\ NoneForgotten'
  BY <1>1 DEF NoneLost, NoneForgotten
<1>6. MutexHeldOnce' /\ PartsCover' /\ OwedKept' /\ DigestBeforeNotice' /\ DownIsIdle'
  BY <1>1, <1>3 DEF MutexHeldOnce, PartsCover, OwedKept, DigestBeforeNotice,
     DownIsIdle, Holding, Asking
<1> QED
  BY <1>4, <1>5, <1>6

LEMMA StepIInv == IInv /\ [Next]_vars => IInv'
<1> SUFFICES ASSUME IInv, [Next]_vars
             PROVE  IInv'
  OBVIOUS
<1>1. ASSUME NEW c \in Calls, Start(c) \/ Report(c) \/ Count(c) PROVE IInv'
  BY <1>1, StartOrReportOK, CountOK
<1>2. CASE AskHour
  BY <1>2, AskOK DEF AskHour, envVars, IInv, TypeOK
<1>3. CASE AskStop
  BY <1>3, AskOK DEF AskStop, envVars, IInv, TypeOK
<1>4. ASSUME NEW r \in Operators, AskOperator(r) PROVE IInv'
  <2>1. PICK kind \in {"lock", "demand"} : req' = [req EXCEPT ![r] = Ask(kind)]
    BY <1>4 DEF AskOperator
  <2> QED
    BY <1>4, <2>1, AskOK DEF AskOperator, envVars, IInv, TypeOK
<1>5. ASSUME NEW r \in Operators, SetLogLevel(r) PROVE IInv'
  BY <1>5, AskOK DEF SetLogLevel
<1>6. ASSUME NEW r \in Requesters,
             Begin(r) \/ QueuePart(r) \/ QueueFails(r) \/ Clear(r) \/ Notice(r)
      PROVE  IInv'
  BY <1>6, BeginOK, QueuePartOK, QueueFailsOK, ClearOK, NoticeOK
<1>7. CASE Crash
  <2>1. Down /\ faults' \in Nat
    BY <1>7, FaultCounts DEF Crash, IInv
  <2> QED
    BY <2>1, DownOK
<1>8. CASE Restart
  BY <1>8, RestartOK
<1>9. CASE UNCHANGED vars
  BY <1>9 DEF vars, IInv, TypeOK, NoneLost, MutexHeldOnce, NoneForgotten, PartsCover,
     OwedKept, DigestBeforeNotice, DownIsIdle, Holding, Asking
<1> QED
  BY <1>1, <1>2, <1>3, <1>4, <1>5, <1>6, <1>7, <1>8, <1>9 DEF Next

LEMMA Invariance == Spec => []IInv
BY InitIInv, StepIInv, PTL DEF Spec

\* Every variable of auditState, its store and its requests keeps its type.
THEOREM Typed == Spec => []TypeOK
<1>1. IInv => TypeOK
  BY DEF IInv
<1> QED
  BY <1>1, Invariance, PTL

\* A counted call is stored or reported at every moment (audit.go:24-27), so no
\* crash, failed write or refused notice loses it.
THEOREM NoLoss == Spec => []NoneLost
<1>1. IInv => NoneLost
  BY DEF IInv
<1> QED
  BY <1>1, Invariance, PTL

\* The notice of a lock, level change or stop follows the digest of what was
\* counted when it was asked for, whichever goroutine sends that digest.
THEOREM Announced == Spec => []DigestBeforeNotice
<1>1. IInv => DigestBeforeNotice
  BY DEF IInv
<1> QED
  BY <1>1, Invariance, PTL

-----------------------------------------------------------------------------
(* Repetitions.  A call owes one more report while it is counted and not    *)
(* queued by the digest under way, or, once it has left memory, while its   *)
(* store was not cleared; only a fault makes a reported call owe again.     *)

Owes(c) ==
    IF c \in counts THEN \A r \in Requesters : Holding(r) => c \in req[r].left
    ELSE c \in stored

Paid(c) == times[c] <= 1 + faults /\ (Owes(c) => times[c] <= faults)

\* While a digest is sent nothing is counted.
LeftIsCounted == \A r \in Requesters : Holding(r) => req[r].left \subseteq counts

DownForgets == ~up => counts = {}

\* Only counted calls are stored and reported.
OnlyCounted ==
    \A c \in Calls :
        c \in counts \/ c \in stored \/ times[c] > 0 => call[c] = "counted"

RInv == LeftIsCounted /\ DownForgets /\ OnlyCounted /\ \A c \in Calls : Paid(c)

\* A fault pays for one more report of every call.
LEMMA StillPaid ==
    ASSUME TypeOK, NEW c \in Calls, Paid(c), times'[c] = times[c],
           \/ faults' = faults /\ (Owes(c)' => Owes(c))
           \/ faults' = faults + 1
    PROVE  Paid(c)'
<1>1. times[c] \in Nat /\ faults \in Nat
  BY DEF TypeOK
<1> QED
  BY <1>1 DEF Paid

LEMMA FaultIsOne == ASSUME TypeOK, Fault PROVE faults' = faults + 1
BY DEF Fault

LEMMA InitRInv == Init => RInv
BY DEF Init, RInv, LeftIsCounted, DownForgets, OnlyCounted, Paid, Owes, Holding, Ask, Idle

LEMMA StartOrReportPaid ==
    ASSUME IInv, RInv, NEW c \in Calls, Start(c) \/ Report(c)
    PROVE  RInv'
<1>1. /\ UNCHANGED <<up, counts, stored, req, times, faults>>
      /\ \A d \in Calls : call[d] = "counted" => call'[d] = "counted"
  BY DEF Start, Report, envVars, IInv, TypeOK
<1>2. LeftIsCounted' /\ DownForgets' /\ OnlyCounted'
  BY <1>1 DEF RInv, LeftIsCounted, DownForgets, OnlyCounted, Holding
<1>3. \A d \in Calls : Paid(d)'
  BY <1>1 DEF RInv, Paid, Owes, Holding
<1> QED
  BY <1>2, <1>3 DEF RInv

\* A call is counted once, and for the first time.
LEMMA CountPaid ==
    ASSUME IInv, RInv, NEW c \in Calls, Count(c)
    PROVE  RInv'
<1>1. /\ UNCHANGED <<up, level, req, times>> /\ up /\ call[c] = "silent"
      /\ \A r \in Requesters : ~Holding(r) /\ ~Holding(r)'
  BY DEF Count, Free, Holding
<1>2. LeftIsCounted' /\ DownForgets'
  BY <1>1 DEF LeftIsCounted, DownForgets
<1>3. \A d \in Calls : call[d] = "counted" => d # c /\ call'[d] = "counted"
  BY <1>1 DEF Count, IInv, TypeOK
<1>4. CASE faults' = faults + 1 /\ UNCHANGED <<counts, stored>>
  <2>1. OnlyCounted'
    BY <1>1, <1>3, <1>4 DEF RInv, OnlyCounted
  <2>2. \A d \in Calls : Paid(d)'
    BY <1>1, <1>4, StillPaid DEF RInv, IInv
  <2> QED
    BY <1>2, <2>1, <2>2 DEF RInv
<1>5. CASE /\ counts' = counts \cup {c} /\ stored' = counts \cup {c}
           /\ call' = [call EXCEPT ![c] = "counted"] /\ UNCHANGED faults
  <2>1. call'[c] = "counted"
    BY <1>5 DEF IInv, TypeOK
  <2>2. OnlyCounted'
    BY <1>1, <1>3, <1>5, <2>1 DEF RInv, OnlyCounted
  <2>3. ASSUME NEW d \in Calls, d # c PROVE Paid(d)'
    <3>1. Owes(d)' => Owes(d)
      BY <1>1, <1>5, <2>3 DEF Owes
    <3> QED
      BY <3>1, <1>1, <1>5, StillPaid DEF RInv, IInv
  <2>4. Paid(c)'
    <3>1. times[c] \in Nat /\ faults \in Nat
      BY DEF IInv, TypeOK
    <3>2. ~(times[c] > 0)
      BY <1>1 DEF RInv, OnlyCounted
    <3>3. times[c] = 0
      BY <3>1, <3>2
    <3> QED
      BY <3>1, <3>3, <1>1, <1>5 DEF Paid
  <2> QED
    BY <1>2, <2>2, <2>3, <2>4 DEF RInv
<1>6. \/ /\ faults' = faults + 1 /\ UNCHANGED <<counts, stored>>
      \/ /\ counts' = counts \cup {c} /\ stored' = counts \cup {c}
         /\ call' = [call EXCEPT ![c] = "counted"] /\ UNCHANGED faults
  BY FaultIsOne DEF Count, IInv
<1> QED
  BY <1>4, <1>5, <1>6

\* Requests that come or go without the mutex change no debt.
LEMMA AsidePaid ==
    ASSUME IInv, RInv, NEW r \in Requesters,
           UNCHANGED <<up, call, counts, stored, times, faults>>,
           ~Holding(r), ~Holding(r)', \A t \in Requesters : t # r => req'[t] = req[t]
    PROVE  RInv'
<1>1. \A t \in Requesters : Holding(t)' = Holding(t) /\ (Holding(t) => req'[t] = req[t])
  BY DEF Holding
<1>2. LeftIsCounted' /\ DownForgets' /\ OnlyCounted'
  BY <1>1 DEF RInv, LeftIsCounted, DownForgets, OnlyCounted
<1>3. ASSUME NEW c \in Calls PROVE Paid(c)'
  <2>1. Owes(c)' => Owes(c)
    BY <1>1 DEF Owes
  <2> QED
    BY <2>1, StillPaid DEF RInv, IInv
<1> QED
  BY <1>2, <1>3 DEF RInv

LEMMA AskPaid ==
    ASSUME IInv, RInv, NEW r \in Requesters, NEW kind \in Kinds,
           req[r].pc = "idle", req' = [req EXCEPT ![r] = Ask(kind)],
           UNCHANGED <<up, call, counts, stored, times, faults>>
    PROVE  RInv'
<1>1. ~Holding(r) /\ ~Holding(r)' /\ \A t \in Requesters : t # r => req'[t] = req[t]
  BY DEF Holding, Ask, IInv, TypeOK
<1> QED
  BY <1>1, AsidePaid

\* The digest that begins has everything that is counted before it.
LEMMA BeginPaid ==
    ASSUME IInv, RInv, NEW r \in Requesters, Begin(r)
    PROVE  RInv'
<1>1. /\ req[r].pc = "waiting" /\ Free
      /\ UNCHANGED <<up, call, counts, stored, times, faults>>
      /\ \A t \in Requesters : t # r => req'[t] = req[t]
      /\ \A t \in Requesters : ~Holding(t)
  BY DEF Begin, envVars, Free, Holding, IInv, TypeOK
<1>2. req[r] \in Request
  BY TypeFacts DEF IInv
<1>3. CASE counts = {} /\ req[r].kind # "demand"
  <2>1. req'[r] = Returned(req[r])
    BY <1>3 DEF Begin, IInv, TypeOK
  <2>2. ~Holding(r)'
    BY <2>1, <1>2, ReturnedRequest DEF Holding
  <2> QED
    BY <2>2, <1>1, AsidePaid
<1>4. CASE ~(counts = {} /\ req[r].kind # "demand")
  <2>1. req'[r] = [req[r] EXCEPT !.pc = "sending", !.left = counts]
    BY <1>4 DEF Begin, IInv, TypeOK
  <2>2. req'[r].left = counts
    BY <2>1, <1>2
  <2>3. \A t \in Requesters : Holding(t)' => t = r
    BY <1>1 DEF Holding
  <2>4. LeftIsCounted' /\ DownForgets' /\ OnlyCounted'
    BY <1>1, <2>2, <2>3 DEF RInv, LeftIsCounted, DownForgets, OnlyCounted
  <2>5. ASSUME NEW c \in Calls PROVE Paid(c)'
    <3>1. Owes(c)' => Owes(c)
      BY <1>1 DEF Owes
    <3> QED
      BY <3>1, <1>1, StillPaid DEF RInv, IInv
  <2> QED
    BY <2>4, <2>5 DEF RInv
<1> QED
  BY <1>3, <1>4

\* A part that is queued settles what its calls owed.
LEMMA QueuePartPaid ==
    ASSUME IInv, RInv, NEW r \in Requesters, QueuePart(r)
    PROVE  RInv'
<1>1. PICK part \in SUBSET req[r].left :
          /\ times' = [c \in Calls |-> times[c] + (IF c \in part THEN 1 ELSE 0)]
          /\ req' = [req EXCEPT ![r].left = @ \ part,
                                ![r].pc = IF req[r].left \subseteq part
                                          THEN "clearing" ELSE "sending"]
  BY DEF QueuePart
<1>2. /\ req[r].pc = "sending" /\ Holding(r)
      /\ UNCHANGED <<up, call, counts, stored, faults>>
  BY DEF QueuePart, envVars, Holding
<1>3. /\ req'[r].left = req[r].left \ part /\ Holding(r)'
      /\ \A t \in Requesters : t # r => req'[t] = req[t]
  <2>1. req[r] \in Request
    BY TypeFacts DEF IInv
  <2> QED
    BY <1>1, <2>1 DEF Holding, IInv, TypeOK
<1>4. \A t \in Requesters : Holding(t)' = Holding(t) /\ (Holding(t) => t = r)
  BY <1>2, <1>3 DEF Holding, IInv, MutexHeldOnce
<1>5. req[r].left \subseteq counts /\ counts \subseteq Calls
  BY <1>2 DEF RInv, LeftIsCounted, IInv, TypeOK
<1>6. LeftIsCounted' /\ DownForgets'
  BY <1>2, <1>3, <1>4, <1>5 DEF RInv, LeftIsCounted, DownForgets
<1>7. \A c \in Calls : c \notin part => times'[c] = times[c]
  <2> SUFFICES ASSUME NEW c \in Calls, c \notin part PROVE times'[c] = times[c]
    OBVIOUS
  <2>1. times[c] \in Nat
    BY DEF IInv, TypeOK
  <2>2. times'[c] = times[c] + 0
    BY <1>1
  <2> QED
    BY <2>1, <2>2
<1>8. OnlyCounted'
  <2> SUFFICES ASSUME NEW c \in Calls, c \in counts \/ c \in stored \/ times'[c] > 0
               PROVE  call[c] = "counted"
    BY <1>2 DEF OnlyCounted
  <2>1. CASE c \in part
    BY <2>1, <1>5 DEF RInv, OnlyCounted
  <2>2. CASE c \notin part
    BY <2>2, <1>7 DEF RInv, OnlyCounted
  <2> QED
    BY <2>1, <2>2
<1>9. ASSUME NEW c \in Calls PROVE Paid(c)'
  <2>1. CASE c \in part
    <3>1. Owes(c) /\ ~Owes(c)'
      BY <2>1, <1>2, <1>3, <1>4, <1>5 DEF Owes
    <3>2. times[c] \in Nat /\ faults \in Nat /\ times'[c] = times[c] + 1
      BY <2>1, <1>1 DEF IInv, TypeOK
    <3> QED
      BY <3>1, <3>2, <1>2 DEF RInv, Paid
  <2>2. CASE c \notin part
    <3>1. Owes(c)' => Owes(c)
      BY <2>2, <1>2, <1>3, <1>4 DEF Owes
    <3> QED
      BY <3>1, <2>2, <1>2, <1>7, StillPaid DEF RInv, IInv
  <2> QED
    BY <2>1, <2>2
<1> QED
  BY <1>6, <1>8, <1>9 DEF RInv

\* The mutex is given back: what was not queued, or not cleared, is a fault's.
LEMMA ReturnPaid ==
    ASSUME IInv, RInv, NEW r \in Requesters, QueueFails(r) \/ Clear(r)
    PROVE  RInv'
<1>1. /\ Holding(r) /\ req' = [req EXCEPT ![r] = Returned(req[r])]
      /\ UNCHANGED <<up, call, times>>
      /\ counts' \subseteq counts /\ stored' \subseteq stored
      /\ counts' = counts \/ counts' = {}
      /\ \/ faults' = faults + 1
         \/ faults' = faults /\ counts' = {} /\ stored' = {}
  BY FaultIsOne DEF QueueFails, Clear, Holding, IInv, TypeOK
<1>2. \A t \in Requesters : ~Holding(t)'
  <2>1. req[r] \in Request
    BY TypeFacts DEF IInv
  <2>2. req'[r] = Returned(req[r]) /\ \A t \in Requesters : t # r => req'[t] = req[t]
    BY <1>1 DEF IInv, TypeOK
  <2>3. ~Holding(r)'
    BY <2>1, <2>2, ReturnedRequest DEF Holding
  <2> QED
    BY <2>2, <2>3, <1>1 DEF Holding, IInv, MutexHeldOnce
<1>3. LeftIsCounted' /\ DownForgets' /\ OnlyCounted'
  BY <1>1, <1>2 DEF RInv, LeftIsCounted, DownForgets, OnlyCounted
<1>4. ASSUME NEW c \in Calls PROVE Paid(c)'
  <2>1. faults' = faults => ~Owes(c)' \/ faults' = faults + 1
    BY <1>1 DEF Owes
  <2> QED
    BY <2>1, <1>1, StillPaid DEF RInv, IInv
<1> QED
  BY <1>3, <1>4 DEF RInv

\* The end of the process in the middle of a digest is a fault.
LEMMA DownPaid ==
    ASSUME IInv, RInv, Down, faults' = faults + 1 \/ (faults' = faults /\ Free)
    PROVE  RInv'
<1>1. /\ counts' = {} /\ UNCHANGED <<stored, times>>
      /\ \A r \in Requesters : ~Holding(r)'
      /\ \A c \in Calls : call[c] = "counted" => call'[c] = "counted"
  BY DEF Down, Holding, Idle, IInv, TypeOK
<1>2. LeftIsCounted' /\ DownForgets' /\ OnlyCounted'
  BY <1>1 DEF RInv, LeftIsCounted, DownForgets, OnlyCounted
<1>3. ASSUME NEW c \in Calls PROVE Paid(c)'
  <2>1. Free => (Owes(c)' => Owes(c))
    BY <1>1 DEF Owes, Free, Holding
  <2> QED
    BY <2>1, <1>1, StillPaid DEF RInv, IInv
<1> QED
  BY <1>2, <1>3 DEF RInv

LEMMA NoticePaid ==
    ASSUME IInv, RInv, NEW r \in Requesters, Notice(r)
    PROVE  RInv'
<1>1. CASE req[r].kind = "stop"
  <2>1. Down /\ (faults' = faults + 1 \/ (faults' = faults /\ Free))
    BY <1>1, FaultIsOne DEF Notice, IInv
  <2> QED
    BY <2>1, DownPaid
<1>2. CASE req[r].kind # "stop"
  <2>1. /\ req[r].pc = "notice" /\ req' = [req EXCEPT ![r] = Idle]
        /\ UNCHANGED <<up, call, counts, stored, times, faults>>
    BY <1>2 DEF Notice, envVars
  <2>2. req'[r] = Idle /\ \A t \in Requesters : t # r => req'[t] = req[t]
    BY <2>1 DEF IInv, TypeOK
  <2>3. ~Holding(r) /\ ~Holding(r)'
    BY <2>1, <2>2 DEF Holding, Idle
  <2> QED
    BY <2>1, <2>2, <2>3, AsidePaid
<1> QED
  BY <1>1, <1>2

\* attachStore: the stored copy is memory again, and owes what it owed.
LEMMA RestartPaid ==
    ASSUME IInv, RInv, Restart
    PROVE  RInv'
<1>1. /\ ~up /\ up' /\ counts = {} /\ counts' = stored
      /\ UNCHANGED <<call, stored, times, faults>>
  BY DEF Restart, RInv, DownForgets
<1>2. \A t \in Requesters : ~Holding(t)'
  BY <1>1 DEF Restart, Holding, Ask, IInv, TypeOK, DownIsIdle
<1>3. LeftIsCounted' /\ DownForgets' /\ OnlyCounted'
  BY <1>1, <1>2 DEF RInv, LeftIsCounted, DownForgets, OnlyCounted
<1>4. ASSUME NEW c \in Calls PROVE Paid(c)'
  <2>1. Owes(c)' => Owes(c)
    BY <1>1 DEF Owes
  <2> QED
    BY <2>1, <1>1, StillPaid DEF RInv, IInv
<1> QED
  BY <1>3, <1>4 DEF RInv

LEMMA StepRInv == IInv /\ RInv /\ [Next]_vars => RInv'
<1> SUFFICES ASSUME IInv, RInv, [Next]_vars
             PROVE  RInv'
  OBVIOUS
<1>1. ASSUME NEW c \in Calls, Start(c) \/ Report(c) \/ Count(c) PROVE RInv'
  BY <1>1, StartOrReportPaid, CountPaid
<1>2. CASE AskHour
  BY <1>2, AskPaid DEF AskHour, envVars
<1>3. CASE AskStop
  BY <1>3, AskPaid DEF AskStop, envVars
<1>4. ASSUME NEW r \in Operators, AskOperator(r) PROVE RInv'
  <2>1. PICK kind \in {"lock", "demand"} : req' = [req EXCEPT ![r] = Ask(kind)]
    BY <1>4 DEF AskOperator
  <2> QED
    BY <1>4, <2>1, AskPaid DEF AskOperator, envVars
<1>5. ASSUME NEW r \in Operators, SetLogLevel(r) PROVE RInv'
  BY <1>5, AskPaid DEF SetLogLevel
<1>6. ASSUME NEW r \in Requesters,
             Begin(r) \/ QueuePart(r) \/ QueueFails(r) \/ Clear(r) \/ Notice(r)
      PROVE  RInv'
  BY <1>6, BeginPaid, QueuePartPaid, ReturnPaid, NoticePaid
<1>7. CASE Crash
  BY <1>7, FaultIsOne, DownPaid DEF Crash, IInv
<1>8. CASE Restart
  BY <1>8, RestartPaid
<1>9. CASE UNCHANGED vars
  BY <1>9 DEF vars, RInv, LeftIsCounted, DownForgets, OnlyCounted, Paid, Owes, Holding
<1> QED
  BY <1>1, <1>2, <1>3, <1>4, <1>5, <1>6, <1>7, <1>8, <1>9 DEF Next

\* A call is reported a second time only when a crash or a stop cut a digest short,
\* nobody could be queued one of its parts, or the store was not cleared.
THEOREM RepeatsPaid == Spec => []RepeatsExplained
<1>1. RInv => RepeatsExplained
  BY DEF RInv, Paid, RepeatsExplained
<1> QED
  BY <1>1, Invariance, InitRInv, StepRInv, PTL DEF Spec
=============================================================================
