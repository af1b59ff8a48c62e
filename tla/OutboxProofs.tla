---------------------------- MODULE OutboxProofs ----------------------------
(***************************************************************************)
(* The order and the honesty of an outbox lane, for any number of install *)
(* commands flushing beside Run, any queue, any faults and any crashes;   *)
(* and, without install commands, that one sender works on a row and that *)
(* repeated deliveries are explained.                                     *)
(***************************************************************************)
EXTENDS Outbox, SequenceTheorems, FiniteSetTheorems, TLAPS

\* The sender holds a row, and has had it delivered.
Working(s) == sender[s].pc \notin {"off", "loop", "sleeping"}
Delivered(s) ==
    sender[s].pc \in {"accepted", "plainAccepted", "clearFormat", "markSent"}

\* The senders that have a row delivered, and those that still work on it.
Holders(i) == {s \in Senders : Delivered(s) /\ Id(s) = i}
Waiting(i) == {s \in Senders : Working(s) /\ ~Delivered(s) /\ Id(s) = i}

\* What a sender knows of its row: every earlier row is settled for good, and
\* its copy of attempts, however stale, counts refusals that happened.
SenderOK(s) ==
    Working(s) =>
        /\ Id(s) \in Ids
        /\ \A j \in Ids : j < Id(s) => Settled(j)
        /\ Delivered(s) => copies[Id(s)] > 0
        /\ sender[s].msg.attempts <= rejects[Id(s)]
        /\ sender[s].pc = "fail" => Attempts(s) <= rejects[Id(s)]
        /\ sender[s].pc = "markDead" => MaxAttempts <= rejects[Id(s)]

RowOK(i) ==
    /\ rows[i].attempts <= rejects[i]
    /\ rows[i].sent => copies[i] > 0
    /\ rows[i].dead \/ i \in alerted => MaxAttempts <= rejects[i]
    /\ copies[i] > 0 => \A j \in Ids : j < i => Settled(j)

IInv ==
    /\ TypeOK
    /\ \A s \in Senders : SenderOK(s)
    /\ \A i \in Ids : RowOK(i)

USE TransportAssumption, MaxAttemptsAssumption, BoundsAssumption, KindsAssumption,
    InstallersAssumption DEF Goroutine

-----------------------------------------------------------------------------
(* What no step undoes.                                                    *)

\* Rows are never removed or revived, acceptances and refusals never unmade.
Grows ==
    /\ Ids \subseteq Ids'
    /\ \A i \in Ids :
          /\ rows[i].sent => rows'[i].sent
          /\ rows[i].dead => rows'[i].dead
          /\ copies[i] <= copies'[i]
          /\ rejects[i] <= rejects'[i]
    /\ \A i \in Ids' \ Ids : \A j \in Ids : j < i

LEMMA CountersNat ==
    ASSUME NEW f \in Seq(Nat), NEW i \in 1 .. Len(f)
    PROVE  f[i] \in Nat
BY ElementOfSeq

LEMMA OthersStayOK ==
    ASSUME TypeOK, TypeOK', Grows, NEW t \in Senders, SenderOK(t),
           sender'[t] = sender[t]
    PROVE  SenderOK(t)'
<1>1. SUFFICES ASSUME Working(t) PROVE SenderOK(t)'
  BY DEF SenderOK, Working
<1>2. Id(t) \in Ids /\ Id(t)' = Id(t) /\ Id(t) \in Ids'
  BY <1>1 DEF SenderOK, Id, Grows
<1>3. \A j \in Ids' : j < Id(t) => j \in Ids
  BY <1>2 DEF Ids, TypeOK
<1>4. \A j \in Ids' : j < Id(t) => Settled(j)'
  BY <1>1, <1>3 DEF SenderOK, Grows, Settled
<1>5. copies[Id(t)] \in Nat /\ rejects[Id(t)] \in Nat
  <2>1. copies \in Seq(Nat) /\ rejects \in Seq(Nat)
        /\ Id(t) \in 1 .. Len(copies) /\ Id(t) \in 1 .. Len(rejects)
    BY <1>2 DEF TypeOK, Ids
  <2> QED
    BY <2>1, CountersNat
<1>6. copies'[Id(t)] \in Nat /\ rejects'[Id(t)] \in Nat
  <2>1. copies' \in Seq(Nat) /\ rejects' \in Seq(Nat)
        /\ Id(t) \in 1 .. Len(copies') /\ Id(t) \in 1 .. Len(rejects')
    BY <1>2 DEF TypeOK, Ids
  <2> QED
    BY <2>1, CountersNat
<1>7. sender[t].msg.attempts \in Nat
  BY DEF TypeOK
<1>8. copies[Id(t)] <= copies'[Id(t)] /\ rejects[Id(t)] <= rejects'[Id(t)]
  BY <1>2 DEF Grows
<1> QED
  BY <1>1, <1>2, <1>4, <1>5, <1>6, <1>7, <1>8
  DEF SenderOK, Working, Delivered, Attempts

LEMMA ElementTypes ==
    ASSUME TypeOK, NEW i \in Ids
    PROVE  rows[i] \in Row /\ copies[i] \in Nat /\ rejects[i] \in Nat
<1>1. /\ rows \in Seq(Row) /\ copies \in Seq(Nat) /\ rejects \in Seq(Nat)
      /\ i \in 1 .. Len(rows) /\ i \in 1 .. Len(copies) /\ i \in 1 .. Len(rejects)
  BY DEF TypeOK, Ids
<1> QED
  BY <1>1, ElementOfSeq

LEMMA SendersFinite == IsFiniteSet(Senders)
<1>1. IsFiniteSet({"run"})
  BY FS_Singleton
<1>2. IsFiniteSet({"run"} \cup {"exit"})
  BY <1>1, FS_AddElement
<1>3. IsFiniteSet(({"run"} \cup {"exit"}) \cup Installers)
  BY <1>2, FS_Union
<1>4. Senders = ({"run"} \cup {"exit"}) \cup Installers
  BY DEF Senders
<1> QED
  BY <1>3, <1>4

LEMMA CountTypes ==
    ASSUME NEW i
    PROVE  /\ IsFiniteSet(Holders(i)) /\ Cardinality(Holders(i)) \in Nat
           /\ IsFiniteSet(Waiting(i)) /\ Cardinality(Waiting(i)) \in Nat
           /\ Cardinality(Senders) \in Nat
           /\ Cardinality(Holders(i)) + Cardinality(Waiting(i)) <= Cardinality(Senders)
<1>1. Holders(i) \subseteq Senders /\ Waiting(i) \subseteq Senders
      /\ Holders(i) \cap Waiting(i) = {}
  BY DEF Holders, Waiting
<1>2. IsFiniteSet(Holders(i)) /\ IsFiniteSet(Waiting(i)) /\ IsFiniteSet(Senders)
  BY <1>1, SendersFinite, FS_Subset
<1>3. /\ Cardinality(Holders(i) \cup Waiting(i)) =
            Cardinality(Holders(i)) + Cardinality(Waiting(i)) - Cardinality({})
      /\ Cardinality(Holders(i) \cup Waiting(i)) <= Cardinality(Senders)
  BY <1>1, <1>2, FS_Union, FS_Subset
<1>4. Cardinality({}) = 0
  BY FS_EmptySet
<1>5. /\ Cardinality(Holders(i)) \in Nat /\ Cardinality(Waiting(i)) \in Nat
      /\ Cardinality(Senders) \in Nat
  BY <1>2, FS_CardinalityType
<1> QED
  BY <1>2, <1>3, <1>4, <1>5

\* What the end of the process adds to unrecorded.
LEMMA StopCounts ==
    ASSUME Stop
    PROVE  unrecorded' = [i \in Ids |-> unrecorded[i] + Cardinality(Holders(i))]
<1>1. \A i : Holders(i) = {s \in Senders : Id(s) = i /\ sender[s].pc \in
                            {"accepted", "plainAccepted", "clearFormat", "markSent"}}
  BY DEF Holders, Delivered
<1> QED
  BY <1>1 DEF Stop

-----------------------------------------------------------------------------
(* A sender's loop, where it reads the head of the queue.                  *)

LoopStep(s) == Pick(s) \/ PickFails(s) \/ Idle(s) \/ Wake(s)

\* The row next returns has only settled rows before it.
LEMMA HeadFollowsSettled ==
    ASSUME TypeOK, NEW i \in Ids, IsNext(i)
    PROVE  \A j \in Ids : j < i => Settled(j)
BY DEF IsNext, IsHead, Pending, Ids

LEMMA LoopStepOK ==
    ASSUME IInv, NEW s \in Senders, LoopStep(s)
    PROVE  IInv'
<1> USE DEF SenderStep, daemonVars, platformVars
<1>1. /\ UNCHANGED <<rows, copies, rejects, unrecorded, alerted, cancelled,
                     enabled, phase, shutdowns>>
      /\ faults' \in Nat
  BY DEF LoopStep, Pick, PickFails, Idle, Wake, Fault, NoFault, IInv, TypeOK
<1>2. Grows
  BY <1>1, ElementTypes DEF Grows, IInv, Ids
<1>3. \A i \in Ids' : RowOK(i)'
  BY <1>1 DEF IInv, RowOK, Ids, Settled
<1>4. CASE Pick(s)
  <2>1. PICK i \in Ids :
          /\ IsNext(i)
          /\ sender' = [sender EXCEPT ![s] =
                [pc |-> IF s \in cancelled THEN "defer" ELSE "sending",
                 msg |-> [id |-> i, reply |-> rows[i].reply, html |-> rows[i].html,
                          attempts |-> rows[i].attempts]]]
    BY <1>4 DEF Pick
  <2>2. rows[i] \in Row /\ i \in Nat
    BY ElementTypes DEF IInv, Ids
  <2>3. TypeOK'
    BY <1>1, <2>1, <2>2 DEF IInv, TypeOK, Row, Ids
  <2>4. SenderOK(s)'
    <3>1. \A j \in Ids : j < i => Settled(j)
      BY <2>1, HeadFollowsSettled DEF IInv
    <3>2. rows[i].attempts <= rejects[i]
      BY DEF IInv, RowOK
    <3> QED
      BY <1>1, <2>1, <3>1, <3>2
      DEF SenderOK, Working, Delivered, Id, Ids, Settled, IInv, TypeOK
  <2>5. \A t \in Senders \ {s} : SenderOK(t)'
    BY <1>2, <2>1, <2>3, OthersStayOK DEF IInv, TypeOK
  <2> QED
    BY <1>3, <2>3, <2>4, <2>5 DEF IInv
<1>5. CASE PickFails(s) \/ Idle(s) \/ Wake(s)
  <2>1. PICK pc \in {"off", "loop", "sleeping"} : Return(s, pc)
    BY <1>5 DEF PickFails, Idle, Wake
  <2>2. TypeOK'
    BY <1>1, <2>1 DEF IInv, TypeOK, Return, NoMsg, Ids
  <2>3. SenderOK(s)'
    BY <2>1 DEF SenderOK, Working, Return, IInv, TypeOK
  <2>4. \A t \in Senders \ {s} : SenderOK(t)'
    BY <1>2, <2>1, <2>2, OthersStayOK DEF IInv, TypeOK, Return
  <2> QED
    BY <1>3, <2>2, <2>3, <2>4 DEF IInv
<1> QED
  BY <1>4, <1>5 DEF LoopStep

-----------------------------------------------------------------------------
(* A sender and the platform.                                              *)

TalkStep(s) ==
    \/ Accept(s) \/ Answer(s) \/ LoseAnswer(s) \/ Transient(s)
    \/ ReplyGone(s) \/ RejectHTML(s) \/ Reject(s)

\* A counter that grows by one in one place.
LEMMA CounterStep ==
    ASSUME NEW f \in Seq(Nat), NEW i \in 1 .. Len(f), NEW g,
           g = [f EXCEPT ![i] = @ + 1]
    PROVE  /\ g \in Seq(Nat) /\ Len(g) = Len(f)
           /\ g[i] = f[i] + 1
           /\ \A j \in 1 .. Len(f) : j # i => g[j] = f[j]
           /\ \A j \in 1 .. Len(f) : f[j] \in Nat /\ f[j] <= g[j]
<1>1. \A j \in 1 .. Len(f) : f[j] \in Nat
  BY CountersNat
<1>2. /\ g \in Seq(Nat) /\ Len(g) = Len(f)
      /\ \A j \in 1 .. Len(f) : g[j] = IF j = i THEN f[i] + 1 ELSE f[j]
  BY <1>1, ExceptSeq, f[i] + 1 \in Nat
<1> QED
  BY <1>1, <1>2

LEMMA TalkStepOK ==
    ASSUME IInv, NEW s \in Senders, TalkStep(s)
    PROVE  IInv'
<1> DEFINE i == Id(s)
<1> USE DEF SenderStep, daemonVars, platformVars
<1>1. Working(s)
  BY DEF TalkStep, Accept, Answer, LoseAnswer, Transient, ReplyGone, RejectHTML,
         Reject, At, Working
<1>2. /\ i \in Ids
      /\ \A j \in Ids : j < i => Settled(j)
      /\ sender[s].msg.attempts <= rejects[i]
      /\ sender[s].pc \in {"accepted", "plainAccepted"} => copies[i] > 0
  BY <1>1 DEF IInv, SenderOK, Delivered
<1>3. /\ UNCHANGED <<rows, alerted, cancelled, enabled, phase, shutdowns>>
      /\ faults' \in Nat
  BY DEF TalkStep, Accept, Answer, LoseAnswer, Transient, ReplyGone, RejectHTML,
         Reject, Fault, NoFault, IInv, TypeOK
<1>4. PICK pc \in {"accepted", "plain", "plainAccepted", "clearFormat",
                   "markSent", "clearReply", "defer", "fail"} : Goto(s, pc)
  BY DEF TalkStep, Accept, Answer, LoseAnswer, Transient, ReplyGone, RejectHTML, Reject
<1>5. /\ sender'[s].pc = pc /\ sender'[s].msg = sender[s].msg
      /\ \A t \in Senders \ {s} : sender'[t] = sender[t]
      /\ sender' \in [Senders -> Goroutine]
  BY <1>4 DEF Goto, IInv, TypeOK
<1>6. /\ \/ UNCHANGED copies
         \/ copies' = [copies EXCEPT ![i] = @ + 1]
      /\ \/ UNCHANGED rejects
         \/ rejects' = [rejects EXCEPT ![i] = @ + 1]
      /\ \/ UNCHANGED unrecorded
         \/ unrecorded' = [unrecorded EXCEPT ![i] = @ + 1]
  BY DEF TalkStep, Accept, Answer, LoseAnswer, Transient, ReplyGone, RejectHTML, Reject
<1>7. /\ copies' \in Seq(Nat) /\ Len(copies') = Len(rows)
      /\ \A j \in Ids : copies[j] \in Nat /\ copies'[j] \in Nat /\ copies[j] <= copies'[j]
      /\ \A j \in Ids : j # i => copies'[j] = copies[j]
  <2>1. /\ copies \in Seq(Nat) /\ Len(copies) = Len(rows) /\ i \in 1 .. Len(copies)
    BY <1>2 DEF IInv, TypeOK, Ids
  <2>2. CASE UNCHANGED copies
    BY <2>1, <2>2, CountersNat DEF Ids
  <2>3. CASE copies' = [copies EXCEPT ![i] = @ + 1]
    BY <2>1, <2>3, CounterStep, CountersNat DEF Ids
  <2> QED
    BY <1>6, <2>2, <2>3
<1>8. /\ rejects' \in Seq(Nat) /\ Len(rejects') = Len(rows)
      /\ \A j \in Ids : rejects[j] \in Nat /\ rejects'[j] \in Nat /\ rejects[j] <= rejects'[j]
  <2>1. /\ rejects \in Seq(Nat) /\ Len(rejects) = Len(rows) /\ i \in 1 .. Len(rejects)
    BY <1>2 DEF IInv, TypeOK, Ids
  <2>2. CASE UNCHANGED rejects
    BY <2>1, <2>2, CountersNat DEF Ids
  <2>3. CASE rejects' = [rejects EXCEPT ![i] = @ + 1]
    BY <2>1, <2>3, CounterStep, CountersNat DEF Ids
  <2> QED
    BY <1>6, <2>2, <2>3
<1>9. unrecorded' \in Seq(Nat) /\ Len(unrecorded') = Len(rows)
  <2>1. /\ unrecorded \in Seq(Nat) /\ Len(unrecorded) = Len(rows)
        /\ i \in 1 .. Len(unrecorded)
    BY <1>2 DEF IInv, TypeOK, Ids
  <2>2. CASE UNCHANGED unrecorded
    BY <2>1, <2>2
  <2>3. CASE unrecorded' = [unrecorded EXCEPT ![i] = @ + 1]
    BY <2>1, <2>3, CounterStep
  <2> QED
    BY <1>6, <2>2, <2>3
<1>10. TypeOK'
  BY <1>3, <1>5, <1>7, <1>8, <1>9 DEF IInv, TypeOK, Ids
<1>11. Grows
  BY <1>3, <1>7, <1>8 DEF Grows, Ids
<1>12. \A j \in Ids' : RowOK(j)'
  <2> SUFFICES ASSUME NEW j \in Ids PROVE RowOK(j)'
    BY <1>3 DEF Ids
  <2>1. RowOK(j) /\ rows[j] \in Row
    BY ElementTypes DEF IInv
  <2>2. copies'[j] > 0 => \A k \in Ids : k < j => Settled(k)
    BY <1>2, <1>7, <2>1 DEF RowOK
  <2>3. rejects[j] \in Nat /\ rejects'[j] \in Nat /\ rejects[j] <= rejects'[j]
        /\ copies[j] \in Nat /\ copies'[j] \in Nat /\ copies[j] <= copies'[j]
    BY <1>7, <1>8
  <2>4. rows[j].attempts \in Nat
    BY <2>1 DEF Row
  <2> QED
    BY <1>3, <2>1, <2>2, <2>3, <2>4 DEF RowOK, Ids, Settled
<1>13. SenderOK(s)'
  <2>1. CASE Accept(s)
    <3>1. copies'[i] = copies[i] + 1
      BY <1>2, <2>1, CounterStep DEF Accept, IInv, TypeOK, Ids
    <3>2. copies'[i] > 0
      BY <1>2, <1>7, <3>1
    <3>3. sender'[s].pc \in {"accepted", "plainAccepted"} /\ UNCHANGED rejects
      BY <1>5, <2>1 DEF Accept, Goto, IInv, TypeOK
    <3> QED
      BY <1>2, <1>3, <1>5, <3>2, <3>3
      DEF SenderOK, Working, Delivered, Id, Ids, Settled
  <2>2. CASE Reject(s)
    <3>1. rejects'[i] = rejects[i] + 1
      BY <1>2, <2>2, CounterStep DEF Reject, IInv, TypeOK, Ids
    <3>2. sender'[s].pc = "fail" /\ sender[s].msg.attempts \in Nat
      BY <2>2 DEF Reject, Goto, IInv, TypeOK
    <3> QED
      BY <1>2, <1>3, <1>5, <1>8, <3>1, <3>2
      DEF SenderOK, Working, Delivered, Id, Ids, Settled, Attempts
  <2>3. CASE Answer(s) \/ LoseAnswer(s) \/ Transient(s) \/ ReplyGone(s) \/ RejectHTML(s)
    <3>1. /\ UNCHANGED <<copies, rejects>>
          /\ sender'[s].pc \in {"clearFormat", "markSent"} => copies[i] > 0
          /\ sender'[s].pc \in {"clearFormat", "markSent", "defer", "clearReply", "plain"}
      BY <1>2, <1>5, <2>3
      DEF Answer, LoseAnswer, Transient, ReplyGone, RejectHTML, Goto, At, IInv, TypeOK
    <3> QED
      BY <1>2, <1>3, <1>5, <3>1 DEF SenderOK, Working, Delivered, Id, Ids, Settled
  <2> QED
    BY <2>1, <2>2, <2>3 DEF TalkStep
<1>14. \A t \in Senders \ {s} : SenderOK(t)'
  BY <1>5, <1>10, <1>11, OthersStayOK DEF IInv
<1> QED
  BY <1>10, <1>12, <1>13, <1>14 DEF IInv

-----------------------------------------------------------------------------
(* A sender recording its result.                                          *)

RecordStep(s) ==
    \/ MarkSent(s) \/ ClearFormat(s) \/ ClearReplyTo(s)
    \/ DeferMessage(s) \/ Fail(s) \/ MarkDead(s)

\* What any of the updates may do to the row r0, leaving r1: a row is only
\* marked sent by a sender that had it delivered, only marked dead by one whose
\* refusals reached MaxAttempts, and attempts counts refusals.
Update(s, r0, r1) ==
    /\ r1 \in Row
    /\ r0.sent => r1.sent
    /\ r0.dead => r1.dead
    /\ r1.sent => r0.sent \/ Delivered(s)
    /\ r1.dead => r0.dead \/ sender[s].pc = "markDead"
    /\ r1.attempts = r0.attempts \/ (sender[s].pc = "fail" /\ r1.attempts = Attempts(s))

LEMMA RecordStepUpdates ==
    ASSUME TypeOK, NEW s \in Senders, Id(s) \in Ids, RecordStep(s)
    PROVE  \E r \in Row : /\ Update(s, rows[Id(s)], r)
                          /\ rows' = [rows EXCEPT ![Id(s)] = r]
<1> DEFINE r0 == rows[Id(s)]
<1>1. r0 \in Row
  BY ElementTypes
<1>2. Attempts(s) \in Nat
  BY DEF Attempts, TypeOK
<1>3. CASE UNCHANGED rows
  <2>1. rows \in Seq(Row) /\ Id(s) \in 1 .. Len(rows)
    BY DEF TypeOK, Ids
  <2>2. rows' = [rows EXCEPT ![Id(s)] = r0]
    BY <1>3, <2>1
  <2>3. Update(s, r0, r0)
    BY <1>1 DEF Update
  <2> QED
    BY <1>1, <2>2, <2>3
<1>4. CASE MarkSent(s) /\ Write(s, [r0 EXCEPT !.sent = TRUE])
  BY <1>1, <1>4 DEF MarkSent, Write, Update, Row, At, Delivered
<1>5. CASE ClearFormat(s) /\ Write(s, [r0 EXCEPT !.html = FALSE])
  BY <1>1, <1>5 DEF Write, Update, Row
<1>6. CASE ClearReplyTo(s) /\ Write(s, [r0 EXCEPT !.reply = FALSE])
  BY <1>1, <1>6 DEF Write, Update, Row
<1>7. CASE DeferMessage(s) /\ Write(s, [r0 EXCEPT !.deferred = @ \/ Transport = "mx"])
  BY <1>1, <1>7 DEF Write, Update, Row
<1>8. CASE Fail(s) /\ Write(s, [r0 EXCEPT !.attempts = Attempts(s)])
  BY <1>1, <1>2, <1>8 DEF Fail, At, Write, Update, Row
<1>9. CASE MarkDead(s) /\ Write(s, [r0 EXCEPT !.dead = TRUE])
  BY <1>1, <1>9 DEF MarkDead, At, Write, Update, Row
<1> QED
  BY <1>3, <1>4, <1>5, <1>6, <1>7, <1>8, <1>9
  DEF RecordStep, MarkSent, ClearFormat, ClearReplyTo, DeferMessage, Fail,
      MarkDead, WriteFails

LEMMA RecordStepOK ==
    ASSUME IInv, NEW s \in Senders, RecordStep(s)
    PROVE  IInv'
<1> DEFINE i == Id(s)
<1> USE DEF SenderStep, daemonVars, platformVars
<1>1. Working(s)
  BY DEF RecordStep, MarkSent, ClearFormat, ClearReplyTo, DeferMessage, Fail,
         MarkDead, At, Working
<1>2. /\ i \in Ids
      /\ \A j \in Ids : j < i => Settled(j)
      /\ sender[s].msg.attempts <= rejects[i]
      /\ Delivered(s) => copies[i] > 0
      /\ sender[s].pc = "fail" => Attempts(s) <= rejects[i]
      /\ sender[s].pc = "markDead" => MaxAttempts <= rejects[i]
  BY <1>1 DEF IInv, SenderOK
<1>3. PICK r \in Row : Update(s, rows[i], r) /\ rows' = [rows EXCEPT ![i] = r]
  BY <1>2, RecordStepUpdates DEF IInv
<1>4. /\ rows' \in Seq(Row) /\ Len(rows') = Len(rows)
      /\ rows'[i] = r
      /\ \A j \in Ids : j # i => rows'[j] = rows[j]
  BY <1>2, <1>3, ExceptSeq DEF IInv, TypeOK, Ids
<1>5. /\ UNCHANGED <<copies, rejects, cancelled, enabled, phase, shutdowns>>
      /\ faults' \in Nat
  BY DEF RecordStep, MarkSent, ClearFormat, ClearReplyTo, DeferMessage, Fail,
         MarkDead, Write, WriteFails, Fault, NoFault, IInv, TypeOK
<1>6. \A j \in Ids : rows[j] \in Row /\ copies[j] \in Nat /\ rejects[j] \in Nat
  BY ElementTypes DEF IInv
<1>7. unrecorded' \in Seq(Nat) /\ Len(unrecorded') = Len(rows)
  <2>1. /\ unrecorded \in Seq(Nat) /\ Len(unrecorded) = Len(rows)
        /\ i \in 1 .. Len(unrecorded)
    BY <1>2 DEF IInv, TypeOK, Ids
  <2>2. CASE UNCHANGED unrecorded
    BY <2>1, <2>2
  <2>3. CASE unrecorded' = [unrecorded EXCEPT ![i] = @ + 1]
    BY <2>1, <2>3, CounterStep
  <2> QED
    BY <2>2, <2>3 DEF RecordStep, MarkSent, ClearFormat, ClearReplyTo,
       DeferMessage, Fail, MarkDead
<1>8. /\ alerted \subseteq Ids
      /\ alerted' = alerted \/ (sender[s].pc = "markDead" /\ alerted' = alerted \cup {i})
  BY DEF RecordStep, MarkSent, ClearFormat, ClearReplyTo, DeferMessage, Fail,
         MarkDead, At, IInv, TypeOK
<1>9. PICK pc \in {"loop", "sleeping", "markSent", "defer", "markDead"} :
        \/ Goto(s, pc) /\ pc \in {"markSent", "defer", "markDead"}
        \/ Return(s, pc) /\ pc \in {"loop", "sleeping"}
  BY DEF RecordStep, MarkSent, ClearFormat, ClearReplyTo, DeferMessage, Fail, MarkDead
<1>10. /\ sender'[s].pc = pc
       /\ \A t \in Senders \ {s} : sender'[t] = sender[t]
       /\ sender' \in [Senders -> Goroutine]
  <2>1. CASE Goto(s, pc)
    BY <2>1 DEF Goto, IInv, TypeOK
  <2>2. CASE Return(s, pc)
    BY <2>2 DEF Return, NoMsg, IInv, TypeOK
  <2> QED
    BY <1>9, <2>1, <2>2
<1>11. TypeOK'
  BY <1>2, <1>4, <1>5, <1>7, <1>8, <1>10 DEF IInv, TypeOK, Ids
<1>12. Grows
  BY <1>3, <1>4, <1>5, <1>6 DEF Grows, Ids, Update
<1>13. \A j \in Ids : Settled(j) => Settled(j)'
  BY <1>12 DEF Grows, Settled
<1>14. \A j \in Ids' : RowOK(j)'
  <2> SUFFICES ASSUME NEW j \in Ids PROVE RowOK(j)'
    BY <1>4 DEF Ids
  <2>1. RowOK(j)
    BY DEF IInv
  <2>2. copies[j] > 0 => \A k \in Ids' : k < j => Settled(k)'
    BY <1>4, <1>13, <2>1 DEF RowOK, Ids
  <2>3. CASE j = i
    BY <1>2, <1>3, <1>4, <1>5, <1>8, <2>1, <2>2, <2>3 DEF RowOK, Update
  <2>4. CASE j # i
    BY <1>4, <1>5, <1>8, <2>1, <2>2, <2>4 DEF RowOK
  <2> QED
    BY <2>3, <2>4
<1>15. SenderOK(s)'
  <2>1. CASE Return(s, pc) /\ pc \in {"loop", "sleeping"}
    BY <1>10, <2>1 DEF SenderOK, Working
  <2>2. CASE Goto(s, pc) /\ pc \in {"markSent", "defer", "markDead"}
    <3>1. sender'[s].msg = sender[s].msg
      BY <2>2 DEF Goto, IInv, TypeOK
    <3>2. pc = "markSent" => Delivered(s)
      BY <1>10, <2>2 DEF RecordStep, MarkSent, ClearFormat, ClearReplyTo,
         DeferMessage, Fail, MarkDead, Goto, Return, At, Delivered, IInv, TypeOK
    <3>3. pc = "markDead" => sender[s].pc = "fail" /\ Attempts(s) >= MaxAttempts
      BY <1>10, <2>2 DEF RecordStep, MarkSent, ClearFormat, ClearReplyTo,
         DeferMessage, Fail, MarkDead, Goto, Return, At, IInv, TypeOK
    <3>4. Attempts(s) \in Nat /\ rejects[i] \in Nat
      BY <1>2, <1>6 DEF Attempts, IInv, TypeOK
    <3>5. pc = "markDead" => MaxAttempts <= rejects[i]
      BY <1>2, <3>3, <3>4
    <3> QED
      BY <1>2, <1>4, <1>5, <1>10, <1>13, <2>2, <3>1, <3>2, <3>5
      DEF SenderOK, Working, Delivered, Id, Ids
  <2> QED
    BY <1>9, <2>1, <2>2
<1>16. \A t \in Senders \ {s} : SenderOK(t)'
  BY <1>10, <1>11, <1>12, OthersStayOK DEF IInv
<1> QED
  BY <1>11, <1>14, <1>15, <1>16 DEF IInv

-----------------------------------------------------------------------------
(* The producers, the clock and the process.                               *)

LEMMA EnqueueOK ==
    ASSUME IInv, Enqueue
    PROVE  IInv'
<1> DEFINE n == Len(rows)
<1> USE DEF daemonVars
<1>1. PICK k \in Kinds :
        rows' = Append(rows, [reply |-> k.reply, html |-> k.html, sent |-> FALSE,
                              dead |-> FALSE, deferred |-> FALSE, attempts |-> 0])
  BY DEF Enqueue
<1> DEFINE r == [reply |-> k.reply, html |-> k.html, sent |-> FALSE,
                 dead |-> FALSE, deferred |-> FALSE, attempts |-> 0]
<1>2. r \in Row
  BY DEF Row
<1>3. n \in Nat
  BY DEF IInv, TypeOK
<1>4. /\ rows' \in Seq(Row) /\ Len(rows') = n + 1
      /\ rows'[n + 1] = r
      /\ \A j \in Ids : rows'[j] = rows[j]
  BY <1>1, <1>2, AppendProperties DEF IInv, TypeOK, Ids
<1>5. /\ copies' \in Seq(Nat) /\ Len(copies') = n + 1
      /\ copies'[n + 1] = 0
      /\ \A j \in Ids : copies'[j] = copies[j]
  BY AppendProperties DEF Enqueue, IInv, TypeOK, Ids
<1>6. /\ rejects' \in Seq(Nat) /\ Len(rejects') = n + 1
      /\ rejects'[n + 1] = 0
      /\ \A j \in Ids : rejects'[j] = rejects[j]
  BY AppendProperties DEF Enqueue, IInv, TypeOK, Ids
<1>7. unrecorded' \in Seq(Nat) /\ Len(unrecorded') = n + 1
  BY AppendProperties DEF Enqueue, IInv, TypeOK
<1>8. UNCHANGED <<sender, alerted, cancelled, enabled, phase, faults, shutdowns>>
  BY DEF Enqueue
<1>9. \A j \in Ids' : j \in Ids \/ j = n + 1
  BY <1>3, <1>4 DEF Ids
<1>10. \A j \in Ids : j \in Ids' /\ j < n + 1
  BY <1>3, <1>4 DEF Ids
<1>11. TypeOK'
  BY <1>4, <1>5, <1>6, <1>7, <1>8, <1>10 DEF IInv, TypeOK
<1>12. Grows
  BY <1>4, <1>5, <1>6, <1>9, <1>10, ElementTypes DEF Grows, IInv
<1>13. \A j \in Ids' : RowOK(j)'
  <2> SUFFICES ASSUME NEW j \in Ids' PROVE RowOK(j)'
    OBVIOUS
  <2>1. CASE j \in Ids
    <3>1. \A m \in Ids' : m < j => m \in Ids
      BY <1>3, <2>1 DEF Ids
    <3> QED
      BY <1>4, <1>5, <1>6, <1>8, <2>1, <3>1 DEF IInv, RowOK, Settled
  <2>2. CASE j = n + 1
    <3>1. j \notin alerted
      BY <1>10, <2>2 DEF IInv, TypeOK
    <3> QED
      BY <1>4, <1>5, <1>6, <1>8, <2>2, <3>1 DEF RowOK
  <2> QED
    BY <1>9, <2>1, <2>2
<1>14. \A t \in Senders : SenderOK(t)'
  BY <1>8, <1>11, <1>12, OthersStayOK DEF IInv
<1> QED
  BY <1>11, <1>13, <1>14 DEF IInv

\* Time passes for a row: nothing else about it changes.
LEMMA DueOK ==
    ASSUME IInv, Due
    PROVE  IInv'
<1> USE DEF daemonVars, platformVars
<1>1. PICK i \in Ids : rows' = [rows EXCEPT ![i].deferred = FALSE]
  BY DEF Due
<1> DEFINE r == [rows[i] EXCEPT !.deferred = FALSE]
<1>2. \A j \in Ids : rows[j] \in Row /\ copies[j] \in Nat /\ rejects[j] \in Nat
  BY ElementTypes DEF IInv
<1>3. /\ r \in Row /\ r.sent = rows[i].sent /\ r.dead = rows[i].dead
      /\ r.attempts = rows[i].attempts
  BY <1>2 DEF Row
<1> HIDE DEF r
<1>4. /\ rows' \in Seq(Row) /\ Len(rows') = Len(rows)
      /\ \A j \in Ids : rows'[j] = IF j = i THEN r ELSE rows[j]
  <2>1. rows \in Seq(Row) /\ i \in 1 .. Len(rows)
    BY DEF IInv, TypeOK, Ids
  <2>2. rows' = [rows EXCEPT ![i] = r]
    BY <1>1 DEF r
  <2> QED
    BY <1>3, <2>1, <2>2, ExceptSeq DEF Ids
<1>5. UNCHANGED <<sender, copies, rejects, unrecorded, alerted, cancelled,
                  enabled, phase, faults, shutdowns>>
  BY DEF Due
<1>6. Ids' = Ids
  BY <1>4 DEF Ids
<1>7. TypeOK'
  BY <1>4, <1>5, <1>6 DEF IInv, TypeOK
<1>8. Grows
  BY <1>2, <1>3, <1>4, <1>5, <1>6 DEF Grows
<1>9. \A j \in Ids' : RowOK(j)'
  BY <1>3, <1>4, <1>5, <1>6 DEF IInv, RowOK, Settled
<1>10. \A t \in Senders : SenderOK(t)'
  BY <1>5, <1>7, <1>8, OthersStayOK DEF IInv
<1> QED
  BY <1>7, <1>9, <1>10 DEF IInv

ProcessStep ==
    \/ Toggle \/ StopOutbox \/ ExitFlush \/ Exit \/ Crash \/ Restart
    \/ \E s \in Senders : FlushTimeout(s) \/ (s \in Installers /\ InstallFlush(s))

\* The process starts and stops goroutines; the table is what it was.
LEMMA ProcessStepOK ==
    ASSUME IInv, ProcessStep
    PROVE  IInv'
<1> USE DEF daemonVars, platformVars
<1>1. UNCHANGED <<rows, copies, rejects, alerted>>
  BY DEF ProcessStep, Toggle, StopOutbox, ExitFlush, Exit, Crash, Restart, Stop,
         FlushTimeout, InstallFlush
<1>2. /\ cancelled' \subseteq Senders /\ enabled' \in BOOLEAN
      /\ phase' \in {"up", "stopping", "flushing", "down"}
      /\ faults' \in Nat /\ shutdowns' \in Nat
  <2>1. /\ cancelled \subseteq Senders /\ enabled \in BOOLEAN
        /\ phase \in {"up", "stopping", "flushing", "down"}
        /\ faults \in Nat /\ shutdowns \in Nat /\ "run" \in Senders
    BY DEF IInv, TypeOK, Senders
  <2>2. cancelled' \subseteq Senders
    BY <2>1 DEF ProcessStep, Toggle, StopOutbox, ExitFlush, Exit, Crash, Restart, Stop,
           FlushTimeout, InstallFlush
  <2>3. enabled' = enabled \/ enabled' = ~enabled \/ enabled' = FALSE
    BY DEF ProcessStep, Toggle, StopOutbox, ExitFlush, Exit, Crash, Restart, Stop,
           FlushTimeout, InstallFlush
  <2>4. enabled' \in BOOLEAN
    BY <2>1, <2>3, Zenon
  <2>5. phase' \in {"up", "stopping", "flushing", "down"}
    BY <2>1 DEF ProcessStep, Toggle, StopOutbox, ExitFlush, Exit, Crash, Restart, Stop,
           FlushTimeout, InstallFlush
  <2>6. (faults' = faults \/ faults' = faults + 1)
        /\ (shutdowns' = shutdowns \/ shutdowns' = shutdowns + 1)
    BY DEF ProcessStep, Toggle, StopOutbox, ExitFlush, Exit, Crash, Restart, Stop,
           FlushTimeout, InstallFlush, Fault, NoFault
  <2>7. faults' \in Nat /\ shutdowns' \in Nat
    BY <2>1, <2>6
  <2> QED
    BY <2>2, <2>4, <2>5, <2>7
<1>3. unrecorded' \in Seq(Nat) /\ Len(unrecorded') = Len(rows)
  <2>1. CASE UNCHANGED unrecorded
    BY <2>1 DEF IInv, TypeOK
  <2>2. CASE Stop
    <3>1. \A i \in Ids : unrecorded[i] \in Nat /\ Cardinality(Holders(i)) \in Nat
      BY CountersNat, CountTypes DEF IInv, TypeOK, Ids
    <3>2. unrecorded' \in [1 .. Len(rows) -> Nat]
      BY <2>2, <3>1, StopCounts DEF Ids
    <3>3. Len(rows) \in Nat
      BY DEF IInv, TypeOK
    <3> QED
      BY <3>2, <3>3
  <2> QED
    BY <2>1, <2>2 DEF ProcessStep, Toggle, StopOutbox, ExitFlush, Exit, Crash,
       Restart, FlushTimeout, InstallFlush
<1>4. \/ UNCHANGED sender
      \/ sender' = [t \in Senders |-> Off]
      \/ \E s \in Senders : Goto(s, "loop")
  BY DEF ProcessStep, Toggle, StopOutbox, ExitFlush, Exit, Crash, Restart, Stop,
         FlushTimeout, InstallFlush, Goto, Senders
<1>5. sender' \in [Senders -> Goroutine]
  <2>1. CASE UNCHANGED sender
    BY <2>1 DEF IInv, TypeOK
  <2>2. CASE sender' = [t \in Senders |-> Off]
    BY <2>2 DEF Off, NoMsg
  <2>3. ASSUME NEW s \in Senders, Goto(s, "loop")
        PROVE  sender' \in [Senders -> Goroutine]
    BY <2>3 DEF Goto, IInv, TypeOK
  <2> QED
    BY <1>4, <2>1, <2>2, <2>3
<1>6. TypeOK'
  BY <1>1, <1>2, <1>3, <1>5 DEF IInv, TypeOK, Ids
<1>7. Grows
  BY <1>1, ElementTypes DEF Grows, IInv, Ids
<1>8. \A i \in Ids' : RowOK(i)'
  BY <1>1 DEF IInv, RowOK, Ids, Settled
<1>9. ASSUME NEW t \in Senders PROVE SenderOK(t)'
  <2>1. CASE sender'[t] = sender[t]
    BY <1>6, <1>7, <2>1, OthersStayOK DEF IInv
  <2>2. CASE sender'[t].pc \in {"off", "loop"}
    BY <2>2 DEF SenderOK, Working
  <2>3. sender'[t] = sender[t] \/ sender'[t].pc \in {"off", "loop"}
    BY <1>4 DEF Goto, Off, IInv, TypeOK
  <2> QED
    BY <2>1, <2>2, <2>3
<1> QED
  BY <1>6, <1>8, <1>9 DEF IInv

-----------------------------------------------------------------------------
(* The invariant.                                                          *)

LEMMA InitIInv == Init => IInv
<1> SUFFICES ASSUME Init PROVE IInv
  OBVIOUS
<1>1. rows = <<>> /\ copies = <<>> /\ rejects = <<>> /\ unrecorded = <<>>
  BY DEF Init
<1>2. TypeOK
  <2>1. sender \in [Senders ->
          [pc : {"off", "loop"},
           msg : [id : Nat, reply : BOOLEAN, html : BOOLEAN, attempts : Nat]]]
    BY DEF Init, Off, NoMsg
  <2>2. sender \in [Senders -> Goroutine]
    BY <2>1
  <2>3. /\ rows \in Seq(Row) /\ Len(rows) = 0
        /\ copies \in Seq(Nat) /\ Len(copies) = 0
        /\ rejects \in Seq(Nat) /\ Len(rejects) = 0
        /\ unrecorded \in Seq(Nat) /\ Len(unrecorded) = 0
    BY <1>1
  <2>4. enabled \in BOOLEAN
    BY DEF Init
  <2>5. cancelled = {} /\ phase = "up" /\ alerted = {} /\ faults = 0 /\ shutdowns = 0
    BY DEF Init
  <2> QED
    BY <2>2, <2>3, <2>4, <2>5 DEF TypeOK
<1>3. \A s \in Senders : SenderOK(s)
  BY DEF Init, SenderOK, Working, Off
<1>4. \A i \in Ids : RowOK(i)
  BY <1>1 DEF Ids
<1> QED
  BY <1>2, <1>3, <1>4 DEF IInv

LEMMA NextIInv == IInv /\ [InstallNext]_vars => IInv'
<1> SUFFICES ASSUME IInv, [InstallNext]_vars PROVE IInv'
  OBVIOUS
<1>1. CASE Enqueue
  BY <1>1, EnqueueOK
<1>2. CASE Due
  BY <1>2, DueOK
<1>3. ASSUME NEW s \in Senders, Step(s) PROVE IInv'
  BY <1>3, LoopStepOK, TalkStepOK, RecordStepOK
  DEF Step, LoopStep, TalkStep, RecordStep
<1>4. CASE ProcessStep
  BY <1>4, ProcessStepOK
<1>5. CASE UNCHANGED vars
  BY <1>5 DEF vars, IInv, TypeOK, SenderOK, RowOK, Working, Delivered, Id, Ids,
     Settled, Attempts
<1> QED
  BY <1>1, <1>2, <1>3, <1>4, <1>5 DEF Next, InstallNext, ProcessStep, Senders

\* A daemon without install commands is a special case.
LEMMA SpecIsInstallSpec == Spec => InstallSpec
<1>1. [Next]_vars => [InstallNext]_vars
  BY DEF InstallNext
<1> QED
  BY <1>1, PTL DEF Spec, InstallSpec

-----------------------------------------------------------------------------
(* One sender at a time.                                                   *)

\* Without install commands Run and the flush at exit take turns.
Alone ==
    /\ \A s \in Senders : ~At(s, "off") => s = IF phase = "flushing" THEN "exit" ELSE "run"
    /\ phase = "down" => \A s \in Senders : At(s, "off")

\* A sender holds a row that nobody has settled, or none.
Holds(s) == IF Working(s) THEN ~Settled(Id(s)) ELSE sender[s].msg = NoMsg

\* Every acceptance of a row is lost, recorded, or known to the sender that holds the row.
Held(i) == \E s \in Senders : Delivered(s) /\ Id(s) = i
Accounted(i) ==
    /\ ~(rows[i].sent /\ rows[i].dead)
    /\ copies[i] = unrecorded[i] + (IF rows[i].sent \/ Held(i) THEN 1 ELSE 0)

SInv ==
    /\ IInv
    /\ Alone
    /\ \A s \in Senders : Holds(s)
    /\ \A i \in Ids : Accounted(i)

LEMMA CountsNat ==
    ASSUME TypeOK, NEW i \in Ids
    PROVE  copies[i] \in Nat /\ unrecorded[i] \in Nat
<1>1. /\ copies \in Seq(Nat) /\ unrecorded \in Seq(Nat)
      /\ i \in 1 .. Len(copies) /\ i \in 1 .. Len(unrecorded)
  BY DEF TypeOK, Ids
<1> QED
  BY <1>1, CountersNat

\* A step of the one sender at work is good when its own row stays accounted for.
LEMMA SoleSenderStep ==
    ASSUME SInv, IInv', NEW s \in Senders, ~At(s, "off"), UNCHANGED phase,
           \A t \in Senders \ {s} : sender'[t] = sender[t],
           Ids' = Ids, Holds(s)',
           \A i \in Ids :
              /\ ~(rows'[i].sent /\ rows'[i].dead)
              /\ copies'[i] = unrecorded'[i] +
                    (IF rows'[i].sent \/ (Delivered(s)' /\ Id(s)' = i) THEN 1 ELSE 0)
    PROVE  SInv'
<1>1. \A t \in Senders \ {s} : At(t, "off")
  BY DEF SInv, Alone
<1>2. Alone'
  BY <1>1 DEF SInv, Alone, At
<1>3. \A t \in Senders \ {s} : Holds(t)'
  BY <1>1 DEF SInv, Holds, Working, At
<1>4. ASSUME NEW i \in Ids' PROVE Accounted(i)'
  <2>1. Delivered(s)' /\ Id(s)' = i <=> Held(i)'
    BY <1>1 DEF Held, Delivered, At
  <2>2. copies'[i] \in Nat /\ unrecorded'[i] \in Nat
    <3>1. /\ copies' \in Seq(Nat) /\ unrecorded' \in Seq(Nat)
          /\ i \in 1 .. Len(copies') /\ i \in 1 .. Len(unrecorded')
      BY DEF IInv, TypeOK, Ids
    <3> QED
      BY <3>1, CountersNat
  <2> QED
    BY <2>1, <2>2 DEF Accounted
<1> QED
  BY <1>2, <1>3, <1>4 DEF SInv

\* What holds of the row of the one sender at work, and of the others.
LEMMA SoleSenderKnows ==
    ASSUME SInv, NEW s \in Senders, ~At(s, "off"), NEW i \in Ids
    PROVE  /\ copies[i] \in Nat /\ unrecorded[i] \in Nat
           /\ ~(rows[i].sent /\ rows[i].dead)
           /\ copies[i] = unrecorded[i] +
                 (IF rows[i].sent \/ (Delivered(s) /\ Id(s) = i) THEN 1 ELSE 0)
<1>1. \A t \in Senders \ {s} : At(t, "off")
  BY DEF SInv, Alone
<1>2. Held(i) <=> Delivered(s) /\ Id(s) = i
  BY <1>1 DEF Held, Delivered, At
<1> QED
  BY <1>2, CountsNat DEF SInv, IInv, Accounted

LEMMA LoopStepAlone ==
    ASSUME SInv, IInv', NEW s \in Senders, LoopStep(s)
    PROVE  SInv'
<1> USE DEF SenderStep, platformVars
<1>1. /\ UNCHANGED <<rows, copies, unrecorded, phase>>
      /\ At(s, "loop") \/ At(s, "sleeping")
  BY DEF LoopStep, Pick, PickFails, Idle, Wake
<1>2. ~At(s, "off") /\ ~Delivered(s)
  BY <1>1 DEF At, Delivered
<1>3. \A t \in Senders \ {s} : sender'[t] = sender[t]
  BY DEF LoopStep, Pick, PickFails, Idle, Wake, Return, SInv, IInv, TypeOK
<1>4. Holds(s)' /\ ~Delivered(s)'
  <2>1. CASE Pick(s)
    <3>1. PICK i \in Ids :
            /\ IsNext(i)
            /\ sender' = [sender EXCEPT ![s] =
                  [pc |-> IF s \in cancelled THEN "defer" ELSE "sending",
                   msg |-> [id |-> i, reply |-> rows[i].reply, html |-> rows[i].html,
                            attempts |-> rows[i].attempts]]]
      BY <2>1 DEF Pick
    <3>2. ~Settled(i)
      BY <3>1 DEF IsNext, IsHead, Pending
    <3> QED
      BY <1>1, <3>1, <3>2 DEF Holds, Working, Delivered, Id, Settled, SInv, IInv, TypeOK
  <2>2. CASE PickFails(s) \/ Idle(s) \/ Wake(s)
    <3>1. PICK pc \in {"off", "loop", "sleeping"} : Return(s, pc)
      BY <2>2 DEF PickFails, Idle, Wake
    <3> QED
      BY <3>1 DEF Return, Holds, Working, Delivered, SInv, IInv, TypeOK
  <2> QED
    BY <2>1, <2>2 DEF LoopStep
<1>5. Ids' = Ids
  BY <1>1 DEF Ids
<1> QED
  BY <1>1, <1>2, <1>3, <1>4, <1>5, SoleSenderKnows, SoleSenderStep

LEMMA TalkStepAlone ==
    ASSUME SInv, IInv', NEW s \in Senders, TalkStep(s)
    PROVE  SInv'
<1> USE DEF SenderStep, platformVars
<1>1. Working(s) /\ ~At(s, "off")
  BY DEF TalkStep, Accept, Answer, LoseAnswer, Transient, ReplyGone, RejectHTML,
         Reject, At, Working
<1>2. Id(s) \in Ids /\ ~Settled(Id(s))
  BY <1>1 DEF SInv, IInv, SenderOK, Holds
<1>3. UNCHANGED <<rows, phase>> /\ Ids' = Ids
  BY DEF TalkStep, Accept, Answer, LoseAnswer, Transient, ReplyGone, RejectHTML, Reject, Ids
<1>4. PICK pc \in {"accepted", "plain", "plainAccepted", "clearFormat",
                   "markSent", "clearReply", "defer", "fail"} : Goto(s, pc)
  BY DEF TalkStep, Accept, Answer, LoseAnswer, Transient, ReplyGone, RejectHTML, Reject
<1>5. /\ sender'[s].pc = pc /\ Id(s)' = Id(s)
      /\ \A t \in Senders \ {s} : sender'[t] = sender[t]
  BY <1>4 DEF Goto, Id, SInv, IInv, TypeOK
<1>6. Holds(s)'
  BY <1>2, <1>3, <1>5 DEF Holds, Working, Settled
<1>7. ASSUME NEW i \in Ids
      PROVE  /\ ~(rows'[i].sent /\ rows'[i].dead)
             /\ copies'[i] = unrecorded'[i] +
                   (IF rows'[i].sent \/ (Delivered(s)' /\ Id(s)' = i) THEN 1 ELSE 0)
  <2>1. /\ copies[i] \in Nat /\ unrecorded[i] \in Nat
        /\ ~(rows[i].sent /\ rows[i].dead)
        /\ copies[i] = unrecorded[i] +
              (IF rows[i].sent \/ (Delivered(s) /\ Id(s) = i) THEN 1 ELSE 0)
    BY <1>1, SoleSenderKnows
  <2>2. ~rows[Id(s)].sent
    BY <1>2 DEF Settled
  <2>3. CASE Accept(s)
    <3>1. /\ ~Delivered(s) /\ Delivered(s)' /\ UNCHANGED unrecorded
          /\ copies'[i] = IF i = Id(s) THEN copies[i] + 1 ELSE copies[i]
      <4>1. ~Delivered(s) /\ Delivered(s)' /\ UNCHANGED unrecorded
        <5>1. (At(s, "sending") \/ At(s, "plain")) /\ UNCHANGED unrecorded
          BY <2>3 DEF Accept
        <5>2. pc \in {"accepted", "plainAccepted"}
          BY <1>5, <2>3 DEF Accept, Goto, SInv, IInv, TypeOK
        <5> QED
          BY <1>5, <5>1, <5>2 DEF At, Delivered
      <4>2. copies \in Seq(Nat) /\ Id(s) \in 1 .. Len(copies) /\ i \in 1 .. Len(copies)
        BY <1>2 DEF SInv, IInv, TypeOK, Ids
      <4> QED
        BY <2>3, <4>1, <4>2, CounterStep DEF Accept
    <3> QED
      BY <1>3, <1>5, <2>1, <2>2, <3>1
  <2>4. CASE LoseAnswer(s)
    <3>1. /\ Delivered(s) /\ ~Delivered(s)' /\ UNCHANGED copies
          /\ unrecorded'[i] = IF i = Id(s) THEN unrecorded[i] + 1 ELSE unrecorded[i]
      <4>1. Delivered(s) /\ ~Delivered(s)' /\ UNCHANGED copies
        BY <2>4 DEF LoseAnswer, At, Goto, Delivered, SInv, IInv, TypeOK
      <4>2. /\ unrecorded \in Seq(Nat) /\ Id(s) \in 1 .. Len(unrecorded)
            /\ i \in 1 .. Len(unrecorded)
        BY <1>2 DEF SInv, IInv, TypeOK, Ids
      <4> QED
        BY <2>4, <4>1, <4>2, CounterStep DEF LoseAnswer
    <3> QED
      BY <1>3, <2>1, <2>2, <3>1
  <2>5. CASE Answer(s) \/ Transient(s) \/ ReplyGone(s) \/ RejectHTML(s) \/ Reject(s)
    <3>1. /\ Delivered(s)' = Delivered(s)
          /\ UNCHANGED <<copies, unrecorded>>
      BY <2>5 DEF Answer, Transient, ReplyGone, RejectHTML, Reject, At, Goto, Delivered,
         SInv, IInv, TypeOK
    <3> QED
      BY <1>3, <1>5, <2>1, <3>1
  <2> QED
    BY <2>3, <2>4, <2>5 DEF TalkStep
<1> QED
  BY <1>1, <1>3, <1>5, <1>6, <1>7, SoleSenderStep

LEMMA RecordStepAlone ==
    ASSUME SInv, IInv', NEW s \in Senders, RecordStep(s)
    PROVE  SInv'
<1> USE DEF SenderStep, platformVars
<1>1. Working(s) /\ ~At(s, "off")
  BY DEF RecordStep, MarkSent, ClearFormat, ClearReplyTo, DeferMessage, Fail,
         MarkDead, At, Working
<1>2. Id(s) \in Ids /\ ~Settled(Id(s))
  BY <1>1 DEF SInv, IInv, SenderOK, Holds
<1>3. UNCHANGED <<copies, phase>>
  BY DEF RecordStep, MarkSent, ClearFormat, ClearReplyTo, DeferMessage, Fail, MarkDead
<1>4. PICK r \in Row : Update(s, rows[Id(s)], r) /\ rows' = [rows EXCEPT ![Id(s)] = r]
  BY <1>2, RecordStepUpdates DEF SInv, IInv
<1>5. /\ Ids' = Ids /\ rows'[Id(s)] = r
      /\ \A i \in Ids : i # Id(s) => rows'[i] = rows[i]
  BY <1>2, <1>4, ExceptSeq DEF SInv, IInv, TypeOK, Ids
<1>6. PICK pc \in {"loop", "sleeping", "markSent", "defer", "markDead"} :
        \/ Goto(s, pc) /\ pc \in {"markSent", "defer", "markDead"}
        \/ Return(s, pc) /\ pc \in {"loop", "sleeping"}
  BY DEF RecordStep, MarkSent, ClearFormat, ClearReplyTo, DeferMessage, Fail, MarkDead
<1>7. /\ sender'[s].pc = pc
      /\ pc \in {"loop", "sleeping"} => sender'[s].msg = NoMsg
      /\ pc \notin {"loop", "sleeping"} => Id(s)' = Id(s)
      /\ \A t \in Senders \ {s} : sender'[t] = sender[t]
  <2>1. sender \in [Senders -> Goroutine]
    BY DEF SInv, IInv, TypeOK
  <2>2. CASE Goto(s, pc) /\ pc \in {"markSent", "defer", "markDead"}
    BY <2>1, <2>2 DEF Goto, Id
  <2>3. CASE Return(s, pc) /\ pc \in {"loop", "sleeping"}
    BY <2>1, <2>3 DEF Return
  <2> QED
    BY <1>6, <2>2, <2>3
<1>8. /\ sender[s].pc = "markSent" => pc \in {"loop", "sleeping"}
      /\ pc = "markSent" => sender[s].pc = "clearFormat"
      /\ sender[s].pc = "clearFormat" => pc = "markSent"
      /\ sender[s].pc = "markDead" => pc = "loop"
  BY <1>7 DEF RecordStep, MarkSent, ClearFormat, ClearReplyTo, DeferMessage, Fail,
     MarkDead, At, Goto, Return, SInv, IInv, TypeOK
<1>9. /\ r.sent => sender[s].pc = "markSent"
      /\ r.dead => sender[s].pc = "markDead"
  <2>1. rows[Id(s)] \in Row /\ ~rows[Id(s)].sent /\ ~rows[Id(s)].dead
    BY <1>2, ElementTypes DEF SInv, IInv, Settled
  <2>2. r.dead => sender[s].pc = "markDead"
    BY <1>4, <2>1 DEF Update
  <2>3. sender[s].pc # "markSent" => rows'[Id(s)].sent = rows[Id(s)].sent
    <3> DEFINE r0 == rows[Id(s)]
    <3>1. rows \in Seq(Row) /\ Id(s) \in 1 .. Len(rows) /\ Attempts(s) \in Nat
      <4>1. rows \in Seq(Row) /\ sender[s] \in Goroutine
        BY DEF SInv, IInv, TypeOK
      <4>2. Id(s) \in 1 .. Len(rows)
        BY <1>2 DEF Ids
      <4>3. sender[s].msg.attempts \in Nat
        BY <4>1
      <4> QED
        BY <4>1, <4>2, <4>3 DEF Attempts
    <3>2. ASSUME NEW r1 \in Row, r1.sent = r0.sent, Write(s, r1)
          PROVE  rows'[Id(s)].sent = r0.sent
      BY <3>1, <3>2, ExceptSeq DEF Write
    <3>3. /\ [r0 EXCEPT !.html = FALSE] \in Row /\ [r0 EXCEPT !.reply = FALSE] \in Row
          /\ [r0 EXCEPT !.deferred = @ \/ Transport = "mx"] \in Row
          /\ [r0 EXCEPT !.attempts = Attempts(s)] \in Row /\ [r0 EXCEPT !.dead = TRUE] \in Row
      BY <2>1, <3>1 DEF Row
    <3>4. /\ [r0 EXCEPT !.html = FALSE].sent = r0.sent
          /\ [r0 EXCEPT !.reply = FALSE].sent = r0.sent
          /\ [r0 EXCEPT !.deferred = @ \/ Transport = "mx"].sent = r0.sent
          /\ [r0 EXCEPT !.attempts = Attempts(s)].sent = r0.sent
          /\ [r0 EXCEPT !.dead = TRUE].sent = r0.sent
      BY <2>1 DEF Row
    <3>5. ASSUME sender[s].pc # "markSent" PROVE ~MarkSent(s)
      BY <3>5 DEF MarkSent, At
    <3>6. ~MarkSent(s) => rows' = rows \/ rows'[Id(s)].sent = r0.sent
      BY <3>2, <3>3, <3>4 DEF RecordStep, ClearFormat, ClearReplyTo, DeferMessage, Fail,
         MarkDead, WriteFails
    <3> QED
      BY <3>5, <3>6
  <2> QED
    BY <1>5, <2>1, <2>2, <2>3
<1>10. Holds(s)'
  BY <1>5, <1>7, <1>8, <1>9 DEF Holds, Working, Settled
<1>11. ASSUME NEW i \in Ids
       PROVE  /\ ~(rows'[i].sent /\ rows'[i].dead)
              /\ copies'[i] = unrecorded'[i] +
                    (IF rows'[i].sent \/ (Delivered(s)' /\ Id(s)' = i) THEN 1 ELSE 0)
  <2>1. /\ copies[i] \in Nat /\ unrecorded[i] \in Nat
        /\ ~(rows[i].sent /\ rows[i].dead)
        /\ copies[i] = unrecorded[i] +
              (IF rows[i].sent \/ (Delivered(s) /\ Id(s) = i) THEN 1 ELSE 0)
    BY <1>1, SoleSenderKnows
  <2>2. \/ UNCHANGED unrecorded /\ (sender[s].pc = "markSent" => r.sent)
        \/ /\ unrecorded' = [unrecorded EXCEPT ![Id(s)] = @ + 1]
           /\ sender[s].pc = "markSent" /\ ~r.sent
    <3>1. CASE MarkSent(s) /\ Write(s, [rows[Id(s)] EXCEPT !.sent = TRUE]) /\ UNCHANGED unrecorded
      <4>1. rows[Id(s)] \in Row
        BY <1>2, ElementTypes DEF SInv, IInv
      <4>2. rows \in Seq(Row) /\ Id(s) \in 1 .. Len(rows)
        BY <1>2 DEF SInv, IInv, TypeOK, Ids
      <4> QED
        BY <1>5, <3>1, <4>1, <4>2, ExceptSeq DEF Write, Row
    <3>2. CASE ~MarkSent(s)
      BY <3>2 DEF RecordStep, MarkSent, ClearFormat, ClearReplyTo, DeferMessage, Fail,
         MarkDead, At
    <3>3. CASE MarkSent(s) /\ UNCHANGED rows /\ unrecorded' = [unrecorded EXCEPT ![Id(s)] = @ + 1]
      BY <1>2, <1>5, <3>3 DEF MarkSent, At, Settled
    <3> QED
      BY <3>1, <3>2, <3>3 DEF MarkSent, WriteFails
  <2>3. /\ unrecorded'[i] \in Nat
        /\ UNCHANGED unrecorded \/ i # Id(s) => unrecorded'[i] = unrecorded[i]
        /\ unrecorded' = [unrecorded EXCEPT ![Id(s)] = @ + 1] /\ i = Id(s) =>
               unrecorded'[i] = unrecorded[i] + 1
    <3>1. /\ unrecorded \in Seq(Nat) /\ Id(s) \in 1 .. Len(unrecorded)
          /\ i \in 1 .. Len(unrecorded)
      BY <1>2 DEF SInv, IInv, TypeOK, Ids
    <3> QED
      BY <2>1, <2>2, <3>1, CounterStep
  <2>4. CASE i # Id(s)
    <3>1. ~(Delivered(s)' /\ Id(s)' = i)
      BY <1>7, <2>4 DEF Delivered
    <3> QED
      BY <1>3, <1>5, <2>1, <2>3, <2>4, <3>1
  <2>5. CASE i = Id(s)
    <3>1. ~rows[i].sent
      BY <1>2, <2>5 DEF Settled
    <3>2. sender[s].pc = "clearFormat" => Delivered(s)' /\ Id(s)' = i
      BY <1>7, <1>8, <2>5 DEF Delivered
    <3>3. sender[s].pc # "markSent" /\ sender[s].pc # "clearFormat" => ~Delivered(s)
      BY <1>6, <1>8 DEF Delivered, RecordStep, MarkSent, ClearFormat, ClearReplyTo,
         DeferMessage, Fail, MarkDead, At
    <3>4. sender[s].pc = "markSent" /\ ~r.sent => unrecorded'[i] = unrecorded[i] + 1
      BY <2>1, <2>2, <2>3, <2>5
    <3>5. copies'[i] = copies[i] /\ rows'[i] = r /\ ~(r.sent /\ r.dead)
      BY <1>3, <1>5, <1>9, <2>5
    <3>6. CASE sender[s].pc = "markSent"
      <4>1. Delivered(s) /\ ~Delivered(s)'
        BY <1>7, <1>8, <3>6 DEF Delivered
      <4>2. r.sent => UNCHANGED unrecorded
        BY <2>2
      <4> QED
        BY <2>1, <2>3, <2>5, <3>1, <3>4, <3>5, <3>6, <4>1, <4>2
    <3>7. CASE sender[s].pc = "clearFormat"
      <4>1. Delivered(s) /\ ~r.sent /\ UNCHANGED unrecorded
        BY <1>9, <2>2, <3>7 DEF Delivered
      <4>2. copies[i] = unrecorded[i] + 1 /\ unrecorded'[i] = unrecorded[i]
        BY <2>1, <2>3, <2>5, <4>1
      <4>3. Delivered(s)' /\ Id(s)' = i
        BY <3>2, <3>7
      <4>4. copies'[i] = unrecorded'[i] + 1
        BY <3>5, <4>2
      <4>5. ~rows'[i].sent
        BY <3>5, <4>1
      <4> QED
        BY <4>3, <4>4, <4>5
    <3>8. CASE sender[s].pc # "markSent" /\ sender[s].pc # "clearFormat"
      <4>1. ~Delivered(s)' /\ ~r.sent /\ UNCHANGED unrecorded
        BY <1>7, <1>8, <1>9, <2>2, <3>8 DEF Delivered
      <4> QED
        BY <2>1, <2>3, <2>5, <3>1, <3>3, <3>5, <3>8, <4>1
    <3> QED
      BY <3>6, <3>7, <3>8
  <2> QED
    BY <2>4, <2>5
<1>12. sender'[s].pc # "off"
  BY <1>7
<1> QED
  BY <1>1, <1>3, <1>5, <1>7, <1>10, <1>11, SoleSenderStep

\* The producers, the clock and the process: the daemon starts one sender when it has stopped
\* the other.
LEMMA EnqueueAlone ==
    ASSUME SInv, IInv', Enqueue
    PROVE  SInv'
<1>1. PICK k \in Kinds :
        rows' = Append(rows, [reply |-> k.reply, html |-> k.html, sent |-> FALSE,
                              dead |-> FALSE, deferred |-> FALSE, attempts |-> 0])
  BY DEF Enqueue
<1> DEFINE n == Len(rows)
           r == [reply |-> k.reply, html |-> k.html, sent |-> FALSE,
                 dead |-> FALSE, deferred |-> FALSE, attempts |-> 0]
<1>2. r \in Row /\ n \in Nat
  BY DEF Row, SInv, IInv, TypeOK
<1>3. /\ Len(rows') = n + 1 /\ rows'[n + 1] = r
      /\ \A j \in Ids : rows'[j] = rows[j]
  BY <1>1, <1>2, AppendProperties DEF SInv, IInv, TypeOK, Ids
<1>4. /\ copies'[n + 1] = 0 /\ \A j \in Ids : copies'[j] = copies[j]
      /\ unrecorded'[n + 1] = 0 /\ \A j \in Ids : unrecorded'[j] = unrecorded[j]
  BY AppendProperties DEF Enqueue, SInv, IInv, TypeOK, Ids
<1>5. UNCHANGED <<sender, phase>>
  BY DEF Enqueue, daemonVars
<1>6. \A j \in Ids' : j \in Ids \/ j = n + 1
  BY <1>2, <1>3 DEF Ids
<1>7. Alone'
  BY <1>5 DEF SInv, Alone, At
<1>8. ASSUME NEW s \in Senders PROVE Holds(s)'
  <2>1. Working(s) => Id(s) \in Ids
    BY DEF SInv, IInv, SenderOK
  <2> QED
    BY <1>3, <1>5, <2>1 DEF SInv, Holds, Working, Id, Settled
<1>9. ASSUME NEW i \in Ids' PROVE Accounted(i)'
  <2>1. CASE i \in Ids
    BY <1>3, <1>4, <1>5, <2>1 DEF SInv, Accounted, Held, Delivered, Id
  <2>2. CASE i = n + 1
    <3>1. \A s \in Senders : Delivered(s) => Id(s) \in Ids
      BY DEF SInv, IInv, SenderOK, Delivered, Working
    <3>2. ~Held(i)'
      BY <1>2, <1>5, <2>2, <3>1 DEF Held, Delivered, Id, Ids
    <3> QED
      BY <1>3, <1>4, <2>2, <3>2 DEF Accounted
  <2> QED
    BY <1>6, <2>1, <2>2
<1> QED
  BY <1>7, <1>8, <1>9 DEF SInv

LEMMA DueAlone ==
    ASSUME SInv, IInv', Due
    PROVE  SInv'
<1>1. PICK i \in Ids : rows' = [rows EXCEPT ![i].deferred = FALSE]
  BY DEF Due
<1> DEFINE r == [rows[i] EXCEPT !.deferred = FALSE]
<1>2. rows[i] \in Row
  BY ElementTypes DEF SInv, IInv
<1>3. r \in Row /\ r.sent = rows[i].sent /\ r.dead = rows[i].dead
  BY <1>2 DEF Row
<1> HIDE DEF r
<1>4. /\ Len(rows') = Len(rows)
      /\ \A j \in Ids : rows'[j].sent = rows[j].sent /\ rows'[j].dead = rows[j].dead
  <2>1. rows \in Seq(Row) /\ i \in 1 .. Len(rows)
    BY DEF SInv, IInv, TypeOK, Ids
  <2>2. rows' = [rows EXCEPT ![i] = r]
    BY <1>1 DEF r
  <2>3. Len(rows') = Len(rows) /\ \A j \in Ids : rows'[j] = IF j = i THEN r ELSE rows[j]
    BY <1>3, <2>1, <2>2, ExceptSeq DEF Ids
  <2> QED
    BY <1>3, <2>3
<1>5. UNCHANGED <<sender, copies, unrecorded, phase>>
  BY DEF Due, daemonVars, platformVars
<1>6. Ids' = Ids
  BY <1>4 DEF Ids
<1>7. Alone'
  BY <1>5 DEF SInv, Alone, At
<1>8. \A s \in Senders : Holds(s)'
  BY <1>4, <1>5 DEF SInv, IInv, SenderOK, Holds, Working, Id, Settled
<1>9. \A j \in Ids' : Accounted(j)'
  BY <1>4, <1>5, <1>6 DEF SInv, Accounted, Held, Delivered, Id
<1> QED
  BY <1>7, <1>8, <1>9 DEF SInv

\* A row that the one sender at work holds is held once.
LEMMA HeldOnce ==
    ASSUME Alone, NEW i
    PROVE  Cardinality(Holders(i)) = IF Held(i) THEN 1 ELSE 0
<1>1. CASE Held(i)
  <2>1. PICK s \in Senders : Delivered(s) /\ Id(s) = i
    BY <1>1 DEF Held
  <2>2. \A t \in Senders : Delivered(t) => ~At(t, "off")
    BY DEF Delivered, At
  <2>3. Holders(i) = {s}
    BY <2>1, <2>2 DEF Alone, Holders
  <2> QED
    BY <1>1, <2>3, FS_Singleton
<1>2. CASE ~Held(i)
  <2>1. Holders(i) = {}
    BY <1>2 DEF Held, Holders
  <2> QED
    BY <1>2, <2>1, FS_EmptySet
<1> QED
  BY <1>1, <1>2

\* What the process has lost at its end is counted in unrecorded.
LEMMA StopAlone ==
    ASSUME SInv, IInv', Stop
    PROVE  SInv'
<1>1. /\ phase' = "down" /\ UNCHANGED <<rows, copies>>
      /\ \A s \in Senders : sender'[s] = Off
  BY DEF Stop
<1>2. Alone' /\ \A s \in Senders : Holds(s)'
  BY <1>1 DEF Alone, Holds, Working, At, Off
<1>3. ASSUME NEW i \in Ids' PROVE Accounted(i)'
  <2>1. i \in Ids /\ Accounted(i)
    BY <1>1 DEF SInv, Ids
  <2>2. copies[i] \in Nat /\ unrecorded[i] \in Nat
    BY <2>1, CountsNat DEF SInv, IInv
  <2>3. unrecorded'[i] = unrecorded[i] + (IF Held(i) THEN 1 ELSE 0)
    BY <2>1, StopCounts, HeldOnce DEF SInv
  <2>4. Held(i) => ~rows[i].sent
    BY DEF SInv, Held, Holds, Delivered, Working, Settled
  <2>5. ~Held(i)'
    BY <1>1 DEF Held, Delivered, Off
  <2> QED
    BY <1>1, <2>1, <2>2, <2>3, <2>4, <2>5 DEF Accounted
<1> QED
  BY <1>2, <1>3 DEF SInv

Turn == Toggle \/ StopOutbox \/ ExitFlush \/ Restart \/ \E s \in Senders : FlushTimeout(s)

LEMMA TurnAlone ==
    ASSUME SInv, IInv', Turn
    PROVE  SInv'
<1> USE DEF platformVars
<1>1. UNCHANGED <<rows, copies, unrecorded>>
  BY DEF Turn, Toggle, StopOutbox, ExitFlush, Restart, FlushTimeout
<1>2. sender \in [Senders -> Goroutine] /\ "run" \in Senders /\ "exit" \in Senders
  BY DEF SInv, IInv, TypeOK, Senders
<1>3. CASE Toggle \/ StopOutbox \/ \E s \in Senders : FlushTimeout(s)
  <2>1. /\ UNCHANGED sender /\ (phase = "flushing") = (phase' = "flushing")
        /\ (phase = "down") = (phase' = "down")
    BY <1>3 DEF Toggle, StopOutbox, FlushTimeout
  <2>2. Alone'
    BY <2>1 DEF SInv, Alone, At
  <2> QED
    BY <1>1, <2>1, <2>2 DEF SInv, Holds, Working, Id, Settled, Accounted, Held, Delivered, Ids
<1>4. CASE ExitFlush \/ Restart
  <2>1. \A s \in Senders : At(s, "off")
    BY <1>4 DEF ExitFlush, Restart, SInv, Alone
  <2>2. PICK first \in {"run", "exit"} :
          /\ sender' = [sender EXCEPT ![first].pc = "loop"]
          /\ first = IF phase' = "flushing" THEN "exit" ELSE "run"
          /\ phase' # "down"
    BY <1>4 DEF ExitFlush, Restart, Goto
  <2>3. /\ \A s \in Senders : sender'[s].msg = sender[s].msg
        /\ sender'[first].pc = "loop"
        /\ \A s \in Senders \ {first} : sender'[s].pc = "off"
    BY <1>2, <2>1, <2>2 DEF At
  <2>4. Alone'
    BY <2>2, <2>3 DEF Alone, At
  <2>5. /\ \A s \in Senders : Holds(s)'
        /\ \A s \in Senders : ~Delivered(s) /\ ~Delivered(s)'
    BY <2>1, <2>3 DEF SInv, Holds, Working, Delivered, At
  <2>6. \A i \in Ids' : Accounted(i)'
    BY <1>1, <2>5 DEF SInv, Accounted, Held, Ids
  <2> QED
    BY <2>4, <2>5, <2>6 DEF SInv
<1> QED
  BY <1>3, <1>4 DEF Turn

LEMMA InitSInv == Init => SInv
<1> SUFFICES ASSUME Init PROVE SInv
  OBVIOUS
<1>1. /\ rows = <<>> /\ phase = "up"
      /\ sender = [s \in Senders |-> IF s = "run" THEN [Off EXCEPT !.pc = "loop"] ELSE Off]
  BY DEF Init
<1>2. Alone /\ \A s \in Senders : Holds(s)
  BY <1>1 DEF Alone, At, Holds, Working, Off
<1>3. \A i \in Ids : Accounted(i)
  BY <1>1 DEF Ids
<1> QED
  BY <1>2, <1>3, InitIInv DEF SInv

LEMMA NextSInv == SInv /\ [Next]_vars => SInv'
<1> SUFFICES ASSUME SInv, [Next]_vars PROVE SInv'
  OBVIOUS
<1>1. IInv'
  BY NextIInv DEF SInv, InstallNext
<1>2. CASE Enqueue
  BY <1>1, <1>2, EnqueueAlone
<1>3. CASE Due
  BY <1>1, <1>3, DueAlone
<1>4. ASSUME NEW s \in Senders, Step(s) PROVE SInv'
  BY <1>1, <1>4, LoopStepAlone, TalkStepAlone, RecordStepAlone
  DEF Step, LoopStep, TalkStep, RecordStep
<1>5. CASE Exit \/ Crash
  BY <1>1, <1>5, StopAlone DEF Exit, Crash
<1>6. CASE Turn
  BY <1>1, <1>6, TurnAlone
<1>7. CASE UNCHANGED vars
  BY <1>1, <1>7 DEF vars, SInv, Alone, At, Holds, Working, Id, Settled, Accounted, Held,
     Delivered, Ids
<1> QED
  BY <1>2, <1>3, <1>4, <1>5, <1>6, <1>7 DEF Next, Turn

-----------------------------------------------------------------------------
(* Any number of senders at once: each may deliver a message once more     *)
(* than what is lost, and no more.                                         *)

\* Acceptances of a pending row are lost or known to their senders; once the row is settled only
\* the senders that already work on it can add to them.
Bounded(i) ==
    IF Settled(i) THEN copies[i] + Cardinality(Waiting(i)) <= unrecorded[i] + Cardinality(Senders)
    ELSE copies[i] = unrecorded[i] + Cardinality(Holders(i))

BInv ==
    /\ IInv
    /\ phase = "down" => \A s \in Senders : At(s, "off")
    /\ phase # "flushing" => At("exit", "off")
    /\ \A i \in Ids : Bounded(i)

\* The members a set of senders gains or loses in a step of one of them.
LEMMA OneMember ==
    ASSUME NEW s, NEW A, NEW B, IsFiniteSet(A), IsFiniteSet(B), A \ {s} = B \ {s}
    PROVE  /\ s \in A /\ s \in B => A = B
           /\ s \notin A /\ s \notin B => A = B
           /\ s \in A /\ s \notin B => Cardinality(B) = Cardinality(A) - 1
           /\ s \notin A /\ s \in B => Cardinality(B) = Cardinality(A) + 1
<1>1. s \in A /\ s \notin B => B = A \ {s}
  OBVIOUS
<1>2. s \notin A /\ s \in B => B = A \cup {s}
  OBVIOUS
<1>3. /\ s \in A => Cardinality(A \ {s}) = Cardinality(A) - 1
      /\ s \notin A => Cardinality(A \cup {s}) = Cardinality(A) + 1
  BY FS_AddElement, FS_RemoveElement
<1> QED
  BY <1>1, <1>2, <1>3

\* A step of one sender moves only that sender between the sets.
LEMMA SetsOfOthers ==
    ASSUME NEW s \in Senders, \A t \in Senders \ {s} : sender'[t] = sender[t], NEW i
    PROVE  /\ Holders(i) \ {s} = Holders(i)' \ {s}
           /\ Waiting(i) \ {s} = Waiting(i)' \ {s}
           /\ s \in Holders(i) <=> Delivered(s) /\ Id(s) = i
           /\ s \in Waiting(i) <=> Working(s) /\ ~Delivered(s) /\ Id(s) = i
           /\ s \in Holders(i)' <=> Delivered(s)' /\ Id(s)' = i
           /\ s \in Waiting(i)' <=> Working(s)' /\ ~Delivered(s)' /\ Id(s)' = i
           /\ IsFiniteSet(Holders(i)') /\ Cardinality(Holders(i)') \in Nat
           /\ IsFiniteSet(Waiting(i)') /\ Cardinality(Waiting(i)') \in Nat
           /\ Cardinality(Holders(i)') + Cardinality(Waiting(i)') <= Cardinality(Senders)
<1>1. /\ Holders(i)' \cap Waiting(i)' = {}
      /\ Holders(i)' \subseteq Senders /\ Waiting(i)' \subseteq Senders
  BY DEF Holders, Waiting
<1>2. IsFiniteSet(Holders(i)') /\ IsFiniteSet(Waiting(i)')
  BY <1>1, SendersFinite, FS_Subset
<1>3. /\ Cardinality(Holders(i)') \in Nat /\ Cardinality(Waiting(i)') \in Nat
      /\ Cardinality(Senders) \in Nat
  BY <1>2, SendersFinite, FS_CardinalityType
<1>4. /\ Cardinality(Holders(i)' \cup Waiting(i)') =
            Cardinality(Holders(i)') + Cardinality(Waiting(i)') - Cardinality({})
      /\ Cardinality(Holders(i)' \cup Waiting(i)') <= Cardinality(Senders)
      /\ Cardinality({}) = 0
  BY <1>1, <1>2, SendersFinite, FS_Union, FS_Subset, FS_EmptySet
<1>5. Cardinality(Holders(i)') + Cardinality(Waiting(i)') <= Cardinality(Senders)
  BY <1>3, <1>4
<1>6. \A t \in Senders \ {s} :
        /\ t \in Holders(i) <=> t \in Holders(i)'
        /\ t \in Waiting(i) <=> t \in Waiting(i)'
  BY DEF Holders, Waiting, Delivered, Working, Id
<1>7. /\ Holders(i) \ {s} = Holders(i)' \ {s}
      /\ Waiting(i) \ {s} = Waiting(i)' \ {s}
  BY <1>1, <1>6 DEF Holders, Waiting
<1> QED
  BY <1>2, <1>3, <1>5, <1>7 DEF Holders, Waiting

\* A row keeps its bound when its acceptances, those lost and the senders at it change together.
LEMMA StepBounded ==
    ASSUME BInv, NEW s \in Senders, \A t \in Senders \ {s} : sender'[t] = sender[t],
           NEW i \in Ids, copies'[i] \in Nat, unrecorded'[i] \in Nat,
           Settled(i) => Settled(i)',
           LET h == IF Delivered(s) /\ Id(s) = i THEN 1 ELSE 0
               g == IF Delivered(s)' /\ Id(s)' = i THEN 1 ELSE 0
               w == IF Working(s) /\ ~Delivered(s) /\ Id(s) = i THEN 1 ELSE 0
               v == IF Working(s)' /\ ~Delivered(s)' /\ Id(s)' = i THEN 1 ELSE 0
           IN  /\ ~Settled(i)' => copies'[i] - unrecorded'[i] - g = copies[i] - unrecorded[i] - h
               /\ Settled(i)' =>
                     copies'[i] - unrecorded'[i] + v <= copies[i] - unrecorded[i] + w
    PROVE  Bounded(i)'
<1> DEFINE H == Cardinality(Holders(i))
           W == Cardinality(Waiting(i))
           G == Cardinality(Holders(i)')
           V == Cardinality(Waiting(i)')
           S == Cardinality(Senders)
           h == IF Delivered(s) /\ Id(s) = i THEN 1 ELSE 0
           g == IF Delivered(s)' /\ Id(s)' = i THEN 1 ELSE 0
           w == IF Working(s) /\ ~Delivered(s) /\ Id(s) = i THEN 1 ELSE 0
           v == IF Working(s)' /\ ~Delivered(s)' /\ Id(s)' = i THEN 1 ELSE 0
<1>1. H \in Nat /\ W \in Nat /\ G \in Nat /\ V \in Nat /\ S \in Nat /\ H + W <= S
  BY CountTypes, SetsOfOthers
<1>2. IsFiniteSet(Holders(i)) /\ IsFiniteSet(Waiting(i))
  BY CountTypes
<1>3. G - g = H - h
  <2>1. /\ IsFiniteSet(Holders(i)') /\ Holders(i) \ {s} = Holders(i)' \ {s}
        /\ s \in Holders(i) <=> Delivered(s) /\ Id(s) = i
        /\ s \in Holders(i)' <=> Delivered(s)' /\ Id(s)' = i
    BY SetsOfOthers
  <2> QED
    BY <1>1, <1>2, <2>1, OneMember
<1>4. V - v = W - w
  <2>1. /\ IsFiniteSet(Waiting(i)') /\ Waiting(i) \ {s} = Waiting(i)' \ {s}
        /\ s \in Waiting(i) <=> Working(s) /\ ~Delivered(s) /\ Id(s) = i
        /\ s \in Waiting(i)' <=> Working(s)' /\ ~Delivered(s)' /\ Id(s)' = i
    BY SetsOfOthers
  <2> QED
    BY <1>1, <1>2, <2>1, OneMember
<1>5. copies[i] \in Nat /\ unrecorded[i] \in Nat
  BY CountsNat DEF BInv, IInv
<1>6. IF Settled(i) THEN copies[i] + W <= unrecorded[i] + S
      ELSE copies[i] = unrecorded[i] + H
  BY DEF BInv, Bounded
<1>7. /\ ~Settled(i)' => copies'[i] - unrecorded'[i] - g = copies[i] - unrecorded[i] - h
      /\ Settled(i)' => copies'[i] - unrecorded'[i] + v <= copies[i] - unrecorded[i] + w
  OBVIOUS
<1>8. h \in Int /\ g \in Int /\ w \in Int /\ v \in Int
  OBVIOUS
<1> HIDE DEF H, W, G, V, S, h, g, w, v
<1>9. CASE ~Settled(i)'
  <2>1. copies[i] = unrecorded[i] + H
    BY <1>6, <1>9
  <2>2. copies'[i] = unrecorded'[i] + G
    BY <1>1, <1>3, <1>5, <1>7, <1>8, <1>9, <2>1
  <2> QED
    BY <1>9, <2>2 DEF Bounded, G
<1>10. CASE Settled(i)'
  <2>1. copies[i] + W <= unrecorded[i] + S
    BY <1>1, <1>5, <1>6
  <2>2. copies'[i] + V <= unrecorded'[i] + S
    BY <1>1, <1>4, <1>5, <1>7, <1>8, <1>10, <2>1
  <2> QED
    BY <1>10, <2>2 DEF Bounded, V, S
<1> QED
  BY <1>9, <1>10

LEMMA LoopStepBounded ==
    ASSUME BInv, IInv', NEW s \in Senders, LoopStep(s), NEW i \in Ids
    PROVE  Bounded(i)'
<1> USE DEF SenderStep, platformVars
<1>1. /\ UNCHANGED <<rows, copies, unrecorded>>
      /\ At(s, "loop") \/ At(s, "sleeping")
  BY DEF LoopStep, Pick, PickFails, Idle, Wake
<1>2. ~Working(s) /\ ~Delivered(s)
  BY <1>1 DEF At, Delivered, Working
<1>3. \A t \in Senders \ {s} : sender'[t] = sender[t]
  BY DEF LoopStep, Pick, PickFails, Idle, Wake, Return, BInv, IInv, TypeOK
<1>4. ~Delivered(s)' /\ (Working(s)' /\ Id(s)' = i => ~Settled(i))
  <2>1. CASE Pick(s)
    <3>1. PICK j \in Ids :
            /\ IsNext(j)
            /\ sender' = [sender EXCEPT ![s] =
                  [pc |-> IF s \in cancelled THEN "defer" ELSE "sending",
                   msg |-> [id |-> j, reply |-> rows[j].reply, html |-> rows[j].html,
                            attempts |-> rows[j].attempts]]]
      BY <2>1 DEF Pick
    <3>2. ~Settled(j)
      BY <3>1 DEF IsNext, IsHead, Pending
    <3> QED
      BY <3>1, <3>2 DEF Working, Delivered, Id, BInv, IInv, TypeOK
  <2>2. CASE PickFails(s) \/ Idle(s) \/ Wake(s)
    <3>1. PICK pc \in {"off", "loop", "sleeping"} : Return(s, pc)
      BY <2>2 DEF PickFails, Idle, Wake
    <3> QED
      BY <3>1 DEF Return, Working, Delivered, BInv, IInv, TypeOK
  <2> QED
    BY <2>1, <2>2 DEF LoopStep
<1>5. Settled(i)' = Settled(i)
  BY <1>1 DEF Settled
<1>6. /\ copies[i] \in Nat /\ unrecorded[i] \in Nat
      /\ copies'[i] = copies[i] /\ unrecorded'[i] = unrecorded[i]
  BY <1>1, CountsNat DEF BInv, IInv
<1> QED
  BY <1>2, <1>3, <1>4, <1>5, <1>6, StepBounded

LEMMA TalkStepBounded ==
    ASSUME BInv, IInv', NEW s \in Senders, TalkStep(s), NEW i \in Ids
    PROVE  Bounded(i)'
<1> USE DEF SenderStep, platformVars
<1>1. Working(s)
  BY DEF TalkStep, Accept, Answer, LoseAnswer, Transient, ReplyGone, RejectHTML,
         Reject, At, Working
<1>2. Id(s) \in Ids
  BY <1>1 DEF BInv, IInv, SenderOK
<1>3. UNCHANGED rows
  BY DEF TalkStep, Accept, Answer, LoseAnswer, Transient, ReplyGone, RejectHTML, Reject
<1>4. PICK pc \in {"accepted", "plain", "plainAccepted", "clearFormat",
                   "markSent", "clearReply", "defer", "fail"} : Goto(s, pc)
  BY DEF TalkStep, Accept, Answer, LoseAnswer, Transient, ReplyGone, RejectHTML, Reject
<1>5. /\ sender'[s].pc = pc /\ Id(s)' = Id(s) /\ Working(s)'
      /\ \A t \in Senders \ {s} : sender'[t] = sender[t]
  BY <1>4 DEF Goto, Id, Working, BInv, IInv, TypeOK
<1>6. Settled(i)' = Settled(i)
  BY <1>3 DEF Settled
<1>7. copies[i] \in Nat /\ unrecorded[i] \in Nat
  BY CountsNat DEF BInv, IInv
<1>8. CASE Accept(s)
  <2>1. ~Delivered(s) /\ Delivered(s)' /\ unrecorded'[i] = unrecorded[i]
    <3>1. (At(s, "sending") \/ At(s, "plain")) /\ UNCHANGED unrecorded
      BY <1>8 DEF Accept
    <3>2. pc \in {"accepted", "plainAccepted"}
      BY <1>5, <1>8 DEF Accept, Goto, BInv, IInv, TypeOK
    <3> QED
      BY <1>5, <3>1, <3>2 DEF At, Delivered
  <2>2. copies \in Seq(Nat) /\ Id(s) \in 1 .. Len(copies) /\ i \in 1 .. Len(copies)
    BY <1>2 DEF BInv, IInv, TypeOK, Ids
  <2>3. copies'[i] = IF i = Id(s) THEN copies[i] + 1 ELSE copies[i]
    BY <1>8, <2>2, CounterStep DEF Accept
  <2>4. copies'[i] \in Nat /\ unrecorded'[i] \in Nat
    BY <1>7, <2>1, <2>3
  <2> QED
    BY <1>1, <1>5, <1>6, <1>7, <2>1, <2>3, <2>4, StepBounded
<1>9. CASE LoseAnswer(s)
  <2>1. Delivered(s) /\ ~Delivered(s)' /\ copies'[i] = copies[i]
    BY <1>9 DEF LoseAnswer, At, Goto, Delivered, BInv, IInv, TypeOK
  <2>2. /\ unrecorded \in Seq(Nat) /\ Id(s) \in 1 .. Len(unrecorded)
        /\ i \in 1 .. Len(unrecorded)
    BY <1>2 DEF BInv, IInv, TypeOK, Ids
  <2>3. unrecorded'[i] = IF i = Id(s) THEN unrecorded[i] + 1 ELSE unrecorded[i]
    BY <1>9, <2>2, CounterStep DEF LoseAnswer
  <2>4. copies'[i] \in Nat /\ unrecorded'[i] \in Nat
    BY <1>7, <2>1, <2>3
  <2> QED
    BY <1>1, <1>5, <1>6, <1>7, <2>1, <2>3, <2>4, StepBounded
<1>10. CASE Answer(s) \/ Transient(s) \/ ReplyGone(s) \/ RejectHTML(s) \/ Reject(s)
  <2>1. /\ Delivered(s)' = Delivered(s)
        /\ copies'[i] = copies[i] /\ unrecorded'[i] = unrecorded[i]
    BY <1>10 DEF Answer, Transient, ReplyGone, RejectHTML, Reject, At, Goto, Delivered,
       BInv, IInv, TypeOK
  <2> QED
    BY <1>1, <1>5, <1>6, <1>7, <2>1, StepBounded
<1> QED
  BY <1>8, <1>9, <1>10 DEF TalkStep

LEMMA RecordStepBounded ==
    ASSUME BInv, IInv', NEW s \in Senders, RecordStep(s), NEW i \in Ids
    PROVE  Bounded(i)'
<1> USE DEF SenderStep, platformVars
<1>1. Working(s) /\ UNCHANGED copies
  BY DEF RecordStep, MarkSent, ClearFormat, ClearReplyTo, DeferMessage, Fail,
         MarkDead, At, Working
<1>2. Id(s) \in Ids
  BY <1>1 DEF BInv, IInv, SenderOK
<1>3. PICK r \in Row : Update(s, rows[Id(s)], r) /\ rows' = [rows EXCEPT ![Id(s)] = r]
  BY <1>2, RecordStepUpdates DEF BInv, IInv
<1>4. /\ rows'[Id(s)] = r
      /\ \A j \in Ids : j # Id(s) => rows'[j] = rows[j]
  BY <1>2, <1>3, ExceptSeq DEF BInv, IInv, TypeOK, Ids
<1>5. /\ Settled(i) => Settled(i)'
      /\ i # Id(s) => Settled(i)' = Settled(i)
  BY <1>3, <1>4 DEF Settled, Update
<1>6. /\ \A t \in Senders \ {s} : sender'[t] = sender[t]
      /\ Working(s)' => Id(s)' = Id(s)
  <2>1. PICK pc \in {"loop", "sleeping", "markSent", "defer", "markDead"} :
          \/ Goto(s, pc) /\ pc \in {"markSent", "defer", "markDead"}
          \/ Return(s, pc) /\ pc \in {"loop", "sleeping"}
    BY DEF RecordStep, MarkSent, ClearFormat, ClearReplyTo, DeferMessage, Fail, MarkDead
  <2>2. sender \in [Senders -> Goroutine]
    BY DEF BInv, IInv, TypeOK
  <2>3. CASE Goto(s, pc) /\ pc \in {"markSent", "defer", "markDead"}
    BY <2>2, <2>3 DEF Goto, Id
  <2>4. CASE Return(s, pc) /\ pc \in {"loop", "sleeping"}
    BY <2>2, <2>4 DEF Return, Working
  <2> QED
    BY <2>1, <2>3, <2>4
<1>7. copies[i] \in Nat /\ unrecorded[i] \in Nat /\ copies'[i] = copies[i]
  BY <1>1, CountsNat DEF BInv, IInv
<1>8. CASE MarkSent(s)
  <2>1. Delivered(s) /\ ~Working(s)' /\ ~Delivered(s)'
    BY <1>8 DEF MarkSent, At, Return, Delivered, Working, BInv, IInv, TypeOK
  <2>2. CASE Write(s, [rows[Id(s)] EXCEPT !.sent = TRUE]) /\ UNCHANGED unrecorded
    <3>1. rows[Id(s)] \in Row
      BY <1>2, ElementTypes DEF BInv, IInv
    <3>2. rows \in Seq(Row) /\ Id(s) \in 1 .. Len(rows)
      BY <1>2 DEF BInv, IInv, TypeOK, Ids
    <3>3. rows'[Id(s)].sent
      BY <2>2, <3>1, <3>2, ExceptSeq DEF Write, Row
    <3>4. i = Id(s) => Settled(i)'
      BY <3>3 DEF Settled
    <3>5. unrecorded'[i] = unrecorded[i]
      BY <2>2
    <3> QED
      BY <1>5, <1>6, <1>7, <2>1, <3>4, <3>5, StepBounded
  <2>3. CASE unrecorded' = [unrecorded EXCEPT ![Id(s)] = @ + 1]
    <3>1. /\ unrecorded \in Seq(Nat) /\ Id(s) \in 1 .. Len(unrecorded)
          /\ i \in 1 .. Len(unrecorded)
      BY <1>2 DEF BInv, IInv, TypeOK, Ids
    <3>2. unrecorded'[i] = IF i = Id(s) THEN unrecorded[i] + 1 ELSE unrecorded[i]
      BY <2>3, <3>1, CounterStep
    <3>3. unrecorded'[i] \in Nat
      BY <1>7, <3>2
    <3> QED
      BY <1>5, <1>6, <1>7, <2>1, <3>2, <3>3, StepBounded
  <2> QED
    BY <1>8, <2>2, <2>3 DEF MarkSent
<1>9. CASE ClearFormat(s)
  <2>1. Delivered(s) /\ Delivered(s)' /\ Working(s)' /\ unrecorded'[i] = unrecorded[i]
    BY <1>9 DEF ClearFormat, At, Goto, Delivered, Working, BInv, IInv, TypeOK
  <2> QED
    BY <1>5, <1>6, <1>7, <2>1, StepBounded
<1>10. CASE ClearReplyTo(s) \/ DeferMessage(s) \/ Fail(s) \/ MarkDead(s)
  <2>1. ~Delivered(s) /\ ~Delivered(s)' /\ unrecorded'[i] = unrecorded[i]
    BY <1>10 DEF ClearReplyTo, DeferMessage, Fail, MarkDead, At, Goto, Return, Delivered,
       BInv, IInv, TypeOK
  <2> QED
    BY <1>1, <1>5, <1>6, <1>7, <2>1, StepBounded
<1> QED
  BY <1>8, <1>9, <1>10 DEF RecordStep

\* Every other step leaves the senders of each row alone, or ends all of them.
LEMMA SameSendersBounded ==
    ASSUME BInv, NEW i \in Ids,
           \A s \in Senders : \/ sender'[s] = sender[s]
                              \/ ~Working(s) /\ ~Working(s)',
           copies'[i] = copies[i], unrecorded'[i] = unrecorded[i], Settled(i)' = Settled(i)
    PROVE  Bounded(i)'
<1>1. \A s \in Senders :
        /\ Delivered(s) /\ Id(s) = i <=> Delivered(s)' /\ Id(s)' = i
        /\ Working(s) /\ ~Delivered(s) /\ Id(s) = i <=>
              Working(s)' /\ ~Delivered(s)' /\ Id(s)' = i
  BY DEF Delivered, Working, Id
<1>2. Holders(i)' = Holders(i) /\ Waiting(i)' = Waiting(i)
  BY <1>1 DEF Holders, Waiting
<1> QED
  BY <1>2 DEF BInv, Bounded

LEMMA StopBounded ==
    ASSUME BInv, Stop, NEW i \in Ids
    PROVE  Bounded(i)'
<1>1. \A s \in Senders : ~Working(s)' /\ ~Delivered(s)'
  BY DEF Stop, Off, Working, Delivered
<1>2. Holders(i)' = {} /\ Waiting(i)' = {}
  BY <1>1 DEF Holders, Waiting
<1>3. /\ Cardinality(Holders(i)') = 0 /\ Cardinality(Waiting(i)') = 0
      /\ Cardinality(Holders(i)) \in Nat /\ Cardinality(Waiting(i)) \in Nat
      /\ Cardinality(Senders) \in Nat
  BY <1>2, FS_EmptySet, CountTypes
<1>4. /\ unrecorded'[i] = unrecorded[i] + Cardinality(Holders(i))
      /\ copies'[i] = copies[i] /\ Settled(i)' = Settled(i)
  BY StopCounts DEF Stop, Settled
<1>5. copies[i] \in Nat /\ unrecorded[i] \in Nat
  BY CountsNat DEF BInv, IInv
<1>6. IF Settled(i)
      THEN copies[i] + Cardinality(Waiting(i)) <= unrecorded[i] + Cardinality(Senders)
      ELSE copies[i] = unrecorded[i] + Cardinality(Holders(i))
  BY DEF BInv, Bounded
<1>7. CASE Settled(i)
  BY <1>3, <1>4, <1>5, <1>6, <1>7 DEF Bounded
<1>8. CASE ~Settled(i)
  BY <1>3, <1>4, <1>5, <1>6, <1>8 DEF Bounded
<1> QED
  BY <1>7, <1>8

LEMMA EnqueueBounded ==
    ASSUME BInv, IInv', Enqueue
    PROVE  \A i \in Ids' : Bounded(i)'
<1>1. PICK k \in Kinds :
        rows' = Append(rows, [reply |-> k.reply, html |-> k.html, sent |-> FALSE,
                              dead |-> FALSE, deferred |-> FALSE, attempts |-> 0])
  BY DEF Enqueue
<1> DEFINE n == Len(rows)
           r == [reply |-> k.reply, html |-> k.html, sent |-> FALSE,
                 dead |-> FALSE, deferred |-> FALSE, attempts |-> 0]
<1>2. r \in Row /\ n \in Nat /\ ~r.sent /\ ~r.dead
  BY DEF Row, BInv, IInv, TypeOK
<1>3. /\ Len(rows') = n + 1 /\ rows'[n + 1] = r
      /\ \A j \in Ids : rows'[j] = rows[j]
  BY <1>1, <1>2, AppendProperties DEF BInv, IInv, TypeOK, Ids
<1>4. /\ copies'[n + 1] = 0 /\ \A j \in Ids : copies'[j] = copies[j]
      /\ unrecorded'[n + 1] = 0 /\ \A j \in Ids : unrecorded'[j] = unrecorded[j]
  BY AppendProperties DEF Enqueue, BInv, IInv, TypeOK, Ids
<1>5. UNCHANGED sender
  BY DEF Enqueue
<1> SUFFICES ASSUME NEW i \in Ids' PROVE Bounded(i)'
  OBVIOUS
<1>6. CASE i \in Ids
  <2>1. /\ copies'[i] = copies[i] /\ unrecorded'[i] = unrecorded[i]
        /\ Settled(i)' = Settled(i)
    BY <1>3, <1>4, <1>6 DEF Settled
  <2> QED
    BY <1>5, <1>6, <2>1, SameSendersBounded
<1>7. CASE i = n + 1
  <2>1. \A s \in Senders : Delivered(s)' => Id(s)' \in Ids
    BY <1>5 DEF BInv, IInv, SenderOK, Delivered, Working, Id
  <2>2. Holders(i)' = {}
    BY <1>2, <1>7, <2>1 DEF Holders, Ids
  <2>3. Cardinality(Holders(i)') = 0 /\ ~Settled(i)'
    BY <1>2, <1>3, <1>7, <2>2, FS_EmptySet DEF Settled
  <2> QED
    BY <1>4, <1>7, <2>3 DEF Bounded
<1> QED
  BY <1>2, <1>3, <1>6, <1>7 DEF Ids

LEMMA InitBInv == Init => BInv
<1> SUFFICES ASSUME Init PROVE BInv
  OBVIOUS
<1>1. Ids = {} /\ phase = "up"
  BY DEF Init, Ids
<1>2. "exit" \in Senders /\ "exit" # "run"
  BY DEF Senders
<1>3. At("exit", "off")
  BY <1>2 DEF Init, At, Off
<1> QED
  BY <1>1, <1>3, InitIInv DEF BInv

\* The daemon's goroutines start and end with its phases.
LEMMA PhasesKept ==
    ASSUME BInv, [InstallNext]_vars
    PROVE  /\ phase' = "down" => \A s \in Senders : At(s, "off")'
           /\ phase' # "flushing" => At("exit", "off")'
<1>1. sender \in [Senders -> Goroutine] /\ "run" \in Senders /\ "exit" \in Senders
  BY DEF BInv, IInv, TypeOK, Senders
<1>2. ASSUME NEW s \in Senders, Step(s) PROVE
        /\ phase' = phase /\ ~At(s, "off")
        /\ \A t \in Senders \ {s} : sender'[t] = sender[t]
  BY <1>1, <1>2 DEF Step, SenderStep, Pick, PickFails, Idle, Wake, Accept, Answer, LoseAnswer,
     Transient, ReplyGone, RejectHTML, Reject, MarkSent, ClearFormat, ClearReplyTo,
     DeferMessage, Fail, MarkDead, At, Goto, Return
<1>3. CASE \E s \in Senders : Step(s)
  <2>1. PICK s \in Senders : Step(s)
    BY <1>3
  <2>2. phase' = phase /\ ~At(s, "off") /\ \A t \in Senders \ {s} : sender'[t] = sender[t]
    BY <1>2, <2>1
  <2>3. phase' # "down"
    BY <2>2 DEF BInv
  <2>4. ASSUME phase' # "flushing" PROVE At("exit", "off")'
    <3>1. At("exit", "off")
      BY <2>2, <2>4 DEF BInv
    <3>2. s # "exit"
      BY <2>2, <3>1
    <3>3. sender'["exit"] = sender["exit"]
      BY <1>1, <2>2, <3>2
    <3> QED
      BY <3>1, <3>3 DEF At
  <2> QED
    BY <2>3, <2>4
<1>4. CASE Enqueue \/ Due \/ Toggle \/ StopOutbox \/ UNCHANGED vars
           \/ \E s \in Senders : FlushTimeout(s)
  BY <1>4 DEF BInv, At, Enqueue, Due, Toggle, StopOutbox, FlushTimeout, vars, daemonVars
<1>5. CASE Exit \/ Crash
  BY <1>1, <1>5 DEF Exit, Crash, Stop, At, Off
<1>6. CASE ExitFlush
  BY <1>6 DEF ExitFlush
<1>7. CASE Restart
  BY <1>1, <1>7 DEF Restart, BInv, At
<1>8. CASE \E s \in Installers : InstallFlush(s)
  BY <1>1, <1>8 DEF InstallFlush, Goto, BInv, At, Senders
<1> QED
  BY <1>3, <1>4, <1>5, <1>6, <1>7, <1>8 DEF InstallNext, Next

LEMMA NextBInv == BInv /\ [InstallNext]_vars => BInv'
<1> SUFFICES ASSUME BInv, [InstallNext]_vars PROVE BInv'
  OBVIOUS
<1>1. IInv'
  BY NextIInv DEF BInv
<1> SUFFICES \A i \in Ids' : Bounded(i)'
  BY <1>1, PhasesKept DEF BInv
<1>2. CASE Enqueue
  BY <1>1, <1>2, EnqueueBounded
<1>3. CASE Due
  <2>1. PICK j \in Ids : rows' = [rows EXCEPT ![j].deferred = FALSE]
    BY <1>3 DEF Due
  <2>2. rows[j] \in Row /\ rows \in Seq(Row) /\ j \in 1 .. Len(rows)
    BY ElementTypes DEF BInv, IInv, TypeOK, Ids
  <2>3. PICK r \in Row : /\ r.sent = rows[j].sent /\ r.dead = rows[j].dead
                         /\ rows' = [rows EXCEPT ![j] = r]
    <3>1. /\ [rows[j] EXCEPT !.deferred = FALSE] \in Row
          /\ [rows[j] EXCEPT !.deferred = FALSE].sent = rows[j].sent
          /\ [rows[j] EXCEPT !.deferred = FALSE].dead = rows[j].dead
      BY <2>2 DEF Row
    <3> QED
      BY <2>1, <3>1
  <2>4. Len(rows') = Len(rows) /\ \A i \in Ids : rows'[i] = IF i = j THEN r ELSE rows[i]
    BY <2>2, <2>3, ExceptSeq DEF Ids
  <2>5. Ids' = Ids /\ \A i \in Ids : Settled(i)' = Settled(i)
    BY <2>3, <2>4 DEF Ids, Settled
  <2> QED
    BY <1>3, <2>5, SameSendersBounded DEF Due, platformVars
<1>4. ASSUME NEW s \in Senders, Step(s) PROVE \A i \in Ids' : Bounded(i)'
  <2>1. Ids' = Ids
    <3>1. CASE RecordStep(s)
      <4>1. Working(s)
        BY <3>1 DEF RecordStep, MarkSent, ClearFormat, ClearReplyTo, DeferMessage, Fail,
           MarkDead, At, Working
      <4>2. Id(s) \in Ids
        BY <4>1 DEF BInv, IInv, SenderOK
      <4>3. PICK r \in Row : rows' = [rows EXCEPT ![Id(s)] = r]
        BY <3>1, <4>2, RecordStepUpdates DEF BInv, IInv
      <4> QED
        BY <4>2, <4>3, ExceptSeq DEF BInv, IInv, TypeOK, Ids
    <3>2. CASE LoopStep(s) \/ TalkStep(s)
      BY <3>2 DEF LoopStep, TalkStep, Pick, PickFails, Idle, Wake, Accept, Answer, LoseAnswer,
         Transient, ReplyGone, RejectHTML, Reject, Ids
    <3> QED
      BY <1>4, <3>1, <3>2 DEF Step, LoopStep, TalkStep, RecordStep
  <2> QED
    BY <1>1, <1>4, <2>1, LoopStepBounded, TalkStepBounded, RecordStepBounded
    DEF Step, LoopStep, TalkStep, RecordStep
<1>5. CASE Exit \/ Crash
  <2>1. Ids' = Ids
    BY <1>5 DEF Exit, Crash, Stop, Ids
  <2> QED
    BY <1>5, <2>1, StopBounded DEF Exit, Crash
<1>6. CASE Turn \/ (\E s \in Installers : InstallFlush(s)) \/ UNCHANGED vars
  <2>1. UNCHANGED <<rows, copies, unrecorded>>
    BY <1>6 DEF Turn, Toggle, StopOutbox, ExitFlush, Restart, FlushTimeout, InstallFlush,
       platformVars, vars
  <2>2. sender \in [Senders -> Goroutine] /\ "run" \in Senders /\ "exit" \in Senders
        /\ Installers \subseteq Senders
    BY DEF BInv, IInv, TypeOK, Senders
  <2>3. \A s \in Senders : sender'[s] = sender[s] \/ (~Working(s) /\ ~Working(s)')
    <3>1. CASE Toggle \/ StopOutbox \/ (\E s \in Senders : FlushTimeout(s)) \/ UNCHANGED vars
      BY <3>1 DEF Toggle, StopOutbox, FlushTimeout, vars
    <3>2. CASE ExitFlush
      BY <2>2, <3>2 DEF ExitFlush, Goto, BInv, At, Working
    <3>3. CASE Restart
      BY <2>2, <3>3 DEF Restart, BInv, At, Working
    <3>4. ASSUME NEW t \in Installers, InstallFlush(t)
          PROVE  \A s \in Senders : sender'[s] = sender[s] \/ (~Working(s) /\ ~Working(s)')
      BY <2>2, <3>4 DEF InstallFlush, Goto, At, Working
    <3> QED
      BY <1>6, <3>1, <3>2, <3>3, <3>4 DEF Turn
  <2>4. Ids' = Ids /\ \A i \in Ids : Settled(i)' = Settled(i)
    BY <2>1 DEF Ids, Settled
  <2> QED
    BY <2>1, <2>3, <2>4, SameSendersBounded
<1> QED
  BY <1>2, <1>3, <1>4, <1>5, <1>6 DEF InstallNext, Next, Turn

-----------------------------------------------------------------------------
(* The lane implements MessageLane: each step of the goroutines is one of  *)
(* its steps, or changes nothing that it speaks of.                        *)

\* What the marks of a row say.
Mark(r) == IF r.sent THEN "sent" ELSE IF r.dead THEN "dead" ELSE "pending"

LEMMA OutcomesAreMarks ==
    ASSUME TypeOK
    PROVE  /\ Len(Outcomes) = Len(rows) /\ Lane!Messages = Ids
           /\ Outcomes = [i \in Ids |-> Mark(rows[i])]
           /\ Outcomes \in Seq({"sent", "dead", "pending"})
<1>1. Len(rows) \in Nat
  BY DEF TypeOK
<1>2. Outcomes = [i \in Ids |-> Mark(rows[i])]
  BY DEF Outcomes, Mark
<1>3. Outcomes \in [1 .. Len(rows) -> {"sent", "dead", "pending"}]
  BY <1>2 DEF Mark, Ids
<1>4. Outcomes \in Seq({"sent", "dead", "pending"}) /\ Len(Outcomes) = Len(rows)
  BY <1>1, <1>3
<1> QED
  BY <1>2, <1>4 DEF Lane!Messages, Ids

LEMMA SameRowsSameOutcomes ==
    ASSUME UNCHANGED rows
    PROVE  UNCHANGED Outcomes
BY DEF Outcomes, Ids

\* A write to one row changes the outcome of that message at most.
LEMMA WriteOutcomes ==
    ASSUME TypeOK, NEW s \in Senders, Id(s) \in Ids, NEW r \in Row, Write(s, r)
    PROVE  /\ Outcomes' = [Outcomes EXCEPT ![Id(s)] = Mark(r)]
           /\ Mark(r) = Mark(rows[Id(s)]) => UNCHANGED Outcomes
<1>1. rows \in Seq(Row) /\ Id(s) \in 1 .. Len(rows)
  BY DEF TypeOK, Ids
<1>2. Len(rows') = Len(rows) /\ \A j \in Ids : rows'[j] = IF j = Id(s) THEN r ELSE rows[j]
  BY <1>1, ExceptSeq DEF Write, Ids
<1>3. Ids' = Ids
  BY <1>2 DEF Ids
<1>4. /\ Outcomes = [i \in Ids |-> Mark(rows[i])]
      /\ Outcomes' = [i \in Ids |-> Mark(rows'[i])]
  BY <1>3 DEF Outcomes, Mark
<1> HIDE DEF Mark
<1>5. Outcomes' = [Outcomes EXCEPT ![Id(s)] = Mark(r)]
  BY <1>2, <1>4
<1>6. ASSUME Mark(r) = Mark(rows[Id(s)]) PROVE UNCHANGED Outcomes
  BY <1>2, <1>4, <1>6
<1> QED
  BY <1>5, <1>6

\* The row a sender works on is the first that is not settled, and the sender knows of every
\* acceptance that is not lost.
LEMMA WorksOnFirst ==
    ASSUME SInv, NEW s \in Senders, Working(s)
    PROVE  /\ Id(s) \in Ids /\ Id(s) \in Lane!Messages
           /\ Lane!First(Id(s))
           /\ IF Delivered(s) THEN Lane!Known(Id(s)) ELSE Lane!Unknown(Id(s))
<1> DEFINE i == Id(s)
<1>1. /\ i \in Ids /\ ~Settled(i)
      /\ \A j \in Ids : j < i => Settled(j)
  BY DEF SInv, IInv, SenderOK, Holds
<1>2. Lane!Messages = Ids
  BY OutcomesAreMarks DEF SInv, IInv
<1>3. Lane!First(i)
  BY <1>1, <1>2 DEF Lane!First, Outcomes, Settled
<1>4. ~At(s, "off")
  BY DEF Working, At
<1>5. /\ copies[i] \in Nat /\ unrecorded[i] \in Nat
      /\ copies[i] = unrecorded[i] + (IF rows[i].sent \/ Delivered(s) THEN 1 ELSE 0)
  BY <1>1, <1>4, SoleSenderKnows
<1>6. IF Delivered(s) THEN Lane!Known(i) ELSE Lane!Unknown(i)
  BY <1>1, <1>5 DEF Lane!Known, Lane!Unknown, Settled
<1> QED
  BY <1>1, <1>2, <1>3, <1>6

LaneVars == <<Outcomes, copies, unrecorded, rejects, alerted>>

LEMMA LaneStutters ==
    ASSUME UNCHANGED LaneVars
    PROVE  UNCHANGED Lane!vars
BY DEF LaneVars, Lane!vars, Lane!counts

LEMMA TalkImplements ==
    ASSUME SInv, NEW s \in Senders, TalkStep(s)
    PROVE  [Lane!Next]_(Lane!vars)
<1> USE DEF platformVars
<1>1. Working(s)
  BY DEF TalkStep, Accept, Answer, LoseAnswer, Transient, ReplyGone, RejectHTML,
         Reject, At, Working
<1>2. UNCHANGED Outcomes
  BY SameRowsSameOutcomes
  DEF TalkStep, Accept, Answer, LoseAnswer, Transient, ReplyGone, RejectHTML, Reject
<1>3. CASE Accept(s)
  <2>1. ~Delivered(s)
    BY <1>3 DEF Accept, At, Delivered
  <2>2. Lane!Deliver(Id(s))
    BY <1>1, <1>2, <1>3, <2>1, WorksOnFirst DEF Accept, Lane!Deliver
  <2> QED
    BY <1>1, <2>2, WorksOnFirst DEF Lane!Next
<1>4. CASE LoseAnswer(s)
  <2>1. Delivered(s)
    BY <1>4 DEF LoseAnswer, At, Delivered
  <2>2. Lane!Lose(Id(s))
    BY <1>1, <1>2, <1>4, <2>1, WorksOnFirst DEF LoseAnswer, Lane!Lose
  <2> QED
    BY <1>1, <2>2, WorksOnFirst DEF Lane!Next
<1>5. CASE Reject(s)
  <2>1. ~Delivered(s)
    BY <1>5 DEF Reject, At, Delivered
  <2>2. Lane!Refuse(Id(s))
    BY <1>1, <1>2, <1>5, <2>1, WorksOnFirst DEF Reject, Lane!Refuse
  <2> QED
    BY <1>1, <2>2, WorksOnFirst DEF Lane!Next
<1>6. CASE Answer(s) \/ Transient(s) \/ ReplyGone(s) \/ RejectHTML(s)
  BY <1>2, <1>6, LaneStutters DEF LaneVars, Answer, Transient, ReplyGone, RejectHTML
<1> QED
  BY <1>3, <1>4, <1>5, <1>6 DEF TalkStep

\* Only markSent and markDead change what the marks of a row say.
LEMMA RecordImplements ==
    ASSUME SInv, NEW s \in Senders, RecordStep(s)
    PROVE  [Lane!Next]_(Lane!vars)
<1> DEFINE i == Id(s)
           r0 == rows[i]
<1> USE DEF platformVars
<1>1. Working(s) /\ UNCHANGED <<copies, rejects>>
  BY DEF RecordStep, MarkSent, ClearFormat, ClearReplyTo, DeferMessage, Fail,
         MarkDead, At, Working
<1>2. /\ i \in Ids /\ i \in Lane!Messages /\ Lane!First(i)
      /\ IF Delivered(s) THEN Lane!Known(i) ELSE Lane!Unknown(i)
  BY <1>1, WorksOnFirst
<1>3. r0 \in Row /\ ~r0.sent /\ ~r0.dead
  BY <1>1, <1>2, ElementTypes DEF SInv, IInv, Holds, Settled
<1>4. CASE MarkSent(s)
  <2>1. Lane!Known(i)
    BY <1>2, <1>4 DEF MarkSent, At, Delivered
  <2>2. CASE Write(s, [r0 EXCEPT !.sent = TRUE]) /\ UNCHANGED unrecorded
    <3>1. [r0 EXCEPT !.sent = TRUE] \in Row /\ Mark([r0 EXCEPT !.sent = TRUE]) = "sent"
      BY <1>3 DEF Row, Mark
    <3>2. Outcomes' = [Outcomes EXCEPT ![i] = "sent"]
      BY <1>2, <2>2, <3>1, WriteOutcomes DEF SInv, IInv
    <3>3. Lane!Settle(i)
      BY <1>1, <1>2, <1>4, <2>1, <2>2, <3>2 DEF MarkSent, Lane!Settle, Lane!counts
    <3> QED
      BY <1>2, <3>3 DEF Lane!Next
  <2>3. CASE UNCHANGED rows /\ unrecorded' = [unrecorded EXCEPT ![i] = @ + 1]
    <3>1. Lane!Lose(i)
      BY <1>1, <1>2, <1>4, <2>1, <2>3, SameRowsSameOutcomes DEF MarkSent, Lane!Lose
    <3> QED
      BY <1>2, <3>1 DEF Lane!Next
  <2> QED
    BY <1>4, <2>2, <2>3 DEF MarkSent, WriteFails
<1>5. CASE MarkDead(s)
  <2>1. Lane!Unknown(i) /\ rejects[i] >= MaxAttempts
    BY <1>1, <1>2, <1>5 DEF MarkDead, At, Delivered, SInv, IInv, SenderOK
  <2>2. \/ Outcomes' = [Outcomes EXCEPT ![i] = "dead"]
        \/ UNCHANGED Outcomes
    <3>1. CASE Write(s, [r0 EXCEPT !.dead = TRUE])
      <4>1. [r0 EXCEPT !.dead = TRUE] \in Row /\ Mark([r0 EXCEPT !.dead = TRUE]) = "dead"
        BY <1>3 DEF Row, Mark
      <4> QED
        BY <1>2, <3>1, <4>1, WriteOutcomes DEF SInv, IInv
    <3>2. CASE UNCHANGED rows
      BY <3>2, SameRowsSameOutcomes
    <3> QED
      BY <1>5, <3>1, <3>2 DEF MarkDead, WriteFails
  <2>3. Lane!GiveUp(i)
    BY <1>1, <1>2, <1>5, <2>1, <2>2 DEF MarkDead, Lane!GiveUp, Lane!counts
  <2> QED
    BY <1>2, <2>3 DEF Lane!Next
<1>6. CASE ClearFormat(s) \/ ClearReplyTo(s) \/ DeferMessage(s) \/ Fail(s)
  <2>1. UNCHANGED <<copies, rejects, unrecorded, alerted>>
    BY <1>6 DEF ClearFormat, ClearReplyTo, DeferMessage, Fail
  <2>2. \/ UNCHANGED rows
        \/ \E r \in Row : Mark(r) = Mark(r0) /\ Write(s, r)
    <3>1. Attempts(s) \in Nat
      <4>1. sender[s] \in Goroutine
        BY DEF SInv, IInv, TypeOK
      <4> QED
        BY <4>1 DEF Attempts
    <3>2. /\ [r0 EXCEPT !.html = FALSE] \in Row /\ [r0 EXCEPT !.reply = FALSE] \in Row
          /\ [r0 EXCEPT !.deferred = @ \/ Transport = "mx"] \in Row
          /\ [r0 EXCEPT !.attempts = Attempts(s)] \in Row
      BY <1>3, <3>1 DEF Row
    <3>3. /\ Mark([r0 EXCEPT !.html = FALSE]) = Mark(r0)
          /\ Mark([r0 EXCEPT !.reply = FALSE]) = Mark(r0)
          /\ Mark([r0 EXCEPT !.deferred = @ \/ Transport = "mx"]) = Mark(r0)
          /\ Mark([r0 EXCEPT !.attempts = Attempts(s)]) = Mark(r0)
      BY <1>3 DEF Row, Mark
    <3> QED
      BY <1>6, <3>2, <3>3 DEF ClearFormat, ClearReplyTo, DeferMessage, Fail, WriteFails
  <2>3. UNCHANGED Outcomes
    BY <1>2, <2>2, WriteOutcomes, SameRowsSameOutcomes DEF SInv, IInv
  <2> QED
    BY <2>1, <2>3, LaneStutters DEF LaneVars
<1> QED
  BY <1>4, <1>5, <1>6 DEF RecordStep

LEMMA AppendIs ==
    ASSUME NEW S, NEW f \in Seq(S), NEW e \in S, NEW g \in Seq(S),
           Len(g) = Len(f) + 1, g[Len(f) + 1] = e, \A j \in 1 .. Len(f) : g[j] = f[j]
    PROVE  g = Append(f, e)
<1>1. /\ Append(f, e) \in Seq(S) /\ Len(Append(f, e)) = Len(f) + 1
      /\ \A j \in 1 .. Len(f) + 1 : Append(f, e)[j] = IF j <= Len(f) THEN f[j] ELSE e
  BY AppendProperties
<1>2. ASSUME NEW j \in 1 .. Len(g) PROVE g[j] = Append(f, e)[j]
  <2>1. Len(f) \in Nat
    OBVIOUS
  <2> QED
    BY <1>1, <2>1
<1> QED
  BY <1>1, <1>2, SeqEqual

LEMMA EnqueueImplements ==
    ASSUME SInv, IInv', Enqueue
    PROVE  Lane!Next
<1>1. PICK k \in Kinds :
        rows' = Append(rows, [reply |-> k.reply, html |-> k.html, sent |-> FALSE,
                              dead |-> FALSE, deferred |-> FALSE, attempts |-> 0])
  BY DEF Enqueue
<1> DEFINE n == Len(rows)
           r == [reply |-> k.reply, html |-> k.html, sent |-> FALSE,
                 dead |-> FALSE, deferred |-> FALSE, attempts |-> 0]
           M == {"sent", "dead", "pending"}
<1>2. r \in Row /\ n \in Nat /\ Mark(r) = "pending"
  BY DEF Row, Mark, SInv, IInv, TypeOK
<1>3. /\ Len(rows') = n + 1 /\ rows'[n + 1] = r
      /\ \A j \in Ids : rows'[j] = rows[j]
  BY <1>1, <1>2, AppendProperties DEF SInv, IInv, TypeOK, Ids
<1>4. /\ Outcomes \in Seq(M) /\ Len(Outcomes) = n
      /\ Outcomes = [i \in Ids |-> Mark(rows[i])]
  BY OutcomesAreMarks DEF SInv, IInv
<1>5. TypeOK'
  BY DEF IInv
<1>6. /\ Outcomes' \in Seq(M) /\ Len(Outcomes') = n + 1
      /\ Outcomes' = [i \in Ids' |-> Mark(rows'[i])]
  <2>1. Len(rows') \in Nat
    BY <1>2, <1>3
  <2>2. Outcomes' = [i \in Ids' |-> Mark(rows'[i])]
    BY DEF Outcomes, Mark
  <2>3. Outcomes' \in [1 .. Len(rows') -> M]
    BY <2>2 DEF Mark, Ids
  <2> QED
    BY <1>3, <2>1, <2>2, <2>3
<1> HIDE DEF r, M
<1>7. \A j \in 1 .. n : Outcomes'[j] = Outcomes[j]
  <2> SUFFICES ASSUME NEW j \in 1 .. n PROVE Outcomes'[j] = Outcomes[j]
    OBVIOUS
  <2>1. j \in Ids /\ j \in Ids'
    BY <1>2, <1>3 DEF Ids
  <2> QED
    BY <1>3, <1>4, <1>6, <2>1
<1>8. Outcomes'[n + 1] = "pending"
  <2>1. n + 1 \in Ids'
    BY <1>2, <1>3 DEF Ids
  <2> QED
    BY <1>2, <1>3, <1>6, <2>1
<1>9. Outcomes' = Append(Outcomes, "pending")
  <2>1. "pending" \in M
    BY DEF M
  <2>2. /\ Len(Outcomes') = Len(Outcomes) + 1
        /\ Outcomes'[Len(Outcomes) + 1] = "pending"
        /\ \A j \in 1 .. Len(Outcomes) : Outcomes'[j] = Outcomes[j]
    BY <1>4, <1>6, <1>7, <1>8
  <2>3. Outcomes \in Seq(M) /\ Outcomes' \in Seq(M)
    BY <1>4, <1>6
  <2> QED
    BY <2>1, <2>2, <2>3, AppendIs
<1>10. Lane!Enqueue
  BY <1>9 DEF Enqueue, Lane!Enqueue
<1> QED
  BY <1>10 DEF Lane!Next

\* next_attempt_at is not part of what the lane promises.
LEMMA DueImplements ==
    ASSUME SInv, Due
    PROVE  UNCHANGED Lane!vars
<1>1. PICK i \in Ids : rows' = [rows EXCEPT ![i].deferred = FALSE]
  BY DEF Due
<1> DEFINE r == [rows[i] EXCEPT !.deferred = FALSE]
<1>2. rows[i] \in Row
  BY ElementTypes DEF SInv, IInv
<1>3. r \in Row /\ r.sent = rows[i].sent /\ r.dead = rows[i].dead
  BY <1>2 DEF Row
<1> HIDE DEF r
<1>4. /\ Len(rows') = Len(rows)
      /\ \A j \in Ids : rows'[j].sent = rows[j].sent /\ rows'[j].dead = rows[j].dead
  <2>1. rows \in Seq(Row) /\ i \in 1 .. Len(rows)
    BY DEF SInv, IInv, TypeOK, Ids
  <2>2. rows' = [rows EXCEPT ![i] = r]
    BY <1>1 DEF r
  <2>3. Len(rows') = Len(rows) /\ \A j \in Ids : rows'[j] = IF j = i THEN r ELSE rows[j]
    BY <1>3, <2>1, <2>2, ExceptSeq DEF Ids
  <2> QED
    BY <1>3, <2>3
<1>5. Ids' = Ids
  BY <1>4 DEF Ids
<1>6. UNCHANGED Outcomes
  BY <1>4, <1>5 DEF Outcomes
<1> QED
  BY <1>6, LaneStutters DEF LaneVars, Due, platformVars

\* The process ends: what its one sender knew is lost with it.
LEMMA StopImplements ==
    ASSUME SInv, Stop
    PROVE  [Lane!Next]_(Lane!vars)
<1>1. UNCHANGED <<Outcomes, copies, rejects, alerted>>
  BY SameRowsSameOutcomes DEF Stop
<1>2. /\ unrecorded \in Seq(Nat) /\ Len(unrecorded) = Len(rows)
      /\ \A i \in Ids : unrecorded[i] \in Nat
  BY CountsNat DEF SInv, IInv, TypeOK
<1>3. unrecorded \in [Ids -> Nat]
  BY <1>2 DEF Ids
<1>4. unrecorded' = [i \in Ids |-> unrecorded[i] + (IF Held(i) THEN 1 ELSE 0)]
  <2>1. \A i : Cardinality(Holders(i)) = IF Held(i) THEN 1 ELSE 0
    BY HeldOnce DEF SInv
  <2> QED
    BY <2>1, StopCounts
<1>5. CASE \E s \in Senders : Delivered(s)
  <2>1. PICK s \in Senders : Delivered(s)
    BY <1>5
  <2>2. Working(s) /\ ~At(s, "off")
    BY <2>1 DEF Delivered, Working, At
  <2>3. \A t \in Senders \ {s} : ~Delivered(t)
    BY <2>2 DEF SInv, Alone, At, Delivered
  <2>4. \A i \in Ids : Held(i) <=> i = Id(s)
    BY <2>1, <2>3 DEF Held
  <2>5. \A i \in Ids : unrecorded'[i] = IF i = Id(s) THEN unrecorded[i] + 1 ELSE unrecorded[i]
    BY <1>2, <1>4, <2>4
  <2>6. DOMAIN unrecorded' = Ids /\ unrecorded' = [i \in Ids |-> unrecorded'[i]]
    BY <1>4
  <2>7. unrecorded' = [unrecorded EXCEPT ![Id(s)] = @ + 1]
    BY <1>3, <2>5, <2>6
  <2>8. Lane!Lose(Id(s))
    BY <1>1, <2>1, <2>2, <2>7, WorksOnFirst DEF Lane!Lose
  <2> QED
    BY <2>2, <2>8, WorksOnFirst DEF Lane!Next
<1>6. CASE ~\E s \in Senders : Delivered(s)
  <2>1. \A i \in Ids : ~Held(i)
    BY <1>6 DEF Held
  <2>2. unrecorded' = unrecorded
    BY <1>3, <1>4, <2>1
  <2> QED
    BY <1>1, <2>2, LaneStutters DEF LaneVars
<1> QED
  BY <1>5, <1>6

LEMMA InitImplements == Init => Lane!Init
<1> SUFFICES ASSUME Init PROVE Lane!Init
  OBVIOUS
<1>1. rows = <<>>
  BY DEF Init
<1>2. Outcomes = <<>>
  BY <1>1 DEF Outcomes, Ids
<1> QED
  BY <1>2 DEF Init, Lane!Init

LEMMA NextImplements == SInv /\ [Next]_vars => [Lane!Next]_(Lane!vars)
<1> SUFFICES ASSUME SInv, [Next]_vars PROVE [Lane!Next]_(Lane!vars)
  OBVIOUS
<1> USE DEF platformVars
<1>1. CASE Enqueue
  <2>1. IInv'
    BY NextIInv DEF SInv, InstallNext
  <2> QED
    BY <1>1, <2>1, EnqueueImplements
<1>2. CASE Due
  BY <1>2, DueImplements
<1>3. ASSUME NEW s \in Senders, LoopStep(s) PROVE UNCHANGED Lane!vars
  BY <1>3, SameRowsSameOutcomes, LaneStutters
  DEF LaneVars, LoopStep, Pick, PickFails, Idle, Wake
<1>4. ASSUME NEW s \in Senders, Step(s) PROVE [Lane!Next]_(Lane!vars)
  BY <1>3, <1>4, TalkImplements, RecordImplements
  DEF Step, LoopStep, TalkStep, RecordStep
<1>5. CASE Exit \/ Crash
  BY <1>5, StopImplements DEF Exit, Crash
<1>6. CASE Turn \/ UNCHANGED vars
  BY <1>6, SameRowsSameOutcomes, LaneStutters
  DEF LaneVars, Turn, Toggle, StopOutbox, ExitFlush, Restart, FlushTimeout, vars
<1> QED
  BY <1>1, <1>2, <1>4, <1>5, <1>6 DEF Next, Turn

-----------------------------------------------------------------------------
(* What the abstract lane is worth: these lemmas use nothing of Outbox but *)
(* that its variables stand for those of MessageLane.                      *)

LaneIInv == Lane!TypeOK /\ Lane!Promise

LEMMA LaneTypes ==
    ASSUME Lane!TypeOK, NEW i \in Lane!Messages
    PROVE  /\ Outcomes[i] \in Lane!Outcome
           /\ copies[i] \in Nat /\ unrecorded[i] \in Nat /\ rejects[i] \in Nat
<1>1. /\ Outcomes \in Seq(Lane!Outcome) /\ i \in 1 .. Len(Outcomes)
      /\ copies \in Seq(Nat) /\ i \in 1 .. Len(copies)
      /\ unrecorded \in Seq(Nat) /\ i \in 1 .. Len(unrecorded)
      /\ rejects \in Seq(Nat) /\ i \in 1 .. Len(rejects)
  BY DEF Lane!TypeOK, Lane!Messages
<1> QED
  BY <1>1, ElementOfSeq

LEMMA LaneInit == Lane!Init => LaneIInv
<1> SUFFICES ASSUME Lane!Init PROVE LaneIInv
  OBVIOUS
<1>1. /\ Outcomes = <<>> /\ copies = <<>> /\ unrecorded = <<>> /\ rejects = <<>>
      /\ alerted = {}
  BY DEF Lane!Init
<1>2. /\ \A S : <<>> \in Seq(S)
      /\ Len(<<>>) = 0
  OBVIOUS
<1>3. Lane!Messages = {}
  BY <1>1, <1>2 DEF Lane!Messages
<1> QED
  BY <1>1, <1>2, <1>3 DEF LaneIInv, Lane!TypeOK, Lane!Promise

LEMMA LaneEnqueue ==
    ASSUME LaneIInv, Lane!Enqueue
    PROVE  LaneIInv'
<1> DEFINE n == Len(Outcomes)
<1>1. n \in Nat /\ "pending" \in Lane!Outcome
  BY DEF LaneIInv, Lane!TypeOK, Lane!Outcome
<1>2. /\ Outcomes' \in Seq(Lane!Outcome) /\ Len(Outcomes') = n + 1
      /\ Outcomes'[n + 1] = "pending"
      /\ \A j \in 1 .. n : Outcomes'[j] = Outcomes[j]
  BY <1>1, AppendProperties DEF LaneIInv, Lane!TypeOK, Lane!Enqueue
<1>3. /\ copies' \in Seq(Nat) /\ Len(copies') = n + 1
      /\ copies'[n + 1] = 0 /\ \A j \in 1 .. n : copies'[j] = copies[j]
  BY AppendProperties DEF LaneIInv, Lane!TypeOK, Lane!Enqueue
<1>4. /\ unrecorded' \in Seq(Nat) /\ Len(unrecorded') = n + 1
      /\ unrecorded'[n + 1] = 0 /\ \A j \in 1 .. n : unrecorded'[j] = unrecorded[j]
  BY AppendProperties DEF LaneIInv, Lane!TypeOK, Lane!Enqueue
<1>5. /\ rejects' \in Seq(Nat) /\ Len(rejects') = n + 1
      /\ rejects'[n + 1] = 0 /\ \A j \in 1 .. n : rejects'[j] = rejects[j]
  BY AppendProperties DEF LaneIInv, Lane!TypeOK, Lane!Enqueue
<1>6. /\ Lane!Messages = 1 .. n /\ Lane!Messages' = 1 .. n + 1
      /\ alerted' = alerted /\ alerted \subseteq 1 .. n
  BY <1>2 DEF LaneIInv, Lane!TypeOK, Lane!Enqueue, Lane!Messages
<1>7. Lane!TypeOK'
  BY <1>1, <1>2, <1>3, <1>4, <1>5, <1>6 DEF Lane!TypeOK
<1>8. ASSUME NEW i \in 1 .. n + 1
      PROVE  /\ copies'[i] + rejects'[i] > 0 => \A j \in 1 .. n + 1 : j < i => Outcomes'[j] # "pending"
             /\ CASE Outcomes'[i] = "sent" -> copies'[i] = unrecorded'[i] + 1
                  [] Outcomes'[i] = "dead" -> copies'[i] = unrecorded'[i]
                  [] OTHER -> copies'[i] = unrecorded'[i] + 1 \/ copies'[i] = unrecorded'[i]
             /\ Outcomes'[i] = "dead" \/ i \in alerted' => rejects'[i] >= MaxAttempts
  <2>1. CASE i = n + 1
    BY <1>1, <1>2, <1>3, <1>4, <1>5, <1>6, <2>1
  <2>2. CASE i \in 1 .. n
    <3>1. /\ copies[i] + rejects[i] > 0 => \A j \in 1 .. n : j < i => Outcomes[j] # "pending"
          /\ CASE Outcomes[i] = "sent" -> copies[i] = unrecorded[i] + 1
               [] Outcomes[i] = "dead" -> copies[i] = unrecorded[i]
               [] OTHER -> copies[i] = unrecorded[i] + 1 \/ copies[i] = unrecorded[i]
          /\ Outcomes[i] = "dead" \/ i \in alerted => rejects[i] >= MaxAttempts
      BY <1>6, <2>2 DEF LaneIInv, Lane!Promise, Lane!Known, Lane!Unknown
    <3>2. \A j \in 1 .. n + 1 : j < i => j \in 1 .. n
      BY <1>1, <2>2
    <3>3. /\ copies'[i] = copies[i] /\ unrecorded'[i] = unrecorded[i]
          /\ rejects'[i] = rejects[i] /\ Outcomes'[i] = Outcomes[i]
      BY <1>2, <1>3, <1>4, <1>5, <2>2
    <3>4. copies'[i] + rejects'[i] > 0 =>
              \A j \in 1 .. n + 1 : j < i => Outcomes'[j] # "pending"
      BY <1>2, <3>1, <3>2, <3>3
    <3> QED
      BY <1>6, <3>1, <3>3, <3>4
  <2> QED
    BY <1>1, <2>1, <2>2
<1> QED
  BY <1>6, <1>7, <1>8 DEF LaneIInv, Lane!Promise, Lane!Known, Lane!Unknown

\* A step on the first message: it changes nothing of the others, which keep their promises.
LEMMA LaneWork ==
    ASSUME LaneIInv, NEW i \in Lane!Messages,
           Lane!Deliver(i) \/ Lane!Lose(i) \/ Lane!Refuse(i) \/ Lane!Settle(i) \/ Lane!GiveUp(i)
    PROVE  LaneIInv'
<1> DEFINE n == Len(Outcomes)
<1>1. /\ n \in Nat /\ i \in 1 .. n /\ Lane!Messages = 1 .. n
      /\ Outcomes \in Seq(Lane!Outcome) /\ Len(Outcomes) = n
      /\ copies \in Seq(Nat) /\ Len(copies) = n
      /\ unrecorded \in Seq(Nat) /\ Len(unrecorded) = n
      /\ rejects \in Seq(Nat) /\ Len(rejects) = n
      /\ alerted \subseteq 1 .. n
  BY DEF LaneIInv, Lane!TypeOK, Lane!Messages
<1>2. /\ Outcomes[i] = "pending"
      /\ \A j \in 1 .. n : j < i => Outcomes[j] # "pending"
  BY <1>1 DEF Lane!Deliver, Lane!Lose, Lane!Refuse, Lane!Settle, Lane!GiveUp, Lane!First
<1>3. \A j \in 1 .. n : /\ Outcomes[j] \in Lane!Outcome
                        /\ copies[j] \in Nat /\ unrecorded[j] \in Nat /\ rejects[j] \in Nat
  BY <1>1, LaneTypes DEF LaneIInv
<1>4. \A j \in 1 .. n :
        /\ copies[j] + rejects[j] > 0 => \A k \in 1 .. n : k < j => Outcomes[k] # "pending"
        /\ CASE Outcomes[j] = "sent" -> copies[j] = unrecorded[j] + 1
             [] Outcomes[j] = "dead" -> copies[j] = unrecorded[j]
             [] OTHER -> copies[j] = unrecorded[j] + 1 \/ copies[j] = unrecorded[j]
        /\ Outcomes[j] = "dead" \/ j \in alerted => rejects[j] >= MaxAttempts
  BY <1>1 DEF LaneIInv, Lane!Promise, Lane!Known, Lane!Unknown
<1> HIDE DEF n
<1>5. /\ Outcomes = [Outcomes EXCEPT ![i] = "pending"]
      /\ copies = [copies EXCEPT ![i] = copies[i]]
      /\ unrecorded = [unrecorded EXCEPT ![i] = unrecorded[i]]
      /\ rejects = [rejects EXCEPT ![i] = rejects[i]]
  BY <1>1, <1>2
\* The message after the step.
<1>6. \E o \in Lane!Outcome, c \in Nat, u \in Nat, r \in Nat :
        /\ Outcomes' = [Outcomes EXCEPT ![i] = o]
        /\ copies' = [copies EXCEPT ![i] = c]
        /\ unrecorded' = [unrecorded EXCEPT ![i] = u]
        /\ rejects' = [rejects EXCEPT ![i] = r]
        /\ alerted' = alerted \/ (alerted' = alerted \cup {i} /\ r >= MaxAttempts)
        /\ r >= rejects[i]
        /\ CASE o = "sent" -> c = u + 1
             [] o = "dead" -> c = u /\ r >= MaxAttempts
             [] OTHER -> c = u + 1 \/ c = u
  <2>1. copies[i] \in Nat /\ unrecorded[i] \in Nat /\ rejects[i] \in Nat
    BY <1>1, <1>3
  <2>7. copies[i] + 1 \in Nat /\ unrecorded[i] + 1 \in Nat /\ rejects[i] + 1 \in Nat
    BY <2>1
  <2>8. "pending" \in Lane!Outcome /\ "sent" \in Lane!Outcome /\ "dead" \in Lane!Outcome
    BY DEF Lane!Outcome
  <2> USE <2>1, <2>7, <2>8
  <2>2. CASE Lane!Deliver(i)
    <3>1. /\ copies' = [copies EXCEPT ![i] = copies[i] + 1] /\ copies[i] = unrecorded[i]
          /\ Outcomes' = Outcomes /\ unrecorded' = unrecorded /\ rejects' = rejects
          /\ alerted' = alerted
      BY <2>2 DEF Lane!Deliver, Lane!Unknown
    <3> WITNESS "pending" \in Lane!Outcome, copies[i] + 1 \in Nat,
                unrecorded[i] \in Nat, rejects[i] \in Nat
    <3> QED
      BY <1>5, <3>1
  <2>3. CASE Lane!Lose(i)
    <3>1. /\ unrecorded' = [unrecorded EXCEPT ![i] = unrecorded[i] + 1]
          /\ copies[i] = unrecorded[i] + 1
          /\ Outcomes' = Outcomes /\ copies' = copies /\ rejects' = rejects
          /\ alerted' = alerted
      BY <2>3 DEF Lane!Lose, Lane!Known
    <3> WITNESS "pending" \in Lane!Outcome, copies[i] \in Nat,
                unrecorded[i] + 1 \in Nat, rejects[i] \in Nat
    <3> QED
      BY <1>5, <3>1
  <2>4. CASE Lane!Refuse(i)
    <3>1. /\ rejects' = [rejects EXCEPT ![i] = rejects[i] + 1] /\ copies[i] = unrecorded[i]
          /\ Outcomes' = Outcomes /\ copies' = copies /\ unrecorded' = unrecorded
          /\ alerted' = alerted
      BY <2>4 DEF Lane!Refuse, Lane!Unknown
    <3> WITNESS "pending" \in Lane!Outcome, copies[i] \in Nat,
                unrecorded[i] \in Nat, rejects[i] + 1 \in Nat
    <3> QED
      BY <1>5, <3>1
  <2>5. CASE Lane!Settle(i)
    <3>1. /\ Outcomes' = [Outcomes EXCEPT ![i] = "sent"] /\ copies[i] = unrecorded[i] + 1
          /\ copies' = copies /\ unrecorded' = unrecorded /\ rejects' = rejects
          /\ alerted' = alerted
      BY <2>5 DEF Lane!Settle, Lane!Known, Lane!counts
    <3> WITNESS "sent" \in Lane!Outcome, copies[i] \in Nat,
                unrecorded[i] \in Nat, rejects[i] \in Nat
    <3> QED
      BY <1>5, <3>1
  <2>6. CASE Lane!GiveUp(i)
    <3>1. /\ Outcomes' = [Outcomes EXCEPT ![i] = "dead"] \/ Outcomes' = Outcomes
          /\ copies[i] = unrecorded[i] /\ rejects[i] >= MaxAttempts
          /\ copies' = copies /\ unrecorded' = unrecorded /\ rejects' = rejects
          /\ alerted' = alerted \cup {i}
      BY <2>6 DEF Lane!GiveUp, Lane!Unknown, Lane!counts
    <3>2. CASE Outcomes' = [Outcomes EXCEPT ![i] = "dead"]
      <4> WITNESS "dead" \in Lane!Outcome, copies[i] \in Nat, unrecorded[i] \in Nat,
                  rejects[i] \in Nat
      <4> QED
        BY <1>5, <3>1, <3>2
    <3>3. CASE Outcomes' = Outcomes
      <4> WITNESS "pending" \in Lane!Outcome, copies[i] \in Nat, unrecorded[i] \in Nat,
                  rejects[i] \in Nat
      <4> QED
        BY <1>5, <3>1, <3>3
    <3> QED
      BY <3>1, <3>2, <3>3
  <2> QED
    BY <2>2, <2>3, <2>4, <2>5, <2>6
<1>7. PICK o \in Lane!Outcome, c \in Nat, u \in Nat, r \in Nat :
        /\ Outcomes' = [Outcomes EXCEPT ![i] = o]
        /\ copies' = [copies EXCEPT ![i] = c]
        /\ unrecorded' = [unrecorded EXCEPT ![i] = u]
        /\ rejects' = [rejects EXCEPT ![i] = r]
        /\ alerted' = alerted \/ (alerted' = alerted \cup {i} /\ r >= MaxAttempts)
        /\ r >= rejects[i]
        /\ CASE o = "sent" -> c = u + 1
             [] o = "dead" -> c = u /\ r >= MaxAttempts
             [] OTHER -> c = u + 1 \/ c = u
  BY <1>6
<1>8. /\ Outcomes' \in Seq(Lane!Outcome) /\ Len(Outcomes') = n
      /\ \A j \in 1 .. n : Outcomes'[j] = IF j = i THEN o ELSE Outcomes[j]
  BY <1>1, <1>7, ExceptSeq
<1>9. /\ copies' \in Seq(Nat) /\ Len(copies') = n
      /\ \A j \in 1 .. n : copies'[j] = IF j = i THEN c ELSE copies[j]
  BY <1>1, <1>7, ExceptSeq
<1>10. /\ unrecorded' \in Seq(Nat) /\ Len(unrecorded') = n
       /\ \A j \in 1 .. n : unrecorded'[j] = IF j = i THEN u ELSE unrecorded[j]
  BY <1>1, <1>7, ExceptSeq
<1>11. /\ rejects' \in Seq(Nat) /\ Len(rejects') = n
       /\ \A j \in 1 .. n : rejects'[j] = IF j = i THEN r ELSE rejects[j]
  BY <1>1, <1>7, ExceptSeq
<1>12. Lane!Messages' = 1 .. n /\ alerted' \subseteq 1 .. n
  BY <1>1, <1>7, <1>8 DEF Lane!Messages
<1>13. Lane!TypeOK'
  BY <1>8, <1>9, <1>10, <1>11, <1>12 DEF Lane!TypeOK
<1>14. ASSUME NEW j \in 1 .. n
       PROVE  /\ copies'[j] + rejects'[j] > 0 => \A k \in 1 .. n : k < j => Outcomes'[k] # "pending"
              /\ CASE Outcomes'[j] = "sent" -> copies'[j] = unrecorded'[j] + 1
                   [] Outcomes'[j] = "dead" -> copies'[j] = unrecorded'[j]
                   [] OTHER -> copies'[j] = unrecorded'[j] + 1 \/ copies'[j] = unrecorded'[j]
              /\ Outcomes'[j] = "dead" \/ j \in alerted' => rejects'[j] >= MaxAttempts
  <2>1. CASE j = i
    <3>1. \A k \in 1 .. n : k < j => Outcomes'[k] # "pending"
      BY <1>1, <1>2, <1>8, <2>1
    <3>2. j \in alerted' => r >= MaxAttempts
      BY <1>3, <1>4, <1>7, <2>1
    <3> QED
      BY <1>7, <1>8, <1>9, <1>10, <1>11, <2>1, <3>1, <3>2
  <2>2. CASE j # i
    <3>1. copies'[j] + rejects'[j] > 0 => \A k \in 1 .. n : k < j => Outcomes'[k] # "pending"
      <4>1. SUFFICES ASSUME copies[j] + rejects[j] > 0, NEW k \in 1 .. n, k < j
                     PROVE  Outcomes'[k] # "pending"
        BY <1>9, <1>11, <2>2
      <4>2. Outcomes[k] # "pending"
        BY <1>4, <4>1
      <4>3. k # i
        BY <1>2, <4>2
      <4> QED
        BY <1>8, <4>2, <4>3
    <3>2. j \in alerted' => j \in alerted
      BY <1>7, <2>2
    <3> QED
      BY <1>4, <1>8, <1>9, <1>10, <1>11, <2>2, <3>1, <3>2
  <2> QED
    BY <2>1, <2>2
<1> QED
  BY <1>12, <1>13, <1>14 DEF LaneIInv, Lane!Promise, Lane!Known, Lane!Unknown

LEMMA LaneNext == LaneIInv /\ [Lane!Next]_(Lane!vars) => LaneIInv'
<1> SUFFICES ASSUME LaneIInv, [Lane!Next]_(Lane!vars) PROVE LaneIInv'
  OBVIOUS
<1>1. CASE UNCHANGED Lane!vars
  BY <1>1 DEF Lane!vars, Lane!counts, LaneIInv, Lane!TypeOK, Lane!Promise, Lane!Known,
     Lane!Unknown, Lane!Messages
<1> QED
  BY <1>1, LaneEnqueue, LaneWork DEF Lane!Next

-----------------------------------------------------------------------------
(* The theorems.                                                           *)

\* Type correctness: the table, its ghosts and the senders keep their types.
THEOREM Typed == Spec \/ InstallSpec => []TypeOK
<1>1. IInv => TypeOK
  BY DEF IInv
<1> QED
  BY InitIInv, NextIInv, SpecIsInstallSpec, <1>1, PTL DEF InstallSpec

\* No message overtakes an earlier one that is neither delivered nor dead,
\* even with several senders on the same lane.
THEOREM Ordered == Spec \/ InstallSpec => []InOrder
<1>1. IInv => InOrder
  <2> SUFFICES ASSUME IInv, NEW i \in Ids, NEW j \in Ids, i < j, copies[j] > 0
               PROVE  copies[i] > 0 \/ rows[i].dead
    BY DEF InOrder
  <2>1. Settled(i)
    BY DEF IInv, RowOK
  <2> QED
    BY <2>1 DEF IInv, RowOK, Settled
<1> QED
  BY InitIInv, NextIInv, SpecIsInstallSpec, <1>1, PTL DEF InstallSpec

\* A row is marked sent only after an acceptance, and dead, or reported dead,
\* only after MaxAttempts permanent refusals.
THEOREM Honest == Spec \/ InstallSpec => []MarksHonest
<1>1. IInv => MarksHonest
  <2> SUFFICES ASSUME IInv PROVE MarksHonest
    OBVIOUS
  <2>1. \A i \in Ids : rejects[i] \in Nat
    BY ElementTypes DEF IInv
  <2> QED
    BY <2>1 DEF IInv, RowOK, MarksHonest, SentWasAccepted, DeadWasRejected
<1> QED
  BY InitIInv, NextIInv, SpecIsInstallSpec, <1>1, PTL DEF InstallSpec

\* Run, the flush at exit and each install command deliver a message at most once more than what
\* is lost: the harm that the flush of handleInstallVersionMessage does beside Run is bounded.
OneCopyPerSender == \A i \in Ids : copies[i] <= unrecorded[i] + Cardinality(Senders)

THEOREM DuplicatesBounded == InstallSpec => []OneCopyPerSender
<1>1. BInv => OneCopyPerSender
  <2> SUFFICES ASSUME BInv, NEW i \in Ids
               PROVE  copies[i] <= unrecorded[i] + Cardinality(Senders)
    BY DEF OneCopyPerSender
  <2>1. copies[i] \in Nat /\ unrecorded[i] \in Nat
    BY CountsNat DEF BInv, IInv
  <2>2. Bounded(i)
    BY DEF BInv
  <2> QED
    BY <2>1, <2>2, CountTypes DEF Bounded
<1> QED
  BY InitBInv, NextBInv, <1>1, PTL DEF InstallSpec

\* Run and the flush at exit never work on the same row: runDaemon waits for Run to be done.
THEOREM TakeTurns == Spec => []OneSenderPerRow
<1>1. SInv => OneSenderPerRow
  <2>1. ASSUME SInv, NEW s \in Senders, Sending(s) PROVE ~At(s, "off")
    BY <2>1 DEF SInv, Holds, Working, Sending, Id, NoMsg, At
  <2> QED
    BY <2>1 DEF SInv, Alone, OneSenderPerRow
<1> QED
  BY InitSInv, NextSInv, <1>1, PTL DEF Spec

\* A message reaches its chat once, and is not reported dead besides, unless an acceptance of
\* it was lost on the way back or in the table (sendOne, markSent).
THEOREM Explained == Spec => []DeliveriesExplained
<1>1. SInv => DeliveriesExplained
  <2> SUFFICES ASSUME SInv, NEW i \in Ids
               PROVE  /\ copies[i] <= 1 + unrecorded[i]
                      /\ rows[i].dead /\ copies[i] > 0 => unrecorded[i] > 0
    BY DEF DeliveriesExplained, DuplicatesExplained, DeadNotDelivered
  <2>1. copies[i] \in Nat /\ unrecorded[i] \in Nat /\ Accounted(i)
    BY CountsNat DEF SInv, IInv
  <2>2. rows[i].dead => ~rows[i].sent /\ ~Held(i)
    BY <2>1 DEF SInv, Accounted, Held, Holds, Delivered, Working, Settled
  <2> QED
    BY <2>1, <2>2 DEF Accounted
<1> QED
  BY InitSInv, NextSInv, <1>1, PTL DEF Spec

\* Without install commands the table and its senders do no more than an abstract lane may:
\* one message at a time and in order, another delivery only when the last was lost, and a
\* message settled by what the platform did with it (Store.Run, Flush and the process around).
THEOREM ImplementsLane == Spec => LaneSpec
<1>1. Init => Lane!Init
  BY InitImplements
<1>2. SInv /\ [Next]_vars => [Lane!Next]_(Lane!vars)
  BY NextImplements
<1> QED
  BY InitSInv, NextSInv, <1>1, <1>2, PTL DEF Spec, LaneSpec, Lane!Spec

\* The promise of MessageLane, whatever implements it: a message is heard of once all earlier
\* ones are settled, is repeated or dead only as the platform's answers explain, and is
\* reported dead only after MaxAttempts refusals.
THEOREM LanePromises == LaneSpec => [](Lane!Promise)
<1>1. LaneIInv => Lane!Promise
  BY DEF LaneIInv
<1> QED
  BY LaneInit, LaneNext, <1>1, PTL DEF LaneSpec, Lane!Spec
=============================================================================
