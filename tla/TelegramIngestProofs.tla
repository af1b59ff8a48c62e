------------------------ MODULE TelegramIngestProofs ------------------------
(***************************************************************************)
(* Theorems of TelegramIngest: no command is lost, the first handling of   *)
(* the updates follows their order, and a repetition has its cause, for    *)
(* any number of pollers.                                                  *)
(***************************************************************************)
EXTENDS TelegramIngest, FiniteSetTheorems, TLAPS

\* Every update below n has been handled.
Covered(n) == \A u \in Updates : u < n => handled[u] > 0

\* Whatever offset a poller may send or store covers its updates, and so does
\* the start of what is left of a batch: the next update to handle has no
\* unhandled update before it.
AllCovered ==
    /\ Covered(confirmed)
    /\ Covered(stored)
    /\ \A p \in Pollers : Covered(offset[p]) /\ Covered(from[p])

IInv == TypeOK /\ AllCovered /\ FirstInOrder

USE BoundsAssumption

\* A fault keeps its counter in its range.
LEMMA FaultTyped ==
    ASSUME faults \in 0 .. MaxFaults, Fault
    PROVE  faults' \in 0 .. MaxFaults
  BY DEF Fault

\* What was covered remains so when no count decreases.
LEMMA CoveredStays ==
    ASSUME NEW n, Covered(n), \A u \in Updates : handled'[u] >= handled[u],
           handled \in [Updates -> Nat], handled' \in [Updates -> Nat]
    PROVE  \A u \in Updates : u < n => handled'[u] > 0
  BY DEF Covered, Updates

-----------------------------------------------------------------------------
LEMMA InitIInv == Init => IInv
  BY DEF Init, IInv, TypeOK, AllCovered, Covered, FirstInOrder, Updates

-----------------------------------------------------------------------------
(* Steps that handle nothing: the counts stay, so only the offsets that     *)
(* they copy from one place to another have to be looked at.                *)

\* A step that handles nothing keeps the order.
LEMMA OrderStays == ASSUME IInv, UNCHANGED handled PROVE FirstInOrder'
  BY DEF IInv, FirstInOrder

LEMMA ArriveIInv == ASSUME IInv, Arrive PROVE IInv'
<1>1. TypeOK' BY DEF IInv, TypeOK, Arrive, pollVars
<1>2. AllCovered' BY DEF IInv, AllCovered, Covered, Arrive, pollVars
<1> QED BY <1>1, <1>2, OrderStays DEF IInv, Arrive

LEMMA StartPollIInv == ASSUME IInv, NEW p \in Pollers, StartPoll(p) PROVE IInv'
<1>1. faults' \in 0 .. MaxFaults BY FaultTyped DEF IInv, TypeOK, StartPoll
<1>2. TypeOK' BY <1>1 DEF IInv, TypeOK, StartPoll
<1>3. AllCovered' BY DEF IInv, TypeOK, AllCovered, Covered, StartPoll
<1> QED BY <1>2, <1>3, OrderStays DEF IInv, StartPoll

LEMMA SwitchIInv == ASSUME IInv, Switch PROVE IInv'
<1>1. TypeOK' BY DEF IInv, TypeOK, Switch, pollVars, Running
<1>2. AllCovered' BY DEF IInv, AllCovered, Covered, Switch, pollVars
<1> QED BY <1>1, <1>2, OrderStays DEF IInv, Switch

LEMMA ServeIInv == ASSUME IInv, NEW p \in Pollers, Serve(p) PROVE IInv'
<1>1. confirmed' \in 1 .. MaxUpdates + 1 BY DEF IInv, TypeOK, Serve
<1>2. TypeOK' BY <1>1 DEF IInv, TypeOK, Serve
<1>3. Covered(confirmed)' BY DEF IInv, AllCovered, Covered, Serve
<1>4. AllCovered' BY <1>3 DEF IInv, TypeOK, AllCovered, Covered, Serve
<1> QED BY <1>2, <1>4, OrderStays DEF IInv, Serve

LEMMA AskFailsIInv == ASSUME IInv, NEW p \in Pollers, AskFails(p) PROVE IInv'
<1>1. TypeOK' BY DEF IInv, TypeOK, AskFails, Loop
<1>2. AllCovered' BY DEF IInv, AllCovered, Covered, AskFails
<1> QED BY <1>1, <1>2, OrderStays DEF IInv, AskFails

LEMMA ReceiveIInv == ASSUME IInv, NEW p \in Pollers, Receive(p) PROVE IInv'
<1>1. TypeOK' BY DEF IInv, TypeOK, Receive
<1>2. AllCovered' BY DEF IInv, AllCovered, Covered, Receive
<1> QED BY <1>1, <1>2, OrderStays DEF IInv, Receive

LEMMA ReceiveNothingIInv ==
    ASSUME IInv, NEW p \in Pollers, ReceiveNothing(p) PROVE IInv'
<1>1. TypeOK' BY DEF IInv, TypeOK, ReceiveNothing, Loop
<1>2. AllCovered' BY DEF IInv, AllCovered, Covered, ReceiveNothing
<1> QED BY <1>1, <1>2, OrderStays DEF IInv, ReceiveNothing

LEMMA PersistIInv == ASSUME IInv, NEW p \in Pollers, Persist(p) PROVE IInv'
<1>1. /\ faults' \in 0 .. MaxFaults
      /\ stored' \in {stored, offset[p]}
  BY FaultTyped DEF IInv, TypeOK, Persist
<1>2. TypeOK' BY <1>1 DEF IInv, TypeOK, Persist, Loop
<1>3. AllCovered' BY <1>1 DEF IInv, AllCovered, Covered, Persist
<1> QED BY <1>2, <1>3, OrderStays DEF IInv, Persist

LEMMA RestartIInv == ASSUME IInv, Restart PROVE IInv'
<1>1. TypeOK' BY FaultTyped DEF IInv, TypeOK, Restart
<1>2. AllCovered' BY DEF IInv, AllCovered, Covered, Restart
<1> QED BY <1>1, <1>2, OrderStays DEF IInv, Restart

-----------------------------------------------------------------------------
(* Handle: the next update has no unhandled one before it, so that its      *)
(* successor is covered as well.                                            *)

LEMMA HandleIInv == ASSUME IInv, NEW p \in Pollers, Handle(p) PROVE IInv'
<1> DEFINE u == from[p]
<1>1. u \in Updates /\ from' = [from EXCEPT ![p] = u + 1]
      /\ offset' = [offset EXCEPT ![p] = u + 1]
  BY DEF IInv, TypeOK, Handle, Updates, After
<1>2. handled' = [handled EXCEPT ![u] = handled[u] + 1]
  BY DEF Handle
<1>3. TypeOK'
  <2>1. u + 1 \in 1 .. MaxUpdates + 1 /\ handled[u] + 1 \in Nat
    BY <1>1 DEF IInv, TypeOK, Updates
  <2>2. /\ from' \in [Pollers -> 1 .. MaxUpdates + 1]
        /\ offset' \in [Pollers -> 0 .. MaxUpdates + 1]
    BY <1>1, <2>1 DEF IInv, TypeOK
  <2>3. handled' \in [Updates -> Nat]
    BY <1>1, <1>2, <2>1 DEF IInv, TypeOK
  <2> QED BY <2>2, <2>3 DEF IInv, TypeOK, Handle
<1>4. /\ handled' \in [Updates -> Nat]
      /\ \A v \in Updates : handled'[v] >= handled[v]
      /\ handled'[u] > 0
  BY <1>1, <1>2 DEF IInv, TypeOK
<1>5. \A v \in Updates : v < u + 1 => handled'[v] > 0
  BY <1>1, <1>4 DEF IInv, TypeOK, AllCovered, Covered, Updates
<1>6. AllCovered'
  <2>1. \A n : Covered(n) => \A v \in Updates : v < n => handled'[v] > 0
    BY <1>4, CoveredStays DEF IInv, TypeOK
  <2>2. Covered(confirmed)' /\ Covered(stored)'
    BY <2>1 DEF IInv, AllCovered, Handle, Covered
  <2>3. ASSUME NEW q \in Pollers PROVE Covered(offset[q])' /\ Covered(from[q])'
    <3>1. CASE q = p
      BY <3>1, <1>1, <1>5 DEF IInv, TypeOK, Covered
    <3>2. CASE q # p
      <4>1. offset'[q] = offset[q] /\ from'[q] = from[q]
        BY <3>2, <1>1 DEF IInv, TypeOK
      <4> QED BY <4>1, <2>1 DEF IInv, AllCovered, Covered
    <3> QED BY <3>1, <3>2
  <2> QED BY <2>2, <2>3 DEF AllCovered
<1>7. FirstInOrder'
  <2> SUFFICES ASSUME NEW v \in Updates, NEW w \in Updates, v < w, handled'[w] > 0
               PROVE  handled'[v] > 0
    BY DEF FirstInOrder
  <2>1. CASE w = u
    BY <2>1, <1>5, <1>1 DEF Updates
  <2>2. CASE w # u
    BY <2>2, <1>1, <1>2, <1>4 DEF IInv, TypeOK, FirstInOrder, Updates
  <2> QED BY <2>1, <2>2
<1> QED BY <1>3, <1>6, <1>7 DEF IInv

-----------------------------------------------------------------------------
LEMMA NextIInv == IInv /\ [Next]_vars => IInv'
<1> SUFFICES ASSUME IInv, [Next]_vars PROVE IInv'
  OBVIOUS
<1>1. CASE Arrive BY <1>1, ArriveIInv
<1>2. CASE Switch BY <1>2, SwitchIInv
<1>3. CASE Restart BY <1>3, RestartIInv
<1>4. ASSUME NEW p \in Pollers, StartPoll(p) PROVE IInv' BY <1>4, StartPollIInv
<1>5. ASSUME NEW p \in Pollers, Serve(p) PROVE IInv' BY <1>5, ServeIInv
<1>6. ASSUME NEW p \in Pollers, AskFails(p) PROVE IInv' BY <1>6, AskFailsIInv
<1>7. ASSUME NEW p \in Pollers, Receive(p) PROVE IInv' BY <1>7, ReceiveIInv
<1>8. ASSUME NEW p \in Pollers, ReceiveNothing(p) PROVE IInv'
  BY <1>8, ReceiveNothingIInv
<1>9. ASSUME NEW p \in Pollers, Handle(p) PROVE IInv' BY <1>9, HandleIInv
<1>10. ASSUME NEW p \in Pollers, Persist(p) PROVE IInv' BY <1>10, PersistIInv
<1>11. CASE UNCHANGED vars
  BY <1>11 DEF vars, pollVars, IInv, TypeOK, AllCovered, Covered, FirstInOrder
<1> QED
  BY <1>1, <1>2, <1>3, <1>4, <1>5, <1>6, <1>7, <1>8, <1>9, <1>10, <1>11 DEF Next

LEMMA Inductive == Spec => []IInv
  BY InitIInv, NextIInv, PTL DEF Spec

\* Type correctness: offsets, batches and counts stay in their ranges.
THEOREM Typed == Spec => []TypeOK
<1>1. IInv => TypeOK BY DEF IInv
<1> QED BY Inductive, <1>1, PTL

\* No update that Telegram may forget is unhandled: whenever the process ends
\* and whichever poller stores its offset last, pollTelegram loses no command.
THEOREM NoLoss == Spec => []NoneLost
<1>1. IInv => NoneLost
  BY DEF IInv, AllCovered, Covered, NoneLost
<1> QED BY Inductive, <1>1, PTL

\* The updates are first handled in the order in which they arrived, though two
\* pollers may work on overlapping batches.
THEOREM Ordered == Spec => []FirstInOrder
<1>1. IInv => FirstInOrder BY DEF IInv
<1> QED BY Inductive, <1>1, PTL

-----------------------------------------------------------------------------
(* Repetitions.  A handling is paid for before it happens: by each running  *)
(* poller whose offset is still at or below the update, and by the stored   *)
(* offset while no poller is about to replace it.  What a fault adds to     *)
(* these debts is at most one for each update.                              *)

\* The running pollers that may still handle u.
Behind(u) == {p \in Running : offset[p] <= u}

\* Only the stored offset stands for a handling of u: it is not past u, and no
\* poller will handle u or write its offset before it asks.
Due(u) ==
    IF stored <= u /\ \A p \in Running : offset[p] > u /\ pc[p] # "handling"
    THEN 1 ELSE 0

Paid(u) ==
    /\ IsFiniteSet(Behind(u))
    /\ handled[u] + Cardinality(Behind(u)) + Due(u) <= 1 + faults

\* Telegram answers with nothing below the offset that it was given.
Forward ==
    \A p \in Pollers : pc[p] \in {"asked", "handling"} => offset[p] <= from[p]

RInv == Forward /\ \A u \in Updates : Paid(u)

\* The debts are natural numbers.
LEMMA PaidTyped ==
    ASSUME TypeOK, NEW u \in Updates, Paid(u)
    PROVE  /\ Cardinality(Behind(u)) \in Nat
           /\ handled[u] \in Nat /\ faults \in Nat
           /\ Due(u) \in {0, 1}
  BY FS_CardinalityType DEF TypeOK, Paid, Due

\* What counts when the sum stays or falls, and a fault pays for one more.
LEMMA StillPaid ==
    ASSUME TypeOK, TypeOK', NEW u \in Updates, Paid(u), IsFiniteSet(Behind(u)'),
           \/ /\ handled'[u] + Cardinality(Behind(u)') + Due(u)'
                     <= handled[u] + Cardinality(Behind(u)) + Due(u)
              /\ faults' = faults
           \/ /\ handled'[u] + Cardinality(Behind(u)') + Due(u)'
                     <= handled[u] + Cardinality(Behind(u)) + Due(u) + 1
              /\ faults' = faults + 1
    PROVE  Paid(u)'
<1>1. /\ handled'[u] \in Nat /\ handled[u] \in Nat
      /\ faults \in Nat /\ faults' \in Nat
      /\ Cardinality(Behind(u)) \in Nat /\ Cardinality(Behind(u)') \in Nat
      /\ Due(u) \in {0, 1} /\ Due(u)' \in {0, 1}
  BY FS_CardinalityType DEF TypeOK, Paid, Due
<1>2. handled[u] + Cardinality(Behind(u)) + Due(u) <= 1 + faults
  BY DEF Paid
<1>3. handled'[u] + Cardinality(Behind(u)') + Due(u)' <= 1 + faults'
  BY <1>1, <1>2
<1> QED BY <1>3 DEF Paid

\* Leaving Behind(u) takes one away, entering it adds one.
LEMMA LeavesBehind ==
    ASSUME NEW u \in Updates, Paid(u), NEW p, p \in Behind(u), Behind(u)' = Behind(u) \ {p}
    PROVE  /\ IsFiniteSet(Behind(u)')
           /\ Cardinality(Behind(u)') = Cardinality(Behind(u)) - 1
  BY FS_RemoveElement DEF Paid

LEMMA EntersBehind ==
    ASSUME NEW u \in Updates, Paid(u), NEW p, p \notin Behind(u), Behind(u)' = Behind(u) \cup {p}
    PROVE  /\ IsFiniteSet(Behind(u)')
           /\ Cardinality(Behind(u)') = Cardinality(Behind(u)) + 1
  BY FS_AddElement DEF Paid

\* A step that moves no poller between running and off, and no offset, and ends
\* no batch.
LEMMA SameDebts ==
    ASSUME TypeOK, TypeOK', RInv, UNCHANGED <<offset, stored, handled, faults>>,
           \A p \in Pollers : (pc'[p] = "off") = (pc[p] = "off"),
           \A p \in Pollers : pc[p] = "handling" => pc'[p] = "handling"
    PROVE  \A u \in Updates : Paid(u)'
<1> SUFFICES ASSUME NEW u \in Updates PROVE Paid(u)'
  OBVIOUS
<1>1. Paid(u) BY DEF RInv
<1>2. Running' = Running BY DEF Running
<1>3. Behind(u)' = Behind(u) BY <1>2 DEF Behind
<1>4. Due(u)' <= Due(u) BY <1>2 DEF Due, Running
<1>5. handled'[u] + Cardinality(Behind(u)') + Due(u)'
          <= handled[u] + Cardinality(Behind(u)) + Due(u)
  BY <1>1, <1>3, <1>4, PaidTyped DEF Due
<1>6. IsFiniteSet(Behind(u)') BY <1>1, <1>3 DEF Paid
<1> QED BY <1>1, <1>5, <1>6, StillPaid

\* The end of an iteration.  A poller that ends leaves its debt to the stored
\* offset; one that goes on keeps it.  What a batch may have left unwritten is
\* its caller's concern.
LEMMA LoopPaid ==
    ASSUME TypeOK, TypeOK', RInv, NEW p \in Pollers, pc[p] # "off", Loop(p),
           UNCHANGED <<offset, handled>>,
           \/ stored' = stored /\ faults' = faults /\ pc[p] # "handling"
           \/ stored' = offset[p] /\ faults' = faults
           \/ stored' = stored /\ faults' = faults + 1
    PROVE  \A u \in Updates : Paid(u)'
<1> SUFFICES ASSUME NEW u \in Updates PROVE Paid(u)'
  OBVIOUS
<1>0. Paid(u) BY DEF RInv
<1>1. /\ \A q \in Pollers \ {p} : pc'[q] = pc[q]
      /\ pc'[p] \in {"off", "asking"}
  BY DEF Loop, TypeOK
<1>2. /\ offset[p] \in Int /\ u \in Int /\ stored \in Int
      /\ \A q \in Pollers : offset[q] \in Int
  BY DEF TypeOK, Updates
<1>3. /\ Cardinality(Behind(u)) \in Nat
      /\ handled[u] \in Nat /\ faults \in Nat
      /\ Due(u) \in {0, 1} /\ Due(u)' \in {0, 1}
  BY <1>0, PaidTyped DEF Due
<1>4. CASE offset[p] <= u
  <2>1. p \in Behind(u) /\ Due(u) = 0
    BY <1>4, <1>2 DEF Behind, Running, Due
  <2>2. CASE pc'[p] = "off"
    <3>1. Behind(u)' = Behind(u) \ {p}
      BY <2>2, <1>1, <2>1 DEF Behind, Running
    <3>2. /\ IsFiniteSet(Behind(u)')
          /\ Cardinality(Behind(u)') = Cardinality(Behind(u)) - 1
      BY <3>1, <2>1, <1>0, LeavesBehind
    <3> QED BY <3>2, <2>1, <1>0, <1>3, StillPaid
  <2>3. CASE pc'[p] = "asking"
    <3>1. Behind(u)' = Behind(u)
      BY <2>3, <1>1, <2>1 DEF Behind, Running
    <3>2. p \in Running' /\ offset'[p] <= u
      BY <2>3, <1>4 DEF Running
    <3>3. Due(u)' = 0
      BY <3>2, <1>2 DEF Due
    <3>4. IsFiniteSet(Behind(u)')
      BY <3>1, <1>0 DEF Paid
    <3> QED BY <3>1, <3>3, <3>4, <2>1, <1>0, <1>3, StillPaid
  <2> QED BY <2>2, <2>3, <1>1
<1>5. CASE offset[p] > u
  <2>1. Behind(u)' = Behind(u)
    BY <1>5, <1>1, <1>2 DEF Behind, Running
  <2>2. IsFiniteSet(Behind(u)')
    BY <2>1, <1>0 DEF Paid
  <2>3. CASE stored' = stored /\ faults' = faults /\ pc[p] # "handling"
    <3>1. Due(u)' <= Due(u)
      BY <2>3, <1>1, <1>2, <1>5 DEF Due, Running
    <3> QED BY <3>1, <2>1, <2>2, <2>3, <1>0, <1>3, StillPaid
  <2>4. CASE stored' = offset[p] /\ faults' = faults
    <3>1. Due(u)' = 0
      BY <2>4, <1>5, <1>2 DEF Due
    <3> QED BY <3>1, <2>1, <2>2, <2>4, <1>0, <1>3, StillPaid
  <2>5. CASE stored' = stored /\ faults' = faults + 1
    BY <2>1, <2>2, <2>5, <1>0, <1>3, StillPaid
  <2> QED BY <2>3, <2>4, <2>5
<1> QED BY <1>4, <1>5, <1>2

-----------------------------------------------------------------------------
LEMMA InitRInv == Init => RInv
<1> SUFFICES ASSUME Init PROVE RInv
  OBVIOUS
<1>1. Forward BY DEF Init, Forward
<1>2. ASSUME NEW u \in Updates PROVE Paid(u)
  <2>1. Behind(u) = {} BY DEF Init, Behind, Running
  <2>2. IsFiniteSet(Behind(u)) /\ Cardinality(Behind(u)) = 0 BY <2>1, FS_EmptySet
  <2>3. handled[u] = 0 /\ faults = 0 /\ Due(u) \in {0, 1} BY DEF Init, Due
  <2> QED BY <2>2, <2>3 DEF Paid
<1> QED BY <1>1, <1>2 DEF RInv

LEMMA StartPollRInv ==
    ASSUME TypeOK, TypeOK', RInv, NEW p \in Pollers, StartPoll(p) PROVE RInv'
<1>1. /\ pc' = [pc EXCEPT ![p] = "asking"] /\ pc[p] = "off"
      /\ offset' = [offset EXCEPT ![p] = stored]
      /\ UNCHANGED <<stored, from, handled>>
  BY DEF StartPoll, Running
<1>2. Forward'
  BY <1>1 DEF RInv, Forward, TypeOK
<1>3. ASSUME NEW u \in Updates PROVE Paid(u)'
  <2>0. Paid(u) BY DEF RInv
  <2>1. Running' = Running \cup {p} /\ p \notin Running
    BY <1>1 DEF Running, TypeOK
  <2>2. /\ stored \in Int /\ u \in Int /\ offset'[p] = stored
        /\ \A q \in Running : offset'[q] = offset[q] /\ pc'[q] = pc[q] /\ offset[q] \in Int
    BY <1>1, <2>1 DEF TypeOK, Updates, Running
  <2>3. /\ Cardinality(Behind(u)) \in Nat
        /\ handled[u] \in Nat /\ faults \in Nat
        /\ Due(u) \in {0, 1} /\ Due(u)' \in {0, 1}
    BY <2>0, PaidTyped DEF Due
  <2>4. CASE stored <= u
    <3>1. p \notin Behind(u) /\ Behind(u)' = Behind(u) \cup {p}
      BY <2>1, <2>2, <2>4 DEF Behind
    <3>2. /\ IsFiniteSet(Behind(u)')
          /\ Cardinality(Behind(u)') = Cardinality(Behind(u)) + 1
      BY <3>1, <2>0, EntersBehind
    <3>3. Due(u)' = 0
      BY <2>1, <2>2, <2>4 DEF Due
    <3>4. CASE Running = {}
      <4>1. Due(u) = 1 BY <3>4, <2>4 DEF Due
      <4>2. faults' = faults BY <3>4 DEF StartPoll
      <4> QED BY <4>1, <4>2, <3>2, <3>3, <2>0, <2>3, <1>1, StillPaid
    <3>5. CASE Running # {}
      <4>1. faults' = faults + 1 BY <3>5 DEF StartPoll, Fault
      <4> QED BY <4>1, <3>2, <3>3, <2>0, <2>3, <1>1, StillPaid
    <3> QED BY <3>4, <3>5
  <2>5. CASE stored > u
    <3>1. Behind(u)' = Behind(u)
      BY <2>1, <2>2, <2>5 DEF Behind
    <3>2. Due(u)' = 0
      BY <2>2, <2>5, <1>1 DEF Due
    <3>3. IsFiniteSet(Behind(u)')
      BY <3>1, <2>0 DEF Paid
    <3>4. faults' \in {faults, faults + 1}
      BY DEF StartPoll, Fault
    <3> QED BY <3>1, <3>2, <3>3, <3>4, <2>0, <2>3, <1>1, StillPaid
  <2> QED BY <2>4, <2>5, <2>2
<1> QED BY <1>2, <1>3 DEF RInv

LEMMA ServeRInv == ASSUME TypeOK, TypeOK', RInv, NEW p \in Pollers, Serve(p) PROVE RInv'
<1>1. /\ pc' = [pc EXCEPT ![p] = "asked"] /\ pc[p] = "asking"
      /\ from' = [from EXCEPT ![p] = confirmed'] /\ offset[p] <= confirmed'
      /\ UNCHANGED <<offset, stored, handled, faults>>
  BY DEF Serve, TypeOK
<1>2. Forward'
  BY <1>1 DEF RInv, Forward, TypeOK
<1>3. \A u \in Updates : Paid(u)'
  BY <1>1, SameDebts DEF TypeOK
<1> QED BY <1>2, <1>3 DEF RInv

LEMMA ReceiveRInv == ASSUME TypeOK, TypeOK', RInv, NEW p \in Pollers, Receive(p) PROVE RInv'
<1>1. /\ pc' = [pc EXCEPT ![p] = "handling"] /\ pc[p] = "asked"
      /\ UNCHANGED <<offset, from, stored, handled, faults>>
  BY DEF Receive
<1>2. Forward'
  BY <1>1 DEF RInv, Forward, TypeOK
<1>3. \A u \in Updates : Paid(u)'
  BY <1>1, SameDebts DEF TypeOK
<1> QED BY <1>2, <1>3 DEF RInv

\* AskFails, ReceiveNothing and Persist.
LEMMA LoopRInv ==
    ASSUME TypeOK, TypeOK', RInv, NEW p \in Pollers,
           AskFails(p) \/ ReceiveNothing(p) \/ Persist(p)
    PROVE  RInv'
<1>1. Loop(p) /\ pc[p] # "off" /\ UNCHANGED <<offset, from, handled>>
  BY DEF AskFails, ReceiveNothing, Persist
<1>2. \/ stored' = stored /\ faults' = faults /\ pc[p] # "handling"
      \/ stored' = offset[p] /\ faults' = faults
      \/ stored' = stored /\ faults' = faults + 1
  BY DEF AskFails, ReceiveNothing, Persist, Fault
<1>3. Forward'
  BY <1>1 DEF RInv, Forward, TypeOK, Loop
<1>4. \A u \in Updates : Paid(u)'
  BY <1>1, <1>2, LoopPaid
<1> QED BY <1>3, <1>4 DEF RInv

\* The next update leaves the debts of its poller, and becomes a handling.
LEMMA HandleRInv == ASSUME TypeOK, TypeOK', RInv, NEW p \in Pollers, Handle(p) PROVE RInv'
<1> DEFINE n == from[p]
<1>1. /\ pc[p] = "handling" /\ n \in Updates /\ offset[p] <= n
      /\ offset' = [offset EXCEPT ![p] = n + 1]
      /\ from' = [from EXCEPT ![p] = n + 1]
      /\ handled' = [handled EXCEPT ![n] = handled[n] + 1]
      /\ UNCHANGED <<pc, stored, faults>>
  BY DEF Handle, TypeOK, RInv, Forward, After, Updates
<1>2. Forward'
  <2> SUFFICES ASSUME NEW q \in Pollers, pc'[q] \in {"asked", "handling"}
               PROVE  offset'[q] <= from'[q]
    BY DEF Forward
  <2>1. CASE q = p BY <2>1, <1>1 DEF TypeOK, Updates
  <2>2. CASE q # p BY <2>2, <1>1 DEF TypeOK, RInv, Forward
  <2> QED BY <2>1, <2>2
<1>3. ASSUME NEW u \in Updates PROVE Paid(u)'
  <2>0. Paid(u) BY DEF RInv
  <2>1. Running' = Running /\ p \in Running BY <1>1 DEF Running
  <2>2. /\ n \in Int /\ u \in Int /\ offset[p] \in Int /\ offset'[p] = n + 1
        /\ \A q \in Running : offset[q] \in Int /\ (q # p => offset'[q] = offset[q])
    BY <1>1 DEF TypeOK, Updates, Running
  <2>3. /\ Cardinality(Behind(u)) \in Nat
        /\ handled[u] \in Nat /\ faults \in Nat
    BY <2>0, PaidTyped
  <2>4. Due(u) = 0 /\ Due(u)' = 0
    BY <2>1, <1>1 DEF Due
  <2>5. CASE u < n
    <3>1. handled'[u] = handled[u] BY <2>5, <2>2, <1>1 DEF TypeOK
    <3>2. Behind(u)' = Behind(u) \ {p} BY <2>1, <2>2, <2>5 DEF Behind
    <3>3. /\ IsFiniteSet(Behind(u)')
          /\ Cardinality(Behind(u)') <= Cardinality(Behind(u))
      BY <3>2, <2>0, FS_RemoveElement, <2>3 DEF Paid
    <3>4. Cardinality(Behind(u)') \in Nat BY <3>3, FS_CardinalityType
    <3> QED BY <3>1, <3>3, <3>4, <2>0, <2>3, <2>4, <1>1, StillPaid
  <2>6. CASE u = n
    <3>1. handled'[u] = handled[u] + 1 BY <2>6, <1>1 DEF TypeOK
    <3>2. p \in Behind(u) /\ Behind(u)' = Behind(u) \ {p}
      BY <2>1, <2>2, <2>6, <1>1 DEF Behind
    <3>3. /\ IsFiniteSet(Behind(u)')
          /\ Cardinality(Behind(u)') = Cardinality(Behind(u)) - 1
      BY <3>2, <2>0, LeavesBehind
    <3> QED BY <3>1, <3>3, <2>0, <2>3, <2>4, <1>1, StillPaid
  <2>7. CASE u > n
    <3>1. handled'[u] = handled[u] BY <2>7, <2>2, <1>1 DEF TypeOK
    <3>2. Behind(u)' = Behind(u) BY <2>1, <2>2, <2>7, <1>1 DEF Behind
    <3>3. IsFiniteSet(Behind(u)') BY <3>2, <2>0 DEF Paid
    <3> QED BY <3>1, <3>2, <3>3, <2>0, <2>3, <2>4, <1>1, StillPaid
  <2> QED BY <2>2, <2>5, <2>6, <2>7
<1> QED BY <1>2, <1>3 DEF RInv

\* The end of the process leaves every debt to the stored offset.
LEMMA RestartRInv == ASSUME TypeOK, TypeOK', RInv, Restart PROVE RInv'
<1>1. Forward' BY DEF Restart, Forward
<1>2. ASSUME NEW u \in Updates PROVE Paid(u)'
  <2>0. Paid(u) BY DEF RInv
  <2>1. Behind(u)' = {} BY DEF Restart, Behind, Running
  <2>2. IsFiniteSet(Behind(u)') /\ Cardinality(Behind(u)') = 0 BY <2>1, FS_EmptySet
  <2>3. /\ Cardinality(Behind(u)) \in Nat
        /\ handled[u] \in Nat /\ faults \in Nat
        /\ Due(u) \in {0, 1} /\ Due(u)' \in {0, 1}
    BY <2>0, PaidTyped DEF Due
  <2>4. handled' = handled /\ faults' = faults + 1 BY DEF Restart, Fault
  <2> QED BY <2>0, <2>2, <2>3, <2>4, StillPaid
<1> QED BY <1>1, <1>2 DEF RInv

LEMMA NextRInv == TypeOK /\ TypeOK' /\ RInv /\ [Next]_vars => RInv'
<1> SUFFICES ASSUME TypeOK, TypeOK', RInv, [Next]_vars PROVE RInv'
  OBVIOUS
<1>1. CASE Arrive \/ Switch \/ UNCHANGED vars
  <2>1. UNCHANGED <<pc, offset, from, stored, handled, faults>>
    BY <1>1 DEF Arrive, Switch, pollVars, vars
  <2>2. Forward' BY <2>1 DEF RInv, Forward
  <2>3. \A u \in Updates : Paid(u)' BY <2>1, SameDebts
  <2> QED BY <2>2, <2>3 DEF RInv
<1>2. CASE Restart BY <1>2, RestartRInv
<1>3. ASSUME NEW p \in Pollers, StartPoll(p) PROVE RInv' BY <1>3, StartPollRInv
<1>4. ASSUME NEW p \in Pollers, Serve(p) PROVE RInv' BY <1>4, ServeRInv
<1>5. ASSUME NEW p \in Pollers, Receive(p) PROVE RInv' BY <1>5, ReceiveRInv
<1>6. ASSUME NEW p \in Pollers, Handle(p) PROVE RInv' BY <1>6, HandleRInv
<1>7. ASSUME NEW p \in Pollers, AskFails(p) \/ ReceiveNothing(p) \/ Persist(p)
      PROVE  RInv'
  BY <1>7, LoopRInv
<1> QED BY <1>1, <1>2, <1>3, <1>4, <1>5, <1>6, <1>7 DEF Next

\* Nothing is handled twice without a cause: an end of the process, a lost write
\* of the offset or a poller that overlaps its successor pays for each repetition.
THEOREM RepeatsPaid == Spec => []RepeatsExplained
<1>1. IInv => TypeOK BY DEF IInv
<1>2. TypeOK /\ RInv => RepeatsExplained
  <2> SUFFICES ASSUME TypeOK, RInv, NEW u \in Updates PROVE handled[u] <= 1 + faults
    BY DEF RepeatsExplained
  <2>1. Paid(u) BY DEF RInv
  <2> QED BY <2>1, PaidTyped DEF Paid
<1> QED BY Inductive, <1>1, <1>2, InitRInv, NextRInv, PTL DEF Spec
=============================================================================
