-------------------------- MODULE MaxIngestProofs --------------------------
(***************************************************************************)
(* Theorems of MaxIngest: no command is handled twice, what is lost was     *)
(* drained or ended with the process, and only stopped pollers are         *)
(* overtaken, for any number of goroutines, restarts and switches.         *)
(***************************************************************************)
EXTENDS MaxIngest, TLAPS

\* A goroutine is between the request and the answer: it has the mutex.
Asking(g) == pc[g] \in {"draining", "asked"}

\* An update that was handled, or that a goroutine is about to handle.
Known(u) == handled[u] > 0 \/ \E g \in Gens : u \in Batch(g)

OneAsks == \A g, h \in Gens : Asking(g) /\ Asking(h) => g = h

\* Without a marker the process has done nothing but connect.
Fresh ==
    marker = NoMarker => \A g \in Gens : pc[g] \in {"off", "connecting", "draining"}

\* The marker is past everything known.
MarkerAhead == marker # NoMarker => \A u \in Updates : Known(u) => u <= marker

\* An answer under way starts after the marker; one without a marker reaches
\* past everything known, so that Drain drops it all.
AnswerAhead ==
    \A g \in Gens : Asking(g) =>
        /\ last[g] <= arrived
        /\ marker # NoMarker => from[g] = marker + 1 /\ marker <= last[g]
        /\ marker = NoMarker => \A u \in Updates : Known(u) => u <= last[g]

\* Nothing is known, asked for or answered that has not arrived.
Arrived ==
    /\ marker <= arrived /\ given <= arrived
    /\ \A u \in Updates : Known(u) => u <= arrived

\* The batches are disjoint.
OneHolder ==
    \A g, h \in Gens, u \in Updates : u \in Batch(g) /\ u \in Batch(h) => g = h

Safety ==
    OneAsks /\ Fresh /\ MarkerAhead /\ AnswerAhead /\ Arrived /\ OneHolder /\ AtMostOnce

IInv == TypeOK /\ Safety

USE BoundsAssumption

-----------------------------------------------------------------------------
(* What the steps have in common.                                          *)

\* A batch is a set of updates.
LEMMA BatchTyped == ASSUME TypeOK, NEW g \in Gens PROVE Batch(g) \subseteq Updates
  BY DEF TypeOK, Batch, Updates

\* A step that handles nothing and receives no batch keeps the counts right, and
\* nothing becomes known.
LEMMA Quiet ==
    ASSUME IInv, handled' = handled, \A g \in Gens : Batch(g)' \subseteq Batch(g)
    PROVE  /\ OneHolder' /\ AtMostOnce'
           /\ \A u \in Updates : Known(u)' => Known(u)
  BY DEF IInv, Safety, OneHolder, AtMostOnce, Known

\* A step after which each goroutine handles what it did.
LEMMA SameBatches ==
    ASSUME \A g \in Gens : (pc'[g] = "handling") => (pc[g] = "handling"),
           from' = from, last' = last
    PROVE  \A g \in Gens : Batch(g)' \subseteq Batch(g)
  BY DEF Batch

\* Where a goroutine goes when it does not go to handle a batch.
LEMMA GoTo ==
    ASSUME TypeOK, NEW g \in Gens, NEW to \in {"connecting", "polling"}, Go(g, to)
    PROVE  /\ pc' \in [Gens -> {"off", "connecting", "draining", "polling", "asked", "handling"}]
           /\ stopped' \subseteq Gens
           /\ pc'[g] \in {"off", to}
           /\ \A h \in Gens \ {g} : pc'[h] = pc[h]
  BY DEF TypeOK, Go

\* Steps of one goroutine that change neither marker, answers nor counts, and do
\* not ask: AskFails and BatchDone.
LEMMA Retreat ==
    ASSUME IInv, NEW g \in Gens, NEW to \in {"connecting", "polling"}, Go(g, to),
           to = "polling" => marker # NoMarker,
           UNCHANGED <<arrived, given, marker, from, last, handled, skipped>>,
           UNCHANGED <<on, start, switches, restarts>>
    PROVE  IInv'
<1>1. /\ pc' \in [Gens -> {"off", "connecting", "draining", "polling", "asked", "handling"}]
      /\ stopped' \subseteq Gens
      /\ pc'[g] \in {"off", to}
      /\ \A h \in Gens \ {g} : pc'[h] = pc[h]
  BY GoTo DEF IInv
<1>2. TypeOK'
  BY <1>1 DEF IInv, TypeOK
<1>3. \A h \in Gens : Batch(h)' \subseteq Batch(h)
  BY <1>1, SameBatches
<1>4. OneHolder' /\ AtMostOnce' /\ \A u \in Updates : Known(u)' => Known(u)
  BY <1>3, Quiet
<1>5. \A h \in Gens : Asking(h)' => Asking(h)
  BY <1>1 DEF Asking
<1>6. OneAsks' /\ Fresh'
  BY <1>1, <1>5 DEF IInv, Safety, OneAsks, Fresh
<1>7. MarkerAhead' /\ Arrived'
  BY <1>4 DEF IInv, Safety, MarkerAhead, Arrived
<1>8. AnswerAhead'
  BY <1>4, <1>5 DEF IInv, Safety, AnswerAhead
<1> QED
  BY <1>2, <1>4, <1>6, <1>7, <1>8 DEF IInv, Safety

-----------------------------------------------------------------------------
(* Steps that handle nothing.                                              *)

LEMMA InitIInv == Init => IInv
<1> SUFFICES ASSUME Init PROVE IInv
  OBVIOUS
<1>1. TypeOK BY DEF Init, TypeOK, NoMarker, Updates
<1>2. \A g \in Gens : pc[g] = "off" BY DEF Init
<1>3. \A u \in Updates : handled[u] = 0 /\ ~Known(u)
  BY <1>2 DEF Init, Known, Batch
<1>4. OneAsks /\ Fresh /\ MarkerAhead /\ AnswerAhead
  BY <1>2, <1>3 DEF OneAsks, Fresh, MarkerAhead, AnswerAhead, Asking
<1>5. Arrived
  BY <1>3 DEF Init, Arrived, NoMarker
<1>6. OneHolder /\ AtMostOnce
  BY <1>2, <1>3 DEF OneHolder, AtMostOnce, Batch
<1> QED BY <1>1, <1>4, <1>5, <1>6 DEF IInv, Safety

LEMMA ArriveIInv == ASSUME IInv, Arrive PROVE IInv'
<1>1. TypeOK' BY DEF IInv, TypeOK, Arrive
<1>2. \A g \in Gens : Batch(g)' \subseteq Batch(g) BY DEF Arrive, Batch
<1>3. OneHolder' /\ AtMostOnce' /\ \A u \in Updates : Known(u)' => Known(u)
  BY <1>2, Quiet DEF Arrive
<1>4. OneAsks' /\ Fresh' /\ MarkerAhead'
  BY <1>3 DEF Arrive, IInv, Safety, OneAsks, Fresh, MarkerAhead, Asking
<1>5. AnswerAhead'
  BY <1>3 DEF Arrive, IInv, TypeOK, Safety, AnswerAhead, Asking
<1>6. Arrived'
  BY <1>3 DEF Arrive, IInv, TypeOK, NoMarker, Updates, Safety, Arrived
<1> QED BY <1>1, <1>3, <1>4, <1>5, <1>6 DEF IInv, Safety

LEMMA StartIInv == ASSUME IInv, NEW g \in Gens, Start(g) PROVE IInv'
<1>1. TypeOK' BY DEF IInv, TypeOK, Start
<1>2. pc'[g] = "connecting" /\ \A h \in Gens \ {g} : pc'[h] = pc[h]
  BY DEF IInv, TypeOK, Start
<1>3. \A h \in Gens : Batch(h)' \subseteq Batch(h)
  BY <1>2, SameBatches DEF Start
<1>4. OneHolder' /\ AtMostOnce' /\ \A u \in Updates : Known(u)' => Known(u)
  BY <1>3, Quiet DEF Start
<1>5. \A h \in Gens : Asking(h)' => Asking(h)
  BY <1>2 DEF Asking
<1>6. OneAsks' /\ Fresh'
  BY <1>2, <1>5 DEF Start, IInv, Safety, OneAsks, Fresh
<1>7. MarkerAhead' /\ Arrived' /\ AnswerAhead'
  BY <1>4, <1>5 DEF Start, IInv, Safety, MarkerAhead, Arrived, AnswerAhead
<1> QED BY <1>1, <1>4, <1>6, <1>7 DEF IInv, Safety

LEMMA SwitchIInv == ASSUME IInv, Switch PROVE IInv'
<1>1. TypeOK' BY DEF IInv, TypeOK, Switch, Running
<1>2. \A g \in Gens : Batch(g)' \subseteq Batch(g) BY DEF Switch, Batch
<1>3. OneHolder' /\ AtMostOnce' /\ \A u \in Updates : Known(u)' => Known(u)
  BY <1>2, Quiet DEF Switch
<1>4. OneAsks' /\ Fresh' /\ MarkerAhead' /\ AnswerAhead' /\ Arrived'
  BY <1>3 DEF Switch, IInv, Safety, OneAsks, Fresh, MarkerAhead, AnswerAhead, Arrived, Asking
<1> QED BY <1>1, <1>3, <1>4 DEF IInv, Safety

LEMMA AskFailsIInv == ASSUME IInv, NEW g \in Gens, AskFails(g) PROVE IInv'
<1>1. CASE pc[g] \in {"connecting", "draining"} /\ Go(g, "connecting")
  BY <1>1, Retreat DEF AskFails
<1>2. CASE pc[g] \in {"polling", "asked"} /\ Go(g, "polling")
  <2>1. marker # NoMarker BY <1>2 DEF IInv, Safety, Fresh
  <2> QED BY <1>2, <2>1, Retreat DEF AskFails
<1> QED BY <1>1, <1>2 DEF AskFails

LEMMA BatchDoneIInv == ASSUME IInv, NEW g \in Gens, BatchDone(g) PROVE IInv'
<1>1. marker # NoMarker BY DEF IInv, Safety, Fresh, BatchDone
<1> QED BY <1>1, Retreat DEF BatchDone

LEMMA RestartIInv == ASSUME IInv, Restart PROVE IInv'
<1>1. TypeOK' BY BatchTyped DEF IInv, TypeOK, Restart, NoMarker
<1>2. \A g \in Gens : pc'[g] = "off" BY DEF Restart
<1>3. \A g \in Gens : Batch(g)' \subseteq Batch(g) BY <1>2 DEF Batch
<1>4. OneHolder' /\ AtMostOnce' /\ \A u \in Updates : Known(u)' => Known(u)
  BY <1>3, Quiet DEF Restart
<1>5. OneAsks' /\ Fresh' /\ MarkerAhead' /\ AnswerAhead'
  BY <1>2 DEF Restart, OneAsks, Fresh, MarkerAhead, AnswerAhead, Asking
<1>6. Arrived'
  BY <1>4 DEF Restart, IInv, TypeOK, NoMarker, Safety, Arrived
<1> QED BY <1>1, <1>4, <1>5, <1>6 DEF IInv, Safety

-----------------------------------------------------------------------------
(* The request and its answers.                                            *)

LEMMA AskIInv == ASSUME IInv, NEW g \in Gens, Ask(g) PROVE IInv'
<1>1. /\ pc'[g] \in {"draining", "asked"}
      /\ (marker = NoMarker => pc'[g] = "draining")
      /\ \A h \in Gens \ {g} : pc'[h] = pc[h] /\ from'[h] = from[h] /\ last'[h] = last[h]
      /\ last'[g] = arrived
      /\ from'[g] = (IF marker = NoMarker THEN given ELSE marker) + 1
  BY DEF IInv, TypeOK, Safety, Fresh, Ask
<1>2. given' \in 0 .. MaxUpdates /\ given' <= arrived
  BY DEF IInv, TypeOK, NoMarker, Safety, Arrived, Ask
<1>3. from'[g] \in 1 .. MaxUpdates + 1
  BY <1>1 DEF IInv, TypeOK, NoMarker
<1>4. TypeOK' BY <1>1, <1>2, <1>3 DEF IInv, TypeOK, Ask
<1>5. \A h \in Gens : Batch(h)' \subseteq Batch(h)
  BY <1>1 DEF Batch
<1>6. OneHolder' /\ AtMostOnce' /\ \A u \in Updates : Known(u)' => Known(u)
  BY <1>5, Quiet DEF Ask
<1>7. \A h \in Gens : Asking(h)' => h = g
  BY <1>1 DEF Ask, MutexFree, Asking
<1>8. OneAsks' BY <1>7 DEF OneAsks
<1>9. Fresh' /\ MarkerAhead'
  BY <1>1, <1>6 DEF Ask, IInv, Safety, Fresh, MarkerAhead
<1>10. AnswerAhead'
  BY <1>1, <1>6, <1>7 DEF Ask, IInv, TypeOK, Safety, Arrived, AnswerAhead
<1>11. Arrived'
  BY <1>2, <1>6 DEF Ask, IInv, Safety, Arrived
<1> QED BY <1>4, <1>6, <1>8, <1>9, <1>10, <1>11 DEF IInv, Safety

\* The answer's end is past everything known, with a marker or without.
LEMMA AnswerIsAhead ==
    ASSUME IInv, NEW g \in Gens, Asking(g)
    PROVE  /\ last[g] \in 0 .. MaxUpdates /\ last[g] <= arrived /\ last[g] # NoMarker
           /\ \A u \in Updates : Known(u) => u <= last[g]
           /\ \A h \in Gens \ {g} : ~Asking(h)
<1>1. last[g] \in 0 .. MaxUpdates /\ last[g] # NoMarker BY DEF IInv, TypeOK, NoMarker
<1>2. last[g] <= arrived /\ \A h \in Gens \ {g} : ~Asking(h)
  BY DEF IInv, Safety, AnswerAhead, OneAsks
<1>3. CASE marker = NoMarker
  BY <1>1, <1>2, <1>3 DEF IInv, Safety, AnswerAhead
<1>4. CASE marker # NoMarker
  <2>1. marker <= last[g] /\ \A u \in Updates : Known(u) => u <= marker
    BY <1>4 DEF IInv, Safety, AnswerAhead, MarkerAhead
  <2>2. marker \in Int BY DEF IInv, TypeOK, NoMarker
  <2> QED BY <1>1, <1>2, <2>1, <2>2 DEF Updates
<1> QED BY <1>3, <1>4

LEMMA DrainedIInv == ASSUME IInv, NEW g \in Gens, Drained(g) PROVE IInv'
<1>1. /\ pc' \in [Gens -> {"off", "connecting", "draining", "polling", "asked", "handling"}]
      /\ stopped' \subseteq Gens
      /\ pc'[g] \in {"off", "polling"}
      /\ \A h \in Gens \ {g} : pc'[h] = pc[h]
  BY GoTo DEF IInv, Drained
<1>2. /\ last[g] \in 0 .. MaxUpdates /\ last[g] <= arrived /\ last[g] # NoMarker
      /\ \A u \in Updates : Known(u) => u <= last[g]
      /\ \A h \in Gens \ {g} : ~Asking(h)
  BY AnswerIsAhead DEF Drained, Asking
<1>3. skipped' \subseteq Updates
  <2>1. from[g] \in 1 .. MaxUpdates + 1 /\ skipped \subseteq Updates
    BY DEF IInv, TypeOK
  <2>2. from[g] .. last[g] \subseteq Updates
    BY <1>2, <2>1 DEF Updates
  <2> QED
    BY <2>1, <2>2 DEF Drained
<1>4. TypeOK'
  BY <1>1, <1>2, <1>3 DEF IInv, TypeOK, NoMarker, Drained
<1>5. \A h \in Gens : Batch(h)' \subseteq Batch(h)
  BY <1>1, SameBatches DEF Drained
<1>6. OneHolder' /\ AtMostOnce' /\ \A u \in Updates : Known(u)' => Known(u)
  BY <1>5, Quiet DEF Drained
<1>7. \A h \in Gens : ~Asking(h)'
  BY <1>1, <1>2 DEF Asking
<1>8. OneAsks' /\ Fresh' /\ AnswerAhead'
  BY <1>2, <1>7 DEF Drained, OneAsks, Fresh, AnswerAhead
<1>9. MarkerAhead' /\ Arrived'
  BY <1>2, <1>6 DEF Drained, IInv, Safety, MarkerAhead, Arrived
<1> QED BY <1>4, <1>6, <1>8, <1>9 DEF IInv, Safety

LEMMA ReceiveIInv == ASSUME IInv, NEW g \in Gens, Receive(g) PROVE IInv'
<1> DEFINE answer == from[g] .. last[g]
<1>1. /\ pc' \in [Gens -> {"off", "connecting", "draining", "polling", "asked", "handling"}]
      /\ stopped' \subseteq Gens
      /\ pc'[g] \in {"off", "polling", "handling"}
      /\ \A h \in Gens \ {g} : pc'[h] = pc[h]
  <2>1. CASE from[g] > last[g]
    BY <2>1, GoTo DEF IInv, Receive
  <2>2. CASE ~(from[g] > last[g])
    BY <2>2 DEF IInv, TypeOK, Receive
  <2> QED BY <2>1, <2>2
<1>2. /\ last[g] \in 0 .. MaxUpdates /\ last[g] <= arrived /\ last[g] # NoMarker
      /\ \A u \in Updates : Known(u) => u <= last[g]
      /\ \A h \in Gens \ {g} : ~Asking(h)
  BY AnswerIsAhead DEF Receive, Asking
<1>3. marker # NoMarker /\ marker \in Int /\ from[g] = marker + 1
  BY DEF IInv, TypeOK, NoMarker, Safety, Fresh, AnswerAhead, Asking, Receive
<1>4. TypeOK'
  BY <1>1, <1>2 DEF IInv, TypeOK, NoMarker, Receive
<1>5. Batch(g)' \subseteq answer /\ \A h \in Gens \ {g} : Batch(h)' = Batch(h)
  BY <1>1 DEF Receive, Batch
<1>6. \A u \in Updates : u \in answer => ~Known(u)
  BY <1>3 DEF IInv, Safety, MarkerAhead, Updates
<1>7. \A u \in Updates : Known(u)' => Known(u) \/ u \in answer
  BY <1>5 DEF Known, Receive
<1>8. \A u \in Updates : Known(u)' => u <= last[g]
  BY <1>2, <1>3, <1>7 DEF Updates
<1>9. OneAsks' /\ Fresh' /\ AnswerAhead'
  <2>1. \A h \in Gens : ~Asking(h)' BY <1>1, <1>2 DEF Asking
  <2> QED BY <1>2, <2>1 DEF Receive, OneAsks, Fresh, AnswerAhead
<1>10. MarkerAhead' BY <1>8 DEF Receive, MarkerAhead
<1>11. Arrived'
  BY <1>2, <1>8 DEF Receive, IInv, TypeOK, Safety, Arrived, Updates
<1>12. OneHolder'
  BY <1>5, <1>6 DEF IInv, Safety, OneHolder, Known
<1>13. AtMostOnce'
  <2> SUFFICES ASSUME NEW u \in Updates
               PROVE  handled'[u] = 0 \/ (handled'[u] = 1 /\ ~\E h \in Gens : u \in Batch(h)')
    BY DEF AtMostOnce
  <2>1. handled' = handled BY DEF Receive
  <2>2. CASE u \in answer
    BY <2>1, <2>2, <1>6 DEF IInv, TypeOK, Known
  <2>3. CASE u \notin answer
    BY <2>1, <2>3, <1>5 DEF IInv, Safety, AtMostOnce
  <2> QED BY <2>2, <2>3
<1> QED BY <1>4, <1>9, <1>10, <1>11, <1>12, <1>13 DEF IInv, Safety

-----------------------------------------------------------------------------
(* Handle: the update leaves the only batch that held it.                  *)

LEMMA HandleIInv == ASSUME IInv, NEW g \in Gens, Handle(g) PROVE IInv'
<1> DEFINE u == from[g]
<1>1. /\ u \in Updates /\ u \in Batch(g)
      /\ from' = [from EXCEPT ![g] = u + 1]
      /\ handled' = [handled EXCEPT ![u] = handled[u] + 1]
  BY DEF IInv, TypeOK, Handle, Updates, Batch
<1>2. TypeOK'
  <2>1. from[g] \in Int /\ last[g] \in 0 .. MaxUpdates /\ from[g] <= last[g]
    BY DEF IInv, TypeOK, Handle
  <2>2. u + 1 \in 1 .. MaxUpdates + 1
    BY <1>1, <2>1 DEF Updates
  <2>3. from' \in [Gens -> 1 .. MaxUpdates + 1]
    BY <1>1, <2>2 DEF IInv, TypeOK
  <2>4. handled[u] + 1 \in Nat
    BY <1>1 DEF IInv, TypeOK
  <2>5. handled' \in [Updates -> Nat]
    BY <1>1, <2>4 DEF IInv, TypeOK
  <2> QED BY <2>3, <2>5 DEF IInv, TypeOK, Handle
<1>3. /\ Batch(g)' \subseteq Batch(g) \ {u}
      /\ \A h \in Gens \ {g} : Batch(h)' = Batch(h)
  BY <1>1 DEF IInv, TypeOK, Handle, Batch
<1>4. \A h \in Gens : u \in Batch(h) => h = g
  BY <1>1 DEF IInv, Safety, OneHolder
<1>5. \A h \in Gens : u \notin Batch(h)' /\ Batch(h)' \subseteq Batch(h)
  BY <1>3, <1>4
<1>6. \A v \in Updates : Known(v)' => Known(v)
  <2> SUFFICES ASSUME NEW v \in Updates, Known(v)' PROVE Known(v)
    OBVIOUS
  <2>1. CASE v = u BY <2>1, <1>1 DEF Known
  <2>2. CASE v # u BY <2>2, <1>1, <1>5 DEF IInv, TypeOK, Known
  <2> QED BY <2>1, <2>2
<1>7. OneHolder' BY <1>5 DEF IInv, Safety, OneHolder
<1>8. AtMostOnce'
  <2> SUFFICES ASSUME NEW v \in Updates
               PROVE  handled'[v] = 0 \/ (handled'[v] = 1 /\ ~\E h \in Gens : v \in Batch(h)')
    BY DEF AtMostOnce
  <2>1. CASE v = u
    <3>1. handled[u] = 0 BY <1>1 DEF IInv, Safety, AtMostOnce
    <3> QED BY <2>1, <3>1, <1>1, <1>5 DEF IInv, TypeOK
  <2>2. CASE v # u
    <3>1. handled'[v] = handled[v] BY <2>2, <1>1 DEF IInv, TypeOK
    <3> QED BY <3>1, <1>5 DEF IInv, Safety, AtMostOnce
  <2> QED BY <2>1, <2>2
<1>9. OneAsks' /\ Fresh' BY DEF Handle, IInv, Safety, OneAsks, Fresh, Asking
<1>10. MarkerAhead' /\ Arrived'
  BY <1>6 DEF Handle, IInv, Safety, MarkerAhead, Arrived
<1>11. AnswerAhead'
  BY <1>1, <1>6 DEF Handle, IInv, TypeOK, Safety, AnswerAhead, Asking
<1> QED BY <1>2, <1>7, <1>8, <1>9, <1>10, <1>11 DEF IInv, Safety

-----------------------------------------------------------------------------
LEMMA NextIInv == IInv /\ [Next]_vars => IInv'
<1> SUFFICES ASSUME IInv, [Next]_vars PROVE IInv'
  OBVIOUS
<1>1. CASE Arrive BY <1>1, ArriveIInv
<1>2. CASE Switch BY <1>2, SwitchIInv
<1>3. CASE Restart BY <1>3, RestartIInv
<1>4. ASSUME NEW g \in Gens, Start(g) PROVE IInv' BY <1>4, StartIInv
<1>5. ASSUME NEW g \in Gens, Ask(g) PROVE IInv' BY <1>5, AskIInv
<1>6. ASSUME NEW g \in Gens, AskFails(g) PROVE IInv' BY <1>6, AskFailsIInv
<1>7. ASSUME NEW g \in Gens, Drained(g) PROVE IInv' BY <1>7, DrainedIInv
<1>8. ASSUME NEW g \in Gens, Receive(g) PROVE IInv' BY <1>8, ReceiveIInv
<1>9. ASSUME NEW g \in Gens, Handle(g) PROVE IInv' BY <1>9, HandleIInv
<1>10. ASSUME NEW g \in Gens, BatchDone(g) PROVE IInv' BY <1>10, BatchDoneIInv
<1>11. CASE UNCHANGED vars
  BY <1>11 DEF vars, IInv, TypeOK, Safety, OneAsks, Fresh, MarkerAhead, AnswerAhead,
     Arrived, OneHolder, AtMostOnce, Asking, Known, Batch
<1> QED
  BY <1>1, <1>2, <1>3, <1>4, <1>5, <1>6, <1>7, <1>8, <1>9, <1>10, <1>11 DEF Next

LEMMA Inductive == Spec => []IInv
  BY InitIInv, NextIInv, PTL DEF Spec

\* Type correctness: markers, batches and counts stay in their ranges.
THEOREM Typed == Spec => []TypeOK
<1>1. IInv => TypeOK BY DEF IInv
<1> QED BY Inductive, <1>1, PTL

\* pollMAX handles no update twice, whatever restarts, switches and lost answers
\* come between, although the marker is only in memory.
THEOREM Once == Spec => []AtMostOnce
<1>1. IInv => AtMostOnce BY DEF IInv, Safety
<1> QED BY Inductive, <1>1, PTL

-----------------------------------------------------------------------------
(* Losses and order.  The marker, and every answer, begins where everything *)
(* is accounted for.  At most one goroutine is not stopped; what it was     *)
(* given comes after the batches of those that are, because they asked      *)
(* before it connected.                                                     *)

Accounted(u) == handled[u] > 0 \/ u \in skipped \/ \E g \in Gens : u \in Batch(g)

NothingLost ==
    /\ \A u \in Updates : u <= marker \/ u <= given => Accounted(u)
    /\ \A g \in Gens : Asking(g) => \A u \in Updates : u < from[g] => Accounted(u)

Live(g) == pc[g] # "off" /\ g \notin stopped

OneLive == \A g, h \in Gens : Live(g) /\ Live(h) => g = h

\* While a stopped goroutine waits for an answer, its successor has none.
LiveLast ==
    \A g, h \in Gens :
        g # h /\ Live(h) =>
            /\ Asking(g) => pc[h] = "connecting"
            /\ \A v \in Batch(g), u \in Batch(h) : v < u

LInv == stopped \subseteq Running /\ OneLive /\ NothingLost /\ LiveLast /\ OvertakesStopped

\* A step that handles nothing and takes nothing from a batch keeps accounts, and
\* what was overtaken is still with a stopped goroutine.
LEMMA KeepsAccounts ==
    ASSUME TypeOK, OvertakesStopped, handled' = handled, skipped \subseteq skipped',
           \A h \in Gens : Batch(h) \subseteq Batch(h)',
           \A h \in stopped : h \in stopped' \/ Batch(h) = {}
    PROVE  /\ OvertakesStopped'
           /\ \A u \in Updates : Accounted(u) => Accounted(u)'
<1>1. \A u \in Updates : Accounted(u) => Accounted(u)'
  BY DEF Accounted
<1>2. stopped \subseteq Gens BY DEF TypeOK
<1>3. \A u \in Updates :
          (\E g \in stopped : u \in Batch(g)) => \E g \in stopped' : u \in Batch(g)'
  BY <1>2
<1>4. OvertakesStopped' BY <1>3 DEF OvertakesStopped
<1> QED BY <1>1, <1>4

\* Neither the marker nor an answer moves.
LEMMA KeepsAnswers ==
    ASSUME NothingLost, \A u \in Updates : Accounted(u) => Accounted(u)',
           marker' = marker, given' = given, from' = from,
           \A h \in Gens : Asking(h)' => Asking(h)
    PROVE  NothingLost'
  BY DEF NothingLost

\* The end of an iteration or of a request.
LEMMA GoKeeps ==
    ASSUME IInv, LInv, NEW g \in Gens, NEW to \in {"connecting", "polling"}, Go(g, to),
           pc[g] # "off", pc[g] = "connecting" => to = "connecting", Batch(g) = {},
           UNCHANGED <<from, last, handled>>, skipped \subseteq skipped'
    PROVE  /\ stopped' \subseteq Running' /\ OneLive' /\ LiveLast' /\ OvertakesStopped'
           /\ \A u \in Updates : Accounted(u) => Accounted(u)'
           /\ \A h \in Gens : Asking(h)' => Asking(h) /\ h # g
<1>1. /\ pc'[g] \in {"off", to}
      /\ \A h \in Gens \ {g} : pc'[h] = pc[h]
  BY GoTo DEF IInv
<1>2. stopped' = stopped \ {g} /\ (pc'[g] = "off" <=> g \in stopped)
  BY DEF Go, IInv, TypeOK
<1>3. \A h \in Gens : Batch(h)' = Batch(h)
  <2>1. Batch(g)' = {} BY <1>1 DEF Batch
  <2> QED BY <1>1, <2>1 DEF Batch
<1>4. \A h \in Gens : Live(h)' => Live(h)
  BY <1>1, <1>2 DEF Live
<1>5. \A h \in Gens : Asking(h)' => Asking(h) /\ h # g
  BY <1>1 DEF Asking
<1>6. stopped' \subseteq Running'
  BY <1>1, <1>2 DEF LInv, Running
<1>7. OneLive' BY <1>4 DEF LInv, OneLive
<1>8. LiveLast'
  <2> SUFFICES ASSUME NEW a \in Gens, NEW h \in Gens, a # h, Live(h)'
               PROVE  /\ Asking(a)' => pc'[h] = "connecting"
                      /\ \A v \in Batch(a)', u \in Batch(h)' : v < u
    BY DEF LiveLast
  <2>1. Live(h) BY <1>4
  <2>2. Asking(a)' => pc'[h] = "connecting"
    <3>1. Asking(a) => pc[h] = "connecting" BY <2>1 DEF LInv, LiveLast
    <3>2. pc'[h] # "off" BY DEF Live
    <3> QED BY <3>1, <3>2, <1>1, <1>5
  <2>3. \A v \in Batch(a)', u \in Batch(h)' : v < u
    BY <2>1, <1>3 DEF LInv, LiveLast
  <2> QED BY <2>2, <2>3
<1>9. OvertakesStopped' /\ \A u \in Updates : Accounted(u) => Accounted(u)'
  BY <1>2, <1>3, KeepsAccounts DEF IInv, LInv
<1> QED BY <1>5, <1>6, <1>7, <1>8, <1>9

-----------------------------------------------------------------------------
LEMMA InitLInv == Init => LInv
<1> SUFFICES ASSUME Init PROVE LInv
  OBVIOUS
<1>1. \A g \in Gens : pc[g] = "off" BY DEF Init
<1>2. stopped \subseteq Running /\ OneLive /\ LiveLast
  BY <1>1 DEF Init, OneLive, LiveLast, Live
<1>3. NothingLost
  BY <1>1 DEF Init, NothingLost, Asking, Updates, NoMarker
<1>4. OvertakesStopped BY DEF Init, OvertakesStopped
<1> QED BY <1>2, <1>3, <1>4 DEF LInv

LEMMA ArriveLInv == ASSUME IInv, LInv, Arrive PROVE LInv'
<1>1. UNCHANGED <<given, marker, pc, from, last, stopped, handled, skipped>>
  BY DEF Arrive
<1> QED
  BY <1>1 DEF LInv, Running, OneLive, NothingLost, LiveLast, OvertakesStopped, Live,
     Asking, Accounted, Batch

\* The new goroutine has no batch, and all others are stopped.
LEMMA StartLInv == ASSUME IInv, LInv, NEW g \in Gens, Start(g) PROVE LInv'
<1>1. /\ pc[g] = "off" /\ pc'[g] = "connecting" /\ \A h \in Gens \ {g} : pc'[h] = pc[h]
      /\ Running \subseteq stopped
      /\ UNCHANGED <<given, marker, from, last, stopped, handled, skipped>>
  BY DEF IInv, TypeOK, Start, Running
<1>2. \A h \in Gens : Live(h)' => h = g
  BY <1>1 DEF Live, Running
<1>3. \A h \in Gens : Batch(h)' = Batch(h) BY <1>1 DEF Batch
<1>4. Batch(g)' = {} BY <1>1 DEF Batch
<1>5. OvertakesStopped' /\ \A u \in Updates : Accounted(u) => Accounted(u)'
  BY <1>1, <1>3, KeepsAccounts DEF IInv, LInv
<1>6. NothingLost'
  BY <1>1, <1>5, KeepsAnswers DEF LInv, Asking
<1>7. OneLive' /\ LiveLast'
  BY <1>1, <1>2, <1>4 DEF OneLive, LiveLast
<1>8. stopped' \subseteq Running' BY <1>1 DEF LInv, Running
<1> QED BY <1>5, <1>6, <1>7, <1>8 DEF LInv

LEMMA SwitchLInv == ASSUME IInv, LInv, Switch PROVE LInv'
<1>1. /\ UNCHANGED <<given, marker, pc, from, last, handled, skipped>>
      /\ stopped \subseteq stopped' /\ stopped' \subseteq Running
  BY DEF Switch, LInv
<1>2. \A h \in Gens : Batch(h)' = Batch(h) BY <1>1 DEF Batch
<1>3. OvertakesStopped' /\ \A u \in Updates : Accounted(u) => Accounted(u)'
  BY <1>1, <1>2, KeepsAccounts DEF IInv, LInv
<1>4. NothingLost'
  BY <1>1, <1>3, KeepsAnswers DEF LInv, Asking
<1>5. OneLive' /\ LiveLast'
  BY <1>1, <1>2 DEF LInv, OneLive, LiveLast, Live, Asking
<1>6. stopped' \subseteq Running' BY <1>1 DEF Running
<1> QED BY <1>3, <1>4, <1>5, <1>6 DEF LInv

LEMMA AskFailsLInv == ASSUME IInv, LInv, NEW g \in Gens, AskFails(g) PROVE LInv'
<1>1. PICK to \in {"connecting", "polling"} :
          Go(g, to) /\ (pc[g] = "connecting" => to = "connecting")
  BY DEF AskFails
<1>2. /\ Batch(g) = {} /\ pc[g] # "off"
      /\ UNCHANGED <<given, marker, from, last, handled, skipped>>
  BY DEF AskFails, Batch
<1>3. /\ stopped' \subseteq Running' /\ OneLive' /\ LiveLast' /\ OvertakesStopped'
      /\ \A u \in Updates : Accounted(u) => Accounted(u)'
      /\ \A h \in Gens : Asking(h)' => Asking(h)
  BY <1>1, <1>2, GoKeeps
<1>4. NothingLost' BY <1>2, <1>3, KeepsAnswers DEF LInv
<1> QED BY <1>3, <1>4 DEF LInv

LEMMA BatchDoneLInv == ASSUME IInv, LInv, NEW g \in Gens, BatchDone(g) PROVE LInv'
<1>1. /\ Go(g, "polling") /\ pc[g] = "handling" /\ from[g] > last[g]
      /\ UNCHANGED <<given, marker, from, last, handled, skipped>>
  BY DEF BatchDone
<1>2. Batch(g) = {}
  BY <1>1 DEF Batch, IInv, TypeOK
<1>3. /\ stopped' \subseteq Running' /\ OneLive' /\ LiveLast' /\ OvertakesStopped'
      /\ \A u \in Updates : Accounted(u) => Accounted(u)'
      /\ \A h \in Gens : Asking(h)' => Asking(h)
  BY <1>1, <1>2, GoKeeps
<1>4. NothingLost' BY <1>1, <1>3, KeepsAnswers DEF LInv
<1> QED BY <1>3, <1>4 DEF LInv

\* What the batches held is skipped.
LEMMA RestartLInv == ASSUME IInv, LInv, Restart PROVE LInv'
<1>1. /\ marker' = NoMarker /\ stopped' = {} /\ given' = given /\ handled' = handled
      /\ \A g \in Gens : pc'[g] = "off"
      /\ skipped' = skipped \cup UNION {Batch(g) : g \in Gens}
  BY DEF Restart
<1>2. \A u \in Updates : Accounted(u) => handled'[u] > 0 \/ u \in skipped'
  BY <1>1 DEF Accounted
<1>3. NothingLost'
  <2>1. \A u \in Updates : u <= given => handled'[u] > 0 \/ u \in skipped'
    BY <1>2 DEF LInv, NothingLost
  <2>2. \A u \in Updates : ~(u <= marker') BY <1>1 DEF Updates, NoMarker
  <2> QED BY <1>1, <2>1, <2>2 DEF NothingLost, Asking, Accounted
<1>4. OvertakesStopped'
  <2> SUFFICES ASSUME NEW u \in Updates, NEW v \in Updates, u < v, handled'[v] > 0
               PROVE  handled'[u] > 0 \/ u \in skipped'
    BY DEF OvertakesStopped
  <2>1. handled[u] > 0 \/ u \in skipped \/ \E g \in stopped : u \in Batch(g)
    BY <1>1 DEF LInv, OvertakesStopped
  <2>2. Accounted(u) BY <2>1 DEF Accounted, IInv, TypeOK
  <2> QED BY <2>2, <1>2
<1>5. stopped' \subseteq Running' /\ OneLive' /\ LiveLast'
  BY <1>1 DEF OneLive, LiveLast, Live
<1> QED BY <1>3, <1>4, <1>5 DEF LInv

\* Everything before what is asked for is accounted for.
LEMMA AskLInv == ASSUME IInv, LInv, NEW g \in Gens, Ask(g) PROVE LInv'
<1>1. /\ pc[g] \in {"connecting", "polling"} /\ g \notin stopped
      /\ pc'[g] \in {"draining", "asked"}
      /\ \A h \in Gens \ {g} : pc'[h] = pc[h] /\ from'[h] = from[h] /\ last'[h] = last[h]
      /\ from'[g] = (IF marker = NoMarker THEN given ELSE marker) + 1
      /\ given' \in {given, marker}
      /\ UNCHANGED <<marker, stopped, handled, skipped>>
  BY DEF IInv, TypeOK, Ask
<1>2. \A h \in Gens : Batch(h)' = Batch(h)
  BY <1>1 DEF Batch
<1>3. OvertakesStopped' /\ \A u \in Updates : Accounted(u) => Accounted(u)'
  BY <1>1, <1>2, KeepsAccounts DEF IInv, LInv
<1>4. \A h \in Gens : Live(h)' = Live(h)
  BY <1>1 DEF Live
<1>5. Live(g) BY <1>1 DEF Live
<1>6. \A h \in Gens : Asking(h)' => h = g
  BY <1>1 DEF Ask, MutexFree, Asking
<1>7. NothingLost'
  <2>1. \A u \in Updates : u <= marker' \/ u <= given' => Accounted(u)
    BY <1>1 DEF LInv, NothingLost
  <2>2. \A u \in Updates : u < from'[g] => Accounted(u)
    BY <1>1 DEF LInv, NothingLost, IInv, TypeOK, NoMarker, Updates
  <2> QED BY <2>1, <2>2, <1>3, <1>6 DEF NothingLost
<1>8. OneLive' BY <1>4 DEF LInv, OneLive
<1>9. LiveLast'
  <2> SUFFICES ASSUME NEW a \in Gens, NEW h \in Gens, a # h, Live(h)'
               PROVE  /\ Asking(a)' => pc'[h] = "connecting"
                      /\ \A v \in Batch(a)', u \in Batch(h)' : v < u
    BY DEF LiveLast
  <2>1. Live(h) /\ h = g BY <1>4, <1>5 DEF LInv, OneLive
  <2>2. ~Asking(a)' BY <2>1, <1>6
  <2> QED BY <2>1, <2>2, <1>2 DEF LInv, LiveLast
<1>10. stopped' \subseteq Running' BY <1>1 DEF LInv, Running
<1> QED BY <1>3, <1>7, <1>8, <1>9, <1>10 DEF LInv

\* What Drain drops is skipped.
LEMMA DrainedLInv == ASSUME IInv, LInv, NEW g \in Gens, Drained(g) PROVE LInv'
<1>1. /\ Go(g, "polling") /\ pc[g] = "draining" /\ marker' = last[g]
      /\ skipped' = skipped \cup (from[g] .. last[g])
      /\ UNCHANGED <<given, from, last, handled>>
  BY DEF Drained
<1>2. Batch(g) = {} BY <1>1 DEF Batch
<1>3. /\ stopped' \subseteq Running' /\ OneLive' /\ LiveLast' /\ OvertakesStopped'
      /\ \A u \in Updates : Accounted(u) => Accounted(u)'
      /\ \A h \in Gens : Asking(h)' => Asking(h) /\ h # g
  BY <1>1, <1>2, GoKeeps
<1>4. Asking(g) BY <1>1 DEF Asking
<1>5. \A h \in Gens : ~Asking(h)'
  BY <1>3, <1>4 DEF IInv, Safety, OneAsks
<1>6. ASSUME NEW u \in Updates, u <= last[g] PROVE Accounted(u)'
  <2>1. u \in Int /\ from[g] \in Int /\ last[g] \in Int
    BY DEF IInv, TypeOK, Updates
  <2>2. CASE u < from[g]
    BY <2>2, <1>3, <1>4 DEF LInv, NothingLost
  <2>3. CASE u >= from[g]
    BY <2>1, <2>3, <1>1, <1>6 DEF Accounted
  <2> QED BY <2>1, <2>2, <2>3
<1>7. NothingLost'
  BY <1>1, <1>3, <1>5, <1>6 DEF LInv, NothingLost
<1> QED BY <1>3, <1>7 DEF LInv

\* An answer becomes the batch behind the marker, after every batch there is.
LEMMA ReceiveLInv == ASSUME IInv, LInv, NEW g \in Gens, Receive(g) PROVE LInv'
<1>1. /\ pc[g] = "asked" /\ marker' = last[g]
      /\ UNCHANGED <<given, from, last, handled, skipped>>
  BY DEF Receive
<1>2. Batch(g) = {} /\ Asking(g) BY <1>1 DEF Batch, Asking
<1>3. \A h \in Gens : Asking(h) => h = g
  BY <1>2 DEF IInv, Safety, OneAsks
<1>4. \A u \in Updates : u < from[g] => Accounted(u)
  BY <1>2 DEF LInv, NothingLost
<1>5. from[g] \in Int /\ last[g] \in Int
  BY DEF IInv, TypeOK
<1>6. CASE from[g] > last[g]
  <2>1. Go(g, "polling") BY <1>6 DEF Receive
  <2>2. /\ stopped' \subseteq Running' /\ OneLive' /\ LiveLast' /\ OvertakesStopped'
        /\ \A u \in Updates : Accounted(u) => Accounted(u)'
        /\ \A h \in Gens : Asking(h)' => Asking(h) /\ h # g
    BY <2>1, <1>1, <1>2, GoKeeps
  <2>3. \A u \in Updates : u <= last[g] => u < from[g]
    BY <1>5, <1>6 DEF Updates
  <2>4. NothingLost'
    BY <2>2, <2>3, <1>1, <1>3, <1>4 DEF LInv, NothingLost
  <2> QED BY <2>2, <2>4 DEF LInv
<1>7. CASE from[g] <= last[g]
  <2>1. /\ pc'[g] = "handling" /\ \A h \in Gens \ {g} : pc'[h] = pc[h]
        /\ stopped' = stopped
    BY <1>5, <1>7 DEF Receive, IInv, TypeOK
  <2>2. /\ Batch(g)' = from[g] .. last[g]
        /\ \A h \in Gens \ {g} : Batch(h)' = Batch(h)
    BY <2>1, <1>1 DEF Batch
  <2>3. \A h \in Gens : Batch(h) \subseteq Batch(h)'
    BY <2>2, <1>2
  <2>4. OvertakesStopped' /\ \A u \in Updates : Accounted(u) => Accounted(u)'
    BY <2>1, <2>3, <1>1, KeepsAccounts DEF IInv, LInv
  <2>5. \A h \in Gens : ~Asking(h)'
    BY <2>1, <1>3 DEF Asking
  <2>6. NothingLost'
    <3>1. ASSUME NEW u \in Updates, u <= last[g] PROVE Accounted(u)'
      <4>1. CASE u < from[g] BY <4>1, <2>4, <1>4
      <4>2. CASE u >= from[g]
        BY <4>2, <3>1, <2>2, <1>5 DEF Accounted, Updates
      <4> QED BY <4>1, <4>2, <1>5 DEF Updates
    <3> QED BY <3>1, <2>4, <2>5, <1>1 DEF LInv, NothingLost
  <2>7. \A h \in Gens : Live(h)' = Live(h)
    BY <2>1, <1>1 DEF Live
  <2>8. LiveLast'
    <3> SUFFICES ASSUME NEW a \in Gens, NEW h \in Gens, a # h, Live(h),
                        NEW v \in Batch(a)', NEW u \in Batch(h)'
                 PROVE  v < u
      BY <2>5, <2>7 DEF LiveLast
    <3>1. CASE h = g
      <4>1. v \in Batch(a) BY <3>1, <2>2
      <4>2. v \in Updates /\ Known(v) BY <4>1, BatchTyped DEF Known, IInv
      <4>3. marker # NoMarker /\ marker \in Int /\ from[g] = marker + 1
        BY <1>1, <1>2 DEF IInv, TypeOK, NoMarker, Safety, Fresh, AnswerAhead
      <4>4. v <= marker BY <4>2, <4>3 DEF IInv, Safety, MarkerAhead
      <4>5. u \in from[g] .. last[g] BY <3>1, <2>2
      <4> QED BY <4>2, <4>3, <4>4, <4>5 DEF Updates
    <3>2. CASE a = g
      <4>1. pc[h] = "connecting" BY <3>2, <1>2 DEF LInv, LiveLast
      <4>2. Batch(h)' = {} BY <4>1, <3>2, <2>2 DEF Batch
      <4> QED BY <4>2
    <3>3. CASE a # g /\ h # g
      BY <3>3, <2>2 DEF LInv, LiveLast
    <3> QED BY <3>1, <3>2, <3>3
  <2>9. OneLive' /\ stopped' \subseteq Running'
    BY <2>1, <2>7 DEF LInv, OneLive, Running
  <2> QED BY <2>4, <2>6, <2>8, <2>9 DEF LInv
<1> QED BY <1>5, <1>6, <1>7

\* Everything before the update that is handled is behind the marker, and what
\* another goroutine still has of it was given to a stopped one.
LEMMA HandleLInv == ASSUME IInv, LInv, NEW g \in Gens, Handle(g) PROVE LInv'
<1> DEFINE n == from[g]
<1>1. /\ pc[g] = "handling" /\ n \in Updates /\ n \in Batch(g)
      /\ from' = [from EXCEPT ![g] = n + 1]
      /\ handled' = [handled EXCEPT ![n] = handled[n] + 1]
      /\ UNCHANGED <<marker, given, pc, last, stopped, skipped>>
  BY DEF IInv, TypeOK, Handle, Updates, Batch
<1>2. /\ Batch(g)' = Batch(g) \ {n}
      /\ \A h \in Gens \ {g} : Batch(h)' = Batch(h)
      /\ \A u \in Batch(g) : n <= u
  BY <1>1 DEF IInv, TypeOK, Batch, Updates
<1>3. /\ handled'[n] > 0
      /\ \A u \in Updates : u # n => handled'[u] = handled[u]
  BY <1>1 DEF IInv, TypeOK
<1>4. \A u \in Updates : Accounted(u) => Accounted(u)'
  <2> SUFFICES ASSUME NEW u \in Updates, Accounted(u) PROVE Accounted(u)'
    OBVIOUS
  <2>1. CASE u = n BY <2>1, <1>3 DEF Accounted
  <2>2. CASE u # n BY <2>2, <1>1, <1>2, <1>3 DEF Accounted
  <2> QED BY <2>1, <2>2
<1>5. NothingLost'
  <2>1. \A h \in Gens : Asking(h)' => Asking(h) /\ from'[h] = from[h]
    BY <1>1 DEF Asking, IInv, TypeOK
  <2> QED BY <2>1, <1>1, <1>4 DEF LInv, NothingLost
<1>6. stopped' \subseteq Running' /\ OneLive'
  BY <1>1 DEF LInv, Running, OneLive, Live
<1>7. LiveLast'
  <2>1. \A h \in Gens : /\ Live(h)' = Live(h) /\ Asking(h)' = Asking(h)
                        /\ Batch(h)' \subseteq Batch(h)
    BY <1>1, <1>2 DEF Live, Asking
  <2> QED BY <2>1, <1>1 DEF LInv, LiveLast
<1>8. OvertakesStopped'
  <2> SUFFICES ASSUME NEW u \in Updates, NEW v \in Updates, u < v, handled'[v] > 0, u # n
               PROVE  \/ handled'[u] > 0
                      \/ u \in skipped'
                      \/ \E h \in stopped' : u \in Batch(h)'
    BY <1>3 DEF OvertakesStopped
  <2>1. \/ handled[u] > 0
        \/ u \in skipped
        \/ \E h \in stopped : u \in Batch(h)
    <3>1. CASE v # n
      BY <3>1, <1>3 DEF LInv, OvertakesStopped
    <3>2. CASE v = n
      <4>1. marker # NoMarker /\ marker \in Int
        BY <1>1 DEF IInv, TypeOK, NoMarker, Safety, Fresh
      <4>2. n <= marker
        BY <4>1, <1>1 DEF IInv, Safety, MarkerAhead, Known
      <4>3. u <= marker BY <3>2, <4>1, <4>2 DEF Updates
      <4>4. Accounted(u) BY <4>3 DEF LInv, NothingLost
      <4>5. ASSUME NEW h \in Gens, u \in Batch(h) PROVE h \in stopped
        <5>1. h # g BY <4>5, <3>2, <1>2 DEF Updates
        <5>2. ~Live(h)
          <6> SUFFICES ASSUME Live(h) PROVE FALSE
            OBVIOUS
          <6>1. n < u BY <5>1, <4>5, <1>1 DEF LInv, LiveLast
          <6> QED BY <6>1, <3>2 DEF Updates
        <5>3. pc[h] # "off" BY <4>5 DEF Batch
        <5> QED BY <5>2, <5>3 DEF Live
      <4> QED BY <4>4, <4>5 DEF Accounted
    <3> QED BY <3>1, <3>2
  <2>2. stopped \subseteq Gens BY DEF IInv, TypeOK
  <2> QED BY <2>1, <2>2, <1>1, <1>2, <1>3
<1> QED BY <1>5, <1>6, <1>7, <1>8 DEF LInv

LEMMA NextLInv == IInv /\ LInv /\ [Next]_vars => LInv'
<1> SUFFICES ASSUME IInv, LInv, [Next]_vars PROVE LInv'
  OBVIOUS
<1>1. CASE Arrive BY <1>1, ArriveLInv
<1>2. CASE Switch BY <1>2, SwitchLInv
<1>3. CASE Restart BY <1>3, RestartLInv
<1>4. ASSUME NEW g \in Gens, Start(g) PROVE LInv' BY <1>4, StartLInv
<1>5. ASSUME NEW g \in Gens, Ask(g) PROVE LInv' BY <1>5, AskLInv
<1>6. ASSUME NEW g \in Gens, AskFails(g) PROVE LInv' BY <1>6, AskFailsLInv
<1>7. ASSUME NEW g \in Gens, Drained(g) PROVE LInv' BY <1>7, DrainedLInv
<1>8. ASSUME NEW g \in Gens, Receive(g) PROVE LInv' BY <1>8, ReceiveLInv
<1>9. ASSUME NEW g \in Gens, Handle(g) PROVE LInv' BY <1>9, HandleLInv
<1>10. ASSUME NEW g \in Gens, BatchDone(g) PROVE LInv' BY <1>10, BatchDoneLInv
<1>11. CASE UNCHANGED vars
  BY <1>11 DEF vars, LInv, Running, OneLive, NothingLost, LiveLast, OvertakesStopped,
     Live, Asking, Accounted, Batch
<1> QED
  BY <1>1, <1>2, <1>3, <1>4, <1>5, <1>6, <1>7, <1>8, <1>9, <1>10, <1>11 DEF Next

LEMMA LossInductive == Spec => []LInv
  BY Inductive, InitLInv, NextLInv, PTL DEF Spec

\* An update that the marker has passed was handled, was drained by a connection
\* or lost with the process, or is in a batch: switches and lost answers lose none.
THEOREM Lost == Spec => []LossExplained
<1>1. LInv => LossExplained
  BY DEF LInv, NothingLost, Accounted, LossExplained
<1> QED BY LossInductive, <1>1, PTL

\* A later update is handled first only while a stopped poller finishes its batch.
THEOREM Overtaken == Spec => []OvertakesStopped
<1>1. LInv => OvertakesStopped BY DEF LInv
<1> QED BY LossInductive, <1>1, PTL
=============================================================================
