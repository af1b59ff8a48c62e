------------------------ MODULE RemoteCommandProofs ------------------------
(***************************************************************************)
(* Proofs about RemoteCommand, for any hosts, groups, expressions, limits  *)
(* of parallel sessions and changes by other commands.                     *)
(***************************************************************************)
EXTENDS RemoteCommand, TLAPS

\* Where a session has no connection yet.
Before == {"waiting", "admit", "signer", "dial"}
\* Where a get's temporary file may exist.
Transferring == {"copy", "rename", "clean"}

\* A session's resources follow its position.
Closed(h) ==
    /\ at[h] \in Before => conn[h] = "none" /\ hook[h] = "off"
    /\ at[h] = "finished" => conn[h] \in {"none", "closed"} /\ hook[h] = "off"

\* A session's position tells the kind of the command, and its files and its result follow
\* from how far it got.
Result(h) ==
    /\ at[h] \in {"run", "running"} => cmd.kind = "run"
    /\ at[h] \in {"open", "answer"} \cup Transferring => cmd.kind # "run"
    /\ at[h] = "waiting" => ended[h] = "no" /\ dest[h] = "old"
    /\ at[h] = "answer" => dest[h] = "new"
    /\ temp[h] /\ cmd.kind = "get" => at[h] \in Transferring
    /\ dest[h] # "partial"
    /\ at[h] = "finished" <=> out[h] # "none"
    /\ out[h] = "ok" => IF cmd.kind = "run" THEN ended[h] = "ok" ELSE dest[h] = "new"
    /\ out[h] = "exit" => cmd.kind = "run" /\ ended[h] = "exit"

\* Only selected hosts get a session, once they are selected, and the reply waits for all.
Joined ==
    /\ \A h \in Hosts : at[h] # "waiting" => h \in selected /\ pc \in {"hosts", "done"}
    /\ reply # "none" => pc = "done"
    /\ reply = "ok" => \A h \in selected : out[h] = "ok"
    /\ reply = "exit" => \A h \in selected : out[h] \in {"ok", "exit"}

Sessions == \A h \in Hosts : Closed(h) /\ Result(h)

\* What a host has to do with one selector, with a whole clause and with its first parts.
Agrees(h, p) == (h \in TargetSet(p.sel)) <=> (p.op = "+")
AgreesUpTo(h, i, n) == \A j \in 1 .. n : Agrees(h, cmd.expr[i][j])

\* The sets of evalTargetClause denote the clauses and selectors read so far, as far as a
\* host is concerned that nobody has changed.
Evaluated(h) ==
    /\ pc = "eval" /\ part > 1 => (h \in current <=> AgreesUpTo(h, clause, part - 1))
    /\ pc = "eval" => (h \in union <=>
          \E i \in 1 .. clause - 1 : AgreesUpTo(h, i, Len(cmd.expr[i])))
    /\ pc \in {"check", "hosts"} /\ IsTargetExpr => (h \in selected <=> Denoted(h))

Position ==
    /\ pc = "start" => clause = 1 /\ part = 1 /\ union = {}
    /\ pc \in {"start", "eval"} =>
          /\ clause \in 1 .. Len(cmd.expr) + 1
          /\ clause <= Len(cmd.expr) => part \in 1 .. Len(cmd.expr[clause])
          /\ clause > Len(cmd.expr) => part = 1

IInv == TypeOK /\ Sessions /\ Joined /\ Position /\ \A h \in Hosts \ touched : Evaluated(h)

-----------------------------------------------------------------------------

Part == [op : {"+", "^"}, sel : Hosts \cup Groups]

\* What the assumption says of a command.
LEMMA CommandShape ==
    ASSUME NEW c \in Commands
    PROVE  /\ c.kind \in Kinds
           /\ Len(c.expr) \in Nat \ {0}
           /\ \A i \in 1 .. Len(c.expr) :
                 /\ Len(c.expr[i]) \in Nat \ {0}
                 /\ c.expr[i][1].op = "+"
                 /\ \A j \in 1 .. Len(c.expr[i]) : c.expr[i][j] \in Part
<1>1. /\ c.kind \in Kinds
      /\ c.expr \in Seq(Seq(Part))
      /\ Len(c.expr) > 0
      /\ \A i \in 1 .. Len(c.expr) : Len(c.expr[i]) > 0 /\ c.expr[i][1].op = "+"
    BY RemoteAssumption DEF Part
<1>2. Len(c.expr) \in Nat
    BY <1>1
<1>3. ASSUME NEW i \in 1 .. Len(c.expr)
      PROVE  c.expr[i] \in Seq(Part)
    BY <1>1
<1>4. ASSUME NEW i \in 1 .. Len(c.expr), NEW j \in 1 .. Len(c.expr[i])
      PROVE  c.expr[i][j] \in Part
    BY <1>3
<1>5. ASSUME NEW i \in 1 .. Len(c.expr)
      PROVE  Len(c.expr[i]) \in Nat
    BY <1>3
<1> QED
    BY <1>1, <1>2, <1>4, <1>5

LEMMA InitIInv == Init => IInv
<1> SUFFICES ASSUME Init PROVE IInv
    OBVIOUS
<1> USE DEF Init
<1>1. cmd \in Commands /\ registry \in [Hosts -> Targets \cup {None}]
    BY RemoteAssumption
<1>2. TypeOK
    <2>1. /\ at \in [Hosts -> {"waiting"}] /\ conn \in [Hosts -> {"none"}]
          /\ hook \in [Hosts -> {"off"}] /\ timed \in [Hosts -> BOOLEAN]
          /\ out \in [Hosts -> {"none"}] /\ ended \in [Hosts -> {"no"}]
          /\ dest \in [Hosts -> {"old"}] /\ temp \in [Hosts -> BOOLEAN]
        OBVIOUS
    <2>2. unlocked \in BOOLEAN /\ cancelled \in BOOLEAN
        OBVIOUS
    <2>3. changes \in Nat /\ clause \in Nat \ {0} /\ part \in Nat \ {0}
        OBVIOUS
    <2>4. /\ touched \subseteq Hosts /\ current \subseteq Hosts
          /\ union \subseteq Hosts /\ selected \subseteq Hosts
        OBVIOUS
    <2> QED
        BY <1>1, <2>1, <2>2, <2>3, <2>4 DEF TypeOK
<1>3. Sessions
    BY DEF Sessions, Closed, Result, Before, Transferring
<1>4. Joined
    BY DEF Joined
<1>5. Position
    BY <1>1, CommandShape DEF Position
<1>6. \A h \in Hosts \ touched : Evaluated(h)
    BY DEF Evaluated
<1>7. QED
    BY <1>2, <1>3, <1>4, <1>5, <1>6 DEF IInv

-----------------------------------------------------------------------------
(* A step of one host's session.                                           *)

SessionStep(h) ==
    \/ StartHost(h) \/ Admit(h) \/ TakeSigner(h) \/ DialConnects(h) \/ DialFails(h)
    \/ Arm(h) \/ HookFires(h) \/ LinkBreaks(h) \/ HandshakeSucceeds(h) \/ HandshakeFails(h)
    \/ StopHook(h) \/ NewClient(h) \/ Starts(h) \/ Exits(h) \/ RunFails(h)
    \/ OpenTemp(h) \/ Copy(h) \/ Commit(h) \/ Answer(h) \/ TransferFails(h)
    \/ Clean(h)

\* It changes nothing of the other sessions, gives its own a result only before it has one,
\* and starts it only when it is selected.
Framed(h) ==
    /\ UNCHANGED others
    /\ \A g \in Hosts \ {h} :
          /\ at'[g] = at[g] /\ conn'[g] = conn[g] /\ hook'[g] = hook[g] /\ out'[g] = out[g]
          /\ ended'[g] = ended[g] /\ dest'[g] = dest[g] /\ temp'[g] = temp[g]
    /\ out'[h] # out[h] => at[h] # "finished"
    /\ at[h] = "waiting" /\ at'[h] # "waiting" => h \in selected /\ pc = "hosts"

SessionTyped ==
    /\ at' \in [Hosts -> {"waiting", "admit", "signer", "dial", "arm", "handshake", "stop",
                          "client", "run", "running", "open", "copy", "rename", "answer",
                          "clean", "finished"}]
    /\ conn' \in [Hosts -> {"none", "open", "broken", "closed"}]
    /\ hook' \in [Hosts -> {"off", "handshake", "client"}]
    /\ timed' \in [Hosts -> BOOLEAN]
    /\ out' \in [Hosts -> {"none", "ok", "exit", "ssh", "error"}]
    /\ ended' \in [Hosts -> {"no", "started", "ok", "exit"}]
    /\ dest' \in [Hosts -> {"old", "partial", "new"}]
    /\ temp' \in [Hosts -> BOOLEAN]

LEMMA SessionStepSound ==
    ASSUME TypeOK, NEW h \in Hosts, Closed(h), Result(h), SessionStep(h)
    PROVE  Framed(h) /\ SessionTyped /\ Closed(h)' /\ Result(h)'
<1> USE DEF TypeOK, Closed, Result, Framed, SessionTyped, Before, Transferring, Go, others
<1>0. cmd.kind \in {"run", "get", "put"}
    BY CommandShape DEF Kinds
<1>1. CASE StartHost(h)
    BY <1>0, <1>1 DEF StartHost
<1>2. CASE Admit(h)
    BY <1>0, <1>2 DEF Admit, Return
<1>3. CASE TakeSigner(h)
    BY <1>0, <1>3 DEF TakeSigner, Return, DialError
<1>4. CASE DialConnects(h)
    BY <1>0, <1>4 DEF DialConnects
<1>5. CASE DialFails(h)
    BY <1>0, <1>5 DEF DialFails, Return, DialError
<1>6. CASE Arm(h)
    BY <1>0, <1>6 DEF Arm
<1>7. CASE HookFires(h)
    BY <1>0, <1>7 DEF HookFires
<1>8. CASE LinkBreaks(h)
    BY <1>0, <1>8 DEF LinkBreaks
<1>9. CASE HandshakeSucceeds(h)
    BY <1>0, <1>9 DEF HandshakeSucceeds
<1>10. CASE HandshakeFails(h)
    BY <1>0, <1>10 DEF HandshakeFails, Abandon, Return, DialError
<1>11. CASE StopHook(h)
    <2>1. CASE hook[h] = "off" /\ Abandon(h) /\ UNCHANGED timed
        BY <1>0, <1>11, <2>1 DEF StopHook, Abandon, Return, DialError
    <2>2. CASE hook[h] = "handshake" /\ Go(h, "stop", "client") /\ UNCHANGED <<conn, out>>
        BY <1>0, <1>11, <2>2 DEF StopHook
    <2> QED
        BY <1>11, <2>1, <2>2 DEF StopHook
<1>12. CASE NewClient(h)
    BY <1>0, <1>12 DEF NewClient
<1>13. CASE Starts(h)
    BY <1>0, <1>13 DEF Starts, Cut
<1>14. CASE Exits(h)
    BY <1>0, <1>14 DEF Exits, Cut, CloseAndReturn, Return
<1>15. CASE RunFails(h)
    BY <1>0, <1>15 DEF RunFails, CloseAndReturn, Return
<1>16. CASE OpenTemp(h)
    BY <1>0, <1>16 DEF OpenTemp, Cut
<1>17. CASE Copy(h)
    BY <1>0, <1>17 DEF Copy, Cut
<1>18. CASE Commit(h)
    BY <1>0, <1>18 DEF Commit, Cut
<1>19. CASE Answer(h)
    BY <1>0, <1>19 DEF Answer, Cut, CloseAndReturn, Return
<1>20. CASE TransferFails(h)
    BY <1>0, <1>20 DEF TransferFails, Cut, CloseAndReturn, Return
<1>21. CASE Clean(h)
    BY <1>0, <1>21 DEF Clean, Cut, CloseAndReturn, Return
<1> QED
    BY <1>1, <1>2, <1>3, <1>4, <1>5, <1>6, <1>7, <1>8, <1>9, <1>10,
       <1>11, <1>12, <1>13, <1>14, <1>15, <1>16, <1>17, <1>18, <1>19, <1>20, <1>21
    DEF SessionStep

-----------------------------------------------------------------------------
(* Steps that read or change no target for a host.                         *)

\* What a host has to do with selectors and clauses hangs on its own target only.
LEMMA AgreesStays ==
    ASSUME NEW h \in Hosts, registry'[h] = registry[h], cmd' = cmd
    PROVE  /\ \A i, n : AgreesUpTo(h, i, n)' <=> AgreesUpTo(h, i, n)
           /\ Denoted(h)' <=> Denoted(h)
           /\ \A sel : (h \in TargetSet(sel))' <=> h \in TargetSet(sel)
<1>1. \A sel : (h \in TargetSet(sel))' <=> h \in TargetSet(sel)
    BY DEF TargetSet, GroupHosts, Known
<1>2. \A i, n : AgreesUpTo(h, i, n)' <=> AgreesUpTo(h, i, n)
    BY <1>1 DEF AgreesUpTo, Agrees
<1>3. Denoted(h)' <=> Denoted(h)
    BY <1>1 DEF Denoted
<1> QED
    BY <1>1, <1>2, <1>3

LEMMA EvaluatedStays ==
    ASSUME NEW h \in Hosts, registry'[h] = registry[h], Evaluated(h),
           UNCHANGED <<cmd, pc, evaluation, selected>>
    PROVE  Evaluated(h)'
<1>1. /\ \A i, n : AgreesUpTo(h, i, n)' <=> AgreesUpTo(h, i, n)
      /\ Denoted(h)' <=> Denoted(h)
    BY AgreesStays
<1>2. IsTargetExpr' <=> IsTargetExpr
    BY DEF IsTargetExpr
<1> QED
    BY <1>1, <1>2 DEF Evaluated, evaluation

LEMMA SessionIInv ==
    ASSUME IInv, NEW h \in Hosts, SessionStep(h)
    PROVE  IInv'
<1>1. Framed(h) /\ SessionTyped /\ Closed(h)' /\ Result(h)'
    BY SessionStepSound DEF IInv, Sessions
<1>2. UNCHANGED <<registry, unlocked, changes, touched, cancelled, cmd, pc, reply, evaluation,
                  selected>>
    BY <1>1 DEF Framed, others, world
<1>3. TypeOK'
    BY <1>1, <1>2 DEF IInv, TypeOK, SessionTyped, evaluation
<1>4. Sessions'
    BY <1>1, <1>2 DEF IInv, Sessions, Closed, Result, Framed
<1>5. Joined'
    BY <1>1, <1>2 DEF IInv, Joined, Sessions, Result, Framed, TypeOK
<1>6. Position'
    BY <1>2 DEF IInv, Position, evaluation
<1>7. \A g \in Hosts \ touched' : Evaluated(g)'
    BY <1>2, EvaluatedStays DEF IInv
<1> QED
    BY <1>3, <1>4, <1>5, <1>6, <1>7 DEF IInv

\* A step that leaves the command and its sessions alone.
LEMMA OutsideIInv ==
    ASSUME IInv, TypeOK', UNCHANGED <<cmd, pc, reply, evaluation, selected, session>>,
           touched \subseteq touched',
           \A g \in Hosts \ touched' : registry'[g] = registry[g]
    PROVE  IInv'
<1>1. Sessions'
    BY DEF IInv, Sessions, Closed, Result, session
<1>2. Joined'
    BY DEF IInv, Joined, session
<1>3. Position'
    BY DEF IInv, Position, evaluation
<1>4. \A g \in Hosts \ touched' : Evaluated(g)'
    BY EvaluatedStays DEF IInv
<1> QED
    BY <1>1, <1>2, <1>3, <1>4 DEF IInv

LEMMA ChangeHostIInv ==
    ASSUME IInv, NEW h \in Hosts, ChangeHost(h)
    PROVE  IInv'
<1>1. /\ registry' \in [Hosts -> Targets \cup {None}]
      /\ touched' = touched \cup {h}
      /\ \A g \in Hosts \ {h} : registry'[g] = registry[g]
    BY DEF IInv, TypeOK, ChangeHost
<1>2. TypeOK'
    BY <1>1 DEF IInv, TypeOK, ChangeHost, evaluation, session
<1> QED
    BY <1>1, <1>2, OutsideIInv DEF ChangeHost

LEMMA ChangeLockIInv == ASSUME IInv, ChangeLock PROVE IInv'
<1>1. TypeOK'
    BY DEF IInv, TypeOK, ChangeLock, evaluation, session
<1> QED
    BY <1>1, OutsideIInv DEF ChangeLock

LEMMA CancelIInv == ASSUME IInv, Cancel PROVE IInv'
<1>1. TypeOK'
    BY DEF IInv, TypeOK, Cancel, world, evaluation, session
<1> QED
    BY <1>1, OutsideIInv DEF Cancel, world

LEMMA StutterIInv == ASSUME IInv, UNCHANGED vars PROVE IInv'
<1>1. TypeOK'
    BY DEF IInv, TypeOK, vars, world, evaluation, session
<1> QED
    BY <1>1, OutsideIInv DEF vars, world

-----------------------------------------------------------------------------
(* The steps of the command itself.                                        *)

LEMMA FailIInv == ASSUME IInv, Fail PROVE IInv'
<1> USE DEF IInv, Fail
<1>1. TypeOK'
    BY DEF TypeOK, world, evaluation, session
<1>2. Sessions'
    BY DEF Sessions, Closed, Result, session
<1>3. Joined'
    BY DEF Joined, session
<1>4. Position'
    BY DEF Position
<1>5. \A h \in Hosts \ touched' : Evaluated(h)'
    BY DEF Evaluated
<1> QED
    BY <1>1, <1>2, <1>3, <1>4, <1>5

LEMMA DispatchIInv == ASSUME IInv, Dispatch PROVE IInv'
<1> USE DEF IInv
<1>0. /\ Len(cmd.expr) \in Nat \ {0}
      /\ Len(cmd.expr[1]) \in Nat \ {0}
      /\ cmd.expr[1][1] \in Part
    BY CommandShape DEF TypeOK
<1>1. CASE Fail
    BY <1>1, FailIInv
<1>2. CASE /\ pc = "start" /\ pc' = "eval"
           /\ UNCHANGED <<world, cancelled, cmd, reply, evaluation, selected, session>>
    <2> USE <1>2
    <2>1. TypeOK'
        BY DEF TypeOK, world, evaluation, session
    <2>2. Sessions'
        BY DEF Sessions, Closed, Result, session
    <2>3. Joined'
        BY DEF Joined, session
    <2>4. Position'
        BY DEF Position, evaluation
    <2>5. \A h \in Hosts \ touched' : Evaluated(h)'
        BY DEF Evaluated, Position, evaluation
    <2> QED
        BY <2>1, <2>2, <2>3, <2>4, <2>5
<1>3. CASE /\ pc = "start" /\ ~IsTargetExpr
           /\ selected' = {cmd.expr[1][1].sel} /\ pc' = "hosts"
           /\ UNCHANGED <<world, cancelled, cmd, reply, evaluation, session>>
    <2> USE <1>3
    <2>0. cmd.expr[1][1].sel \in Hosts
        BY <1>0 DEF IsTargetExpr, Part
    <2>1. TypeOK'
        BY <2>0 DEF TypeOK, world, evaluation, session
    <2>2. Sessions'
        BY DEF Sessions, Closed, Result, session
    <2>3. Joined'
        BY DEF Joined, session
    <2>4. Position'
        BY DEF Position
    <2>5. ~IsTargetExpr'
        BY DEF IsTargetExpr
    <2>6. \A h \in Hosts \ touched' : Evaluated(h)'
        BY <2>5 DEF Evaluated
    <2> QED
        BY <2>1, <2>2, <2>3, <2>4, <2>6
<1> QED
    BY <1>1, <1>2, <1>3 DEF Dispatch

LEMMA ReadSelectorIInv == ASSUME IInv, ReadSelector PROVE IInv'
<1> USE DEF IInv
<1> DEFINE c == cmd.expr[clause]
           next == TargetSet(c[part].sel)
           set == Combine(c[part], part = 1, current, next)
<1>1. CASE Fail
    BY <1>1, FailIInv
<1>2. CASE ~Fail
    <2>1. /\ pc = "eval" /\ clause <= Len(cmd.expr) /\ current' = set
          /\ IF part < Len(c)
             THEN part' = part + 1 /\ UNCHANGED <<clause, union>>
             ELSE part' = 1 /\ clause' = clause + 1 /\ union' = union \cup set
          /\ UNCHANGED <<world, cancelled, cmd, pc, reply, selected, session>>
        BY <1>2 DEF ReadSelector
    <2>2. /\ clause \in 1 .. Len(cmd.expr) /\ part \in 1 .. Len(c)
          /\ Len(cmd.expr) \in Nat \ {0} /\ Len(c) \in Nat \ {0}
          /\ c[part] \in Part /\ c[1].op = "+"
        <3>1. /\ Len(cmd.expr) \in Nat \ {0}
              /\ \A i \in 1 .. Len(cmd.expr) :
                    /\ Len(cmd.expr[i]) \in Nat \ {0}
                    /\ cmd.expr[i][1].op = "+"
                    /\ \A j \in 1 .. Len(cmd.expr[i]) : cmd.expr[i][j] \in Part
            BY CommandShape DEF TypeOK
        <3>2. clause \in 1 .. Len(cmd.expr)
            BY <2>1, <3>1 DEF Position
        <3>3. part \in 1 .. Len(c)
            BY <2>1, <3>2 DEF Position
        <3> QED
            BY <3>1, <3>2, <3>3
    <2>3. \A i \in 1 .. Len(cmd.expr) : Len(cmd.expr[i]) \in Nat \ {0}
        BY CommandShape DEF TypeOK
    <2>4. set \subseteq Hosts
        BY DEF Combine, TargetSet, GroupHosts, Known, TypeOK
    <2>5. TypeOK'
        BY <2>1, <2>2, <2>4 DEF TypeOK, world, session
    <2>6. Sessions'
        BY <2>1 DEF Sessions, Closed, Result, session
    <2>7. Joined'
        BY <2>1 DEF Joined, session
    <2>8. Position'
        BY <2>1, <2>2, <2>3 DEF Position
    <2>9. ASSUME NEW h \in Hosts \ touched'
          PROVE  Evaluated(h)'
        <3>1. h \in Hosts \ touched /\ registry' = registry /\ cmd' = cmd /\ pc' = "eval"
            BY <2>1 DEF world
        <3>2. Evaluated(h)
            BY <3>1
        <3>3. \A i, n : AgreesUpTo(h, i, n)' <=> AgreesUpTo(h, i, n)
            BY <3>1, AgreesStays
        <3>4. Agrees(h, c[part]) <=> ((h \in next) <=> (c[part].op = "+"))
            BY DEF Agrees
        <3>5. AgreesUpTo(h, clause, part) <=>
                  (part > 1 => AgreesUpTo(h, clause, part - 1)) /\ Agrees(h, c[part])
            BY <2>2 DEF AgreesUpTo
        <3>6. h \in set <=> AgreesUpTo(h, clause, part)
            <4>1. CASE part = 1
                BY <4>1, <3>4, <3>5, <2>2 DEF Combine
            <4>2. CASE part # 1
                <5>1. h \in current <=> AgreesUpTo(h, clause, part - 1)
                    BY <4>2, <3>2, <2>1, <2>2 DEF Evaluated
                <5>2. h \in set <=> h \in current /\ Agrees(h, c[part])
                    BY <4>2, <3>4, <2>2 DEF Combine, Part
                <5> QED
                    BY <5>1, <5>2, <3>5, <4>2, <2>2
            <4> QED
                BY <4>1, <4>2
        <3>7. h \in union <=>
                  \E i \in 1 .. clause - 1 : AgreesUpTo(h, i, Len(cmd.expr[i]))
            BY <3>2, <2>1 DEF Evaluated
        <3>8. CASE part < Len(c)
            <4>1. h \in current' <=> AgreesUpTo(h, clause', part' - 1)
                BY <3>6, <3>8, <2>1, <2>2
            <4> QED
                BY <4>1, <3>1, <3>3, <3>7, <3>8, <2>1 DEF Evaluated
        <3>9. CASE ~(part < Len(c))
            <4>1. part = Len(c) /\ part' = 1 /\ clause' - 1 = clause
                  /\ union' = union \cup set
                BY <3>9, <2>1, <2>2
            <4>2. (h \in union') <=>
                      \E i \in 1 .. clause : AgreesUpTo(h, i, Len(cmd.expr[i]))
                <5>1. (h \in union') <=> h \in union \/ AgreesUpTo(h, clause, Len(c))
                    BY <4>1, <3>6
                <5>2. \A i \in 1 .. clause : i \in 1 .. clause - 1 \/ i = clause
                    BY <2>2
                <5>3. clause \in 1 .. clause /\ 1 .. clause - 1 \subseteq 1 .. clause
                    BY <2>2
                <5> HIDE DEF set
                <5> QED
                    BY <5>1, <5>2, <5>3, <3>7
            <4> QED
                BY <4>1, <4>2, <3>1, <3>3 DEF Evaluated
        <3> QED
            BY <3>8, <3>9
    <2> QED
        BY <2>5, <2>6, <2>7, <2>8, <2>9
<1> QED
    BY <1>1, <1>2

LEMMA OrderHostsIInv == ASSUME IInv, OrderHosts PROVE IInv'
<1> USE DEF IInv
<1>1. /\ pc = "eval" /\ clause > Len(cmd.expr) /\ pc' = "check"
      /\ UNCHANGED <<world, cancelled, cmd, reply, evaluation, session>>
      /\ selected' \in {union, union \cap Known}
    BY DEF OrderHosts
<1>2. TypeOK'
    BY <1>1 DEF TypeOK, world, evaluation, session
<1>3. Sessions'
    BY <1>1 DEF Sessions, Closed, Result, session
<1>4. Joined'
    BY <1>1 DEF Joined, session
<1>5. Position'
    BY <1>1 DEF Position
<1>6. ASSUME NEW h \in Hosts \ touched'
      PROVE  Evaluated(h)'
    <2>1. h \in Hosts \ touched /\ registry' = registry /\ cmd' = cmd
        BY <1>1 DEF world
    <2>2. Denoted(h)' <=> Denoted(h)
        BY <2>1, AgreesStays
    <2>3. clause - 1 = Len(cmd.expr) /\ Len(cmd.expr) \in Nat \ {0}
        BY <1>1, CommandShape DEF TypeOK, Position
    <2>4. h \in union <=> \E i \in 1 .. Len(cmd.expr) : AgreesUpTo(h, i, Len(cmd.expr[i]))
        BY <2>1, <2>3, <1>1 DEF Evaluated
    <2>5. Denoted(h) <=> \E i \in 1 .. Len(cmd.expr) : AgreesUpTo(h, i, Len(cmd.expr[i]))
        BY DEF Denoted, AgreesUpTo, Agrees
    <2>6. h \in union => h \in Known
        <3>1. ASSUME NEW i \in 1 .. Len(cmd.expr), AgreesUpTo(h, i, Len(cmd.expr[i]))
              PROVE  h \in TargetSet(cmd.expr[i][1].sel)
            <4>0. Len(cmd.expr[i]) \in Nat \ {0} /\ cmd.expr[i][1].op = "+"
                BY CommandShape DEF TypeOK
            <4>1. 1 \in 1 .. Len(cmd.expr[i]) /\ cmd.expr[i][1].op = "+"
                BY <4>0
            <4>2. Agrees(h, cmd.expr[i][1])
                BY <3>1, <4>1 DEF AgreesUpTo
            <4> QED
                BY <4>1, <4>2 DEF Agrees
        <3>2. \A sel : h \in TargetSet(sel) => h \in Known
            BY DEF TargetSet, GroupHosts
        <3> QED
            BY <3>1, <3>2, <2>4
    <2>7. h \in selected' <=> Denoted(h)
        BY <1>1, <2>4, <2>5, <2>6
    <2> QED
        BY <2>2, <2>7, <1>1 DEF Evaluated
<1> QED
    BY <1>2, <1>3, <1>4, <1>5, <1>6

LEMMA CheckSelectionIInv == ASSUME IInv, CheckSelection PROVE IInv'
<1> USE DEF IInv
<1>1. CASE Fail
    BY <1>1, FailIInv
<1>2. CASE ~Fail
    <2>1. /\ pc = "check" /\ pc' = "hosts"
          /\ UNCHANGED <<world, cancelled, cmd, reply, evaluation, selected, session>>
        BY <1>2 DEF CheckSelection
    <2>2. TypeOK'
        BY <2>1 DEF TypeOK, world, evaluation, session
    <2>3. Sessions'
        BY <2>1 DEF Sessions, Closed, Result, session
    <2>4. Joined'
        BY <2>1 DEF Joined, session
    <2>5. Position'
        BY <2>1 DEF Position
    <2>6. ASSUME NEW h \in Hosts \ touched'
          PROVE  Evaluated(h)'
        <3>1. h \in Hosts \ touched /\ registry' = registry /\ cmd' = cmd
            BY <2>1 DEF world
        <3>2. Denoted(h)' <=> Denoted(h)
            BY <3>1, AgreesStays
        <3>3. IsTargetExpr' <=> IsTargetExpr
            BY <3>1 DEF IsTargetExpr
        <3> QED
            BY <3>1, <3>2, <3>3, <2>1 DEF Evaluated
    <2> QED
        BY <2>2, <2>3, <2>4, <2>5, <2>6
<1> QED
    BY <1>1, <1>2

LEMMA JoinIInv == ASSUME IInv, Join PROVE IInv'
<1> USE DEF IInv
<1>1. /\ pc = "hosts" /\ pc' = "done" /\ reply' = Outcome
      /\ \A h \in selected : at[h] = "finished"
      /\ UNCHANGED <<world, cancelled, cmd, evaluation, selected, session>>
    BY DEF Join
<1>2. \A h \in selected : out[h] \in {"ok", "exit", "ssh", "error"}
    BY <1>1 DEF TypeOK, Sessions, Result
<1>3. /\ Outcome \in {"ok", "exit", "ssh", "error"}
      /\ Outcome = "ok" => \A h \in selected : out[h] = "ok"
      /\ Outcome = "exit" => \A h \in selected : out[h] \in {"ok", "exit"}
    <2>1. CASE \E h \in selected : SSHFailed(h)
        <3>1. Outcome \in {"ssh", "error"}
            BY <2>1 DEF Outcome
        <3> QED
            BY <3>1
    <2>2. CASE \A h \in selected : ~SSHFailed(h)
        <3>1. \A h \in selected : out[h] \in {"ok", "exit"}
            BY <2>2, <1>2 DEF SSHFailed
        <3>2. Outcome = IF \E h \in selected : out[h] # "ok" THEN "exit" ELSE "ok"
            BY <2>2, <3>1 DEF Outcome
        <3> QED
            BY <3>1, <3>2
    <2> QED
        BY <2>1, <2>2
<1>4. TypeOK'
    BY <1>1, <1>3 DEF TypeOK, world, evaluation, session
<1>5. Sessions'
    BY <1>1 DEF Sessions, Closed, Result, session
<1>6. Joined'
    BY <1>1, <1>3 DEF Joined, session
<1>7. Position'
    BY <1>1 DEF Position
<1>8. \A h \in Hosts \ touched' : Evaluated(h)'
    BY <1>1 DEF Evaluated
<1> QED
    BY <1>4, <1>5, <1>6, <1>7, <1>8

-----------------------------------------------------------------------------

LEMMA NextIInv == IInv /\ [Next]_vars => IInv'
<1> SUFFICES ASSUME IInv, [Next]_vars PROVE IInv'
    OBVIOUS
<1>1. CASE Evaluate
    BY <1>1, DispatchIInv, ReadSelectorIInv, OrderHostsIInv, CheckSelectionIInv, JoinIInv
       DEF Evaluate
<1>2. ASSUME NEW h \in Hosts, Connect(h) \/ Hook(h) \/ Serve(h)
      PROVE  IInv'
    <2>1. SessionStep(h)
        BY <1>2 DEF Connect, Hook, Serve, SessionStep
    <2> QED
        BY <2>1, SessionIInv
<1>3. ASSUME NEW h \in Hosts, ChangeHost(h)
      PROVE  IInv'
    BY <1>3, ChangeHostIInv
<1>4. CASE ChangeLock
    BY <1>4, ChangeLockIInv
<1>5. CASE Cancel
    BY <1>5, CancelIInv
<1>6. CASE UNCHANGED vars
    BY <1>6, StutterIInv
<1> QED
    BY <1>1, <1>2, <1>3, <1>4, <1>5, <1>6 DEF Next

\* The invariant the theorems below are read off.
LEMMA Invariant == Spec => []IInv
BY InitIInv, NextIInv, PTL DEF Spec

\* Every variable keeps its type, whatever the servers and the other commands do.
THEOREM Typed == Spec => []TypeOK
<1>1. IInv => TypeOK
    BY DEF IInv
<1> QED
    BY <1>1, Invariant, PTL

\* evalTargetClause and orderHosts: whatever the expression, and however hosts change between
\* the reads of its selectors, a host that does not change is selected exactly when the
\* expression denotes it.
THEOREM Selected == Spec => []SelectedAsWritten
<1>1. IInv => SelectedAsWritten
    BY DEF IInv, SelectedAsWritten, Evaluated
<1> QED
    BY <1>1, Invariant, PTL

\* runTargetSelectorWithRunner: a run reported as done, or as refused by the remote command,
\* ended so on all its hosts, and no other host was reached.
THEOREM Reported == Spec => []ReportTrue
<1>1. ASSUME IInv PROVE ReportTrue
    <2>1. \A h \in Hosts : out[h] = "ok" /\ cmd.kind = "run" => ended[h] = "ok"
        BY <1>1 DEF IInv, Sessions, Result
    <2>2. \A h \in Hosts : out[h] = "exit" => ended[h] = "exit"
        BY <1>1 DEF IInv, Sessions, Result
    <2>3. \A h \in Hosts \ selected : ended[h] = "no" /\ dest[h] = "old" /\ conn[h] = "none"
        BY <1>1 DEF IInv, Sessions, Result, Closed, Joined, Before
    <2> QED
        BY <1>1, <2>1, <2>2, <2>3 DEF IInv, TypeOK, Joined, ReportTrue
<1> QED
    BY <1>1, Invariant, PTL

\* dialSSH and closeClient: a goroutine that has returned, on whichever path, holds neither a
\* connection nor a function that waits for the context.
THEOREM Released == Spec => []NothingLeaks
<1>1. IInv => NothingLeaks
    BY DEF IInv, Sessions, Closed, Before, NothingLeaks
<1> QED
    BY <1>1, Invariant, PTL

\* downloadSFTP and uploadSFTP: the destination is never a part of a file, it is the new file
\* when the transfer succeeds, and a get removes its temporary file.
THEOREM Whole == Spec => []TransferWhole
<1>1. ASSUME IInv PROVE TransferWhole
    <2>1. \A h \in Hosts : dest[h] # "partial"
        BY <1>1 DEF IInv, Sessions, Result
    <2>2. \A h \in Hosts : out[h] = "ok" /\ cmd.kind # "run" => dest[h] = "new"
        BY <1>1 DEF IInv, Sessions, Result
    <2>3. cmd.kind = "get" => \A h \in Hosts : at[h] = "finished" => ~temp[h]
        BY <1>1 DEF IInv, Sessions, Result, Transferring
    <2> QED
        BY <1>1, <2>1, <2>2, <2>3 DEF IInv, TypeOK, Joined, TransferWhole
<1> QED
    BY <1>1, Invariant, PTL
=============================================================================
