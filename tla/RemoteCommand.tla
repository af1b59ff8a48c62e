--------------------------- MODULE RemoteCommand ---------------------------
(***************************************************************************)
(* One run, get or put of the daemon (daemon.go, ssh_client.go): its       *)
(* target expression is read selector by selector while others change the  *)
(* hosts and the lock, then the hosts get a session each, at most          *)
(* MaxParallel at a time.  A server may refuse, fail or stay silent at     *)
(* every request, a link may break, and the shutdown cancels the context.  *)
(***************************************************************************)
EXTENDS Naturals, Sequences, FiniteSets

CONSTANTS
    N,            \* hosts are numbered in the order of their names
    Groups,       \* names of groups, All among them
    All,          \* @all: the hosts that are not disabled
    Commands,     \* commands: a kind, and a sequence of clauses
    Registries,   \* hosts and groups there may be at the start
    None,         \* no such host
    MaxParallel,  \* maxParallelGroupRuns
    MaxChanges    \* bound: changes of the hosts and of the lock

Hosts == 1 .. N
Kinds == {"run", "get", "put"}
Targets == [groups : SUBSET (Groups \ {All}), disabled : BOOLEAN]

ASSUME RemoteAssumption ==
    /\ N \in Nat /\ MaxParallel \in Nat \ {0} /\ MaxChanges \in Nat
    /\ All \in Groups /\ Groups \cap Hosts = {} /\ None \notin Targets
    /\ Registries \subseteq [Hosts -> Targets \cup {None}]
    /\ \A c \in Commands :
          /\ c.kind \in Kinds
          /\ c.expr \in Seq(Seq([op : {"+", "^"}, sel : Hosts \cup Groups]))
          /\ Len(c.expr) > 0
          /\ \A i \in 1 .. Len(c.expr) : Len(c.expr[i]) > 0 /\ c.expr[i][1].op = "+"

VARIABLES
    registry, unlocked, cancelled,  \* Config.Targets, State.IsUnlocked, ctx
    changes, touched,               \* changes so far, and the hosts they were about
    cmd, pc, reply,
    clause, part, current, union,   \* evalTargetClause: its position and its sets
    selected,                       \* the hosts the command is for
    at,                             \* where the session of each host is
    conn, hook, timed,              \* its connection, its AfterFunc, its deadline
    out,                            \* what the host's goroutine returned
    ended,                          \* how the command ended on the host
    dest, temp                      \* the file that a transfer replaces, and its temporary file

world == <<registry, unlocked, changes, touched>>
evaluation == <<clause, part, current, union>>
session == <<at, conn, hook, timed, out, ended, dest, temp>>
vars == <<world, cancelled, cmd, pc, reply, evaluation, selected, session>>

Init ==
    /\ registry \in Registries
    /\ unlocked = TRUE /\ cancelled = FALSE
    /\ changes = 0 /\ touched = {}
    /\ cmd \in Commands
    /\ pc = "start" /\ reply = "none"
    /\ clause = 1 /\ part = 1 /\ current = {} /\ union = {}
    /\ selected = {}
    /\ at = [h \in Hosts |-> "waiting"]
    /\ conn = [h \in Hosts |-> "none"]
    /\ hook = [h \in Hosts |-> "off"]
    /\ timed = [h \in Hosts |-> FALSE]
    /\ out = [h \in Hosts |-> "none"]
    /\ ended = [h \in Hosts |-> "no"]
    /\ dest = [h \in Hosts |-> "old"]
    /\ temp = [h \in Hosts |-> FALSE]

-----------------------------------------------------------------------------
(* Other commands, and the shutdown.                                       *)

ChangeHost(h) ==
    /\ pc # "done" /\ changes < MaxChanges
    /\ \E t \in Targets \cup {None} :
          /\ t # registry[h]
          /\ registry' = [registry EXCEPT ![h] = t]
    /\ changes' = changes + 1
    /\ touched' = touched \cup {h}
    /\ UNCHANGED <<unlocked, cancelled, cmd, pc, reply, evaluation, selected, session>>

ChangeLock ==
    /\ pc # "done" /\ changes < MaxChanges
    /\ unlocked' = ~unlocked
    /\ changes' = changes + 1
    /\ UNCHANGED <<registry, touched, cancelled, cmd, pc, reply, evaluation, selected, session>>

\* The shutdown cancels the context of the commands.
Cancel ==
    /\ pc # "done" /\ ~cancelled
    /\ cancelled' = TRUE
    /\ UNCHANGED <<world, cmd, pc, reply, evaluation, selected, session>>

-----------------------------------------------------------------------------
(* The target expression.                                                  *)

Known == {h \in Hosts : registry[h] # None}

\* groupHosts: the hosts of a group; @all leaves out the disabled ones, a group does not.
GroupHosts(g) ==
    {h \in Known : IF g = All THEN ~registry[h].disabled ELSE g \in registry[h].groups}

\* targetSet; the empty set is an error, "unknown target" or "group is empty".
TargetSet(sel) == IF sel \in Hosts THEN {sel} \cap Known ELSE GroupHosts(sel)

\* isTargetExpr: a group, or anything with an operator.
IsTargetExpr ==
    Len(cmd.expr) > 1 \/ Len(cmd.expr[1]) > 1 \/ cmd.expr[1][1].sel \in Groups

Fail ==
    /\ pc' = "done" /\ reply' = "error"
    /\ UNCHANGED <<world, cancelled, cmd, evaluation, selected, session>>

\* A single host needs no evaluation; get takes nothing else.
Dispatch ==
    /\ pc = "start"
    /\ \/ IsTargetExpr /\ cmd.kind = "get" /\ Fail
       \/ /\ IsTargetExpr /\ cmd.kind # "get"
          /\ pc' = "eval"
          /\ UNCHANGED <<world, cancelled, cmd, reply, evaluation, selected, session>>
       \/ /\ ~IsTargetExpr
          /\ selected' = {cmd.expr[1][1].sel}
          /\ pc' = "hosts"
          /\ UNCHANGED <<world, cancelled, cmd, reply, evaluation, session>>

\* Mutant: an intersection replaces what was selected before it.
CombineAnew(p, first, set, next) ==
    IF first \/ p.op = "+" THEN next ELSE set \ next

\* One selector of a clause: the first is the start, + intersects, ^ excludes.
Combine(p, first, set, next) ==
    CASE first -> next
      [] ~first /\ p.op = "+" -> set \cap next
      [] OTHER -> set \ next

\* evalTargetClause reads the next selector; after a clause's last one its set joins the union.
ReadSelector ==
    LET c == cmd.expr[clause]
        next == TargetSet(c[part].sel)
        set == Combine(c[part], part = 1, current, next)
    IN
    /\ pc = "eval" /\ clause <= Len(cmd.expr)
    /\ IF next = {} THEN Fail
       ELSE /\ current' = set
            /\ IF part < Len(c)
               THEN part' = part + 1 /\ UNCHANGED <<clause, union>>
               ELSE part' = 1 /\ clause' = clause + 1 /\ union' = union \cup set
            /\ UNCHANGED <<world, cancelled, cmd, pc, reply, selected, session>>

\* orderHosts reads the hosts once more; a lone group is not ordered anew.
OrderHosts ==
    /\ pc = "eval" /\ clause > Len(cmd.expr)
    /\ selected' = IF Len(cmd.expr) = 1 /\ Len(cmd.expr[1]) = 1 THEN union
                   ELSE union \cap Known
    /\ pc' = "check"
    /\ UNCHANGED <<world, cancelled, cmd, reply, evaluation, session>>

\* An empty selection and a locked key end the command.
CheckSelection ==
    /\ pc = "check"
    /\ IF selected = {} \/ ~unlocked THEN Fail
       ELSE /\ pc' = "hosts"
            /\ UNCHANGED <<world, cancelled, cmd, reply, evaluation, selected, session>>

-----------------------------------------------------------------------------
(* Connecting.                                                             *)

Running == {h \in selected : at[h] \notin {"waiting", "finished"}}

\* The sessions that may be open at once: a put goes from host to host.
Room == IF cmd.kind = "put" THEN 1 ELSE MaxParallel

others == <<world, cancelled, cmd, pc, reply, evaluation, selected>>

Go(h, from, to) ==
    /\ at[h] = from
    /\ at' = [at EXCEPT ![h] = to]

\* The goroutine of a host returns.
Return(h, result) ==
    /\ at' = [at EXCEPT ![h] = "finished"]
    /\ out' = [out EXCEPT ![h] = result]

\* The failure of dialSSH: text and 255 of a run, an error of a transfer.
DialError == IF cmd.kind = "run" THEN "ssh" ELSE "error"

\* The loop over the hosts, in their order.
StartHost(h) ==
    /\ pc = "hosts" /\ h \in selected
    /\ \A g \in selected : g < h => at[g] # "waiting"
    /\ Cardinality(Running) < Room
    /\ Go(h, "waiting", "admit")
    /\ UNCHANGED <<others, conn, hook, timed, out, ended, dest, temp>>

\* targetForSSH.
Admit(h) ==
    /\ at[h] = "admit"
    /\ IF registry[h] # None /\ ~registry[h].disabled /\ unlocked
       THEN Go(h, "admit", "signer") /\ UNCHANGED out
       ELSE Return(h, "error")
    /\ UNCHANGED <<others, conn, hook, timed, ended, dest, temp>>

\* State.Signer; the pinned host key is parsed.
TakeSigner(h) ==
    /\ at[h] = "signer"
    /\ \/ unlocked /\ Go(h, "signer", "dial") /\ UNCHANGED out
       \/ Return(h, DialError)
    /\ UNCHANGED <<others, conn, hook, timed, ended, dest, temp>>

\* DialContext connects.
DialConnects(h) ==
    /\ Go(h, "dial", "arm")
    /\ ~cancelled
    /\ conn' = [conn EXCEPT ![h] = "open"]
    /\ UNCHANGED <<others, hook, timed, out, ended, dest, temp>>

\* DialContext fails: it is refused, times out or is cancelled.
DialFails(h) ==
    /\ at[h] = "dial"
    /\ Return(h, DialError)
    /\ UNCHANGED <<others, conn, hook, timed, ended, dest, temp>>

\* Mutant: the handshake has no deadline.
ArmUntimed(h) ==
    /\ Go(h, "arm", "handshake")
    /\ hook' = [hook EXCEPT ![h] = "handshake"]
    /\ UNCHANGED <<others, conn, timed, out, ended, dest, temp>>

\* AfterFunc closes the connection on a cancel; the handshake gets its deadline.
Arm(h) ==
    /\ Go(h, "arm", "handshake")
    /\ hook' = [hook EXCEPT ![h] = "handshake"]
    /\ timed' = [timed EXCEPT ![h] = TRUE]
    /\ UNCHANGED <<others, conn, out, ended, dest, temp>>

\* The function of an AfterFunc runs: before the connection is up and after.
HookFires(h) ==
    /\ cancelled /\ hook[h] \in {"handshake", "client"}
    /\ hook' = [hook EXCEPT ![h] = "off"]
    /\ conn' = [conn EXCEPT ![h] = "closed"]
    /\ UNCHANGED <<others, at, timed, out, ended, dest, temp>>

\* The link breaks; nobody notices before the next request.
LinkBreaks(h) ==
    /\ conn[h] = "open"
    /\ conn' = [conn EXCEPT ![h] = "broken"]
    /\ UNCHANGED <<others, at, hook, timed, out, ended, dest, temp>>

HandshakeSucceeds(h) ==
    /\ Go(h, "handshake", "stop")
    /\ conn[h] = "open"
    /\ UNCHANGED <<others, conn, hook, timed, out, ended, dest, temp>>

\* Mutant: dialSSH returns its error and leaves the connection open.
AbandonOpen(h) ==
    /\ Return(h, DialError)
    /\ hook' = [hook EXCEPT ![h] = "off"]
    /\ UNCHANGED conn

\* dialSSH returns an error: its deferred functions close the connection and stop the hook.
Abandon(h) ==
    /\ Return(h, DialError)
    /\ conn' = [conn EXCEPT ![h] = "closed"]
    /\ hook' = [hook EXCEPT ![h] = "off"]

\* The handshake ends by its deadline, by a cancel or with the link, or it is refused.
HandshakeFails(h) ==
    /\ at[h] = "handshake"
    /\ timed[h] \/ conn[h] # "open"
    /\ Abandon(h)
    /\ UNCHANGED <<others, timed, ended, dest, temp>>

\* stopHandshakeCancel finds that its function has begun, or stops it.
StopHook(h) ==
    /\ at[h] = "stop"
    /\ \/ /\ hook[h] = "off"
          /\ Abandon(h)
          /\ UNCHANGED timed
       \/ /\ hook[h] = "handshake"
          /\ Go(h, "stop", "client")
          /\ hook' = [hook EXCEPT ![h] = "off"]
          /\ timed' = [timed EXCEPT ![h] = FALSE]
          /\ UNCHANGED <<conn, out>>
    /\ UNCHANGED <<others, ended, dest, temp>>

\* Mutant: no AfterFunc closes the client on a cancel.
NewClientUnhooked(h) ==
    /\ Go(h, "client", IF cmd.kind = "run" THEN "run" ELSE "open")
    /\ UNCHANGED <<others, conn, hook, timed, out, ended, dest, temp>>

\* The client, and the AfterFunc that closes it on a cancel.
NewClient(h) ==
    /\ Go(h, "client", IF cmd.kind = "run" THEN "run" ELSE "open")
    /\ hook' = [hook EXCEPT ![h] = "client"]
    /\ UNCHANGED <<others, conn, timed, out, ended, dest, temp>>

-----------------------------------------------------------------------------
(* Commands and transfers.  Each request is answered, refused or cut.      *)

Cut(h) == conn[h] # "open"

\* closeClient, deferred until the result is known.
CloseAndReturn(h, result) ==
    /\ Return(h, result)
    /\ conn' = [conn EXCEPT ![h] = "closed"]
    /\ hook' = [hook EXCEPT ![h] = "off"]
    /\ UNCHANGED timed

\* The server starts the command.
Starts(h) ==
    /\ Go(h, "run", "running")
    /\ ~Cut(h)
    /\ ended' = [ended EXCEPT ![h] = "started"]
    /\ UNCHANGED <<others, conn, hook, timed, out, dest, temp>>

\* The command ends on the host, and its exit status arrives.
Exits(h) ==
    /\ at[h] = "running" /\ ~Cut(h)
    /\ \E status \in {"ok", "exit"} :
          /\ ended' = [ended EXCEPT ![h] = status]
          /\ CloseAndReturn(h, status)
    /\ UNCHANGED <<others, dest, temp>>

\* session.Run returns another error: 255.
RunFails(h) ==
    /\ at[h] \in {"run", "running"}
    /\ CloseAndReturn(h, "ssh")
    /\ UNCHANGED <<others, ended, dest, temp>>

\* The temporary file is created beside the destination: on this host of a get, there of a put.
OpenTemp(h) ==
    /\ Go(h, "open", "copy")
    /\ ~Cut(h)
    /\ temp' = [temp EXCEPT ![h] = TRUE]
    /\ UNCHANGED <<others, conn, hook, timed, out, ended, dest>>

\* The content is copied; a put copies to the server, a get from it and syncs.
Copy(h) ==
    /\ Go(h, "copy", "rename")
    /\ ~Cut(h)
    /\ UNCHANGED <<others, conn, hook, timed, out, ended, dest, temp>>

\* Mutant: an upload that fails has already opened the destination itself.
CommitPartly(h) ==
    /\ \/ Go(h, "copy", "answer") /\ dest' = [dest EXCEPT ![h] = "partial"]
       \/ Go(h, "rename", "answer") /\ dest' = [dest EXCEPT ![h] = "new"]
    /\ cmd.kind = "get" \/ ~Cut(h)
    /\ temp' = [temp EXCEPT ![h] = FALSE]
    /\ UNCHANGED <<others, conn, hook, timed, out, ended>>

\* The temporary file replaces the destination.
Commit(h) ==
    /\ Go(h, "rename", "answer")
    /\ cmd.kind = "get" \/ ~Cut(h)
    /\ dest' = [dest EXCEPT ![h] = "new"]
    /\ temp' = [temp EXCEPT ![h] = FALSE]
    /\ UNCHANGED <<others, conn, hook, timed, out, ended>>

Answer(h) ==
    /\ at[h] = "answer"
    /\ cmd.kind = "get" \/ ~Cut(h)
    /\ CloseAndReturn(h, "ok")
    /\ UNCHANGED <<others, ended, dest, temp>>

\* A request or a local operation of the transfer fails; a temporary file, if there is one
\* for all it knows, is left to the cleaning.
TransferFails(h) ==
    /\ \/ at[h] \in {"open", "copy", "rename"}
       \/ at[h] = "answer" /\ cmd.kind = "put" /\ Cut(h)
    /\ IF at[h] = "open" THEN CloseAndReturn(h, "error") /\ UNCHANGED temp
       ELSE /\ at' = [at EXCEPT ![h] = "clean"]
            /\ UNCHANGED <<conn, hook, timed, out, temp>>
    /\ UNCHANGED <<others, ended, dest>>

\* Remove of the temporary file; its error is ignored.
Clean(h) ==
    /\ at[h] = "clean"
    /\ \/ /\ cmd.kind = "get" \/ ~Cut(h)
          /\ temp' = [temp EXCEPT ![h] = FALSE]
       \/ /\ cmd.kind = "put" /\ Cut(h)
          /\ UNCHANGED temp
    /\ CloseAndReturn(h, "error")
    /\ UNCHANGED <<others, ended, dest>>

-----------------------------------------------------------------------------
(* The reply.                                                              *)

\* Mutant: only an error counts as a failure of ssh, a status of 255 does not.
SSHFailedByError(h) == out[h] = "error"

\* sshFailed: ssh has failed on the host, whatever the others exited with.
SSHFailed(h) == out[h] \in {"error", "ssh"}

Outcome ==
    IF cmd.kind = "run" /\ IsTargetExpr /\ (\E h \in selected : SSHFailed(h)) THEN "ssh"
    ELSE IF \E h \in selected : out[h] = "error" THEN "error"
    ELSE IF \E h \in selected : SSHFailed(h) THEN "ssh"
    ELSE IF \E h \in selected : out[h] # "ok" THEN "exit"
    ELSE "ok"

\* Every host has returned.
Join ==
    /\ pc = "hosts"
    /\ \A h \in selected : at[h] = "finished"
    /\ pc' = "done" /\ reply' = Outcome
    /\ UNCHANGED <<world, cancelled, cmd, evaluation, selected, session>>

-----------------------------------------------------------------------------

\* Steps of the code, which need nobody's answer.
Evaluate == Dispatch \/ ReadSelector \/ OrderHosts \/ CheckSelection \/ Join
Connect(h) ==
    \/ StartHost(h) \/ Admit(h) \/ TakeSigner(h) \/ DialFails(h) \/ Arm(h)
    \/ HandshakeFails(h) \/ StopHook(h) \/ NewClient(h)
Hook(h) == HookFires(h)
GiveUp(h) == Cut(h) /\ (RunFails(h) \/ TransferFails(h) \/ Clean(h))
FinishGet(h) == cmd.kind = "get" /\ (Commit(h) \/ Answer(h) \/ Clean(h))

\* Steps of the server, and errors.
Serve(h) ==
    \/ DialConnects(h) \/ HandshakeSucceeds(h) \/ Starts(h) \/ Exits(h) \/ RunFails(h)
    \/ OpenTemp(h) \/ Copy(h) \/ Commit(h) \/ Answer(h) \/ TransferFails(h) \/ Clean(h)
    \/ LinkBreaks(h)

Next ==
    \/ Evaluate
    \/ \E h \in Hosts : Connect(h) \/ Hook(h) \/ Serve(h)
    \/ \E h \in Hosts : ChangeHost(h)
    \/ ChangeLock
    \/ Cancel

\* The goroutines run and time passes; no server has to answer.
Fairness ==
    /\ WF_vars(Evaluate)
    /\ \A h \in Hosts : WF_vars(Connect(h)) /\ WF_vars(Hook(h))
                       /\ WF_vars(GiveUp(h)) /\ WF_vars(FinishGet(h))

Spec == Init /\ [][Next]_vars /\ Fairness

-----------------------------------------------------------------------------
(* Properties.                                                             *)

TypeOK ==
    /\ registry \in [Hosts -> Targets \cup {None}]
    /\ unlocked \in BOOLEAN /\ cancelled \in BOOLEAN
    /\ changes \in Nat /\ touched \subseteq Hosts
    /\ cmd \in Commands
    /\ pc \in {"start", "eval", "check", "hosts", "done"}
    /\ reply \in {"none", "ok", "exit", "ssh", "error"}
    /\ clause \in Nat \ {0} /\ part \in Nat \ {0}
    /\ current \subseteq Hosts /\ union \subseteq Hosts /\ selected \subseteq Hosts
    /\ at \in [Hosts -> {"waiting", "admit", "signer", "dial", "arm", "handshake", "stop",
                         "client", "run", "running", "open", "copy", "rename", "answer",
                         "clean", "finished"}]
    /\ conn \in [Hosts -> {"none", "open", "broken", "closed"}]
    /\ hook \in [Hosts -> {"off", "handshake", "client"}]
    /\ timed \in [Hosts -> BOOLEAN]
    /\ out \in [Hosts -> {"none", "ok", "exit", "ssh", "error"}]
    /\ ended \in [Hosts -> {"no", "started", "ok", "exit"}]
    /\ dest \in [Hosts -> {"old", "partial", "new"}]
    /\ temp \in [Hosts -> BOOLEAN]

\* The reference: a host is denoted when all selectors of one clause agree to it.
Denoted(h) ==
    \E i \in 1 .. Len(cmd.expr) : \A j \in 1 .. Len(cmd.expr[i]) :
        LET p == cmd.expr[i][j] IN (h \in TargetSet(p.sel)) <=> (p.op = "+")

\* A target expression selects exactly the hosts it denotes, whatever other hosts are changed
\* between the reads of its selectors (evalTargetClause, daemon.go:1985).
SelectedAsWritten ==
    pc \in {"check", "hosts"} /\ IsTargetExpr =>
        \A h \in Hosts \ touched : h \in selected <=> Denoted(h)

\* A run is reported as done, or as refused by the remote command, only when the command
\* ended so on the hosts: no failure of ssh hides behind another host's status; and no host
\* outside the selection is ever reached (runTargetSelectorWithRunner).
ReportTrue ==
    /\ cmd.kind = "run" /\ reply = "ok" => \A h \in selected : ended[h] = "ok"
    /\ cmd.kind = "run" /\ reply = "exit" => \A h \in selected : ended[h] \in {"ok", "exit"}
    /\ \A h \in Hosts \ selected : ended[h] = "no" /\ dest[h] = "old" /\ conn[h] = "none"

\* A goroutine that has returned leaves neither an open connection nor a function that waits
\* for the context (dialSSH, closeClient).
NothingLeaks ==
    \A h \in Hosts : at[h] \in {"waiting", "finished"} =>
        conn[h] \in {"none", "closed"} /\ hook[h] = "off"

\* The destination of a transfer is the old file or the new one, never a part; it is the new
\* one when the transfer succeeds; and a get leaves no temporary file behind (downloadSFTP,
\* uploadSFTP).
TransferWhole ==
    /\ \A h \in Hosts : dest[h] # "partial"
    /\ cmd.kind # "run" /\ reply = "ok" => \A h \in selected : dest[h] = "new"
    /\ cmd.kind = "get" => \A h \in Hosts : at[h] = "finished" => ~temp[h]

\* The command ends: a silent server holds it up after the handshake only, and only until the
\* shutdown cancels it.
CommandEnds ==
    <>[](\/ pc = "done"
         \/ ~cancelled /\ \E h \in Hosts :
               at[h] \in {"run", "running", "open", "copy", "rename", "answer", "clean"})
=============================================================================
