# A TLA+ model of picoman

picoman is a daemon that lets a few people run commands on SSH hosts from a
Telegram or MAX chat, or from a control socket on the same machine. It holds one
SSH key, decrypted only while an operator has unlocked it, and reports what is
done with it to the chats. These modules model its concurrent and failure-prone
parts; TLC checks them on small instances and TLAPS proves their safety properties
for every value of the constants.

    tlc -config MCOutbox.cfg MCOutbox      # one run
    tlapm OutboxProofs.tla                 # one component's proofs

## The system

| part | state it keeps | operations | what is hard | what makes it correct |
|---|---|---|---|---|
| credential (`internal/agent`) | passphrase, decrypted signer, deadline, generation | Unseal, Seal, Unlock, Lock, LockExpired, Signer, Sign | sessions keep a captured signer while the key is locked, sealed or replaced; the watcher's clock is stale | no signature outside the window it was captured in |
| SSH sessions (`ssh_client.go`) | a connection per command and host | targetForSSH, dialSSH, runSSH | the key may be locked, and the context cancelled, between any two steps; silent servers | no leaked connection, an end |
| targets and group runs (`daemon.go`) | a pool of goroutines | evalTargetClause, orderHosts, runTargetSelectorWithRunner | the hosts change between the reads of one expression; one host of many fails | the hosts as written, a report that hides nothing |
| transfers (`ssh_client.go`) | temporary files | downloadSFTP, uploadSFTP | failure at each request | the old file or the new one |
| outbox (`internal/outbox`) | one SQLite table per transport | EnqueueTo, Run, Flush, sendOne and its updates | crash between send and mark, retries that must not reorder, two senders, shutdown | order, honest marks, every message settled |
| digest (`audit.go`) | counts, in memory and in the database | count, sendDigest, SetLogLevel, attachStore | several goroutines ask for a digest, a crash between queueing and clearing | no count lost, a digest before its notice |
| action messages (`daemon.go`, `control.go`) | the ids of the messages to edit | handleMessage, startAction, succeedAction, finishAction, editActionMessages | the answer races the start message; lost answers; a queue that refuses; a shutdown that waits for nobody | every chat that was addressed is answered, or there is a cause |
| transport manager (`daemon.go`) | connect and poll goroutines with generations, ready, failed | start, startPoll, finishPoll, stop, markUnavailable, cmdTransports | a stale goroutine writes after stop and start | one poller per transport, no lost switch |
| ingest (`daemon.go`, `max.go`, `tg.go`) | Telegram offset in the database, MAX marker in memory | getUpdates, Drain, handleMessage, SetTelegramOffset | a crash inside a batch, a marker moved before its updates are handled | nothing lost (Telegram), nothing twice (MAX) |
| configuration, hosts and groups (`internal/config`) | config and hosts files and their copy in memory | UpsertTarget, RemoveTarget, the setters, saveConfigField, writeAtomic, Load | a save that fails at one of its steps, loss of power, commands that read and then write | what was reported saved survives |
| update and install (`update.go`, `install.go`) | the binary, the restart marker | installRelease, copyFile, writeRestartMarker, restartService, readRestartMarker | an end between the steps, installations that overlap | a whole, verified binary; at most one notice, and a true one |
| control socket (`control.go`) | none | one request per connection | concurrent with the chats | that of the parts it calls |
| platform clients (`tg`, `max`) | none but the marker | HTTP requests | outcomes that are unknown | |

`runDaemon` creates the components and connects them: commands arrive through
the ingest and the control socket, act on the credential, the configuration and
SSH sessions; what they did is told by action messages, counts of the digest or
rows of the outbox, whose senders ask the transport manager whether a transport
is ready; the digest enqueues its parts in the outbox and keeps its copy in the
same database. On shutdown the key is sealed, the last digest and notice are
enqueued, the outbox's `Run` is stopped and the queue is flushed. An
installation ends with a restart, after which the daemon announces it.

## Modules

| module | models | extends or instantiates | theorems in |
|---|---|---|---|
| `KeyAuthorization` | what the credential promises: one window, its holders, its key and deadline | | |
| `Credential` | `agent.State` and the goroutines around it | `KeyAuthorization` (refinement) | `CredentialProofs` |
| `RemoteCommand` | one run, get or put: target expression, sessions, transfer, report | | `RemoteCommandProofs` |
| `MessageLane` | what a lane of the outbox promises: one message at a time, in order, settled by what the platform did | | `OutboxProofs` |
| `Outbox` | one transport's lane of the outbox | `MessageLane` (refinement) | `OutboxProofs` |
| `Digest` | `auditState` | | `DigestProofs` |
| `ActionMessage` | what the chats are told of one command | | `TransportManagerProofs` |
| `TransportLife` | what the transport manager promises the readers of one transport's updates | | `TransportManagerProofs` |
| `TransportManager` | `transportManager` and the goroutines it creates | `TransportLife`, once for each transport (refinement) | `TransportManagerProofs` |
| `TelegramIngest` | `pollTelegram` and its stored offset | | `TelegramIngestProofs` |
| `MaxIngest` | `pollMAX`, `Drain` and the marker in memory | | `MaxIngestProofs` |
| `ConfigStore` | `config.Config`, its files and `writeAtomic` | | `ConfigStoreProofs` |
| `Update` | installations, the marker and the daemon that reads it | | `CredentialProofs` |
| `MC...` | the instances TLC checks, one module per component | | |

Two modules of proofs serve two components each, whose definitions have names of their
own for that reason (`UpdateInit`, `ActionNext`): `CredentialProofs` has what the daemon
and its key are trusted with, `TransportManagerProofs` whom it reaches and what they are told.

An operator whose comment starts with "Mutant:" is a plausible mistake in the
definition that follows it. No specification uses it; put in place of that
definition it makes one of the properties fail, which shows that the property
depends on the code.

### Credential

State: the four fields of `State` (`until`, `passphrase`, `signer`, `generation`),
the key file, a clock, each session's place and its `guardedSigner`, and what each
caller holds before it has the mutex. A method body under `State.mu` is one action.
What happens outside is an action of its own: `Unseal` parses the key file before it
takes the mutex (`BeginUnseal`, `FinishUnseal`), `watchUnlockExpiry` reads the clock
before `LockExpired` has the mutex (`WatchTick`, `WatchLock`), `targetForSSH` looks
at `IsUnlocked` before `Signer` is called and the handshake asks for its signature
later (`Admit`, `TakeSigner`, `Sign`). The key file may be replaced, re-encrypted or
removed at any time. A signer is modelled by its key, a key file by its key and the
passphrase that opens it.

### RemoteCommand

State: the hosts and groups in memory, the lock and the context; `evalTargetClause`'s
position in the expression with its sets; and for each selected host the place of
its goroutine, its connection, the function it has registered with
`context.AfterFunc`, its deadline, its result and its files. Other commands change
hosts and lock between any two steps (`ChangeHost`, `ChangeLock`), because every
selector takes `Config.mu` for itself (`ReadSelector`) and `orderHosts` takes it once
more. `Dispatch` is `isTargetExpr`: a single host, the only thing `get` takes, is
not evaluated. `StartHost` is the loop over the hosts behind the semaphore of
`maxParallelGroupRuns`; a `put` goes from host to host. A session's steps are the
requests at which a server can refuse, stay silent or be cut off; `HookFires` is the
cancel function that runs beside them, and `StopHook` decides between it and the end of
the handshake. A transfer's `OpenTemp`, `Copy`, `Commit`, `Answer` are the requests of an
upload, or the local steps of a download; a `Commit` whose answer is lost ends in
`TransferFails` and leaves the new file. `Outcome` is the report and the exit code: the first failure
in the order of the hosts decides between equal ones, so only its kind is kept.

### Outbox

State: the rows of one table, each sender's goroutine with its copy of the row, and
what only the platform knows (how often it accepted or refused each message). A
sender's steps are those another goroutine or a crash can come between: reading the
head, the platform's acceptance, the answer, and each update. `Accept` is separate
from `Answer`, so that the answer or the process can be lost in between. The lanes of
the two transports share no state, so a run checks one; the constant `Transport`
decides whether `deferMessage` sets `next_attempt_at`. Senders are `Run`, the flush
at exit and, in `InstallSpec`, the flushes of install commands. `unrecorded` counts the
acceptances of a message that no sender can write down any more; when the process ends
(`Stop`), each sender that had one adds it. `Lane` is the instance of `MessageLane` in which a
row's outcome, copies, unrecorded acceptances and refusals are what is promised; `attempts`,
`deferred`, the format and the senders are forgotten.

### Digest

State: the counts of `auditState`, their stored copy, each call's place and each
goroutine that asks for a digest: `runDaemon` (start and stop), `runDigest` and the
handlers of lock, seal, loglevel and digest (the expiry watcher, which sends a digest
before its notice as they do, is one of them). A count is the set of calls it stands
for, so that a property can say which call a digest reports. `Ask` waits for the mutex,
`Begin` gets the mutex, `QueuePart` queues a part and `Clear` ends it.

The chats see nothing but a difference between the digest level and the others, so the
levels chat and all are one.

### ActionMessage

State: one command's goroutine, the goroutine that announces it, the channel
`startedCh` with the list of message ids, and what each chat shows, has queued and was
told by a critical notice. A command is one of the control socket, a run, get or put
of a chat (`action`), another command of a chat (`plain`), or text that is no
command. `SendStart` is `sendDirectMessage`: it succeeds, fails, or takes effect while
its answer is lost. `Await` waits for the list; `Edit` turns each start message into the
result or queues a reply instead, and `Enqueue` falls back to `criticalNotifyAddress`, which
looks whether the transport can be reached (`CriticalNotify`), sends, and looks again if that
failed (`CriticalSend`). `ProcessEnds` is the end of the process at any moment: runDaemon
(daemon.go:134-144) waits for no goroutine of a command, an announcement or a notice.
`away` remembers whose transport was out of reach since the queue refused the reply.
`Count` is `succeedAction` in level digest. The level and the reachable chats change
meanwhile: start and end of one command may see different ones.

### TransportManager

State: the maps of `transportManager` by transport, and for each generation where its
connecting and its polling goroutine are. A body under `m.mu` is one action. Between
them lies what the code does without the mutex: a handshake, its answer, a batch. A
stopped goroutine goes on to its next look at its context, so goroutines of several
generations of one transport run at once. `cmdTransports` runs inside the poller that
received it (it is not an async command) and holds `toggleMu` over three steps: it
reads the disabled set, saves it, and starts or stops. `Life(n)` is the instance of
`TransportLife` for one transport: its goroutines are the generations that connect or poll,
cancelled are those that `stop` has cancelled.

### TelegramIngest and MaxIngest

State: what the platform has received and forgotten, the offset (stored in the database
and in each poller's variable) or the marker (in the client, shared by its goroutines
under a mutex), and the part of its batch each poller has yet to handle. `handled`
counts how often an update is passed to `handleMessage`. A poller of Telegram, and a
goroutine of MAX, which connects (`Drain`) and then polls, starts when the others are stopped: this is `Begin`
of `TransportLife`, which `TransportManager` implements (`LifeSpec`). The platforms are external: Telegram
forgets what lies below an offset it gets; MAX answers with what follows the marker, or,
without one, what follows the last marker it was given. Their limit on the size of an
answer is not modelled.

### ConfigStore

State: `Config.Targets`, the level and the disabled transports in memory, the level of the
audit state, and of each of the two files what a reader sees (`file`) and what a loss of power may
leave (`disk`). A command is at one of its steps in `pc` with what it holds in `job`.
Hosts are changed and saved under `Config.mu` (`SetAnnotation`, `RemoveTarget`,
`HostAddUpsert`), but `addHostFromFields` reads the target it replaces before that
(`HostAddRead`). `SetLogLevel` changes memory, saves, and puts the old level back when
the save fails (`Undo`); `SetDisabledTransports` saves first. `saveConfigField` reads
the file again (`ReadConfig`) under its own mutex. `writeAtomic` is `WriteTemp`, `Rename`
and `SyncDir`, each of which may fail (`SaveFails`); `RunSetup` is `picoman setup`,
another process that shares the file and no mutex. `Crash`, `PowerLoss` and `Restart`
come between any two steps. A value stands for the command that wrote it, so that a
property can tell old from new.

### Update

State: the installed binary, `restart.json`, each installation's place and download, and the
daemon with the release it runs. Installations by a chat command are goroutines of
the daemon and end with it; those from a terminal go on. The steps are `Download`, `Verify`,
`CopyBinary` and `RenameBinary` (`copyFile` in `<binary> install`), `WriteUnit`,
`TruncateMarker` and `WriteMarker` (`os.WriteFile` is not atomic, and two of them at once may leave
a tail), and `Restart`. `ReadMarker` and `DropMarker` are the two calls of `readRestartMarker`, and
`Greet` queues the announcement; a daemon that ends in between announces nothing.

## Runs

| run | bounds | what it shows |
|---|---|---|
| `credential` | 2 sessions, 1 unseal command at a time, 2 keys, 2 passphrases, ttls -2 to 3 with a limit of 2, time to 3, 3 commands | the key's safety, the refinement of `KeyAuthorization`, a watcher that spares open windows, and that an expired key is locked in the end |
| `outbox` | MAX lane, 2 messages of every kind, 2 attempts, 1 fault, 1 shutdown | order with deferred heads, honest marks, explained duplicates, one sender per row, the refinement of `MessageLane`; every message is settled; a shutdown ends |
| `outbox_two_senders` | Telegram lane, 1 message, an install command's flush, no fault | *violated*: the two senders pick the same row |
| `digest` | 2 calls, 1 command handler, 2 faults | no count is lost, repeats are explained, digests precede notices, and every counted call is reported in the end |
| `transports` | 2 transports, 2 commands, 1 refusal | sound pollers and an enabled transport at every moment (`PollersSound`), the refinement of `TransportLife`, no lost switch and a shutdown that keeps readiness (`StepsSound`), and an enabled transport connects in the end |
| `transports_visible` | the same | *violated*: a stale goroutine erases a failure |
| `telegram` | 3 updates, 2 pollers, 3 switches, 2 faults | nothing is lost, first handling in order, repeats explained, every update handled in the end |
| `max` | 2 updates, 2 generations, 4 switches, 2 restarts | nothing is handled twice, losses and order explained, every update settled in the end |
| `config_store` | 1 host with 2 annotations, 2 handlers and setup, 3 commands, 2 faults | saves survive, memory is ahead of the file only after a failed save, level and transports agree everywhere, only a stale host add loses an annotation |
| `remote_command` | 3 hosts (one disabled, or one missing), 2 at a time, 6 commands, 1 change | expressions select what they say, reports hide nothing, nothing leaks, transfers are whole, commands end |
| `action_message` | 2 chats, 2 changes of level or reach, 2 failed writes, an end of the process | every chat that was addressed has its answer, or its queue and then its transport or the process failed; what else is left there is explained; the action ends unless the process does |
| `update` | 1 installation by chat and 2 from a terminal, 2 releases, 2 faults | the binary is whole and the last one asked for; a notice is sent at most once, unless its marker could not be removed, and names the release that runs, unless installations overlapped |

Why these bounds: two sessions and two keys let a session hold a signer of a window
that was closed and opened again with another key; three commands are an unlock, a
key file change and another unlock. Two messages are an order; two attempts
distinguish a first refusal from the last; a fault in the first message leaves one for
the second. Two calls let one be counted while the other is reported. Two commands
switch a transport off and on beside a generation that lingers, from the pollers of two
transports. Two pollers are one that lingers and its successor; two updates are a batch of two, or
a batch that is overtaken by the next. Three configuration commands are a host add, the
annotation that comes between its read and its write, and a command of another kind;
two faults are a failed save and the loss of power after it. Three hosts let two run while one
waits, and every operator of an expression changes the result; the one change of a host may
come between any two reads. Two chats are one with an id and one without. Two terminal
installations overlap while a third ends with the daemon. Every bound is a
constant named `Max...`, and the proofs drop them.

Deadlock is not checked: the clocks, the message counts, the commands and the faults are
bounded, so each model stops when they are used up. That nothing waits for ever is what
the liveness properties say.

### Fairness

`Credential`: the watcher's ticker fires and gets the mutex; nothing makes an operator
act. `Outbox`: goroutines run, a request ends with an answer or an error (the clients
have timeouts), deferred rows come due and the flush has its 30 seconds; nothing makes
a user enqueue, toggle or shut down, and a transport need not come back: `AllSettled`
assumes it does. `Digest`: the hour comes, the service manager restarts the daemon,
queueing ends, and the mutex is fair (`SF` on `Begin`: Go's mutex hands itself to a
waiter that starves). `TransportManager`: goroutines run, and a platform that is asked
again and again answers (`SF` on the handshake: a handshake that fails is retried for
ever); no refusal and no command need come, nor need a poller get a batch.
`TelegramIngest`, `MaxIngest`: the same; an answer that is asked for again and again
arrives, and a transport that was started is polled (`EnabledConnects`).
`RemoteCommand`: goroutines run and the deadlines of dial and handshake pass; a request on
a connection that is cut returns. No server has to answer, and so `CommandEnds` leaves out
the sessions that wait for a silent server after the handshake, until the shutdown
cancels them. `ActionMessage`: the goroutines of command and announcement run, requests end by the
clients' ten seconds, and the command itself ends (`CommandEnds`), all while the process lives;
a critical notice need not succeed, and the process need not end. `ConfigStore` and `Update` state safety only: nobody has to repeat a command
that failed.

### Findings

* `outbox_two_senders`: `handleInstallVersionMessage` (update.go:408-419) flushes the
  outbox while `Run` is active, which outbox.go:133-134 and daemon.go:140 say must not
  happen. The head message can be sent twice without any fault. Order and marks are
  not affected: the theorems `Ordered` and `Honest` hold of `InstallSpec` too, and
  `DuplicatesBounded` limits the damage to one copy for each sender.
* `transports_visible`: a connecting goroutine deletes the failure of its transport
  before its generation is compared (daemon.go:239), so one that was stopped erases the
  permanent failure of its successor. The transport is shown as connecting for ever and
  takes part in broadcasts; daemon_test.go:341-368 expects that the failure is visible.

* `action_message` (it passes, and names the case as an exception): `criticalNotifyAddress` returns without
  having sent anything when its transport is disabled or not routable (daemon.go:543-548),
  while the comment at daemon.go:526-527 says that the notice "retries forever". A chat whose
  reply the queue refused, and whose transport is away when the notice looks, is told nothing
  at all, even if the transport comes back. `EveryoneAnswered` allows it as `Forsaken`; with
  that taken out TLC finds the chat. The tests daemon_test.go:102-162 expect the return, so the
  comment is what is wrong.

What the models show and no run states as a violation:

* A `transports on` that is served while the daemon shuts down makes a transport unready
  (daemon.go:220), which `PollExitKeepsReady` therefore excepts.
* A batch of Telegram whose offset was not stored when the process ended is handled
  again, at a plain restart too, since runDaemon waits for no poller.
  `RepeatsExplained` says how often.
* A stopped goroutine whose request was refused may mark a transport failed that a new
  generation has connected (daemon.go:265). Nothing in the repository says what failed
  means for a later generation, so no property decides it.
* A host add undoes what another command changed between its read and its write
  (daemon.go:1591); `OnlyStaleAddOverwrites` says that nothing else does.
* A failed save of the hosts leaves memory ahead of the file (config.go:124), two level
  commands that overlap may leave the level in memory, file and audit state different,
  and `picoman setup` may take back a setting; `MemoryAheadExplained` and
  `SettingsAgree` name these exceptions and exclude any other.
* A chat may keep a start message without its result only when the platform did not
  answer, refused the edit, or the process ended before the action was over; it gets the result
  twice only when the platform did not answer the edit (`LeftoversExplained`).
* An action under way when the process ends, at a shutdown or an update too, is never
  answered: nothing waits for its goroutine, and nothing takes up its start message
  afterwards. A chat command of Telegram may be handled again, as said above.
* A restart marker that is written while the daemon reads an earlier one is removed unread, and a
  daemon that ends between the removal and the notice announces nothing: a notice is sent at
  most once (`AnnouncedOnce`).

## Proofs

Each proof follows one pattern: an inductive invariant `IInv`, a lemma per action that
it is preserved, and theorems that follow from it. The only assumptions are those the
modules state on their constants.

* `CredentialProofs`, of `Credential`. Type correctness, `KeySafe` (`Safe`), `WatcherSparesOpenWindow`
  (`WatcherSafe`) and the refinement of `KeyAuthorization` (`ImplementsAuthorization`).
  That a signature is made with the key a session offered is not inductive: a session
  may sign with the current key although it captured another. `IInv` adds that a
  captured generation is never later than the current one and that a signer of the
  current generation was captured with the current key; every write to `signer` starts
  a new generation.
* `CredentialProofs`, of `Update`. `BinarySound` (`BinaryWhole`) and `NoticesSound` (`NoticesTrue`), for
  any number of installations. A notice names the release that runs, with one exception that
  `NoticeTruthful` states: the daemon was started before that installation had replaced the
  binary, or after a later one that overlaps it had. `UpdateIInv` adds that what is copied is what was asked for
  (`BodyVerified`); that the history of replaced binaries has each installation once, from its
  `rename` on (`HistoryTrue`); that the daemon runs what was in place when it was started
  (`RunningKnown`); that a readable marker, and one that was read, is of an installation in that history
  (`MarkerTrue`); and that, unless a marker could not be removed, nobody whose marker is still
  to be written, read or announced has been announced, and no marker that was removed comes
  back (`Unannounced`).
* `RemoteCommandProofs`. Type correctness, `SelectedAsWritten` (`Selected`), `ReportTrue`
  (`Reported`), `NothingLeaks` (`Released`) and `TransferWhole` (`Whole`), for any
  expression. `Evaluated` is the invariant of the two loops: for a host that nobody
  changed, `current` denotes the selectors read so far of this clause and `union` the
  clauses before it. `Closed` and `Result` say what a session's place implies of its
  connection, files and result, and `Joined` carries that to the report.
* `OutboxProofs`. Type correctness, `InOrder` (`Ordered`) and `MarksHonest` (`Honest`),
  with install commands too. `InOrder` is not inductive: a sender that holds a copy
  of a row could send it after the queue has changed. `IInv` adds that when a sender
  holds a row, every earlier row is settled; that a sender about to mark a row sent has
  a delivery to show; and that stored and copied attempts never exceed the refusals.
  For a daemon without install commands, `OneSenderPerRow` (`TakeTurns`) and
  `DeliveriesExplained` (`Explained`): by `SInv`, `Run` and the flush at exit take turns by
  the phase of the daemon, a sender holds only a row that nobody has settled, and every
  acceptance is recorded, counted as unrecorded, or known to the sender of its row.
  That is an equality (`Accounted`), because it also gives the refinement of `MessageLane`
  (`ImplementsLane`), whose guards ask whether an acceptance is known. `LanePromises` reads off
  `MessageLane` alone what the outbox then inherits. `DuplicatesBounded` is about any number of
  install commands that flush beside `Run`: `Bounded` says that the acceptances of a pending row
  are unrecorded or known to different senders (`Holders`), and that once a row is settled only
  the senders that already work on it (`Waiting`) can add to them; so a row has at most as many
  copies as there are senders, besides the unrecorded. Its statement, `OneCopyPerSender`, is
  in the module of proofs and no run checks it.
* `DigestProofs`. Type correctness, `NoneLost` (`NoLoss`) and `DigestBeforeNotice`
  (`Announced`). `NoneLost` speaks of the stored copy, but the digest clears memory
  first: `IInv` adds that a counted call is in memory or reported while the daemon is
  up, that at most one goroutine holds the mutex, that what its digest has not queued
  yet covers the counts, and that what was owed when a digest was asked for is still
  counted or reported. `RepeatsExplained` (`RepeatsPaid`) rests on a second invariant:
  a call `Owes` one more report while it is counted and not yet queued, or still stored;
  it has been reported at most as often as there were faults while it owes, and once more
  when it does not.
* `TransportManagerProofs`, of `TransportManager`. Type correctness, `PollersSound` (`Sound`),
  `StepsSound` (`Steps`, from `OwnSwitch` and `FlushKeepsReady`) and the refinement of `TransportLife`
  (`ImplementsLife`), for any number of transports. `Generation` and `Transport` tie the
  two views together: a live poller is the one the manager knows, and the one it knows is
  live. `Commands` says that what the holder of `toggleMu` has read is still true when it
  saves, and `Counted` that the generations of the model suffice. The refinement adds
  `ConnectingKnown`: between its start and its deferred end a generation is the one of
  `connectGen`, or was abandoned. So `start`, which finds neither a poll nor a handshake, finds only
  cancelled goroutines, and `stop` cancels all that are left. `LifePromises` concludes that
  at most one goroutine of a transport may still ask for updates.
* `TransportManagerProofs`, of `ActionMessage`. `EveryoneAnswered` (`AllAnswered`), for any number of
  chats. It speaks of an action that is over; `ActionIInv` follows a chat to that point. Whoever was addressed
  is still to be told of the start or is listed (`Addressed`), the list is received once, when the
  announcement is over (`ChannelOrdered`), nobody has the result before the command has ended
  (`NotYetTold`), then each has it, is about to be edited or queued for, or has a notice begun
  (`AnswerDue`); a notice that is given up was away since the queue refused its reply
  (`NoticeDue`), one that is not is sent, under way, or ended with the process; and
  what else is left in a chat has its cause or is still to be edited (`LeftoversDue`).
* `TelegramIngestProofs`. Type correctness, `NoneLost` (`NoLoss`) and `FirstInOrder`
  (`Ordered`). `NoneLost` speaks of what Telegram and the database hold, which pollers
  copy from their variables; `AllCovered` says of every offset in the system, and of the
  start of every batch, that all updates before it have been handled. `RepeatsExplained`
  (`RepeatsPaid`) is proved by accounts: the handlings of an update, the running pollers
  whose offset is not past it (`Behind`) and a stored offset that stands alone (`Due`)
  are together at most one more than the faults.
* `MaxIngestProofs`. Type correctness and `AtMostOnce` (`Once`). `IInv` adds what makes
  a marker in memory enough: one goroutine at a time is between request and answer; an
  answer starts behind the marker and the marker is past everything handled or held in a
  batch; without a marker every goroutine is still connecting, so that the answer which
  sets it, and which reaches past everything known, is drained. `LossExplained` (`Lost`) and
  `OvertakesStopped` (`Overtaken`) add that everything before the marker, and before what
  is asked for, is accounted for; that one goroutine is not stopped; and that it has no
  answer while a stopped one waits for its own, so that its batch comes last.
* `ConfigStoreProofs`. `SavedSurvives` (`Saved`), `MemoryAheadExplained` (`Memory`),
  `SettingsAgree` (`Agree`) and `OnlyStaleAddOverwrites` (`TakesOver`). `IInv` says what
  each mutex protects: while one command holds `Config.mu`, memory is what it saves
  (`HostsHeld`); while one holds the mutex of config.json, what it has read is what the
  file holds (`ConfigHeld`); a level command that no other overlaps knows what memory,
  file and audit state are at each of its steps (`LevelHeld`); a host add knows its host
  or the host has changed (`AddKnows`).

Every invariant, action property and refinement that a passing run checks is proved. Only
model-checked is liveness (`ExpiredKeyLocked`, `AllSettled`, `ShutdownEnds`,
`CountedIsReported`, `EnabledConnects`, `AllHandled`, `CommandEnds`, `ActionEnds`),
which is out of the prover's reach.

## Not modelled

* HTTP and JSON of the platform clients, certificates, the questions of the setup
  wizard, the command line, the service unit and all formatting: sequential input and
  output without shared state. The outcomes of requests are the nondeterministic
  answers of `Outbox`, `ActionMessage` and the ingest; setup's save is in `ConfigStore`.
* Pure functions of strings: parsing of expressions (a command's clauses are a constant of
  `RemoteCommand`), path checks of transfers, validators and `normalize`.
* The socket's protocol: base64 fields on a line, one request per connection.
* The developer's build, the list of releases and uninstall.
* A composition of all of `runDaemon`: each module has the part of its start and shutdown
  that concerns it. The parts meet in few variables (the lock in `RemoteCommand`, readiness in
  `Outbox`, pollers in the ingest), which each module lets change as its neighbour's
  theorems allow.
* The interval that a digest names: its end is read before the mutex is free, its start is
  the end of the one before. No property is about its text.
* A loss of power during an installation: `copyFile` does not sync, so the binary after one is
  whatever the file system kept. `Update` has ends of processes only; `ConfigStore`,
  whose code syncs, has both.
* The notice that `markUnavailable` queues after it has marked a transport failed
  (daemon.go:270): it goes into the outbox like any other and changes nothing in the manager.
* Which exit code a remote command ended with: `RemoteCommand` knows success, refusal by the
  remote command and failure of ssh, so a command that itself exits with 255, which the code
  takes for a failure of ssh, is one of the latter; and which of several error texts is reported.
* The text of a message, except for the two features whose loss the outbox handles (the
  reply and the HTML format).

## Plan

1. Done: the modules and runs above, the proofs of their safety properties and three
   refinements (`KeyAuthorization`, `MessageLane`, `TransportLife`).
2. Next to prove: a refinement for the digest (counts that are added and taken once) and one
   for the ingest (an update is handled, then forgotten), as `MessageLane` is for the outbox.
3. Next to model: start and shutdown of credential, digest, transport manager and outbox
   in one `Daemon` module, with the order of `runDaemon`'s deferred calls.
4. To decide with the code's authors: what `failed` means for a later generation
   (daemon.go:265), whether an installation's flush may run beside `Run`, and whether a
   host add should read and write under one lock.
