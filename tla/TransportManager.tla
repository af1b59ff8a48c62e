-------------------------- MODULE TransportManager --------------------------
(***************************************************************************)
(* transportManager (cmd/picoman/daemon.go): a goroutine per start         *)
(* connects to a platform and hands over to one that polls it.  Goroutines*)
(* that were stopped linger: they are told apart by their generation.     *)
(* Commands that switch a transport on or off are served by the pollers.  *)
(***************************************************************************)
EXTENDS Naturals, FiniteSets

CONSTANTS
    Names,        \* the configured transports
    NoName,
    MaxToggles,   \* bound: commands that switch a transport
    MaxRefusals   \* bound: permanent errors of the platforms

ASSUME NamesAssumption == IsFiniteSet(Names) /\ Names # {} /\ NoName \notin Names
ASSUME BoundsAssumption == MaxToggles \in Nat /\ MaxRefusals \in Nat

VARIABLES
    disabled,    \* Config.DisabledTransports, in memory and in the file
    nextGen,
    connecting,  \* connectGen and connectCancel: a generation, 0 for none
    polling,     \* pollGen and cancel: a generation, 0 for none
    ready, failed,
    main,        \* the transports that startConfigured has yet to start
    of,          \* the transport of each generation
    connector,   \* where each generation's connecting goroutine is
    poller,      \* where its polling goroutine is, and the command it serves
    abandoned,   \* the generations whose connectCancel stop has called
    stopped,     \* the generations whose cancel, that of the poll, it has called
    shutdown,    \* the daemon's context is cancelled
    toggles, refusals

managerVars == <<nextGen, connecting, polling, ready, failed, of, connector,
                 abandoned, stopped>>
vars == <<disabled, nextGen, connecting, polling, ready, failed, main, of, connector,
          poller, abandoned, stopped, shutdown, toggles, refusals>>

\* A start for each transport and for each command.
Gens == 1 .. Cardinality(Names) + MaxToggles

Command == [on : BOOLEAN, name : Names, disabled : SUBSET Names]
NoCommand == [on |-> FALSE, name |-> NoName, disabled |-> {}]
Off == [pc |-> "off", cmd |-> NoCommand]

Init ==
    /\ disabled \in (SUBSET Names) \ {Names}
    /\ nextGen = 0
    /\ connecting = [n \in Names |-> 0]
    /\ polling = [n \in Names |-> 0]
    /\ ready = [n \in Names |-> FALSE]
    /\ failed = [n \in Names |-> FALSE]
    /\ main = Names
    /\ of = [g \in Gens |-> NoName]
    /\ connector = [g \in Gens |-> "off"]
    /\ poller = [g \in Gens |-> Off]
    /\ abandoned = {} /\ stopped = {}
    /\ shutdown = FALSE
    /\ toggles = 0 /\ refusals = 0

\* isRoutable, isReady.
IsRoutable(n) == ~failed[n]
IsReady(n) == ready[n] /\ ~failed[n]

Refusal == refusals < MaxRefusals /\ refusals' = refusals + 1

-----------------------------------------------------------------------------
(* start and stop, under m.mu.                                             *)

Start(n) ==
    IF polling[n] # 0 \/ connecting[n] # 0 \/ n \in disabled
    THEN UNCHANGED managerVars
    ELSE /\ nextGen' = nextGen + 1
         /\ connecting' = [connecting EXCEPT ![n] = nextGen + 1]
         /\ ready' = [ready EXCEPT ![n] = FALSE]
         /\ failed' = [failed EXCEPT ![n] = FALSE]
         /\ of' = [of EXCEPT ![nextGen + 1] = n]
         /\ connector' = [connector EXCEPT ![nextGen + 1] = "trying"]
         /\ UNCHANGED <<polling, abandoned, stopped>>

\* Mutant: stop leaves the transport ready.
StopStaysReady(n) ==
    /\ abandoned' = abandoned \cup ({connecting[n]} \ {0})
    /\ stopped' = stopped \cup ({polling[n]} \ {0})
    /\ connecting' = [connecting EXCEPT ![n] = 0]
    /\ polling' = [polling EXCEPT ![n] = 0]
    /\ UNCHANGED <<nextGen, ready, failed, of, connector>>

\* Mutant: stop cancels the poller and forgets the handshake.
StopLetsConnect(n) ==
    /\ ready' = [ready EXCEPT ![n] = FALSE]
    /\ stopped' = stopped \cup ({polling[n]} \ {0})
    /\ connecting' = [connecting EXCEPT ![n] = 0]
    /\ polling' = [polling EXCEPT ![n] = 0]
    /\ UNCHANGED <<nextGen, failed, of, connector, abandoned>>

Stop(n) ==
    /\ ready' = [ready EXCEPT ![n] = FALSE]
    /\ abandoned' = abandoned \cup ({connecting[n]} \ {0})
    /\ stopped' = stopped \cup ({polling[n]} \ {0})
    /\ connecting' = [connecting EXCEPT ![n] = 0]
    /\ polling' = [polling EXCEPT ![n] = 0]
    /\ UNCHANGED <<nextGen, failed, of, connector>>

\* startConfigured: one transport after the other.
StartConfigured(n) ==
    /\ n \in main
    /\ main' = main \ {n}
    /\ Start(n)
    /\ UNCHANGED <<disabled, poller, shutdown, toggles, refusals>>

Shutdown ==
    /\ main = {} /\ ~shutdown
    /\ shutdown' = TRUE
    /\ UNCHANGED <<disabled, managerVars, main, poller, toggles, refusals>>

\* The state of a transport after a permanent error.
MarkUnavailable(g) ==
    /\ ready' = [ready EXCEPT ![of[g]] = FALSE]
    /\ failed' = [failed EXCEPT ![of[g]] = TRUE]

-----------------------------------------------------------------------------
(* The goroutine that start creates.                                       *)

\* Where a step of a connecting goroutine leads, all else being equal.
ConnectorGoes(g, from, to) ==
    /\ connector[g] = from
    /\ connector' = [connector EXCEPT ![g] = to]
    /\ UNCHANGED <<disabled, nextGen, connecting, main, of, abandoned, stopped, shutdown,
                   toggles>>

\* The condition of the loop: stopped, or switched off.
GiveUp(g) ==
    /\ g \in abandoned \/ shutdown \/ of[g] \in disabled
    /\ ConnectorGoes(g, "trying", "ending")
    /\ UNCHANGED <<polling, ready, failed, poller, refusals>>

\* The handshake: a request may succeed although it is cancelled meanwhile.
HandshakeSucceeds(g) ==
    /\ ConnectorGoes(g, "trying", "welcome")
    /\ UNCHANGED <<polling, ready, failed, poller, refusals>>

HandshakeRefused(g) ==
    /\ Refusal
    /\ ConnectorGoes(g, "trying", "refused")
    /\ UNCHANGED <<polling, ready, failed, poller>>

HandshakeFails(g) ==
    /\ ConnectorGoes(g, "trying", "sleeping")
    /\ UNCHANGED <<polling, ready, failed, poller, refusals>>

\* Mutant: one failed handshake is the end.
WakeGivesUp(g) ==
    /\ ConnectorGoes(g, "sleeping", "ending")
    /\ UNCHANGED <<polling, ready, failed, poller, refusals>>

Wake(g) ==
    /\ ConnectorGoes(g, "sleeping", IF g \in abandoned \/ shutdown THEN "ending" ELSE "trying")
    /\ UNCHANGED <<polling, ready, failed, poller, refusals>>

ConnectorMarks(g) ==
    /\ ConnectorGoes(g, "refused", "ending")
    /\ MarkUnavailable(g)
    /\ UNCHANGED <<polling, poller, refusals>>

\* delete(m.failed, name) comes before the generation is looked at.
ClearFailure(g) ==
    /\ ConnectorGoes(g, "welcome", "connected")
    /\ failed' = [failed EXCEPT ![of[g]] = FALSE]
    /\ UNCHANGED <<polling, ready, poller, refusals>>

\* Mutant: startPoll for a transport that was switched off.
MayPollDisabled(g) == polling[of[g]] = 0

MayPoll(g) ==
    /\ of[g] \notin disabled
    /\ polling[of[g]] = 0
    /\ connecting[of[g]] = g

StartPoll(g) ==
    /\ ConnectorGoes(g, "connected", "ending")
    /\ IF MayPoll(g)
       THEN /\ polling' = [polling EXCEPT ![of[g]] = g]
            /\ ready' = [ready EXCEPT ![of[g]] = TRUE]
            /\ poller' = [poller EXCEPT ![g].pc = "polling"]
       ELSE UNCHANGED <<polling, ready, poller>>
    /\ UNCHANGED <<failed, refusals>>

\* The deferred function.
EndConnector(g) ==
    /\ connector[g] = "ending"
    /\ connector' = [connector EXCEPT ![g] = "off"]
    /\ connecting' = [connecting EXCEPT ![of[g]] = IF @ = g THEN 0 ELSE @]
    /\ UNCHANGED <<disabled, nextGen, polling, ready, failed, main, of, poller,
                   abandoned, stopped, shutdown, toggles, refusals>>

-----------------------------------------------------------------------------
(* The goroutine that startPoll creates: pollTelegram or pollMAX.          *)

PollerGoes(g, from, to) ==
    /\ poller[g].pc = from
    /\ poller' = [poller EXCEPT ![g] = [pc |-> to, cmd |-> NoCommand]]
    /\ UNCHANGED <<nextGen, connecting, polling, of, connector, abandoned, stopped, main,
                   shutdown, toggles>>

\* A batch is handled to its end, whether the context is cancelled or not.
Receive(g) ==
    /\ PollerGoes(g, "polling", "handling")
    /\ UNCHANGED <<disabled, ready, failed, refusals>>

BatchDone(g) ==
    /\ PollerGoes(g, "handling", IF g \in stopped \/ shutdown THEN "ending" ELSE "polling")
    /\ UNCHANGED <<disabled, ready, failed, refusals>>

\* getUpdates ends because the context is cancelled.
PollEnds(g) ==
    /\ g \in stopped \/ shutdown
    /\ PollerGoes(g, "polling", "ending")
    /\ UNCHANGED <<disabled, ready, failed, refusals>>

\* 401 or 403; the context is not looked at again.
PollRefused(g) ==
    /\ g \notin stopped /\ ~shutdown
    /\ Refusal
    /\ PollerGoes(g, "polling", "refused")
    /\ UNCHANGED <<disabled, ready, failed>>

PollerMarks(g) ==
    /\ PollerGoes(g, "refused", "ending")
    /\ MarkUnavailable(g)
    /\ UNCHANGED <<disabled, refusals>>

\* Mutant: finishPoll resets ready even for the daemon's flush.
FinishPollNeverReady(g) ==
    /\ poller[g].pc = "ending"
    /\ poller' = [poller EXCEPT ![g] = Off]
    /\ polling' = [polling EXCEPT ![of[g]] = IF @ = g THEN 0 ELSE @]
    /\ ready' = [ready EXCEPT ![of[g]] = polling[of[g]] # g /\ @]
    /\ UNCHANGED <<disabled, nextGen, connecting, failed, main, of, connector,
                   abandoned, stopped, shutdown, toggles, refusals>>

FinishPoll(g) ==
    /\ poller[g].pc = "ending"
    /\ poller' = [poller EXCEPT ![g] = Off]
    /\ polling' = [polling EXCEPT ![of[g]] = IF @ = g THEN 0 ELSE @]
    /\ ready' = [ready EXCEPT ![of[g]] = (polling[of[g]] # g \/ shutdown) /\ @]
    /\ UNCHANGED <<disabled, nextGen, connecting, failed, main, of, connector,
                   abandoned, stopped, shutdown, toggles, refusals>>

-----------------------------------------------------------------------------
(* cmdTransports, inside the poller that received the command.             *)

InCommand(g) == poller[g].pc \in {"checked", "saved"}

\* Mutant: cmdTransports does not take toggleMu.
ToggleAnyTime == TRUE

\* toggleMu is held to the end of the command.
ToggleFree == ~\E g \in Gens : InCommand(g)

\* Mutant: the enabled transports are not counted.
MaySwitchOffLast(g, n) == of[g] # n

\* A transport is not switched off by its own command, nor the last one.
MaySwitchOff(g, n) ==
    /\ of[g] # n
    /\ n \in disabled \/ Cardinality(Names \ disabled) > 1

Check(g) ==
    /\ poller[g].pc = "handling"
    /\ toggles < MaxToggles
    /\ toggles' = toggles + 1
    /\ ToggleFree
    /\ \E on \in BOOLEAN, n \in Names :
          /\ on \/ MaySwitchOff(g, n)
          /\ poller' = [poller EXCEPT ![g] =
                [pc |-> "checked",
                 cmd |-> [on |-> on, name |-> n,
                          disabled |-> IF on THEN disabled \ {n} ELSE disabled \cup {n}]]]
    /\ UNCHANGED <<disabled, managerVars, main, shutdown, refusals>>

\* SetDisabledTransports: the file first, then the memory, or an error.
SaveDisabled(g) ==
    /\ poller[g].pc = "checked"
    /\ \/ /\ disabled' = poller[g].cmd.disabled
          /\ poller' = [poller EXCEPT ![g].pc = "saved"]
       \/ /\ poller' = [poller EXCEPT ![g] = [pc |-> "handling", cmd |-> NoCommand]]
          /\ UNCHANGED disabled
    /\ UNCHANGED <<managerVars, main, shutdown, toggles, refusals>>

Apply(g) ==
    /\ poller[g].pc = "saved"
    /\ poller' = [poller EXCEPT ![g] = [pc |-> "handling", cmd |-> NoCommand]]
    /\ IF poller[g].cmd.on THEN Start(poller[g].cmd.name) ELSE Stop(poller[g].cmd.name)
    /\ UNCHANGED <<disabled, main, shutdown, toggles, refusals>>

ConnectorStep(g) ==
    \/ GiveUp(g) \/ HandshakeSucceeds(g) \/ HandshakeRefused(g) \/ HandshakeFails(g)
    \/ Wake(g) \/ ConnectorMarks(g) \/ ClearFailure(g) \/ StartPoll(g) \/ EndConnector(g)

PollerStep(g) ==
    \/ Receive(g) \/ BatchDone(g) \/ PollEnds(g) \/ PollRefused(g) \/ PollerMarks(g)
    \/ FinishPoll(g) \/ Check(g) \/ SaveDisabled(g) \/ Apply(g)

Next ==
    \/ \E n \in Names : StartConfigured(n)
    \/ \E g \in Gens : ConnectorStep(g) \/ PollerStep(g)
    \/ Shutdown

\* Goroutines run, and a platform that is asked again and again answers.
Fairness ==
    /\ \A n \in Names : WF_vars(StartConfigured(n))
    /\ \A g \in Gens : /\ WF_vars(ConnectorStep(g))
                       /\ SF_vars(HandshakeSucceeds(g))
                       /\ WF_vars(SaveDisabled(g)) /\ WF_vars(Apply(g))

Spec == Init /\ [][Next]_vars /\ Fairness

-----------------------------------------------------------------------------
(* Properties.                                                             *)

\* Every variable has its type.
TypeOK ==
    /\ disabled \subseteq Names
    /\ nextGen \in Gens \cup {0}
    /\ connecting \in [Names -> Gens \cup {0}]
    /\ polling \in [Names -> Gens \cup {0}]
    /\ ready \in [Names -> BOOLEAN]
    /\ failed \in [Names -> BOOLEAN]
    /\ main \subseteq Names
    /\ of \in [Gens -> Names \cup {NoName}]
    /\ connector \in [Gens -> {"off", "trying", "sleeping", "welcome", "connected",
                               "refused", "ending"}]
    /\ poller \in [Gens -> [pc : {"off", "polling", "handling", "checked", "saved",
                                  "refused", "ending"},
                            cmd : Command \cup {NoCommand}]]
    /\ abandoned \subseteq Gens /\ stopped \subseteq Gens
    /\ shutdown \in BOOLEAN
    /\ toggles \in Nat /\ refusals \in Nat

Live(g) == poller[g].pc # "off" /\ g \notin stopped

\* However often a transport is switched, at most one goroutine polls it with a
\* context that nobody cancelled: two would both handle every command.
OnePoller ==
    \A g, h \in Gens : Live(g) /\ Live(h) /\ of[g] = of[h] => g = h

\* The outbox is let use a transport only while its poller runs; a daemon that
\* shuts down is let use it to the end.
ReadyIsPolled ==
    \A n \in Names : IsReady(n) /\ ~shutdown => polling[n] # 0 /\ Live(polling[n])

\* A transport that is switched off has no poller and is not ready, although its
\* connecting goroutine may have been about to start one.
DisabledIsQuiet ==
    \A n \in disabled :
        \/ \E g \in Gens : poller[g].pc = "saved" /\ poller[g].cmd.name = n
        \/ ~ready[n] /\ ~\E g \in Gens : of[g] = n /\ Live(g)

\* The last transport is not switched off, not even by a poller that lingers after
\* its own transport was.
SomeEnabled == disabled # Names

\* What the manager promises about its pollers and its switches, whatever generations linger
\* (startPoll, stop, finishPoll, cmdTransports).
PollersSound == OnePoller /\ ReadyIsPolled /\ DisabledIsQuiet /\ SomeEnabled

\* The generations of a transport that connect or poll, and those that were cancelled.
Alive(n) == {g \in Gens : of[g] = n /\ (connector[g] # "off" \/ poller[g].pc # "off")}
Cancelled(n) == Alive(n) \cap (abandoned \cup stopped)

Life(n) == INSTANCE TransportLife WITH
    Goroutines <- Gens, alive <- Alive(n), cancelled <- Cancelled(n)

\* However start, startPoll, stop and the ends of stale goroutines interleave, a generation
\* of a transport begins to connect only when all earlier ones, connecting or polling, are
\* cancelled: what TelegramIngest and MaxIngest assume of their goroutines.
LifeSpec ==
    /\ \A n \in Names : Life(n)!Init
    /\ [][\A n \in Names : [Life(n)!Next]_(Life(n)!life)]_vars

\* A command saves the set that it read before, and still changes no transport but
\* its own: the commands of two pollers do not undo each other.
OwnSwitchOnly ==
    [][\A n \in Names : (n \in disabled) # (n \in disabled') =>
          \E g \in Gens : /\ poller[g].pc = "checked" /\ poller[g].cmd.name = n
                          /\ poller'[g].pc = "saved"]_vars

\* A poller that ends because the daemon stops leaves its transport ready for the
\* flush; only a permanent error or a command makes it unready then.
PollExitKeepsReady ==
    [][\A n \in Names : shutdown /\ ready[n] /\ ~ready'[n] =>
          failed'[n] \/ n \in disabled \/ connecting'[n] # connecting[n]]_vars

\* What no step of the manager may do: undo the switch of another transport, or take from the
\* flush a transport that it may still use (cmdTransports, finishPoll).
StepsSound == OwnSwitchOnly /\ PollExitKeepsReady

\* A transport that stays enabled is connected in the end, however often it was
\* switched, unless the platform refuses it for good.
EnabledConnects ==
    \A n \in Names :
        n \notin disabled ~> IsReady(n) \/ n \in disabled \/ shutdown \/ refusals > 0

\* A permanent failure is recorded and stays visible (daemon_test.go:341-368) until
\* the transport is started again.
FailureStaysVisible ==
    [][\A n \in Names : failed[n] /\ ~failed'[n] => connecting'[n] # 0]_vars
=============================================================================
