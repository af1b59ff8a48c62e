----------------------- MODULE TransportManagerProofs -----------------------
(***************************************************************************)
(* Whom the daemon reaches, and what they are told: the theorems of        *)
(* TransportManager, for any number of transports, commands and refusals,  *)
(* and of ActionMessage, for any number of chats.                          *)
(***************************************************************************)
EXTENDS TransportManager, ActionMessage, FiniteSetTheorems, TLAPS

\* A connecting goroutine that may still start a poller.
Pre == {"trying", "sleeping", "welcome", "connected", "refused"}

\* There are generations enough: one for each transport that is still to be started and for
\* each command.
Counted ==
    /\ nextGen + Cardinality(main) <= Cardinality(Names) + toggles
    /\ toggles <= MaxToggles
    /\ (\E g \in Gens : InCommand(g)) =>
           nextGen + Cardinality(main) < Cardinality(Names) + toggles

\* A generation has a transport and runs from its start on, and as long as its poller is
\* live the manager knows it.
Generation(g) ==
    /\ g <= nextGen => of[g] \in Names
    /\ g > nextGen => connector[g] = "off" /\ poller[g].pc = "off" /\ g \notin stopped
    /\ connector[g] \in Pre => poller[g].pc = "off" /\ g \notin stopped
    /\ Live(g) => polling[of[g]] = g

\* The poller that the manager knows is live; a transport without one is not ready, and one
\* that is switched off has none unless its command has yet to stop it.
Transport(n) ==
    /\ polling[n] # 0 => of[polling[n]] = n /\ Live(polling[n])
    /\ ready[n] /\ ~shutdown => polling[n] # 0
    /\ n \in disabled /\ (ready[n] \/ polling[n] # 0) =>
           \E g \in Gens : poller[g].pc = "saved" /\ poller[g].cmd.name = n

\* toggleMu: there is one command at a time, and what it read is still true when it saves.
Commands ==
    /\ disabled # Names
    /\ \A g, h \in Gens : InCommand(g) /\ InCommand(h) => g = h
    /\ \A g \in Gens : InCommand(g) => poller[g].cmd \in Command
    /\ \A g \in Gens : poller[g].pc = "checked" =>
          /\ poller[g].cmd.disabled # Names
          /\ poller[g].cmd.disabled = IF poller[g].cmd.on
                                      THEN disabled \ {poller[g].cmd.name}
                                      ELSE disabled \cup {poller[g].cmd.name}
    /\ \A g \in Gens : poller[g].pc = "saved" =>
          (poller[g].cmd.on <=> poller[g].cmd.name \notin disabled)

IInv ==
    /\ TypeOK
    /\ Counted
    /\ \A g \in Gens : Generation(g)
    /\ \A n \in Names : Transport(n)
    /\ Commands

-----------------------------------------------------------------------------

LEMMA Cardinals ==
    /\ Cardinality(Names) \in Nat
    /\ \A S \in SUBSET Names : IsFiniteSet(S) /\ Cardinality(S) \in Nat
    /\ \A S \in SUBSET Names : \A n \in S : Cardinality(S \ {n}) = Cardinality(S) - 1
<1>1. \A S \in SUBSET Names : IsFiniteSet(S)
    BY NamesAssumption, FS_Subset
<1> QED
    BY <1>1, FS_CardinalityType, FS_RemoveElement

LEMMA InitIInv == Init => IInv
<1> SUFFICES ASSUME Init PROVE IInv
    OBVIOUS
<1> USE DEF Init
<1>1. TypeOK
    <2>1. Off \in [pc : {"off", "polling", "handling", "checked", "saved", "refused", "ending"},
                   cmd : Command \cup {NoCommand}]
        BY DEF Off
    <2>2. disabled \subseteq Names /\ main \subseteq Names /\ abandoned \subseteq Gens
          /\ stopped \subseteq Gens
        OBVIOUS
    <2>3. nextGen \in Gens \cup {0} /\ toggles \in Nat /\ refusals \in Nat
          /\ shutdown \in BOOLEAN
        OBVIOUS
    <2>4. /\ connecting \in [Names -> Gens \cup {0}] /\ polling \in [Names -> Gens \cup {0}]
          /\ ready \in [Names -> BOOLEAN] /\ failed \in [Names -> BOOLEAN]
        OBVIOUS
    <2>5. of \in [Gens -> Names \cup {NoName}]
        OBVIOUS
    <2>6. connector \in [Gens -> {"off"}]
        OBVIOUS
    <2>7. poller \in [Gens -> [pc : {"off", "polling", "handling", "checked", "saved",
                                     "refused", "ending"},
                               cmd : Command \cup {NoCommand}]]
        BY <2>1
    <2> QED
        BY <2>2, <2>3, <2>4, <2>5, <2>6, <2>7 DEF TypeOK
<1>2. \A g \in Gens : poller[g].pc = "off"
    BY DEF Off
<1>3. Counted
    BY <1>2, Cardinals, BoundsAssumption DEF Counted, InCommand
<1>4. \A g \in Gens : Generation(g)
    BY <1>2 DEF Generation, Live, Pre, Gens
<1>5. \A n \in Names : Transport(n)
    BY DEF Transport
<1>6. Commands
    BY <1>2 DEF Commands, InCommand
<1> QED
    BY <1>1, <1>3, <1>4, <1>5, <1>6 DEF IInv

-----------------------------------------------------------------------------
(* Steps of one goroutine that start and stop no poller.                   *)

\* A connecting goroutine moves on.
LEMMA ConnectorFrame ==
    ASSUME IInv, TypeOK', NEW g \in Gens,
           UNCHANGED <<disabled, nextGen, polling, main, of, poller, stopped, shutdown, toggles>>,
           connector[g] # "off",
           connector'[g] \in Pre => connector[g] \in Pre,
           \A h \in Gens \ {g} : connector'[h] = connector[h],
           \A n \in Names : ready'[n] => ready[n]
    PROVE  IInv'
<1>1. Counted'
    BY DEF IInv, Counted, InCommand
<1>2. ASSUME NEW h \in Gens PROVE Generation(h)'
    BY DEF IInv, Generation, Live
<1>3. ASSUME NEW n \in Names PROVE Transport(n)'
    BY DEF IInv, Transport, Live
<1>4. Commands'
    BY DEF IInv, Commands, InCommand
<1> QED
    BY <1>1, <1>2, <1>3, <1>4 DEF IInv

\* A polling goroutine moves on, outside a command.
LEMMA PollerFrame ==
    ASSUME IInv, TypeOK', NEW g \in Gens,
           UNCHANGED <<disabled, nextGen, polling, main, of, connector, stopped, shutdown,
                       toggles>>,
           poller[g].pc \notin {"off", "checked", "saved"},
           poller'[g].pc \notin {"off", "checked", "saved"},
           \A h \in Gens \ {g} : poller'[h] = poller[h],
           \A n \in Names : ready'[n] => ready[n]
    PROVE  IInv'
<1>0. /\ \A h \in Gens : Live(h)' <=> Live(h)
      /\ \A h \in Gens : InCommand(h)' <=> InCommand(h)
      /\ \A h \in Gens : InCommand(h) => poller'[h] = poller[h]
    BY DEF Live, InCommand
<1>1. Counted'
    BY <1>0 DEF IInv, Counted
<1>2. ASSUME NEW h \in Gens PROVE Generation(h)'
    BY <1>0 DEF IInv, Generation
<1>3. ASSUME NEW n \in Names PROVE Transport(n)'
    BY <1>0 DEF IInv, TypeOK, Transport
<1>4. Commands'
    BY <1>0 DEF IInv, Commands, InCommand
<1> QED
    BY <1>1, <1>2, <1>3, <1>4 DEF IInv

\* The transport of a goroutine that runs.
LEMMA OfRunning ==
    ASSUME IInv, NEW g \in Gens, connector[g] # "off" \/ poller[g].pc # "off"
    PROVE  of[g] \in Names
BY DEF IInv, TypeOK, Generation, Gens

LEMMA ConnectorIInv ==
    ASSUME IInv, NEW g \in Gens,
           \/ GiveUp(g) \/ HandshakeSucceeds(g) \/ HandshakeRefused(g) \/ HandshakeFails(g)
           \/ Wake(g) \/ ConnectorMarks(g) \/ ClearFailure(g) \/ EndConnector(g)
    PROVE  IInv'
<1> USE DEF IInv
<1>1. CASE GiveUp(g) \/ HandshakeSucceeds(g) \/ HandshakeRefused(g) \/ HandshakeFails(g) \/ Wake(g)
    <2>1. /\ connector[g] \in Pre
          /\ \E to \in Pre \cup {"ending"} : connector' = [connector EXCEPT ![g] = to]
          /\ UNCHANGED <<disabled, nextGen, connecting, polling, ready, failed, main, of, poller,
                         abandoned, stopped, shutdown, toggles>>
          /\ refusals' \in {refusals, refusals + 1}
        BY <1>1 DEF GiveUp, HandshakeSucceeds, HandshakeRefused, HandshakeFails, Wake,
                    ConnectorGoes, Refusal, Pre
    <2>2. TypeOK'
        BY <2>1 DEF TypeOK, Pre
    <2> QED
        BY <2>1, <2>2, ConnectorFrame DEF Pre, TypeOK
<1>2. CASE ConnectorMarks(g) \/ ClearFailure(g)
    <2>1. /\ connector[g] \in Pre
          /\ \E to \in Pre \cup {"ending"} : connector' = [connector EXCEPT ![g] = to]
          /\ UNCHANGED <<disabled, nextGen, connecting, polling, main, of, poller,
                         abandoned, stopped, shutdown, toggles, refusals>>
        BY <1>2 DEF ConnectorMarks, ClearFailure, ConnectorGoes, Pre
    <2>2. of[g] \in Names
        BY <2>1, OfRunning DEF Pre
    <2>3. /\ ready' \in [Names -> BOOLEAN] /\ failed' \in [Names -> BOOLEAN]
          /\ \A n \in Names : ready'[n] => ready[n]
        BY <1>2, <2>2 DEF ConnectorMarks, ClearFailure, MarkUnavailable, TypeOK
    <2>4. TypeOK'
        BY <2>1, <2>3 DEF TypeOK, Pre
    <2> QED
        BY <2>1, <2>3, <2>4, ConnectorFrame DEF Pre, TypeOK
<1>3. CASE EndConnector(g)
    <2>1. TypeOK'
        BY <1>3 DEF EndConnector, TypeOK
    <2> QED
        BY <1>3, <2>1, ConnectorFrame DEF EndConnector, Pre, TypeOK
<1> QED
    BY <1>1, <1>2, <1>3

LEMMA PollerIInv ==
    ASSUME IInv, NEW g \in Gens,
           Receive(g) \/ BatchDone(g) \/ PollEnds(g) \/ PollRefused(g) \/ PollerMarks(g)
    PROVE  IInv'
<1> USE DEF IInv
<1>1. /\ poller[g].pc \in {"polling", "handling", "refused"}
      /\ \E to \in {"polling", "handling", "refused", "ending"} :
            poller' = [poller EXCEPT ![g] = [pc |-> to, cmd |-> NoCommand]]
      /\ UNCHANGED <<disabled, nextGen, connecting, polling, main, of, connector,
                     abandoned, stopped, shutdown, toggles>>
      /\ refusals' \in {refusals, refusals + 1}
    BY DEF Receive, BatchDone, PollEnds, PollRefused, PollerMarks, PollerGoes, Refusal
<1>2. of[g] \in Names
    BY <1>1, OfRunning
<1>3. /\ ready' \in [Names -> BOOLEAN] /\ failed' \in [Names -> BOOLEAN]
      /\ \A n \in Names : ready'[n] => ready[n]
    BY <1>2 DEF Receive, BatchDone, PollEnds, PollRefused, PollerMarks, MarkUnavailable, TypeOK
<1>4. TypeOK'
    BY <1>1, <1>3 DEF TypeOK
<1> QED
    BY <1>1, <1>3, <1>4, PollerFrame DEF TypeOK

\* startPoll starts at most one poller for a transport, and none for one that is off.
LEMMA StartPollIInv ==
    ASSUME IInv, NEW g \in Gens, StartPoll(g)
    PROVE  IInv'
<1> USE DEF IInv
<1> DEFINE n == of[g]
<1>1. /\ connector[g] = "connected"
      /\ connector' = [connector EXCEPT ![g] = "ending"]
      /\ UNCHANGED <<disabled, nextGen, connecting, main, of, abandoned, stopped, shutdown,
                     toggles, failed, refusals>>
    BY DEF StartPoll, ConnectorGoes
<1>2. n \in Names /\ poller[g].pc = "off" /\ g \notin stopped /\ g <= nextGen
    BY <1>1, OfRunning DEF Generation, Pre, TypeOK, Gens
<1>3. CASE ~MayPoll(g)
    <2>1. UNCHANGED <<polling, ready, poller>>
        BY <1>3 DEF StartPoll
    <2>2. TypeOK'
        BY <1>1, <2>1 DEF TypeOK
    <2> QED
        BY <1>1, <2>1, <2>2, ConnectorFrame DEF Pre, TypeOK
<1>4. CASE MayPoll(g)
    <2>1. /\ polling' = [polling EXCEPT ![n] = g]
          /\ ready' = [ready EXCEPT ![n] = TRUE]
          /\ poller' = [poller EXCEPT ![g].pc = "polling"]
        BY <1>4 DEF StartPoll
    <2>2. n \notin disabled /\ polling[n] = 0
        BY <1>4 DEF MayPoll
    <2>3. TypeOK'
        <3>1. poller[g] \in [pc : {"off", "polling", "handling", "checked", "saved",
                                   "refused", "ending"},
                             cmd : Command \cup {NoCommand}]
            BY DEF TypeOK
        <3>2. poller' \in [Gens -> [pc : {"off", "polling", "handling", "checked", "saved",
                                          "refused", "ending"},
                                    cmd : Command \cup {NoCommand}]]
            BY <2>1, <3>1 DEF TypeOK
        <3> QED
            BY <1>1, <1>2, <2>1, <3>2 DEF TypeOK
    <2>4. /\ poller'[g].pc = "polling"
          /\ \A h \in Gens \ {g} : poller'[h] = poller[h]
        BY <2>1 DEF TypeOK
    <2>5. \A h \in Gens : InCommand(h)' <=> InCommand(h)
        BY <2>4, <1>2 DEF InCommand
    <2>6. \A h \in Gens : Live(h)' <=> Live(h) \/ h = g
        BY <2>4, <1>1, <1>2 DEF Live
    <2>7. Counted'
        BY <1>1, <2>5 DEF Counted
    <2>8. ASSUME NEW h \in Gens PROVE Generation(h)'
        <3>1. CASE h = g
            BY <3>1, <1>1, <1>2, <2>1, <2>4, <2>6 DEF Generation, Pre, TypeOK
        <3>2. CASE h # g
            <4>1. Live(h) => of[h] # n
                BY <2>2 DEF Generation, Gens
            <4> QED
                BY <3>2, <4>1, <1>1, <1>2, <2>1, <2>4, <2>6 DEF Generation, TypeOK
        <3> QED
            BY <3>1, <3>2
    <2>9. ASSUME NEW m \in Names PROVE Transport(m)'
        <3>1. CASE m = n
            <4>1. polling'[m] = g /\ g # 0 /\ of'[g] = m
                BY <3>1, <1>1, <1>2, <2>1 DEF TypeOK, Gens
            <4> QED
                BY <3>1, <4>1, <1>1, <2>2, <2>6 DEF Transport
        <3>2. CASE m # n
            <4>1. polling'[m] = polling[m] /\ ready'[m] = ready[m]
                BY <3>2, <1>2, <2>1 DEF TypeOK
            <4>2. \A h \in Gens : poller[h].pc = "saved" => poller'[h] = poller[h]
                BY <1>2, <2>4
            <4> QED
                BY <4>1, <4>2, <1>1, <2>6 DEF Transport, TypeOK
        <3> QED
            BY <3>1, <3>2
    <2>10. Commands'
        <3>1. \A h \in Gens : InCommand(h)' => InCommand(h) /\ poller'[h] = poller[h]
            BY <2>4, <2>5 DEF InCommand
        <3>2. \A h \in Gens :
                  poller'[h].pc \in {"checked", "saved"} => poller'[h] = poller[h]
            BY <2>4
        <3> QED
            BY <1>1, <3>1, <3>2 DEF Commands
    <2> QED
        BY <2>3, <2>7, <2>8, <2>9, <2>10
<1> QED
    BY <1>3, <1>4

\* finishPoll forgets its own generation only.
LEMMA FinishPollIInv ==
    ASSUME IInv, NEW g \in Gens, FinishPoll(g)
    PROVE  IInv'
<1> USE DEF IInv
<1> DEFINE n == of[g]
<1>1. /\ poller[g].pc = "ending"
      /\ poller' = [poller EXCEPT ![g] = Off]
      /\ polling' = [polling EXCEPT ![n] = IF @ = g THEN 0 ELSE @]
      /\ ready' = [ready EXCEPT ![n] = (polling[n] # g \/ shutdown) /\ @]
      /\ UNCHANGED <<disabled, nextGen, connecting, failed, main, of, connector,
                     abandoned, stopped, shutdown, toggles, refusals>>
    BY DEF FinishPoll
<1>2. n \in Names
    BY <1>1, OfRunning
<1>3. Off \in [pc : {"off", "polling", "handling", "checked", "saved", "refused", "ending"},
               cmd : Command \cup {NoCommand}] /\ Off.pc = "off"
    BY DEF Off
<1>4. TypeOK'
    BY <1>1, <1>2, <1>3 DEF TypeOK
<1>5. poller'[g].pc = "off" /\ \A h \in Gens \ {g} : poller'[h] = poller[h]
    BY <1>1, <1>3 DEF TypeOK
<1>6. \A h \in Gens : InCommand(h)' <=> InCommand(h)
    BY <1>5, <1>1 DEF InCommand
<1>7. \A h \in Gens : Live(h)' <=> Live(h) /\ h # g
    BY <1>5, <1>1 DEF Live
<1>8. /\ \A m \in Names : polling'[m] = IF m = n /\ polling[m] = g THEN 0 ELSE polling[m]
      /\ \A m \in Names : ready'[m] => ready[m] /\ (m = n => polling[n] # g \/ shutdown)
    BY <1>1, <1>2 DEF TypeOK
<1>9. Counted'
    BY <1>1, <1>6 DEF Counted
<1>10. ASSUME NEW h \in Gens PROVE Generation(h)'
    <2>1. CASE h = g
        BY <2>1, <1>1, <1>5, <1>7 DEF Generation
    <2>2. CASE h # g
        <3>1. Live(h) => of[h] \in Names /\ polling[of[h]] = h
            BY OfRunning DEF Generation, Live
        <3>2. Live(h) => polling'[of[h]] = h
            BY <2>2, <3>1, <1>8
        <3> QED
            BY <2>2, <3>2, <1>1, <1>5, <1>7 DEF Generation
    <2> QED
        BY <2>1, <2>2
<1>11. ASSUME NEW m \in Names PROVE Transport(m)'
    <2>1. polling'[m] # 0 => polling[m] # 0 /\ polling'[m] = polling[m] /\ polling[m] # g
        BY <1>8 DEF Transport
    <2>2. ready'[m] /\ ~shutdown => polling'[m] # 0
        BY <1>8, <1>2 DEF Transport, Gens
    <2>3. \A h \in Gens : poller[h].pc = "saved" => poller'[h] = poller[h]
        BY <1>1, <1>5
    <2> QED
        BY <2>1, <2>2, <2>3, <1>1, <1>7, <1>8 DEF Transport, TypeOK
<1>12. Commands'
    <2>1. \A h \in Gens : InCommand(h)' => poller'[h] = poller[h]
        BY <1>5 DEF InCommand
    <2>2. disabled' = disabled
        BY <1>1
    <2> QED
        BY <2>1, <2>2, <1>6 DEF Commands, InCommand
<1> QED
    BY <1>4, <1>9, <1>10, <1>11, <1>12

-----------------------------------------------------------------------------
(* start and stop.                                                         *)

\* start takes a generation that nobody has used, and makes no transport ready.
LEMMA StartSound ==
    ASSUME IInv, NEW n \in Names, Start(n),
           nextGen < Cardinality(Names) + MaxToggles,
           UNCHANGED <<disabled, shutdown>>,
           \A g \in Gens : poller'[g].pc = "off" <=> poller[g].pc = "off"
    PROVE  /\ nextGen' \in Gens \cup {0} /\ nextGen' \in {nextGen, nextGen + 1}
           /\ connecting' \in [Names -> Gens \cup {0}]
           /\ ready' \in [Names -> BOOLEAN] /\ failed' \in [Names -> BOOLEAN]
           /\ of' \in [Gens -> Names \cup {NoName}]
           /\ connector' \in [Gens -> {"off", "trying", "sleeping", "welcome", "connected",
                                       "refused", "ending"}]
           /\ UNCHANGED <<polling, abandoned, stopped>>
           /\ \A g \in Gens : Generation(g)'
           /\ \A m \in Names : ready'[m] => ready[m]
           /\ \A g \in Gens : Live(g)' <=> Live(g)
           /\ \A m \in Names : polling[m] # 0 => of'[polling[m]] = of[polling[m]]
<1> USE DEF IInv
<1>1. CASE UNCHANGED managerVars
    BY <1>1 DEF TypeOK, Generation, Live, managerVars
<1>2. CASE ~UNCHANGED managerVars
    <2> DEFINE new == nextGen + 1
    <2>1. /\ nextGen' = new
          /\ connecting' = [connecting EXCEPT ![n] = new]
          /\ ready' = [ready EXCEPT ![n] = FALSE]
          /\ failed' = [failed EXCEPT ![n] = FALSE]
          /\ of' = [of EXCEPT ![new] = n]
          /\ connector' = [connector EXCEPT ![new] = "trying"]
          /\ UNCHANGED <<polling, abandoned, stopped>>
        BY <1>2 DEF Start
    <2>2. new \in Gens /\ nextGen \in Nat
        BY Cardinals, BoundsAssumption DEF TypeOK, Gens
    <2>3. /\ nextGen' \in Gens \cup {0}
          /\ connecting' \in [Names -> Gens \cup {0}]
          /\ ready' \in [Names -> BOOLEAN] /\ failed' \in [Names -> BOOLEAN]
          /\ of' \in [Gens -> Names \cup {NoName}]
          /\ connector' \in [Gens -> {"off", "trying", "sleeping", "welcome", "connected",
                                      "refused", "ending"}]
        BY <2>1, <2>2 DEF TypeOK
    <2>4. poller[new].pc = "off" /\ new \notin stopped
        BY <2>2 DEF Generation
    <2>5. \A g \in Gens : Live(g)' <=> Live(g)
        BY <2>1 DEF Live
    <2>6. /\ of'[new] = n /\ connector'[new] = "trying"
          /\ \A g \in Gens \ {new} : of'[g] = of[g] /\ connector'[g] = connector[g]
        BY <2>1, <2>2 DEF TypeOK
    <2>7. ASSUME NEW g \in Gens PROVE Generation(g)'
        <3>1. CASE g = new
            BY <3>1, <2>1, <2>2, <2>4, <2>5, <2>6 DEF Generation, Live
        <3>2. CASE g # new
            <4>1. g <= new <=> g <= nextGen
                BY <3>2, <2>2 DEF Gens
            <4>2. g > new <=> g > nextGen
                BY <3>2, <2>2 DEF Gens
            <4> QED
                BY <3>2, <4>1, <4>2, <2>1, <2>5, <2>6 DEF Generation
        <3> QED
            BY <3>1, <3>2
    <2>8. \A m \in Names : ready'[m] => ready[m]
        BY <2>1 DEF TypeOK
    <2>9. \A m \in Names : polling[m] # 0 => of'[polling[m]] = of[polling[m]]
        <3>1. \A m \in Names : polling[m] # 0 => polling[m] \in Gens \ {new}
            BY <2>4 DEF Transport, Live, TypeOK
        <3> QED
            BY <3>1, <2>6
    <2> QED
        BY <2>1, <2>3, <2>5, <2>7, <2>8, <2>9
<1> QED
    BY <1>1, <1>2

\* stop cancels the poller that the manager knows, and that is all the live ones there are.
LEMMA StopSound ==
    ASSUME IInv, NEW n \in Names, Stop(n),
           UNCHANGED <<disabled, shutdown>>,
           \A g \in Gens : poller'[g].pc = "off" <=> poller[g].pc = "off"
    PROVE  /\ connecting' \in [Names -> Gens \cup {0}] /\ polling' \in [Names -> Gens \cup {0}]
           /\ ready' \in [Names -> BOOLEAN]
           /\ abandoned' \subseteq Gens /\ stopped' \subseteq Gens
           /\ UNCHANGED <<nextGen, failed, of, connector>>
           /\ \A g \in Gens : Generation(g)'
           /\ ~ready'[n] /\ polling'[n] = 0
           /\ \A m \in Names \ {n} : ready'[m] = ready[m] /\ polling'[m] = polling[m]
           /\ \A g \in Gens : Live(g)' <=> Live(g) /\ g # polling[n]
<1> USE DEF IInv
<1>1. /\ ready' = [ready EXCEPT ![n] = FALSE]
      /\ abandoned' = abandoned \cup ({connecting[n]} \ {0})
      /\ stopped' = stopped \cup ({polling[n]} \ {0})
      /\ connecting' = [connecting EXCEPT ![n] = 0]
      /\ polling' = [polling EXCEPT ![n] = 0]
      /\ UNCHANGED <<nextGen, failed, of, connector>>
    BY DEF Stop
<1>2. /\ connecting' \in [Names -> Gens \cup {0}] /\ polling' \in [Names -> Gens \cup {0}]
      /\ ready' \in [Names -> BOOLEAN]
      /\ abandoned' \subseteq Gens /\ stopped' \subseteq Gens
    BY <1>1 DEF TypeOK
<1>3. /\ ~ready'[n] /\ polling'[n] = 0
      /\ \A m \in Names \ {n} : ready'[m] = ready[m] /\ polling'[m] = polling[m]
    BY <1>1 DEF TypeOK
<1>4. \A g \in Gens : g \in stopped' <=> g \in stopped \/ g = polling[n]
    BY <1>1 DEF Gens
<1>5. \A g \in Gens : Live(g)' <=> Live(g) /\ g # polling[n]
    BY <1>4 DEF Live
<1>6. ASSUME NEW g \in Gens PROVE Generation(g)'
    <2>1. g = polling[n] => Live(g) /\ g <= nextGen
        BY DEF Transport, Generation, Live, TypeOK, Gens
    <2>2. Live(g)' => polling'[of[g]] = g
        <3>1. SUFFICES ASSUME Live(g), g # polling[n] PROVE polling'[of[g]] = g
            BY <1>5
        <3>2. polling[of[g]] = g /\ of[g] \in Names /\ of[g] # n
            BY <3>1, OfRunning DEF Generation, Live
        <3> QED
            BY <3>2, <1>3
    <2>3. connector[g] \in Pre \/ g > nextGen => g # polling[n]
        BY <2>1 DEF Generation, Live, TypeOK, Gens
    <2> QED
        BY <1>1, <1>4, <2>2, <2>3 DEF Generation
<1> QED
    BY <1>1, <1>2, <1>3, <1>5, <1>6

LEMMA StartConfiguredIInv ==
    ASSUME IInv, NEW n \in Names, StartConfigured(n)
    PROVE  IInv'
<1> USE DEF IInv
<1>1. /\ n \in main /\ main' = main \ {n} /\ Start(n)
      /\ UNCHANGED <<disabled, poller, shutdown, toggles, refusals>>
    BY DEF StartConfigured
<1>2. /\ Cardinality(main) \in Nat /\ Cardinality(main') = Cardinality(main) - 1
      /\ Cardinality(main') \in Nat /\ Cardinality(Names) \in Nat
    BY <1>1, Cardinals DEF TypeOK
<1>3. nextGen \in Nat /\ toggles \in Nat
    BY DEF TypeOK, Gens
<1>4. nextGen < Cardinality(Names) + MaxToggles
    BY <1>2, <1>3, BoundsAssumption DEF Counted
<1>5. /\ nextGen' \in Gens \cup {0} /\ nextGen' \in {nextGen, nextGen + 1}
      /\ connecting' \in [Names -> Gens \cup {0}]
      /\ ready' \in [Names -> BOOLEAN] /\ failed' \in [Names -> BOOLEAN]
      /\ of' \in [Gens -> Names \cup {NoName}]
      /\ connector' \in [Gens -> {"off", "trying", "sleeping", "welcome", "connected",
                                  "refused", "ending"}]
      /\ UNCHANGED <<polling, abandoned, stopped>>
      /\ \A g \in Gens : Generation(g)'
      /\ \A m \in Names : ready'[m] => ready[m]
      /\ \A g \in Gens : Live(g)' <=> Live(g)
      /\ \A m \in Names : polling[m] # 0 => of'[polling[m]] = of[polling[m]]
    BY <1>1, <1>4, StartSound
<1>6. TypeOK'
    BY <1>1, <1>5 DEF TypeOK
<1>7. Counted'
    <2>1. nextGen' + Cardinality(main') <= nextGen + Cardinality(main)
        BY <1>2, <1>3, <1>5
    <2> QED
        BY <1>1, <1>2, <1>3, <1>5, <2>1, BoundsAssumption DEF Counted, InCommand
<1>8. ASSUME NEW m \in Names PROVE Transport(m)'
    BY <1>1, <1>5 DEF Transport, TypeOK
<1>9. Commands'
    BY <1>1 DEF Commands, InCommand
<1> QED
    BY <1>5, <1>6, <1>7, <1>8, <1>9

-----------------------------------------------------------------------------
(* A command.                                                              *)

Running == {"off", "polling", "handling", "checked", "saved", "refused", "ending"}
PollerType == [Gens -> [pc : Running, cmd : Command \cup {NoCommand}]]

\* A command neither starts nor ends the poller that serves it.
LEMMA CommandFrame ==
    ASSUME IInv, NEW g \in Gens, poller[g].pc # "off", poller'[g].pc # "off",
           \A h \in Gens \ {g} : poller'[h] = poller[h],
           UNCHANGED <<nextGen, polling, of, connector, stopped>>
    PROVE  /\ \A h \in Gens : Live(h)' <=> Live(h)
           /\ \A h \in Gens : Generation(h)'
<1>1. \A h \in Gens : Live(h)' <=> Live(h)
    BY DEF Live
<1>2. \A h \in Gens : poller'[h].pc = "off" <=> poller[h].pc = "off"
    OBVIOUS
<1> QED
    BY <1>1, <1>2 DEF IInv, Generation

LEMMA CheckIInv ==
    ASSUME IInv, NEW g \in Gens, Check(g)
    PROVE  IInv'
<1> USE DEF IInv
<1>1. /\ poller[g].pc = "handling" /\ toggles < MaxToggles /\ toggles' = toggles + 1
      /\ \A h \in Gens : ~InCommand(h)
      /\ UNCHANGED <<disabled, managerVars, main, shutdown, refusals>>
    BY DEF Check, ToggleFree
<1>2. PICK on \in BOOLEAN, n \in Names :
          /\ on \/ MaySwitchOff(g, n)
          /\ poller' = [poller EXCEPT ![g] =
                [pc |-> "checked",
                 cmd |-> [on |-> on, name |-> n,
                          disabled |-> IF on THEN disabled \ {n} ELSE disabled \cup {n}]]]
    BY DEF Check
<1> DEFINE set == IF on THEN disabled \ {n} ELSE disabled \cup {n}
           cmd == [on |-> on, name |-> n, disabled |-> set]
<1>3. cmd \in Command /\ cmd.on = on /\ cmd.name = n /\ cmd.disabled = set
    BY DEF Command, TypeOK
<1>4. /\ poller'[g].pc = "checked" /\ poller'[g].cmd = cmd
      /\ \A h \in Gens \ {g} : poller'[h] = poller[h]
    BY <1>2 DEF TypeOK
<1>5. TypeOK'
    <2>1. [pc |-> "checked", cmd |-> cmd] \in [pc : Running, cmd : Command \cup {NoCommand}]
        BY <1>3 DEF Running
    <2>2. poller \in PollerType
        BY DEF TypeOK, PollerType, Running
    <2>3. poller' \in PollerType
        BY <1>2, <2>1, <2>2 DEF PollerType
    <2> QED
        BY <1>1, <2>3 DEF TypeOK, PollerType, Running, managerVars
<1>6. set # Names
    <2>1. CASE on
        BY <2>1
    <2>2. CASE ~on /\ n \in disabled
        <3>1. set = disabled
            BY <2>2
        <3> QED
            BY <3>1 DEF Commands
    <2>3. CASE ~on /\ n \notin disabled
        <3>1. Cardinality(Names \ disabled) > 1
            BY <1>2, <2>3 DEF MaySwitchOff
        <3>2. ASSUME set = Names PROVE FALSE
            <4>1. Names \ disabled = {n}
                BY <2>3, <3>2
            <4>2. Cardinality(Names \ disabled) = 1
                BY <4>1, FS_Singleton
            <4> QED
                BY <3>1, <4>2
        <3> QED
            BY <3>2
    <2> QED
        BY <2>1, <2>2, <2>3
<1>7. \A h \in Gens : InCommand(h)' <=> h = g
    BY <1>1, <1>4 DEF InCommand
<1>8. Counted'
    <2>1. nextGen \in Nat /\ toggles \in Nat /\ Cardinality(main) \in Nat
          /\ Cardinality(Names) \in Nat
        BY Cardinals DEF TypeOK, Gens
    <2>2. nextGen' = nextGen /\ main' = main
        BY <1>1 DEF managerVars
    <2> QED
        BY <1>1, <2>1, <2>2, BoundsAssumption DEF Counted
<1>9. /\ \A h \in Gens : Live(h)' <=> Live(h)
      /\ \A h \in Gens : Generation(h)'
    BY <1>1, <1>4, CommandFrame DEF managerVars
<1>10. ASSUME NEW m \in Names PROVE Transport(m)'
    <2>1. \A h \in Gens : poller[h].pc # "saved"
        BY <1>1 DEF InCommand
    <2> QED
        BY <1>1, <1>9, <2>1 DEF Transport, TypeOK, managerVars
<1>11. Commands'
    <2> HIDE DEF cmd, set
    <2>1. disabled' = disabled
        BY <1>1
    <2>2. \A h \in Gens : poller'[h].pc \in {"checked", "saved"} => h = g
        BY <1>7 DEF InCommand
    <2>3. set = IF cmd.on THEN disabled \ {cmd.name} ELSE disabled \cup {cmd.name}
        BY <1>3 DEF set
    <2> QED
        BY <1>3, <1>4, <1>6, <2>1, <2>2, <2>3 DEF Commands, InCommand
<1> QED
    BY <1>5, <1>8, <1>9, <1>10, <1>11

LEMMA SaveDisabledIInv ==
    ASSUME IInv, NEW g \in Gens, SaveDisabled(g)
    PROVE  IInv'
<1> USE DEF IInv
<1> DEFINE cmd == poller[g].cmd
<1>1. /\ poller[g].pc = "checked" /\ UNCHANGED <<managerVars, main, shutdown, toggles, refusals>>
      /\ \A h \in Gens : InCommand(h) => h = g
      /\ cmd \in Command /\ cmd.disabled # Names
      /\ cmd.disabled = IF cmd.on THEN disabled \ {cmd.name} ELSE disabled \cup {cmd.name}
    BY DEF SaveDisabled, Commands, InCommand
<1>2. cmd.on \in BOOLEAN /\ cmd.name \in Names /\ cmd.disabled \subseteq Names
    BY <1>1 DEF Command
<1>3. /\ poller \in PollerType /\ poller[g] \in [pc : Running, cmd : Command \cup {NoCommand}]
    BY DEF TypeOK, PollerType, Running
<1>4. CASE disabled' = cmd.disabled /\ poller' = [poller EXCEPT ![g].pc = "saved"]
    <2>1. poller' \in PollerType
        BY <1>3, <1>4 DEF PollerType, Running
    <2>2. TypeOK'
        BY <1>1, <1>2, <1>4, <2>1 DEF TypeOK, PollerType, Running, managerVars
    <2>3. /\ poller'[g].pc = "saved" /\ poller'[g].cmd = cmd
          /\ \A h \in Gens \ {g} : poller'[h] = poller[h]
        BY <1>3, <1>4 DEF PollerType
    <2>4. \A h \in Gens : InCommand(h)' <=> InCommand(h)
        BY <1>1, <2>3 DEF InCommand
    <2>5. Counted'
        BY <1>1, <2>4 DEF Counted, managerVars
    <2>6. /\ \A h \in Gens : Live(h)' <=> Live(h)
          /\ \A h \in Gens : Generation(h)'
        BY <1>1, <2>3, CommandFrame DEF managerVars
    <2>7. ASSUME NEW m \in Names PROVE Transport(m)'
        <3>1. \A h \in Gens : poller[h].pc # "saved"
            BY <1>1 DEF InCommand
        <3>2. m \in disabled' => m \in disabled \/ m = cmd.name
            BY <1>1, <1>4
        <3> QED
            BY <1>1, <2>3, <2>6, <3>1, <3>2 DEF Transport, TypeOK, managerVars
    <2>8. Commands'
        <3>1. \A h \in Gens : poller'[h].pc \in {"checked", "saved"} => h = g
            BY <1>1, <2>4 DEF InCommand
        <3>2. cmd.on <=> cmd.name \notin disabled'
            BY <1>1, <1>2, <1>4
        <3>3. disabled' # Names
            BY <1>1, <1>4
        <3> HIDE DEF cmd
        <3> QED
            BY <1>1, <2>3, <3>1, <3>2, <3>3 DEF Commands, InCommand
    <2> QED
        BY <2>2, <2>5, <2>6, <2>7, <2>8
<1>5. CASE /\ poller' = [poller EXCEPT ![g] = [pc |-> "handling", cmd |-> NoCommand]]
           /\ UNCHANGED disabled
    <2>1. poller' \in PollerType
        BY <1>3, <1>5 DEF PollerType, Running
    <2>2. TypeOK'
        BY <1>1, <1>5, <2>1 DEF TypeOK, PollerType, Running, managerVars
    <2>3. /\ poller'[g].pc = "handling"
          /\ \A h \in Gens \ {g} : poller'[h] = poller[h]
        BY <1>3, <1>5 DEF PollerType
    <2>4. \A h \in Gens : ~InCommand(h)'
        BY <1>1, <2>3 DEF InCommand
    <2>5. Counted'
        BY <1>1, <2>4 DEF Counted, managerVars
    <2>6. /\ \A h \in Gens : Live(h)' <=> Live(h)
          /\ \A h \in Gens : Generation(h)'
        BY <1>1, <2>3, CommandFrame DEF managerVars
    <2>7. ASSUME NEW m \in Names PROVE Transport(m)'
        <3>1. \A h \in Gens : poller[h].pc # "saved"
            BY <1>1 DEF InCommand
        <3> QED
            BY <1>1, <1>5, <2>6, <3>1 DEF Transport, TypeOK, managerVars
    <2>8. Commands'
        BY <1>5, <2>4 DEF Commands, InCommand
    <2> QED
        BY <2>2, <2>5, <2>6, <2>7, <2>8
<1> QED
    BY <1>4, <1>5 DEF SaveDisabled

LEMMA ApplyIInv ==
    ASSUME IInv, NEW g \in Gens, Apply(g)
    PROVE  IInv'
<1> USE DEF IInv
<1> DEFINE cmd == poller[g].cmd
<1>1. /\ poller[g].pc = "saved"
      /\ poller' = [poller EXCEPT ![g] = [pc |-> "handling", cmd |-> NoCommand]]
      /\ IF cmd.on THEN Start(cmd.name) ELSE Stop(cmd.name)
      /\ UNCHANGED <<disabled, main, shutdown, toggles, refusals>>
    BY DEF Apply
<1>2. /\ \A h \in Gens : InCommand(h) => h = g
      /\ cmd \in Command /\ (cmd.on <=> cmd.name \notin disabled)
    BY <1>1 DEF Commands, InCommand
<1>3. cmd.on \in BOOLEAN /\ cmd.name \in Names
    BY <1>2 DEF Command
<1>4. poller' \in PollerType
    <2>1. poller \in PollerType
        BY DEF TypeOK, PollerType, Running
    <2> QED
        BY <1>1, <2>1 DEF PollerType, Running
<1>5. /\ poller'[g].pc = "handling"
      /\ \A h \in Gens \ {g} : poller'[h] = poller[h]
    BY <1>1 DEF TypeOK
<1>6. /\ \A h \in Gens : ~InCommand(h)'
      /\ \A h \in Gens : poller'[h].pc = "off" <=> poller[h].pc = "off"
    BY <1>1, <1>2, <1>5 DEF InCommand
<1>7. Commands'
    BY <1>1, <1>6 DEF Commands, InCommand
<1>8. /\ nextGen \in Nat /\ toggles \in Nat /\ Cardinality(main) \in Nat
      /\ Cardinality(Names) \in Nat
      /\ nextGen + Cardinality(main) < Cardinality(Names) + toggles /\ toggles <= MaxToggles
    BY <1>1, Cardinals DEF Counted, InCommand, TypeOK, Gens
<1>9. nextGen' \in {nextGen, nextGen + 1} => Counted'
    BY <1>1, <1>6, <1>8, BoundsAssumption DEF Counted
<1>10. \A h \in Gens : poller[h].pc = "saved" => h = g
    BY <1>2 DEF InCommand
<1>11. CASE cmd.on
    <2>1. nextGen < Cardinality(Names) + MaxToggles
        BY <1>8, BoundsAssumption
    <2>2. /\ nextGen' \in Gens \cup {0} /\ nextGen' \in {nextGen, nextGen + 1}
          /\ connecting' \in [Names -> Gens \cup {0}]
          /\ ready' \in [Names -> BOOLEAN] /\ failed' \in [Names -> BOOLEAN]
          /\ of' \in [Gens -> Names \cup {NoName}]
          /\ connector' \in [Gens -> {"off", "trying", "sleeping", "welcome", "connected",
                                      "refused", "ending"}]
          /\ UNCHANGED <<polling, abandoned, stopped>>
          /\ \A h \in Gens : Generation(h)'
          /\ \A m \in Names : ready'[m] => ready[m]
          /\ \A h \in Gens : Live(h)' <=> Live(h)
          /\ \A m \in Names : polling[m] # 0 => of'[polling[m]] = of[polling[m]]
        BY <1>1, <1>3, <1>6, <1>11, <2>1, StartSound
    <2>3. TypeOK'
        BY <1>1, <1>4, <2>2 DEF TypeOK, PollerType, Running
    <2>4. ASSUME NEW m \in Names PROVE Transport(m)'
        BY <1>1, <1>2, <1>10, <1>11, <2>2 DEF Transport, TypeOK
    <2> QED
        BY <1>7, <1>9, <2>2, <2>3, <2>4
<1>12. CASE ~cmd.on
    <2>1. /\ connecting' \in [Names -> Gens \cup {0}] /\ polling' \in [Names -> Gens \cup {0}]
          /\ ready' \in [Names -> BOOLEAN]
          /\ abandoned' \subseteq Gens /\ stopped' \subseteq Gens
          /\ UNCHANGED <<nextGen, failed, of, connector>>
          /\ \A h \in Gens : Generation(h)'
          /\ ~ready'[cmd.name] /\ polling'[cmd.name] = 0
          /\ \A m \in Names \ {cmd.name} : ready'[m] = ready[m] /\ polling'[m] = polling[m]
          /\ \A h \in Gens : Live(h)' <=> Live(h) /\ h # polling[cmd.name]
        BY <1>1, <1>3, <1>6, <1>12, StopSound
    <2>2. TypeOK'
        BY <1>1, <1>4, <2>1 DEF TypeOK, PollerType, Running
    <2>3. ASSUME NEW m \in Names PROVE Transport(m)'
        <3>1. CASE m = cmd.name
            BY <3>1, <2>1 DEF Transport
        <3>2. CASE m # cmd.name
            <4>1. polling[m] # 0 => polling[m] # polling[cmd.name]
                BY <3>2, <1>3 DEF Transport
            <4>2. m \in disabled => ~ready[m] /\ polling[m] = 0
                BY <3>2, <1>10 DEF Transport
            <4> QED
                BY <3>2, <4>1, <4>2, <1>1, <2>1 DEF Transport, TypeOK
        <3> QED
            BY <3>1, <3>2
    <2> QED
        BY <1>7, <1>9, <2>1, <2>2, <2>3
<1> QED
    BY <1>3, <1>11, <1>12

-----------------------------------------------------------------------------

LEMMA ShutdownIInv == ASSUME IInv, Shutdown PROVE IInv'
<1> USE DEF IInv
<1>1. shutdown' = TRUE /\ UNCHANGED <<disabled, managerVars, main, poller, toggles, refusals>>
    BY DEF Shutdown
<1>2. TypeOK'
    BY <1>1 DEF TypeOK, managerVars
<1>3. Counted' /\ Commands'
    BY <1>1 DEF Counted, Commands, InCommand, managerVars
<1>4. \A g \in Gens : Generation(g)'
    BY <1>1 DEF Generation, Live, managerVars
<1>5. \A n \in Names : Transport(n)'
    BY <1>1 DEF Transport, Live, managerVars
<1> QED
    BY <1>2, <1>3, <1>4, <1>5

LEMMA StutterIInv == ASSUME IInv, UNCHANGED vars PROVE IInv'
<1> USE DEF IInv, vars
<1>1. TypeOK'
    BY DEF TypeOK
<1>2. Counted' /\ Commands'
    BY DEF Counted, Commands, InCommand
<1>3. \A g \in Gens : Generation(g)'
    BY DEF Generation, Live
<1>4. \A n \in Names : Transport(n)'
    BY DEF Transport, Live
<1> QED
    BY <1>1, <1>2, <1>3, <1>4

LEMMA NextIInv == IInv /\ [Next]_vars => IInv'
<1> SUFFICES ASSUME IInv, [Next]_vars PROVE IInv'
    OBVIOUS
<1>1. ASSUME NEW n \in Names, StartConfigured(n) PROVE IInv'
    BY <1>1, StartConfiguredIInv
<1>2. ASSUME NEW g \in Gens, ConnectorStep(g) PROVE IInv'
    BY <1>2, ConnectorIInv, StartPollIInv DEF ConnectorStep
<1>3. ASSUME NEW g \in Gens, PollerStep(g) PROVE IInv'
    BY <1>3, PollerIInv, FinishPollIInv, CheckIInv, SaveDisabledIInv, ApplyIInv
       DEF PollerStep
<1>4. CASE Shutdown
    BY <1>4, ShutdownIInv
<1>5. CASE UNCHANGED vars
    BY <1>5, StutterIInv
<1> QED
    BY <1>1, <1>2, <1>3, <1>4, <1>5 DEF Next

\* The invariant the theorems below are read off.
LEMMA Invariant == Spec => []IInv
BY InitIInv, NextIInv, PTL DEF Spec

\* Every variable keeps its type; in particular nextGen stays within the generations of the
\* instance, so that none of them is a bound that hides a start.
THEOREM Typed == Spec => []TypeOK
<1>1. IInv => TypeOK
    BY DEF IInv
<1> QED
    BY <1>1, Invariant, PTL

\* startPoll, stop, finishPoll and cmdTransports: one live poller per transport, one for each
\* that is ready before the shutdown, none for one that is off, whatever generations linger,
\* and the last transport is never switched off.
THEOREM Sound == Spec => []PollersSound
<1>1. ASSUME IInv PROVE PollersSound
    <2> USE <1>1 DEF IInv
    <2>1. OnePoller
        BY DEF OnePoller, Generation
    <2>2. ReadyIsPolled
        BY DEF ReadyIsPolled, IsReady, Transport
    <2>3. ASSUME NEW n \in disabled,
                 ~\E g \in Gens : poller[g].pc = "saved" /\ poller[g].cmd.name = n
          PROVE  ~ready[n] /\ ~\E g \in Gens : of[g] = n /\ Live(g)
        <3>1. n \in Names /\ ~ready[n] /\ polling[n] = 0
            BY <2>3 DEF Transport, TypeOK
        <3> QED
            BY <3>1 DEF Generation, Gens
    <2>4. SomeEnabled
        BY DEF Commands, SomeEnabled
    <2> QED
        BY <2>1, <2>2, <2>3, <2>4 DEF PollersSound, DisabledIsQuiet
<1> QED
    BY <1>1, Invariant, PTL

\* cmdTransports: the set that a command saves differs from the current one in its own
\* transport only, although it was computed before.
THEOREM OwnSwitch == Spec => OwnSwitchOnly
<1> DEFINE A == \A n \in Names : (n \in disabled) # (n \in disabled') =>
                    \E g \in Gens : /\ poller[g].pc = "checked" /\ poller[g].cmd.name = n
                                    /\ poller'[g].pc = "saved"
<1>1. ASSUME IInv, [Next]_vars PROVE A
    <2>1. CASE UNCHANGED disabled
        BY <2>1
    <2>2. CASE disabled' # disabled
        <3>1. PICK g \in Gens : SaveDisabled(g)
            BY <1>1, <2>2 DEF Next, vars, StartConfigured, ConnectorStep, PollerStep, GiveUp,
                HandshakeSucceeds, HandshakeRefused, HandshakeFails, Wake, ConnectorMarks,
                ClearFailure, StartPoll, EndConnector, ConnectorGoes, Receive, BatchDone,
                PollEnds, PollRefused, PollerMarks, FinishPoll, Check, Apply, Shutdown
        <3>2. /\ poller[g].pc = "checked" /\ disabled' = poller[g].cmd.disabled
              /\ poller' = [poller EXCEPT ![g].pc = "saved"]
            BY <3>1, <2>2 DEF SaveDisabled
        <3>3. poller'[g].pc = "saved"
            BY <3>2, <1>1 DEF IInv, TypeOK
        <3>4. \A n \in Names : (n \in disabled) # (n \in disabled') => n = poller[g].cmd.name
            <4>1. disabled' = IF poller[g].cmd.on THEN disabled \ {poller[g].cmd.name}
                              ELSE disabled \cup {poller[g].cmd.name}
                BY <3>2, <1>1 DEF IInv, Commands
            <4> QED
                BY <4>1
        <3> QED
            BY <3>2, <3>3, <3>4
    <2> QED
        BY <2>1, <2>2
<1>2. ASSUME IInv, [Next]_vars PROVE [A]_vars
    BY <1>1, <1>2
<1> HIDE DEF A
<1>3. Spec => [][A]_vars
    BY <1>2, Invariant, PTL DEF Spec
<1> QED
    BY <1>3 DEF OwnSwitchOnly, A

\* finishPoll: during the shutdown a transport loses its readiness only to a permanent error,
\* to a command that switches it off or to one that starts it anew.
THEOREM FlushKeepsReady == Spec => PollExitKeepsReady
<1> DEFINE A == \A n \in Names : shutdown /\ ready[n] /\ ~ready'[n] =>
                    failed'[n] \/ n \in disabled \/ connecting'[n] # connecting[n]
<1>1. ASSUME IInv, [Next]_vars PROVE A
    <2> SUFFICES ASSUME NEW n \in Names, shutdown, ready[n], ~ready'[n]
                 PROVE  failed'[n] \/ n \in disabled \/ connecting'[n] # connecting[n]
        OBVIOUS
    <2> USE <1>1
    <2>1. ready' # ready
        OBVIOUS
    <2>2. ASSUME NEW m \in Names, Start(m) PROVE connecting'[n] # connecting[n]
        <3>1. /\ connecting[m] = 0 /\ connecting' = [connecting EXCEPT ![m] = nextGen + 1]
              /\ ready' = [ready EXCEPT ![m] = FALSE]
            BY <2>1, <2>2 DEF Start, managerVars
        <3>2. m = n
            BY <3>1 DEF IInv, TypeOK
        <3>3. nextGen + 1 # 0
            BY DEF IInv, TypeOK, Gens
        <3> QED
            BY <3>1, <3>2, <3>3 DEF IInv, TypeOK
    <2>3. ASSUME NEW g \in Gens, MarkUnavailable(g), connector[g] # "off" \/ poller[g].pc # "off"
          PROVE  failed'[n]
        <3>1. of[g] \in Names
            BY <2>3, OfRunning
        <3>2. of[g] = n
            BY <2>3, <3>1 DEF MarkUnavailable, IInv, TypeOK
        <3> QED
            BY <2>3, <3>2 DEF MarkUnavailable, IInv, TypeOK
    <2>4. ASSUME NEW g \in Gens, ConnectorStep(g)
          PROVE  failed'[n]
        <3>1. ~StartPoll(g)
            BY OfRunning DEF StartPoll, ConnectorGoes, IInv, TypeOK
        <3>2. ConnectorMarks(g)
            BY <2>1, <2>4, <3>1 DEF ConnectorStep, GiveUp, HandshakeSucceeds, HandshakeRefused,
                HandshakeFails, Wake, ClearFailure, EndConnector
        <3> QED
            BY <2>3, <3>2 DEF ConnectorMarks, ConnectorGoes
    <2>5. ASSUME NEW g \in Gens, PollerStep(g)
          PROVE  failed'[n] \/ n \in disabled \/ connecting'[n] # connecting[n]
        <3>1. CASE PollerMarks(g)
            BY <2>3, <3>1 DEF PollerMarks, PollerGoes
        <3>2. ~FinishPoll(g)
            BY OfRunning DEF FinishPoll, IInv, TypeOK
        <3>3. CASE Apply(g)
            <4> DEFINE cmd == poller[g].cmd
            <4>1. /\ poller[g].pc = "saved" /\ cmd \in Command
                  /\ (cmd.on <=> cmd.name \notin disabled)
                BY <3>3 DEF Apply, IInv, Commands, InCommand
            <4>2. cmd.name \in Names
                BY <4>1 DEF Command
            <4>3. CASE cmd.on
                <5>1. Start(cmd.name)
                    BY <3>3, <4>3 DEF Apply
                <5> QED
                    BY <5>1, <4>2, <2>2
            <4>4. CASE ~cmd.on
                <5>1. ready' = [ready EXCEPT ![cmd.name] = FALSE]
                    BY <3>3, <4>4 DEF Apply, Stop
                <5>2. n = cmd.name
                    BY <5>1, <4>2 DEF IInv, TypeOK
                <5> QED
                    BY <5>2, <4>1, <4>4
            <4> QED
                BY <4>3, <4>4
        <3> QED
            BY <2>1, <2>5, <3>1, <3>2, <3>3 DEF PollerStep, Receive, BatchDone, PollEnds,
                PollRefused, Check, SaveDisabled, managerVars
    <2>6. ASSUME NEW m \in Names, StartConfigured(m) PROVE connecting'[n] # connecting[n]
        BY <2>2, <2>6 DEF StartConfigured
    <2>7. ~Shutdown
        BY <2>1 DEF Shutdown, managerVars
    <2>8. ~UNCHANGED vars
        BY <2>1 DEF vars
    <2> QED
        BY <2>4, <2>5, <2>6, <2>7, <2>8 DEF Next
<1>2. ASSUME IInv, [Next]_vars PROVE [A]_vars
    BY <1>1, <1>2
<1> HIDE DEF A
<1>3. Spec => [][A]_vars
    BY <1>2, Invariant, PTL DEF Spec
<1> QED
    BY <1>3 DEF PollExitKeepsReady, A

\* No step of the manager undoes the switch of another transport, nor takes from a transport
\* that the flush still needs.
THEOREM Steps == Spec => StepsSound
BY OwnSwitch, FlushKeepsReady DEF StepsSound

-----------------------------------------------------------------------------
(* A generation begins when the others of its transport are cancelled.     *)

\* Between start and the end of its goroutine, connectGen names every generation that nobody
\* has abandoned; and nobody abandons a generation before it starts.
ConnectingKnown ==
    /\ \A g \in Gens : connector[g] # "off" /\ g \notin abandoned => connecting[of[g]] = g
    /\ \A n \in Names : connecting[n] # 0 => of[connecting[n]] = n /\ connecting[n] <= nextGen
    /\ \A g \in Gens : g > nextGen => g \notin abandoned

LifeInv == IInv /\ ConnectingKnown

On(g) == connector[g] # "off" \/ poller[g].pc # "off"

\* Who neither begins nor ends, nor cancels, leaves the promise alone.
LEMMA LifeGoesOn ==
    ASSUME UNCHANGED <<of, abandoned, stopped>>, \A g \in Gens : On(g)' <=> On(g),
           NEW n \in Names
    PROVE  UNCHANGED Life(n)!life
<1>1. Alive(n)' = Alive(n)
    BY DEF Alive, On
<1>2. Cancelled(n)' = Cancelled(n)
    BY <1>1 DEF Cancelled
<1> QED
    BY <1>1, <1>2 DEF Life!life

\* The steps of a connecting goroutine up to its end.
LEMMA ConnectorLives ==
    ASSUME LifeInv, NEW g \in Gens,
           \/ GiveUp(g) \/ HandshakeSucceeds(g) \/ HandshakeRefused(g) \/ HandshakeFails(g)
           \/ Wake(g) \/ ConnectorMarks(g) \/ ClearFailure(g) \/ StartPoll(g)
    PROVE  ConnectingKnown' /\ \A n \in Names : UNCHANGED Life(n)!life
<1> USE DEF LifeInv, IInv
<1>1. /\ connector[g] # "off" /\ UNCHANGED <<nextGen, connecting, of, abandoned, stopped>>
      /\ \E to \in {"trying", "sleeping", "welcome", "connected", "refused", "ending"} :
            connector' = [connector EXCEPT ![g] = to]
    BY DEF GiveUp, HandshakeSucceeds, HandshakeRefused, HandshakeFails, Wake, ConnectorMarks,
           ClearFailure, StartPoll, ConnectorGoes
<1>2. /\ connector'[g] # "off" /\ \A h \in Gens \ {g} : connector'[h] = connector[h]
    BY <1>1 DEF TypeOK
<1>3. \A h \in Gens \ {g} : poller'[h].pc = poller[h].pc
    BY DEF GiveUp, HandshakeSucceeds, HandshakeRefused, HandshakeFails, Wake, ConnectorMarks,
           ClearFailure, StartPoll, TypeOK
<1>4. \A h \in Gens : On(h)' <=> On(h)
    BY <1>1, <1>2, <1>3 DEF On
<1> QED
    BY <1>1, <1>2, <1>4, LifeGoesOn DEF ConnectingKnown

\* The steps of a polling goroutine up to its end, other than the end of a command.
LEMMA PollerLives ==
    ASSUME LifeInv, NEW g \in Gens,
           \/ Receive(g) \/ BatchDone(g) \/ PollEnds(g) \/ PollRefused(g) \/ PollerMarks(g)
           \/ Check(g) \/ SaveDisabled(g)
    PROVE  ConnectingKnown' /\ \A n \in Names : UNCHANGED Life(n)!life
<1> USE DEF LifeInv, IInv
<1>1. /\ poller[g].pc # "off"
      /\ UNCHANGED <<nextGen, connecting, of, connector, abandoned, stopped>>
    BY DEF Receive, BatchDone, PollEnds, PollRefused, PollerMarks, Check, SaveDisabled,
           PollerGoes, managerVars
<1>2. poller'[g].pc # "off" /\ \A h \in Gens \ {g} : poller'[h] = poller[h]
    BY DEF Receive, BatchDone, PollEnds, PollRefused, PollerMarks, Check, SaveDisabled,
           PollerGoes, TypeOK
<1>3. \A h \in Gens : On(h)' <=> On(h)
    BY <1>1, <1>2 DEF On
<1> QED
    BY <1>1, <1>3, LifeGoesOn DEF ConnectingKnown

\* A goroutine ends; when the other one of its generation has ended too, so does the generation.
LEMMA EndLives ==
    ASSUME LifeInv, NEW g \in Gens, EndConnector(g) \/ FinishPoll(g)
    PROVE  ConnectingKnown' /\ \A n \in Names : [Life(n)!Next]_(Life(n)!life)
<1> USE DEF LifeInv, IInv
<1>1. /\ UNCHANGED <<nextGen, of, abandoned, stopped>>
      /\ \A h \in Gens \ {g} : connector'[h] = connector[h] /\ poller'[h] = poller[h]
      /\ On(g)
    BY DEF EndConnector, FinishPoll, TypeOK, On
<1>2. of[g] \in Names
    BY <1>1, OfRunning DEF On
<1>3. ConnectingKnown'
    <2>1. CASE EndConnector(g)
        <3>1. /\ connector'[g] = "off"
              /\ connecting'[of[g]] = IF connecting[of[g]] = g THEN 0 ELSE connecting[of[g]]
              /\ \A n \in Names \ {of[g]} : connecting'[n] = connecting[n]
            BY <1>2, <2>1 DEF EndConnector, TypeOK
        <3>2. ASSUME NEW h \in Gens, connector'[h] # "off", h \notin abandoned
              PROVE  connecting'[of[h]] = h
            <4>1. h # g /\ connector[h] # "off"
                BY <1>1, <3>1, <3>2
            <4>2. connecting[of[h]] = h /\ of[h] \in Names
                BY <3>2, <4>1, OfRunning DEF ConnectingKnown
            <4> QED
                BY <3>1, <4>1, <4>2
        <3> QED
            BY <1>1, <3>1, <3>2 DEF ConnectingKnown
    <2>2. CASE FinishPoll(g)
        BY <2>2 DEF FinishPoll, ConnectingKnown
    <2> QED
        BY <2>1, <2>2
<1>4. CASE On(g)'
    <2>1. \A h \in Gens : On(h)' <=> On(h)
        BY <1>1, <1>4 DEF On
    <2> QED
        BY <1>1, <1>3, <2>1, LifeGoesOn
<1>5. CASE ~On(g)'
    <2> SUFFICES ASSUME NEW n \in Names PROVE Life(n)!Next \/ UNCHANGED Life(n)!life
        BY <1>3
    <2>1. Alive(n)' = Alive(n) \ {g}
        BY <1>1, <1>5 DEF Alive, On
    <2>2. Cancelled(n)' = Cancelled(n) \ {g}
        BY <1>1, <2>1 DEF Cancelled
    <2> QED
        BY <2>1, <2>2 DEF Life!Next, Life!End
<1> QED
    BY <1>3, <1>4, <1>5

\* start: a transport that nobody connects or polls has cancelled goroutines only.
LEMMA StartLives ==
    ASSUME LifeInv, NEW n \in Names, Start(n),
           nextGen < Cardinality(Names) + MaxToggles,
           \A g \in Gens : poller'[g].pc = "off" <=> poller[g].pc = "off"
    PROVE  ConnectingKnown' /\ \A m \in Names : [Life(m)!Next]_(Life(m)!life)
<1> USE DEF LifeInv, IInv
<1>1. CASE UNCHANGED managerVars
    <2>1. \A g \in Gens : On(g)' <=> On(g)
        BY <1>1 DEF On, managerVars
    <2> QED
        BY <1>1, <2>1, LifeGoesOn DEF ConnectingKnown, managerVars
<1>2. CASE ~UNCHANGED managerVars
    <2> DEFINE new == nextGen + 1
    <2>1. /\ polling[n] = 0 /\ connecting[n] = 0
          /\ nextGen' = new
          /\ connecting' = [connecting EXCEPT ![n] = new]
          /\ of' = [of EXCEPT ![new] = n]
          /\ connector' = [connector EXCEPT ![new] = "trying"]
          /\ UNCHANGED <<polling, abandoned, stopped>>
        BY <1>2 DEF Start
    <2>2. new \in Gens /\ nextGen \in Nat /\ new > nextGen
        BY Cardinals, BoundsAssumption DEF TypeOK, Gens
    <2>3. /\ ~On(new) /\ new \notin abandoned /\ new \notin stopped /\ new \notin Alive(n)
          /\ \A m \in Names : new \notin Alive(m)
        BY <2>2 DEF Generation, ConnectingKnown, On, Alive
    <2>4. /\ of'[new] = n /\ connector'[new] = "trying"
          /\ \A g \in Gens \ {new} : of'[g] = of[g] /\ connector'[g] = connector[g]
          /\ connecting'[n] = new /\ \A m \in Names \ {n} : connecting'[m] = connecting[m]
        BY <2>1, <2>2 DEF TypeOK
    <2>5. Alive(n) \subseteq Cancelled(n)
        <3> SUFFICES ASSUME NEW g \in Alive(n), g \notin abandoned, g \notin stopped PROVE FALSE
            BY DEF Cancelled
        <3>1. g \in Gens /\ of[g] = n /\ g # 0
            BY DEF Alive, Gens
        <3>2. CASE connector[g] # "off"
            BY <2>1, <3>1, <3>2 DEF ConnectingKnown
        <3>3. CASE poller[g].pc # "off"
            BY <2>1, <3>1, <3>3 DEF Generation, Live
        <3> QED
            BY <3>2, <3>3 DEF Alive
    <2>6. \A g \in Gens \ {new} : On(g)' <=> On(g)
        BY <2>4 DEF On
    <2>7. Alive(n)' = Alive(n) \cup {new} /\ Cancelled(n)' = Cancelled(n)
        <3>1. Alive(n)' = Alive(n) \cup {new}
            BY <2>2, <2>4, <2>6 DEF Alive, On
        <3> QED
            BY <2>1, <2>3, <3>1 DEF Cancelled
    <2>8. ASSUME NEW m \in Names, m # n PROVE UNCHANGED Life(m)!life
        <3>1. Alive(m)' = Alive(m)
            BY <2>3, <2>4, <2>6, <2>8 DEF Alive, On
        <3> QED
            BY <2>1, <3>1 DEF Cancelled, Life!life
    <2>9. Life(n)!Begin(new)
        BY <2>3, <2>5, <2>7 DEF Life!Begin
    <2>10. ConnectingKnown'
        <3>1. ASSUME NEW g \in Gens, connector'[g] # "off", g \notin abandoned
              PROVE  connecting'[of'[g]] = g
            <4>1. CASE g = new
                BY <2>4, <4>1
            <4>2. CASE g # new
                <5>1. connecting[of[g]] = g /\ of[g] \in Names /\ g # 0
                    BY <2>4, <3>1, <4>2, OfRunning DEF ConnectingKnown, Gens
                <5> QED
                    BY <2>1, <2>4, <4>2, <5>1
            <4> QED
                BY <4>1, <4>2
        <3>2. ASSUME NEW m \in Names, connecting'[m] # 0
              PROVE  of'[connecting'[m]] = m /\ connecting'[m] <= new
            <4>1. CASE m = n
                BY <2>2, <2>4, <4>1
            <4>2. CASE m # n
                <5>1. connecting[m] \in Gens /\ of[connecting[m]] = m
                      /\ connecting[m] <= nextGen
                    BY <2>4, <3>2, <4>2 DEF ConnectingKnown, TypeOK
                <5>2. connecting[m] # new /\ connecting[m] <= new
                    BY <2>2, <5>1 DEF Gens
                <5> QED
                    BY <2>4, <4>2, <5>1, <5>2
            <4> QED
                BY <4>1, <4>2
        <3>3. \A g \in Gens : g > new => g > nextGen
            BY <2>2 DEF Gens
        <3> QED
            BY <2>1, <3>1, <3>2, <3>3 DEF ConnectingKnown
    <2> QED
        BY <2>2, <2>8, <2>9, <2>10 DEF Life!Next
<1> QED
    BY <1>1, <1>2

\* stop cancels whoever connects or polls, and nobody of another transport.
LEMMA StopLives ==
    ASSUME LifeInv, NEW n \in Names, Stop(n),
           \A g \in Gens : poller'[g].pc = "off" <=> poller[g].pc = "off"
    PROVE  ConnectingKnown' /\ \A m \in Names : [Life(m)!Next]_(Life(m)!life)
<1> USE DEF LifeInv, IInv
<1>1. /\ abandoned' = abandoned \cup ({connecting[n]} \ {0})
      /\ stopped' = stopped \cup ({polling[n]} \ {0})
      /\ connecting' = [connecting EXCEPT ![n] = 0]
      /\ UNCHANGED <<nextGen, of, connector>>
    BY DEF Stop
<1>2. /\ connecting'[n] = 0
      /\ \A m \in Names \ {n} : connecting'[m] = connecting[m]
    BY <1>1 DEF TypeOK
<1>3. \A m \in Names : Alive(m)' = Alive(m)
    BY <1>1 DEF Alive
<1>4. Cancelled(n)' = Alive(n)
    <2>1. ASSUME NEW g \in Alive(n) PROVE g \in abandoned' \cup stopped'
        <3>1. g \in Gens /\ of[g] = n /\ g # 0
            BY DEF Alive, Gens
        <3>2. CASE connector[g] # "off"
            BY <1>1, <3>1, <3>2 DEF ConnectingKnown
        <3>3. CASE poller[g].pc # "off"
            BY <1>1, <3>1, <3>3 DEF Generation, Live
        <3> QED
            BY <3>2, <3>3 DEF Alive
    <2> QED
        BY <1>3, <2>1 DEF Cancelled
<1>5. ASSUME NEW m \in Names, m # n PROVE Cancelled(m)' = Cancelled(m)
    <2>1. connecting[n] # 0 => of[connecting[n]] = n
        BY DEF ConnectingKnown
    <2>2. polling[n] # 0 => of[polling[n]] = n
        BY DEF Transport
    <2> QED
        BY <1>1, <1>3, <1>5, <2>1, <2>2 DEF Cancelled, Alive
<1>6. ConnectingKnown'
    <2>1. ASSUME NEW g \in Gens, connector[g] # "off", g \notin abandoned'
          PROVE  connecting'[of[g]] = g
        <3>1. connecting[of[g]] = g /\ of[g] \in Names /\ g # 0
            BY <1>1, <2>1, OfRunning DEF ConnectingKnown, Gens
        <3>2. of[g] # n
            BY <1>1, <2>1, <3>1
        <3> QED
            BY <1>2, <3>1, <3>2
    <2>2. \A g \in Gens : g = connecting[n] => ~(g > nextGen)
        BY DEF ConnectingKnown, TypeOK, Gens
    <2> QED
        BY <1>1, <1>2, <2>1, <2>2 DEF ConnectingKnown
<1>7. Life(n)!Cancel
    BY <1>3, <1>4 DEF Life!Cancel
<1> QED
    BY <1>3, <1>5, <1>6, <1>7 DEF Life!Next, Life!life

LEMMA NextLives ==
    ASSUME LifeInv, [Next]_vars
    PROVE  ConnectingKnown' /\ \A n \in Names : [Life(n)!Next]_(Life(n)!life)
<1> USE DEF LifeInv
<1>1. (\E n \in Names : StartConfigured(n)) \/ (\E g \in Gens : Apply(g)) =>
          nextGen < Cardinality(Names) + MaxToggles
    <2>1. nextGen \in Nat /\ toggles \in Nat /\ Cardinality(Names) \in Nat
          /\ Cardinality(main) \in Nat
        BY Cardinals DEF IInv, TypeOK, Gens
    <2>2. ASSUME NEW n \in Names, StartConfigured(n) PROVE Cardinality(main) > 0
        <3>1. n \in main /\ Cardinality(main \ {n}) = Cardinality(main) - 1
              /\ Cardinality(main \ {n}) \in Nat
            BY <2>2, Cardinals DEF StartConfigured, IInv, TypeOK
        <3> QED
            BY <2>1, <3>1
    <2>3. ASSUME NEW g \in Gens, Apply(g)
          PROVE  nextGen + Cardinality(main) < Cardinality(Names) + toggles
        BY <2>3 DEF Apply, IInv, Counted, InCommand
    <2> QED
        BY <2>1, <2>2, <2>3, BoundsAssumption DEF IInv, Counted
<1>2. ASSUME NEW n \in Names, StartConfigured(n)
      PROVE  ConnectingKnown' /\ \A m \in Names : [Life(m)!Next]_(Life(m)!life)
    BY <1>1, <1>2, StartLives DEF StartConfigured
<1>3. ASSUME NEW g \in Gens, ConnectorStep(g)
      PROVE  ConnectingKnown' /\ \A m \in Names : [Life(m)!Next]_(Life(m)!life)
    BY <1>3, ConnectorLives, EndLives DEF ConnectorStep
<1>4. ASSUME NEW g \in Gens, PollerStep(g)
      PROVE  ConnectingKnown' /\ \A m \in Names : [Life(m)!Next]_(Life(m)!life)
    <2>1. CASE Apply(g)
        <3> DEFINE cmd == poller[g].cmd
        <3>1. /\ cmd.name \in Names
              /\ IF cmd.on THEN Start(cmd.name) ELSE Stop(cmd.name)
            BY <2>1 DEF Apply, IInv, Commands, InCommand, Command
        <3>2. \A h \in Gens : poller'[h].pc = "off" <=> poller[h].pc = "off"
            BY <2>1 DEF Apply, IInv, TypeOK
        <3> QED
            BY <1>1, <2>1, <3>1, <3>2, StartLives, StopLives
    <2> QED
        BY <1>4, <2>1, PollerLives, EndLives DEF PollerStep
<1>5. CASE Shutdown \/ UNCHANGED vars
    <2>1. UNCHANGED <<nextGen, connecting, of, connector, poller, abandoned, stopped>>
        BY <1>5 DEF Shutdown, managerVars, vars
    <2> QED
        BY <2>1, LifeGoesOn DEF ConnectingKnown, On
<1> QED
    BY <1>2, <1>3, <1>4, <1>5 DEF Next

\* start, startPoll and stop: whichever stale goroutines linger, a generation begins to connect
\* only when every other one of its transport, connecting or polling, has been cancelled.
THEOREM ImplementsLife == Spec => LifeSpec
<1>1. Init => IInv /\ ConnectingKnown /\ \A n \in Names : Life(n)!Init
    <2> SUFFICES ASSUME Init PROVE IInv /\ ConnectingKnown /\ \A n \in Names : Life(n)!Init
        OBVIOUS
    <2>1. \A n \in Names : Alive(n) = {}
        BY DEF Init, Alive, Off
    <2>2. ConnectingKnown
        BY DEF Init, ConnectingKnown
    <2> QED
        BY <2>1, <2>2, InitIInv DEF Cancelled, Life!Init
<1>2. LifeInv /\ [Next]_vars => LifeInv'
    BY NextIInv, NextLives DEF LifeInv
<1>3. LifeInv /\ [Next]_vars => [\A n \in Names : [Life(n)!Next]_(Life(n)!life)]_vars
    BY NextLives
<1>4. Spec => [][\A n \in Names : [Life(n)!Next]_(Life(n)!life)]_vars
    <2> DEFINE A == \A n \in Names : [Life(n)!Next]_(Life(n)!life)
    <2>1. LifeInv /\ [Next]_vars => [A]_vars
        BY <1>3
    <2>2. Init => LifeInv
        BY <1>1 DEF LifeInv
    <2> HIDE DEF A
    <2>3. Spec => [][A]_vars
        BY <1>2, <2>1, <2>2, PTL DEF Spec
    <2> QED
        BY <2>3 DEF A
<1>5. Spec => \A n \in Names : Life(n)!Init
    BY <1>1 DEF Spec
<1> QED
    BY <1>4, <1>5 DEF LifeSpec

\* What TransportLife promises follows from its steps alone: of all goroutines of a transport
\* only one may still ask the platform for updates.
THEOREM LifePromises == LifeSpec => [](\A n \in Names : Life(n)!OneLive)
<1> DEFINE Promise == \A n \in Names : Life(n)!OneLive
           A == \A n \in Names : [Life(n)!Next]_(Life(n)!life)
<1>1. ASSUME \A n \in Names : Life(n)!Init PROVE Promise
    BY <1>1 DEF Life!Init, Life!OneLive
<1>2. ASSUME Promise, [A]_vars PROVE Promise'
    <2> SUFFICES ASSUME NEW n \in Names PROVE Life(n)!OneLive'
        OBVIOUS
    <2>1. CASE UNCHANGED Life(n)!life
        BY <1>2, <2>1 DEF Life!OneLive, Life!life
    <2>2. CASE UNCHANGED vars
        BY <2>1, <2>2 DEF vars, Life!life, Alive, Cancelled
    <2>3. CASE Life(n)!Cancel
        BY <1>2, <2>3 DEF Life!OneLive, Life!Cancel
    <2>4. CASE \E g \in Gens : Life(n)!Begin(g)
        BY <1>2, <2>4 DEF Life!OneLive, Life!Begin
    <2>5. CASE \E g \in Gens : Life(n)!End(g)
        BY <1>2, <2>5 DEF Life!OneLive, Life!End
    <2> QED
        BY <1>2, <2>1, <2>2, <2>3, <2>4, <2>5 DEF Life!Next
<1> HIDE DEF A, Promise
<1>3. (\A n \in Names : Life(n)!Init) /\ [][A]_vars => []Promise
    BY <1>1, <1>2, PTL
<1> QED
    BY <1>3 DEF LifeSpec, A, Promise

-----------------------------------------------------------------------------
(* ActionMessage: every chat that was addressed is answered, for any       *)
(* number of chats.                                                        *)

Places == {"begin", "running", "await", "count", "finish", "done"}
Answering == pc \in {"finish", "done"}

\* The answer has reached the chat or its queue, or its notice was begun.
Served(c) == shown[c] = "result" \/ queued[c] > 0 \/ critical[c] # "no"

ActionTyped ==
    /\ kind \in Kinds /\ (kind = "control" => allowed)
    /\ pc \in Places /\ result \in {"none", "ok", "failed", "silent"}
    /\ starter \in {"idle", "reading", "sending", "done"}
    /\ channel \in {"nil", "open", "filled", "empty"}
    /\ reachable \subseteq Chats /\ owed \subseteq Chats
    /\ listed \subseteq owed /\ starting \subseteq owed /\ withId \subseteq listed
    /\ editing \subseteq Chats /\ queueing \subseteq Chats
    /\ shown \in [Chats -> {"no", "start", "result"}]
    /\ queued \in [Chats -> Nat]
    /\ critical \in [Chats -> {"no", "trying", "sending", "told", "stopped"}]
    /\ unanswered \in [starts : SUBSET Chats, edits : SUBSET Chats]

\* The goroutine that announces, its channel and the goroutine that waits for it: the list is
\* received once, when the announcement is over.
ChannelOrdered ==
    /\ starter = "idle" <=> channel = "nil"
    /\ starter \in {"reading", "sending"} <=> channel = "open"
    /\ starter = "reading" => kind = "control"
    /\ kind \in {"plain", "unknown"} => channel = "nil"
    /\ pc = "begin" => channel = "nil"
    /\ pc = "running" => channel # "empty" /\ kind # "unknown"
    /\ pc = "running" /\ kind = "action" => channel # "nil"
    /\ pc = "await" => channel \in {"open", "filled"}
    /\ pc = "count" => channel = "nil" /\ kind = "control"
    /\ Answering => channel \in {"nil", "empty"}

\* Whoever was addressed is yet to be told of the start, or listed, or it is the one chat of
\* a chat command.
Addressed ==
    /\ starter \in {"idle", "reading"} =>
          starting = {} /\ listed = {} /\ \A c \in Chats : shown[c] = "no"
    /\ starter = "done" => starting = {}
    /\ kind = "control" /\ starter \in {"sending", "done"} /\ ~Answering
          => owed \subseteq starting \cup listed
    /\ kind # "control" /\ pc # "begin" /\ allowed => owed = {Origin}

\* Nobody has the result before the command has ended.
NotYetTold ==
    /\ ~Answering =>
          /\ editing = {} /\ queueing = {} /\ ~counted
          /\ \A c \in Chats : queued[c] = 0 /\ critical[c] = "no" /\ shown[c] # "result"
    /\ pc \in {"begin", "running"} => result = "none"
    /\ result = "silent" => Answering
    /\ ~allowed => pc \in {"begin", "done"}

\* Those who are to be answered have the answer, or are about to be edited or queued for.
AnswerDue ==
    /\ counted => result = "ok"
    /\ pc = "done" => editing = {} /\ queueing = {}
    /\ Silent => /\ channel = "nil" /\ editing = {} /\ queueing = {}
                 /\ \A c \in Chats : ~Served(c)
    /\ Answering /\ ~Silent => \A c \in owed : Served(c) \/ c \in editing \cup queueing

\* A notice is given up only while its transport is away, which is known from the refusal of the
\* reply on.
NoticeDue ==
    \A c \in Chats :
        /\ critical[c] \in {"trying", "sending"} /\ c \notin reachable => c \in away
        /\ critical[c] = "stopped" => c \in away

\* What is left in a chat has its cause, or is yet to be edited.
LeftoversDue ==
    \A c \in Chats :
        /\ shown[c] = "start" =>
              \/ c \in unanswered.starts \cup unedited
              \/ c \in withId /\ (Answering => c \in editing)
        /\ shown[c] = "result" /\ (queued[c] > 0 \/ c \in queueing) => c \in unanswered.edits
        /\ c \in editing => queued[c] = 0 /\ c \notin queueing /\ shown[c] # "result"
        /\ c \in queueing => queued[c] = 0
        /\ queued[c] <= 1

ActionIInv ==
    /\ ActionTyped
    /\ ChannelOrdered
    /\ Addressed
    /\ NotYetTold
    /\ AnswerDue
    /\ NoticeDue
    /\ LeftoversDue

LEMMA InitActionIInv == ActionInit => ActionIInv
<1> SUFFICES ASSUME ActionInit PROVE ActionIInv OBVIOUS
<1>1. ActionTyped BY DEF ActionInit, ActionTyped, Places, Kinds
<1>2. ChannelOrdered BY DEF ActionInit, ChannelOrdered, Answering
<1>3. Addressed BY DEF ActionInit, Addressed, Answering
<1>4. NotYetTold BY DEF ActionInit, NotYetTold, Answering
<1>5. AnswerDue
  <2>1. ~counted /\ ~Answering BY DEF ActionInit, Answering
  <2>2. \A c \in Chats : ~Served(c) BY DEF ActionInit, Served
  <2> QED BY <2>1, <2>2 DEF ActionInit, AnswerDue
<1>6. NoticeDue BY DEF ActionInit, NoticeDue
<1>7. LeftoversDue BY DEF ActionInit, LeftoversDue
<1> QED BY <1>1, <1>2, <1>3, <1>4, <1>5, <1>6, <1>7 DEF ActionIInv

-----------------------------------------------------------------------------
(* What surrounds the action.                                              *)

\* Neither the level nor what is reachable says whom an action owes an answer.
LEMMA SwitchLevelKeeps == ASSUME ActionIInv, SwitchLevel PROVE ActionIInv'
<1>1. ActionTyped' BY DEF ActionIInv, ActionTyped, SwitchLevel, start, told, ghosts, reach
<1>2. ChannelOrdered' BY DEF ActionIInv, ChannelOrdered, Answering, SwitchLevel, start
<1>3. Addressed' BY DEF ActionIInv, Addressed, Answering, SwitchLevel, start, told, ghosts
<1>4. NotYetTold' BY DEF ActionIInv, NotYetTold, Answering, SwitchLevel, told
<1>5. AnswerDue'
  BY DEF ActionIInv, AnswerDue, Answering, Silent, Served, SwitchLevel, start, told, ghosts
<1>6. NoticeDue' BY DEF ActionIInv, NoticeDue, SwitchLevel, reach, told
<1>7. LeftoversDue' BY DEF ActionIInv, LeftoversDue, Answering, SwitchLevel, start, told, ghosts
<1> QED BY <1>1, <1>2, <1>3, <1>4, <1>5, <1>6, <1>7 DEF ActionIInv

LEMMA SwitchTransportKeeps ==
    ASSUME ActionIInv, NEW c \in Chats, SwitchTransport(c) PROVE ActionIInv'
<1>1. ActionTyped' BY DEF ActionIInv, ActionTyped, SwitchTransport, start, told, ghosts, reach
<1>2. ChannelOrdered' BY DEF ActionIInv, ChannelOrdered, Answering, SwitchTransport, start
<1>3. Addressed' BY DEF ActionIInv, Addressed, Answering, SwitchTransport, start, told, ghosts
<1>4. NotYetTold' BY DEF ActionIInv, NotYetTold, Answering, SwitchTransport, told
<1>5. AnswerDue'
  BY DEF ActionIInv, AnswerDue, Answering, Silent, Served, SwitchTransport, start, told, ghosts
<1>6. NoticeDue' BY DEF ActionIInv, NoticeDue, SwitchTransport, reach, told
<1>7. LeftoversDue'
  BY DEF ActionIInv, LeftoversDue, Answering, SwitchTransport, start, told, ghosts
<1> QED BY <1>1, <1>2, <1>3, <1>4, <1>5, <1>6, <1>7 DEF ActionIInv

\* What the process leaves behind is what the chats and the database hold.
LEMMA ProcessEndsKeeps == ASSUME ActionIInv, ProcessEnds PROVE ActionIInv'
<1>1. ActionTyped' BY DEF ActionIInv, ActionTyped, ProcessEnds, start, told, ghosts, reach
<1>2. ChannelOrdered' BY DEF ActionIInv, ChannelOrdered, Answering, ProcessEnds, start
<1>3. Addressed' BY DEF ActionIInv, Addressed, Answering, ProcessEnds, start, told, ghosts
<1>4. NotYetTold' BY DEF ActionIInv, NotYetTold, Answering, ProcessEnds, told
<1>5. AnswerDue'
  BY DEF ActionIInv, AnswerDue, Answering, Silent, Served, ProcessEnds, start, told, ghosts
<1>6. NoticeDue' BY DEF ActionIInv, NoticeDue, ProcessEnds, reach, told
<1>7. LeftoversDue' BY DEF ActionIInv, LeftoversDue, Answering, ProcessEnds, start, told, ghosts
<1> QED BY <1>1, <1>2, <1>3, <1>4, <1>5, <1>6, <1>7 DEF ActionIInv

-----------------------------------------------------------------------------
(* The start message.                                                      *)

\* A stranger's command owes nobody an answer, any other one its chat.
LEMMA HandleMessageKeeps == ASSUME ActionIInv, HandleMessage PROVE ActionIInv'
<1>1. ActionTyped'
  BY ActionAssumption DEF ActionIInv, ActionTyped, ChannelOrdered, Addressed, Places,
     HandleMessage, told, reach
<1>2. ChannelOrdered' BY DEF ActionIInv, ChannelOrdered, Answering, HandleMessage
<1>3. Addressed' BY DEF ActionIInv, Addressed, HandleMessage, told
<1>4. NotYetTold' BY DEF ActionIInv, NotYetTold, Answering, HandleMessage, told
<1>5. AnswerDue'
  BY DEF ActionIInv, NotYetTold, AnswerDue, Answering, Silent, Served, HandleMessage, told
<1>6. NoticeDue' BY DEF ActionIInv, NoticeDue, HandleMessage, reach, told
<1>7. LeftoversDue'
  BY DEF ActionIInv, ChannelOrdered, Addressed, NotYetTold, LeftoversDue, Answering,
     HandleMessage, told
<1> QED BY <1>1, <1>2, <1>3, <1>4, <1>5, <1>6, <1>7 DEF ActionIInv

LEMMA StartActionKeeps == ASSUME ActionIInv, StartAction PROVE ActionIInv'
<1>1. ActionTyped' BY DEF ActionIInv, ActionTyped, Places, StartAction, told, ghosts, reach
<1>2. ChannelOrdered' BY DEF ActionIInv, ChannelOrdered, Answering, StartAction
<1>3. Addressed' BY DEF ActionIInv, ChannelOrdered, Addressed, StartAction, told
<1>4. NotYetTold' BY DEF ActionIInv, ActionTyped, NotYetTold, Answering, StartAction, told
<1>5. AnswerDue'
  BY DEF ActionIInv, ActionTyped, NotYetTold, AnswerDue, Answering, Silent, StartAction, told
<1>6. NoticeDue' BY DEF ActionIInv, NoticeDue, StartAction, reach, told
<1>7. LeftoversDue'
  BY DEF ActionIInv, ChannelOrdered, Addressed, LeftoversDue, StartAction, told
<1> QED BY <1>1, <1>2, <1>3, <1>4, <1>5, <1>6, <1>7 DEF ActionIInv

\* From here on the action owes an answer to those whom it reads.
LEMMA ReadDestinationsKeeps == ASSUME ActionIInv, ReadDestinations PROVE ActionIInv'
<1>1. ActionTyped' BY DEF ActionIInv, ActionTyped, Addressed, ReadDestinations, told, reach
<1>2. ChannelOrdered' BY DEF ActionIInv, ChannelOrdered, Answering, ReadDestinations
<1>3. Addressed' BY DEF ActionIInv, ChannelOrdered, Addressed, ReadDestinations
<1>4. NotYetTold' BY DEF ActionIInv, ChannelOrdered, NotYetTold, ReadDestinations, told
<1>5. AnswerDue'
  BY DEF ActionIInv, ChannelOrdered, AnswerDue, Answering, Silent, ReadDestinations, told
<1>6. NoticeDue' BY DEF ActionIInv, NoticeDue, ReadDestinations, reach, told
<1>7. LeftoversDue' BY DEF ActionIInv, Addressed, LeftoversDue, ReadDestinations, told
<1> QED BY <1>1, <1>2, <1>3, <1>4, <1>5, <1>6, <1>7 DEF ActionIInv

\* Whatever becomes of the request, the chat goes into the list or is the chat of the command.
LEMMA SendStartKeeps == ASSUME ActionIInv, NEW c \in Chats, SendStart(c) PROVE ActionIInv'
<1>1. ActionTyped' BY DEF ActionIInv, ActionTyped, SendStart, reach
<1>2. ChannelOrdered' BY DEF ActionIInv, ChannelOrdered, Answering, SendStart
<1>3. Addressed' BY DEF ActionIInv, ChannelOrdered, Addressed, SendStart, ListedUnsent
<1>4. NotYetTold' BY DEF ActionIInv, ActionTyped, ChannelOrdered, NotYetTold, SendStart
<1>5. AnswerDue' BY DEF ActionIInv, ChannelOrdered, AnswerDue, Answering, Silent, SendStart
<1>6. NoticeDue' BY DEF ActionIInv, NoticeDue, SendStart, reach, told
<1>7. LeftoversDue'
  BY DEF ActionIInv, ActionTyped, ChannelOrdered, LeftoversDue, Answering, SendStart
<1> QED BY <1>1, <1>2, <1>3, <1>4, <1>5, <1>6, <1>7 DEF ActionIInv

LEMMA FillKeeps == ASSUME ActionIInv, Fill PROVE ActionIInv'
<1>1. ActionTyped' BY DEF ActionIInv, ActionTyped, Fill, told, ghosts, reach
<1>2. ChannelOrdered' BY DEF ActionIInv, ChannelOrdered, Answering, Fill
<1>3. Addressed' BY DEF ActionIInv, ChannelOrdered, Addressed, Fill, ghosts
<1>4. NotYetTold' BY DEF ActionIInv, ChannelOrdered, NotYetTold, Fill, told
<1>5. AnswerDue' BY DEF ActionIInv, ChannelOrdered, AnswerDue, Answering, Silent, Fill, told
<1>6. NoticeDue' BY DEF ActionIInv, NoticeDue, Fill, reach, told
<1>7. LeftoversDue' BY DEF ActionIInv, LeftoversDue, Answering, Fill, told, ghosts
<1> QED BY <1>1, <1>2, <1>3, <1>4, <1>5, <1>6, <1>7 DEF ActionIInv

-----------------------------------------------------------------------------
(* The answer.                                                             *)

\* A plain command answers at once, the others when their start has been announced.
LEMMA CommandReturnsKeeps == ASSUME ActionIInv, CommandReturns PROVE ActionIInv'
<1>1. ActionTyped'
  BY DEF ActionIInv, ActionTyped, Addressed, NotYetTold, Places, CommandReturns, start, told,
     ghosts, reach
<1>2. ChannelOrdered'
  BY DEF ActionIInv, ActionTyped, ChannelOrdered, Answering, Kinds, CommandReturns, start
<1>3. Addressed'
  BY DEF ActionIInv, ChannelOrdered, Addressed, CommandReturns, start, told, ghosts
<1>4. NotYetTold' BY DEF ActionIInv, NotYetTold, Answering, CommandReturns, told
<1>5. AnswerDue'
  BY DEF ActionIInv, ChannelOrdered, Addressed, NotYetTold, AnswerDue, Answering, Silent,
     Served, CommandReturns, start, told, ghosts
<1>6. NoticeDue' BY DEF ActionIInv, NoticeDue, CommandReturns, reach, told
<1>7. LeftoversDue'
  BY DEF ActionIInv, ChannelOrdered, Addressed, NotYetTold, LeftoversDue, Answering,
     CommandReturns, start, told, ghosts
<1> QED BY <1>1, <1>2, <1>3, <1>4, <1>5, <1>6, <1>7 DEF ActionIInv

\* A counted success is told to nobody; otherwise all are to be told.
LEMMA CountKeeps == ASSUME ActionIInv, Count PROVE ActionIInv'
<1>1. ActionTyped'
  BY DEF ActionIInv, ActionTyped, ChannelOrdered, Addressed, Places, Count, Notify, start, reach
<1>2. ChannelOrdered' BY DEF ActionIInv, ChannelOrdered, Count, Notify, start
<1>3. Addressed' BY DEF ActionIInv, ChannelOrdered, Addressed, Count, start
<1>4. NotYetTold' BY DEF ActionIInv, NotYetTold, Answering, Count, Notify
<1>5. AnswerDue'
  BY DEF ActionIInv, ChannelOrdered, NotYetTold, AnswerDue, Answering, Silent, Served, Count,
     Notify, Counts, start
<1>6. NoticeDue' BY DEF ActionIInv, NoticeDue, Count, reach, told
<1>7. LeftoversDue'
  BY DEF ActionIInv, ChannelOrdered, Addressed, NotYetTold, LeftoversDue, Answering, Count
<1> QED BY <1>1, <1>2, <1>3, <1>4, <1>5, <1>6, <1>7 DEF ActionIInv

\* The announcement is over, so whoever is owed an answer is in the list or, if that is empty,
\* gets a reply.
LEMMA AwaitKeeps == ASSUME ActionIInv, Await PROVE ActionIInv'
<1>1. ActionTyped'
  BY DEF ActionIInv, ActionTyped, ChannelOrdered, Addressed, NotYetTold, Places, Await,
     Notify, told, reach
<1>2. ChannelOrdered' BY DEF ActionIInv, ChannelOrdered, Await, Notify
<1>3. Addressed' BY DEF ActionIInv, Addressed, Answering, Await, Notify, told
<1>4. NotYetTold' BY DEF ActionIInv, NotYetTold, Answering, Await, Notify
<1>5. AnswerDue'
  BY DEF ActionIInv, ActionTyped, ChannelOrdered, Addressed, AnswerDue, Silent, Await, Notify,
     told
<1>6. NoticeDue' BY DEF ActionIInv, NoticeDue, Await, reach, told
<1>7. LeftoversDue'
  BY DEF ActionIInv, ActionTyped, ChannelOrdered, NotYetTold, LeftoversDue, Await, told
<1> QED BY <1>1, <1>2, <1>3, <1>4, <1>5, <1>6, <1>7 DEF ActionIInv

\* The chat has the result, or a reply is due.
LEMMA EditKeeps == ASSUME ActionIInv, NEW c \in Chats, Edit(c) PROVE ActionIInv'
<1>1. ActionTyped' BY DEF ActionIInv, ActionTyped, Edit, ReplyInstead, start, reach
<1>2. ChannelOrdered' BY DEF ActionIInv, ChannelOrdered, NotYetTold, Edit, start
<1>3. Addressed' BY DEF ActionIInv, ActionTyped, Addressed, Answering, Edit, start
<1>4. NotYetTold' BY DEF ActionIInv, NotYetTold, Answering, Edit
<1>5. AnswerDue'
  BY DEF ActionIInv, ActionTyped, NotYetTold, AnswerDue, Silent, Served, Edit, ReplyInstead
<1>6. NoticeDue' BY DEF ActionIInv, NoticeDue, Edit, reach, told
<1>7. LeftoversDue'
  BY DEF ActionIInv, ActionTyped, NotYetTold, LeftoversDue, Edit, ReplyInstead, start
<1> QED BY <1>1, <1>2, <1>3, <1>4, <1>5, <1>6, <1>7 DEF ActionIInv

\* The chat has the reply, or a critical notice for it.
LEMMA EnqueueKeeps == ASSUME ActionIInv, NEW c \in Chats, Enqueue(c) PROVE ActionIInv'
<1>1. ActionTyped' BY DEF ActionIInv, ActionTyped, Enqueue, start, ghosts, reach
<1>2. ChannelOrdered' BY DEF ActionIInv, ChannelOrdered, NotYetTold, Enqueue, start
<1>3. Addressed' BY DEF ActionIInv, Addressed, Answering, Enqueue, start, ghosts
<1>4. NotYetTold' BY DEF ActionIInv, NotYetTold, Answering, Enqueue
<1>5. AnswerDue'
  BY DEF ActionIInv, ActionTyped, NotYetTold, AnswerDue, Silent, Served, Enqueue, ghosts
<1>6. NoticeDue' BY DEF ActionIInv, ActionTyped, NoticeDue, Enqueue
<1>7. LeftoversDue'
  BY DEF ActionIInv, ActionTyped, NotYetTold, LeftoversDue, Enqueue, start, ghosts
<1> QED BY <1>1, <1>2, <1>3, <1>4, <1>5, <1>6, <1>7 DEF ActionIInv

LEMMA FinishKeeps == ASSUME ActionIInv, Finish PROVE ActionIInv'
<1>1. ActionTyped' BY DEF ActionIInv, ActionTyped, Places, Finish, start, told, ghosts, reach
<1>2. ChannelOrdered' BY DEF ActionIInv, ChannelOrdered, Answering, Finish, start
<1>3. Addressed' BY DEF ActionIInv, Addressed, Answering, Finish, start, told, ghosts
<1>4. NotYetTold' BY DEF NotYetTold, Answering, Finish
<1>5. AnswerDue'
  BY DEF ActionIInv, AnswerDue, Answering, Silent, Served, Finish, start, told, ghosts
<1>6. NoticeDue' BY DEF ActionIInv, NoticeDue, Finish, reach, told
<1>7. LeftoversDue' BY DEF ActionIInv, LeftoversDue, Answering, Finish, told, ghosts
<1> QED BY <1>1, <1>2, <1>3, <1>4, <1>5, <1>6, <1>7 DEF ActionIInv

LEMMA CriticalNotifyKeeps == ASSUME ActionIInv, NEW c \in Chats, CriticalNotify(c) PROVE ActionIInv'
<1>1. ActionTyped' BY DEF ActionIInv, ActionTyped, CriticalNotify, start, ghosts, reach
<1>2. ChannelOrdered' BY DEF ActionIInv, ChannelOrdered, NotYetTold, CriticalNotify, start
<1>3. Addressed' BY DEF ActionIInv, Addressed, Answering, CriticalNotify, start, ghosts
<1>4. NotYetTold' BY DEF ActionIInv, NotYetTold, Answering, CriticalNotify
<1>5. AnswerDue'
  BY DEF ActionIInv, ActionTyped, NotYetTold, AnswerDue, Silent, Served, CriticalNotify, ghosts
<1>6. NoticeDue'
  BY DEF ActionIInv, ActionTyped, NoticeDue, CriticalNotify, GivesUp, reach
<1>7. LeftoversDue' BY DEF ActionIInv, NotYetTold, LeftoversDue, CriticalNotify, start, ghosts
<1> QED BY <1>1, <1>2, <1>3, <1>4, <1>5, <1>6, <1>7 DEF ActionIInv

LEMMA CriticalSendKeeps == ASSUME ActionIInv, NEW c \in Chats, CriticalSend(c) PROVE ActionIInv'
<1>1. ActionTyped' BY DEF ActionIInv, ActionTyped, CriticalSend, start, ghosts, reach
<1>2. ChannelOrdered' BY DEF ActionIInv, ChannelOrdered, NotYetTold, CriticalSend, start
<1>3. Addressed' BY DEF ActionIInv, Addressed, Answering, CriticalSend, start, ghosts
<1>4. NotYetTold' BY DEF ActionIInv, NotYetTold, Answering, CriticalSend
<1>5. AnswerDue'
  BY DEF ActionIInv, ActionTyped, NotYetTold, AnswerDue, Silent, Served, CriticalSend, ghosts
<1>6. NoticeDue' BY DEF ActionIInv, ActionTyped, NoticeDue, CriticalSend, reach
<1>7. LeftoversDue' BY DEF ActionIInv, NotYetTold, LeftoversDue, CriticalSend, start, ghosts
<1> QED BY <1>1, <1>2, <1>3, <1>4, <1>5, <1>6, <1>7 DEF ActionIInv

-----------------------------------------------------------------------------
LEMMA ActionNextKeeps == ASSUME ActionIInv, [ActionNext]_actionVars PROVE ActionIInv'
<1>1. CASE UNCHANGED actionVars
  <2>1. UNCHANGED <<kind, allowed, pc, result, reachable, away, starter, starting, channel, listed,
                    withId, editing, queueing, shown, queued, critical, counted, owed,
                    unanswered, unedited>>
    BY <1>1 DEF actionVars, reach, start, told, ghosts
  <2>2. ActionTyped' /\ ChannelOrdered' /\ Addressed'
    BY <2>1 DEF ActionIInv, ActionTyped, ChannelOrdered, Addressed, Answering
  <2>3. NotYetTold' /\ AnswerDue'
    BY <2>1 DEF ActionIInv, NotYetTold, AnswerDue, Answering, Silent, Served
  <2>4. NoticeDue' /\ LeftoversDue'
    BY <2>1 DEF ActionIInv, NoticeDue, LeftoversDue, Answering
  <2> QED BY <2>2, <2>3, <2>4 DEF ActionIInv
<1>2. CASE Perform
  BY <1>2, HandleMessageKeeps, StartActionKeeps, CommandReturnsKeeps, CountKeeps, AwaitKeeps,
     FinishKeeps, EditKeeps, EnqueueKeeps DEF Perform
<1>3. CASE Announce
  BY <1>3, ReadDestinationsKeeps, FillKeeps, SendStartKeeps DEF Announce
<1>4. CASE \E c \in Chats : SwitchTransport(c) \/ CriticalNotify(c) \/ CriticalSend(c)
  BY <1>4, SwitchTransportKeeps, CriticalNotifyKeeps, CriticalSendKeeps
<1>5. CASE SwitchLevel \/ ProcessEnds
  BY <1>5, SwitchLevelKeeps, ProcessEndsKeeps
<1> QED BY <1>1, <1>2, <1>3, <1>4, <1>5 DEF ActionNext

LEMMA AnsweredFollows == ActionIInv => EveryoneAnswered
<1> SUFFICES ASSUME ActionIInv PROVE EveryoneAnswered OBVIOUS
<1>1. Answered
  <2>1. Silent => \A c \in Chats : shown[c] = "no" /\ queued[c] = 0 /\ critical[c] = "no"
    BY DEF ActionIInv, ActionTyped, ChannelOrdered, Addressed, AnswerDue, Served
  <2>2. ASSUME pc = "done", ~Silent, NEW c \in owed PROVE Told(c) \/ Forsaken(c)
    <3>1. c \in Chats /\ Served(c)
      BY <2>2 DEF ActionIInv, ActionTyped, AnswerDue, Answering
    <3>2. critical[c] \in {"trying", "sending"} => Noticed(c) \/ ~up
      BY DEF Noticed
    <3>3. critical[c] = "stopped" => c \in away
      BY <3>1 DEF ActionIInv, NoticeDue
    <3>4. critical[c] \in {"no", "trying", "sending", "told", "stopped"}
      BY <3>1 DEF ActionIInv, ActionTyped
    <3> QED BY <3>1, <3>2, <3>3, <3>4 DEF Served, Told, Noticed, Forsaken
  <2> QED BY <2>1, <2>2 DEF ActionIInv, AnswerDue, Answered
<1>2. LeftoversExplained
  BY DEF ActionIInv, AnswerDue, LeftoversDue, LeftoversExplained, Answering
<1> QED BY <1>1, <1>2 DEF EveryoneAnswered

\* When an action is over, every chat it addressed has the result, a reply in the queue, or a notice
\* that the queue refused it, unless the notice's transport went away or the process ended; a
\* counted success is told to nobody; and what else is left in a chat has its cause at the
\* platform or in the end of the process.
THEOREM AllAnswered == ActionSpec => []EveryoneAnswered
<1>1. ActionSpec => []ActionIInv
  BY InitActionIInv, ActionNextKeeps, PTL DEF ActionSpec
<1> QED BY <1>1, AnsweredFollows, PTL
=============================================================================
