----------------------------- MODULE Credential -----------------------------
(***************************************************************************)
(* agent.State: the decrypted SSH key, its authorization window and the   *)
(* goroutines around it (internal/agent/agent.go; its callers in          *)
(* cmd/picoman).  Every method body under State.mu is one action; what a  *)
(* caller does before it takes the mutex (parsing the key file in Unseal, *)
(* reading the clock for LockExpired, the IsUnlocked check of             *)
(* targetForSSH) is an action of its own.                                 *)
(***************************************************************************)
EXTENDS Integers

CONSTANTS
    Sessions,     \* goroutines that dial a host
    Unsealers,    \* goroutines that serve an unseal command
    Keys, NoKey,
    Passphrases, NoPass,
    NoFile,       \* the key file is missing or unreadable
    TTLs,         \* the durations an operator may ask for
    MaxTTL,       \* State.maxTTL
    Developer,    \* TRUE when developer_dir is set: unlock after the boot unseal
    MaxTime,      \* bound: the last value of the clock
    MaxCommands   \* bound: how many commands and key file changes arrive

ASSUME MaxTTLAssumption == MaxTTL \in Nat \ {0}
ASSUME TTLsAssumption == TTLs \subseteq Int
ASSUME BoundsAssumption == MaxTime \in Nat /\ MaxCommands \in Nat
ASSUME DeveloperAssumption == Developer \in BOOLEAN
ASSUME NoKeyAssumption == NoKey \notin Keys
ASSUME NoPassAssumption == NoPass \notin Passphrases
ASSUME NoFileAssumption == NoFile \notin [key : Keys, pass : Passphrases]

VARIABLES
    now,         \* time.Now(); the zero time.Time is 0 and the clock starts at 1
    keyFile,     \* the content of keyPath
    until, passphrase, signer, generation,   \* the fields of State
    pc,          \* where each session is
    held,        \* the guardedSigner each session holds
    used,        \* the key that signed each session's handshake
    unsealer,    \* unseal commands: the passphrase parsed and not yet stored
    boot,        \* startupAutoUnseal: its progress
    bootPass,    \* startupAutoUnseal: the passphrase it parsed
    ticked,      \* watchUnlockExpiry: the time it read, -1 between two ticks
    phase,       \* "up" until the daemon's context is cancelled and it seals
    commands     \* commands so far

stateVars == <<until, passphrase, signer, generation>>
sessVars == <<pc, held, used>>
bootVars == <<boot, bootPass>>
envVars == <<keyFile, phase, commands>>
vars == <<now, keyFile, until, passphrase, signer, generation, pc, held,
          used, unsealer, boot, bootPass, ticked, phase, commands>>

KeyFiles == [key : Keys, pass : Passphrases]
NoSigner == [generation |-> 0, publicKey |-> NoKey]

Init ==
    /\ now = 1
    /\ keyFile \in KeyFiles \cup {NoFile}
    /\ until = 0
    /\ passphrase = NoPass
    /\ signer = NoKey
    /\ generation = 0
    /\ pc = [s \in Sessions |-> "idle"]
    /\ held = [s \in Sessions |-> NoSigner]
    /\ used = [s \in Sessions |-> NoKey]
    /\ unsealer = [u \in Unsealers |-> NoPass]
    /\ boot = "asking"
    /\ bootPass = NoPass
    /\ ticked = -1
    /\ phase = "up"
    /\ commands = 0

-----------------------------------------------------------------------------
(* The methods of State.                                                   *)

\* parseSigner succeeds with passphrase p.
Parses(p) == keyFile # NoFile /\ keyFile.pass = p

\* IsUnlocked, and the guard of Signer: expiry counts before anyone locks.
IsUnlocked == signer # NoKey /\ now < until

\* The part of Unseal under the mutex.
Store(p) ==
    /\ passphrase' = p
    /\ UNCHANGED <<until, signer, generation>>

\* Mutant: Seal keeps the decrypted key.
SealKeepsKey ==
    /\ passphrase' = NoPass
    /\ generation' = generation + 1
    /\ UNCHANGED <<signer, until>>

Seal ==
    /\ signer' = NoKey
    /\ until' = 0
    /\ passphrase' = NoPass
    /\ generation' = generation + 1

\* Mutant: Unlock without the check against max_unlock_ttl.
UnlockAllowsLong(ttl) ==
    ttl > 0 /\ passphrase # NoPass /\ Parses(passphrase)

UnlockAllowed(ttl) ==
    /\ ttl > 0
    /\ ttl <= MaxTTL
    /\ passphrase # NoPass
    /\ Parses(passphrase)

\* Mutant: Unlock without a new generation.
UnlockKeepsGeneration(ttl) ==
    IF UnlockAllowed(ttl)
    THEN /\ signer' = keyFile.key
         /\ until' = now + ttl
         /\ UNCHANGED <<passphrase, generation>>
    ELSE UNCHANGED stateVars

Unlock(ttl) ==
    IF UnlockAllowed(ttl)
    THEN /\ signer' = keyFile.key
         /\ until' = now + ttl
         /\ generation' = generation + 1
         /\ UNCHANGED passphrase
    ELSE UNCHANGED stateVars

Lock ==
    /\ signer' = NoKey
    /\ until' = 0
    /\ generation' = generation + 1
    /\ UNCHANGED passphrase

\* Mutant: LockExpired with an off-by-one deadline.
LockExpiredEarly(t) ==
    IF signer = NoKey \/ until = 0 \/ t < until - 1
    THEN UNCHANGED stateVars
    ELSE Lock

LockExpired(t) ==
    IF signer = NoKey \/ until = 0 \/ t < until
    THEN UNCHANGED stateVars
    ELSE Lock

\* Mutant: currentSigner without the comparison of generations.
CurrentInAnyWindow(g) == signer # NoKey /\ now < until

\* guardedSigner.currentSigner.
Current(g) ==
    /\ signer # NoKey
    /\ generation = g.generation
    /\ now < until

-----------------------------------------------------------------------------
(* Commands, each from a control connection or a transport's loop.         *)

Command ==
    /\ phase = "up"
    /\ commands < MaxCommands
    /\ commands' = commands + 1
    /\ UNCHANGED <<now, phase>>

\* Unseal, outside the mutex: a passphrase that does not parse ends here.
BeginUnseal(u) ==
    /\ Command
    /\ unsealer[u] = NoPass
    /\ \E p \in Passphrases :
          unsealer' = [unsealer EXCEPT ![u] = IF Parses(p) THEN p ELSE NoPass]
    /\ UNCHANGED <<keyFile, stateVars, sessVars, bootVars, ticked>>

\* Nothing stops a handler that parsed before the shutdown from storing.
FinishUnseal(u) ==
    /\ unsealer[u] # NoPass
    /\ Store(unsealer[u])
    /\ unsealer' = [unsealer EXCEPT ![u] = NoPass]
    /\ UNCHANGED <<now, envVars, sessVars, bootVars, ticked>>

CmdSeal ==
    /\ Command
    /\ Seal
    /\ UNCHANGED <<keyFile, sessVars, unsealer, bootVars, ticked>>

CmdUnlock ==
    /\ Command
    /\ \E ttl \in TTLs : Unlock(ttl)
    /\ UNCHANGED <<keyFile, sessVars, unsealer, bootVars, ticked>>

CmdLock ==
    /\ Command
    /\ Lock
    /\ UNCHANGED <<keyFile, sessVars, unsealer, bootVars, ticked>>

\* The operator replaces, re-encrypts or removes the key file.
ChangeKeyFile ==
    /\ Command
    /\ keyFile' \in (KeyFiles \cup {NoFile}) \ {keyFile}
    /\ UNCHANGED <<stateVars, sessVars, unsealer, bootVars, ticked>>

-----------------------------------------------------------------------------
(* startupAutoUnseal: ask, parse, store, and unlock for a developer.       *)

BootParse ==
    /\ boot = "asking"
    /\ \/ \E p \in Passphrases :
             /\ Parses(p)
             /\ boot' = "parsed"
             /\ bootPass' = p
       \/ boot' = "done" /\ UNCHANGED bootPass   \* none configured, or it fails
    /\ UNCHANGED <<now, envVars, stateVars, sessVars, unsealer, ticked>>

BootStore ==
    /\ boot = "parsed"
    /\ Store(bootPass)
    /\ boot' = IF Developer THEN "stored" ELSE "done"
    /\ bootPass' = NoPass
    /\ UNCHANGED <<now, envVars, sessVars, unsealer, ticked>>

BootUnlock ==
    /\ boot = "stored"
    /\ Unlock(MaxTTL)
    /\ boot' = "done"
    /\ UNCHANGED <<now, envVars, sessVars, unsealer, bootPass, ticked>>

\* runDaemon after <-ctx.Done(); handlers in flight go on until the process ends.
Shutdown ==
    /\ phase = "up"
    /\ Seal
    /\ phase' = "stopping"
    /\ UNCHANGED <<now, keyFile, commands, sessVars, unsealer, bootVars, ticked>>

-----------------------------------------------------------------------------
(* watchUnlockExpiry: time.Now() is read before LockExpired has the mutex. *)

WatchTick ==
    /\ phase = "up"
    /\ ticked = -1
    /\ ticked' = now
    /\ UNCHANGED <<now, envVars, stateVars, sessVars, unsealer, bootVars>>

\* Mutant: the watcher returns, where it should continue, when nothing expired.
WatchLockOnce ==
    /\ ticked # -1
    /\ LockExpired(ticked)
    /\ ticked' = IF ticked < until \/ signer = NoKey THEN 0 ELSE -1
    /\ UNCHANGED <<now, envVars, sessVars, unsealer, bootVars>>

WatchLock ==
    /\ ticked # -1
    /\ LockExpired(ticked)
    /\ ticked' = -1
    /\ UNCHANGED <<now, envVars, sessVars, unsealer, bootVars>>

-----------------------------------------------------------------------------
(* SSH sessions: targetForSSH, then dialSSH.                               *)

SessionStep == UNCHANGED <<now, envVars, stateVars, unsealer, bootVars, ticked>>

Admit(s) ==
    /\ phase = "up"
    /\ pc[s] = "idle"
    /\ IsUnlocked
    /\ pc' = [pc EXCEPT ![s] = "admitted"]
    /\ UNCHANGED <<held, used>>
    /\ SessionStep

\* State.Signer: the key may have been locked since Admit.
TakeSigner(s) ==
    /\ pc[s] = "admitted"
    /\ IF IsUnlocked
       THEN /\ pc' = [pc EXCEPT ![s] = "dialing"]
            /\ held' = [held EXCEPT ![s] =
                           [generation |-> generation, publicKey |-> signer]]
       ELSE /\ pc' = [pc EXCEPT ![s] = "idle"]
            /\ UNCHANGED held
    /\ UNCHANGED used
    /\ SessionStep

\* The handshake asks the guardedSigner for a signature.
Sign(s) ==
    /\ pc[s] = "dialing"
    /\ Current(held[s])
    /\ pc' = [pc EXCEPT ![s] = "connected"]
    /\ used' = [used EXCEPT ![s] = signer]
    /\ UNCHANGED held
    /\ SessionStep

\* No route, a wrong host key, a timeout, or the guardedSigner refuses.
DialFails(s) ==
    /\ pc[s] = "dialing"
    /\ pc' = [pc EXCEPT ![s] = "idle"]
    /\ held' = [held EXCEPT ![s] = NoSigner]
    /\ UNCHANGED used
    /\ SessionStep

CloseClient(s) ==
    /\ pc[s] = "connected"
    /\ pc' = [pc EXCEPT ![s] = "idle"]
    /\ held' = [held EXCEPT ![s] = NoSigner]
    /\ used' = [used EXCEPT ![s] = NoKey]
    /\ SessionStep

Tick ==
    /\ now < MaxTime
    /\ now' = now + 1
    /\ UNCHANGED <<envVars, stateVars, sessVars, unsealer, bootVars, ticked>>

Next ==
    \/ \E u \in Unsealers : BeginUnseal(u) \/ FinishUnseal(u)
    \/ CmdSeal \/ CmdUnlock \/ CmdLock \/ ChangeKeyFile
    \/ BootParse \/ BootStore \/ BootUnlock
    \/ Shutdown
    \/ WatchTick \/ WatchLock
    \/ \E s \in Sessions :
          Admit(s) \/ TakeSigner(s) \/ Sign(s) \/ DialFails(s) \/ CloseClient(s)
    \/ Tick

\* The watcher's ticker keeps firing and its mutex is never held for ever.
Fairness == WF_vars(WatchTick) /\ WF_vars(WatchLock)

Spec == Init /\ [][Next]_vars /\ Fairness

-----------------------------------------------------------------------------
(* Properties.                                                             *)

\* Every variable has its type.
TypeOK ==
    /\ now \in 1 .. MaxTime + 1
    /\ keyFile \in KeyFiles \cup {NoFile}
    /\ until \in Nat
    /\ passphrase \in Passphrases \cup {NoPass}
    /\ signer \in Keys \cup {NoKey}
    /\ generation \in Nat
    /\ pc \in [Sessions -> {"idle", "admitted", "dialing", "connected"}]
    /\ held \in [Sessions -> [generation : Nat, publicKey : Keys \cup {NoKey}]]
    /\ used \in [Sessions -> Keys \cup {NoKey}]
    /\ unsealer \in [Unsealers -> Passphrases \cup {NoPass}]
    /\ boot \in {"asking", "parsed", "stored", "done"}
    /\ bootPass \in Passphrases \cup {NoPass}
    /\ ticked \in {-1} \cup (1 .. now)
    /\ phase \in {"up", "stopping"}
    /\ commands \in 0 .. MaxCommands

\* A sealed daemon is a locked one: whatever the order in which Unseal, Seal,
\* Unlock and the watcher take the mutex, a decrypted key is in memory only
\* while the passphrase that decrypted it has not been sealed away.
SealedIsLocked == passphrase = NoPass => signer = NoKey

\* A handshake is signed with the key the session offered to the host, though
\* guardedSigner signs with whatever key State holds at that moment and the
\* key file may have been replaced and unlocked again since it was captured.
SignsOfferedKey ==
    \A s \in Sessions : pc[s] = "connected" => used[s] = held[s].publicKey

\* The window never outlasts max_unlock_ttl, counted from now.
WindowBounded == until <= now + MaxTTL

\* What State guarantees about its key in every interleaving of its callers (agent.go).
KeySafe == SealedIsLocked /\ SignsOfferedKey /\ WindowBounded

\* The expiry watcher, which reads the clock before it has the mutex, never
\* locks a window that still has time left, however late its call is.
WatcherSparesOpenWindow ==
    [][WatchLock => (IsUnlocked => signer' = signer)]_vars

\* While the daemon runs an expired key does not stay in memory: the watcher
\* (or a command) locks it.
ExpiredKeyLocked ==
    (phase = "up" /\ signer # NoKey /\ now >= until)
        ~> (signer = NoKey \/ now < until \/ phase = "stopping")

\* The sessions whose guardedSigner the current window still honours.
Holders == {s \in Sessions : /\ pc[s] = "dialing"
                             /\ held[s].generation = generation
                             /\ signer # NoKey}

\* State implements the authorization window it promises: a credential from
\* before a Lock, a Seal, an expiry or a new Unlock never signs again, and one
\* from this window only before its deadline.
Authorization == INSTANCE KeyAuthorization WITH
    openKey <- signer,
    deadline <- until,
    holders <- Holders,
    signedWith <- used

AuthorizationSpec == Authorization!Spec
=============================================================================
