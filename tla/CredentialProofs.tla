-------------------------- MODULE CredentialProofs --------------------------
(***************************************************************************)
(* What must be authentic.  The key: the safety properties of Credential  *)
(* hold for any number of sessions, keys, passphrases, commands and for   *)
(* any TTL limit, and Credential implements KeyAuthorization.  The binary *)
(* and its announcement: those of Update hold for any installations.      *)
(***************************************************************************)
EXTENDS Credential, Update, TLAPS

\* A deadline is set exactly while a key is decrypted.
DeadlineIffKey == until = 0 <=> signer = NoKey

\* No session holds a credential from a generation to come, and one from the
\* present generation names the key that State would sign with.
CredentialsFresh ==
    \A s \in Sessions :
        pc[s] = "dialing" =>
            /\ held[s].generation <= generation
            /\ (held[s].generation = generation /\ signer # NoKey)
                  => held[s].publicKey = signer

\* Only a connected session has had a signature.
UsedOnlyConnected ==
    \A s \in Sessions : pc[s] # "connected" => used[s] = NoKey

\* The boot unseal never stores a passphrase that it has not parsed.
BootParsed == boot = "parsed" => bootPass \in Passphrases

IInv ==
    /\ TypeOK
    /\ BootParsed
    /\ SealedIsLocked
    /\ DeadlineIffKey
    /\ WindowBounded
    /\ CredentialsFresh
    /\ UsedOnlyConnected
    /\ SignsOfferedKey

USE MaxTTLAssumption, TTLsAssumption, BoundsAssumption, DeveloperAssumption,
    NoKeyAssumption, NoPassAssumption, NoFileAssumption

-----------------------------------------------------------------------------
(* The steps that change State, and the steps that do not.                 *)

\* A step that sets or clears the key always takes a new generation.
StateStep ==
    \/ UNCHANGED stateVars
    \/ \E p \in Passphrases : Store(p)
    \/ Seal
    \/ Lock
    \/ \E ttl \in 1 .. MaxTTL :
          /\ passphrase # NoPass
          /\ signer' \in Keys
          /\ until' = now + ttl
          /\ generation' = generation + 1
          /\ UNCHANGED passphrase

\* Unlock either opens a window of 1 .. MaxTTL or changes nothing.
LEMMA UnlockIsStateStep ==
    ASSUME TypeOK, NEW ttl \in Int, Unlock(ttl)
    PROVE  StateStep
<1>1. CASE UnlockAllowed(ttl)
  <2>1. ttl \in 1 .. MaxTTL
    BY <1>1 DEF UnlockAllowed
  <2>2. keyFile.key \in Keys
    BY <1>1 DEF UnlockAllowed, Parses, TypeOK, KeyFiles
  <2> QED
    BY <1>1, <2>1, <2>2 DEF Unlock, UnlockAllowed, StateStep
<1>2. CASE ~UnlockAllowed(ttl)
  BY <1>2 DEF Unlock, StateStep
<1> QED
  BY <1>1, <1>2

\* What a step of State preserves, whoever takes it, when no session moves.
LEMMA StateStepPreserves ==
    ASSUME IInv, StateStep, UNCHANGED <<now, sessVars>>
    PROVE  /\ SealedIsLocked' /\ DeadlineIffKey' /\ WindowBounded'
           /\ CredentialsFresh' /\ UsedOnlyConnected' /\ SignsOfferedKey'
           /\ until' \in Nat /\ signer' \in Keys \cup {NoKey}
           /\ passphrase' \in Passphrases \cup {NoPass} /\ generation' \in Nat
<1> USE DEF IInv, TypeOK, sessVars
<1>1. /\ until' \in Nat /\ signer' \in Keys \cup {NoKey}
      /\ passphrase' \in Passphrases \cup {NoPass} /\ generation' \in Nat
  BY DEF StateStep, stateVars, Store, Seal, Lock
<1>2. SealedIsLocked' /\ DeadlineIffKey' /\ WindowBounded'
  BY DEF StateStep, stateVars, Store, Seal, Lock, SealedIsLocked,
         DeadlineIffKey, WindowBounded
<1>3. CredentialsFresh'
  BY DEF StateStep, stateVars, Store, Seal, Lock, CredentialsFresh
<1>4. UsedOnlyConnected' /\ SignsOfferedKey'
  BY DEF UsedOnlyConnected, SignsOfferedKey
<1> QED
  BY <1>1, <1>2, <1>3, <1>4

-----------------------------------------------------------------------------
(* The inductive invariant.                                                *)

\* The commands, the boot unseal, the shutdown and the watcher: everything but
\* the sessions and the clock.
StateAction ==
    \/ \E u \in Unsealers : BeginUnseal(u) \/ FinishUnseal(u)
    \/ CmdSeal \/ CmdUnlock \/ CmdLock \/ ChangeKeyFile
    \/ BootParse \/ BootStore \/ BootUnlock
    \/ Shutdown
    \/ WatchTick \/ WatchLock

LEMMA StateActionIsStateStep ==
    ASSUME TypeOK, BootParsed, StateAction
    PROVE  StateStep /\ UNCHANGED <<now, sessVars>>
<1>1. ASSUME NEW u \in Unsealers, BeginUnseal(u) \/ FinishUnseal(u)
      PROVE  StateStep /\ UNCHANGED <<now, sessVars>>
  <2>1. CASE BeginUnseal(u)
    BY <2>1 DEF BeginUnseal, Command, StateStep
  <2>2. CASE FinishUnseal(u)
    <3>1. unsealer[u] \in Passphrases
      BY <2>2 DEF FinishUnseal, TypeOK
    <3> QED
      BY <2>2, <3>1 DEF FinishUnseal, StateStep
  <2> QED
    BY <1>1, <2>1, <2>2
<1>2. CASE CmdSeal \/ CmdLock \/ ChangeKeyFile \/ BootParse \/ Shutdown \/ WatchTick
  BY <1>2 DEF CmdSeal, CmdLock, ChangeKeyFile, BootParse, Shutdown, WatchTick,
              Command, StateStep, bootVars, envVars
<1>3. CASE CmdUnlock
  <2>1. PICK ttl \in TTLs : Unlock(ttl)
    BY <1>3 DEF CmdUnlock
  <2> QED
    BY <1>3, <2>1, UnlockIsStateStep DEF CmdUnlock, Command
<1>4. CASE BootStore
  <2>1. bootPass \in Passphrases
    BY <1>4 DEF BootStore, BootParsed
  <2> QED
    BY <1>4, <2>1 DEF BootStore, StateStep
<1>5. CASE BootUnlock
  BY <1>5, UnlockIsStateStep DEF BootUnlock
<1>6. CASE WatchLock
  BY <1>6 DEF WatchLock, LockExpired, StateStep
<1> QED
  BY <1>1, <1>2, <1>3, <1>4, <1>5, <1>6 DEF StateAction

\* The variables of the goroutines keep their types, whatever State does.
LEMMA StateActionTypes ==
    ASSUME TypeOK, BootParsed, StateAction
    PROVE  /\ keyFile' \in KeyFiles \cup {NoFile}
           /\ unsealer' \in [Unsealers -> Passphrases \cup {NoPass}]
           /\ boot' \in {"asking", "parsed", "stored", "done"}
           /\ bootPass' \in Passphrases \cup {NoPass}
           /\ ticked' \in {-1} \cup (1 .. now)
           /\ phase' \in {"up", "stopping"}
           /\ commands' \in 0 .. MaxCommands
           /\ BootParsed'
<1> USE DEF TypeOK, BootParsed, bootVars, envVars
<1>1. ASSUME NEW u \in Unsealers, BeginUnseal(u)
      PROVE  /\ unsealer' \in [Unsealers -> Passphrases \cup {NoPass}]
             /\ commands' \in 0 .. MaxCommands
             /\ UNCHANGED <<keyFile, bootVars, ticked, phase>>
  BY <1>1 DEF BeginUnseal, Command
<1>2. ASSUME NEW u \in Unsealers, FinishUnseal(u)
      PROVE  /\ unsealer' \in [Unsealers -> Passphrases \cup {NoPass}]
             /\ UNCHANGED <<envVars, bootVars, ticked>>
  BY <1>2 DEF FinishUnseal
<1>3. CASE CmdSeal \/ CmdUnlock \/ CmdLock \/ ChangeKeyFile
  BY <1>3 DEF CmdSeal, CmdUnlock, CmdLock, ChangeKeyFile, Command
<1>4. CASE BootParse
  BY <1>4 DEF BootParse
<1>5. CASE BootStore \/ BootUnlock
  BY <1>5 DEF BootStore, BootUnlock
<1>6. CASE Shutdown
  BY <1>6 DEF Shutdown
<1>7. CASE WatchTick \/ WatchLock
  BY <1>7 DEF WatchTick, WatchLock
<1> QED
  BY <1>1, <1>2, <1>3, <1>4, <1>5, <1>6, <1>7 DEF StateAction

LEMMA SessionPreserves ==
    ASSUME IInv, NEW s \in Sessions,
           Admit(s) \/ TakeSigner(s) \/ Sign(s) \/ DialFails(s) \/ CloseClient(s)
    PROVE  IInv'
<1> USE DEF IInv, TypeOK, SessionStep, envVars, stateVars, bootVars, NoSigner
<1>1. UNCHANGED <<now, envVars, stateVars, unsealer, bootVars, ticked>>
  BY DEF Admit, TakeSigner, Sign, DialFails, CloseClient
<1>2. SealedIsLocked' /\ DeadlineIffKey' /\ WindowBounded' /\ BootParsed'
  BY <1>1 DEF SealedIsLocked, DeadlineIffKey, WindowBounded, BootParsed
<1>3. /\ pc' \in [Sessions -> {"idle", "admitted", "dialing", "connected"}]
      /\ held' \in [Sessions -> [generation : Nat, publicKey : Keys \cup {NoKey}]]
      /\ used' \in [Sessions -> Keys \cup {NoKey}]
  <2>1. CASE TakeSigner(s)
    <3> DEFINE offered == [generation |-> generation, publicKey |-> signer]
    <3>1. offered \in [generation : Nat, publicKey : Keys \cup {NoKey}]
      OBVIOUS
    <3>2. /\ \E to \in {"dialing", "idle"} : pc' = [pc EXCEPT ![s] = to]
          /\ held' \in {held, [held EXCEPT ![s] = offered]}
          /\ used' = used
      BY <2>1 DEF TakeSigner
    <3> HIDE DEF offered
    <3> QED
      BY <3>1, <3>2
  <2>2. CASE Admit(s) \/ Sign(s)
    BY <2>2 DEF Admit, Sign
  <2>3. CASE DialFails(s) \/ CloseClient(s)
    <3>1. NoSigner \in [generation : Nat, publicKey : Keys \cup {NoKey}]
      OBVIOUS
    <3>2. /\ pc' = [pc EXCEPT ![s] = "idle"] /\ held' = [held EXCEPT ![s] = NoSigner]
          /\ used' \in {used, [used EXCEPT ![s] = NoKey]}
      BY <2>3 DEF DialFails, CloseClient
    <3> HIDE DEF NoSigner
    <3> QED
      BY <3>1, <3>2
  <2> QED
    BY <2>1, <2>2, <2>3
<1>4. CredentialsFresh'
  <2>1. CASE TakeSigner(s)
    BY <1>1, <2>1 DEF TakeSigner, CredentialsFresh
  <2>2. CASE Admit(s) \/ Sign(s) \/ DialFails(s) \/ CloseClient(s)
    BY <1>1, <2>2 DEF Admit, Sign, DialFails, CloseClient, CredentialsFresh
  <2> QED
    BY <2>1, <2>2
<1>5. UsedOnlyConnected'
  BY DEF UsedOnlyConnected, Admit, TakeSigner, Sign, DialFails, CloseClient
<1>6. SignsOfferedKey'
  <2>1. CASE Sign(s)
    BY <2>1 DEF Sign, Current, CredentialsFresh, SignsOfferedKey
  <2>2. CASE Admit(s) \/ TakeSigner(s) \/ DialFails(s) \/ CloseClient(s)
    BY <2>2 DEF Admit, TakeSigner, DialFails, CloseClient, SignsOfferedKey
  <2> QED
    BY <2>1, <2>2
<1> QED
  BY <1>1, <1>2, <1>3, <1>4, <1>5, <1>6

LEMMA InitIInv == Init => IInv
BY DEF Init, IInv, TypeOK, SealedIsLocked, DeadlineIffKey, WindowBounded,
       CredentialsFresh, UsedOnlyConnected, SignsOfferedKey, BootParsed,
       NoSigner, KeyFiles

LEMMA NextIInv == IInv /\ [Next]_vars => IInv'
<1> SUFFICES ASSUME IInv, [Next]_vars PROVE IInv'
  OBVIOUS
<1>1. CASE StateAction
  <2>1. StateStep /\ UNCHANGED <<now, sessVars>>
    BY <1>1, StateActionIsStateStep DEF IInv
  <2>2. TypeOK'
    BY <1>1, <2>1, StateStepPreserves, StateActionTypes
    DEF IInv, TypeOK, sessVars
  <2> QED
    BY <1>1, <2>1, <2>2, StateStepPreserves, StateActionTypes DEF IInv
<1>2. ASSUME NEW s \in Sessions,
             Admit(s) \/ TakeSigner(s) \/ Sign(s) \/ DialFails(s) \/ CloseClient(s)
      PROVE  IInv'
  BY <1>2, SessionPreserves
<1>3. CASE Tick
  BY <1>3 DEF Tick, IInv, TypeOK, SealedIsLocked, DeadlineIffKey, WindowBounded,
     CredentialsFresh, UsedOnlyConnected, SignsOfferedKey, BootParsed,
     envVars, stateVars, sessVars, bootVars
<1>4. CASE UNCHANGED vars
  BY <1>4 DEF vars, IInv, TypeOK, SealedIsLocked, DeadlineIffKey, WindowBounded,
     CredentialsFresh, UsedOnlyConnected, SignsOfferedKey, BootParsed
<1> QED
  BY <1>1, <1>2, <1>3, <1>4 DEF Next, StateAction

\* Type correctness: every variable keeps its type.
THEOREM Typed == Spec => []TypeOK
<1>1. IInv => TypeOK
  BY DEF IInv
<1> QED
  BY InitIInv, NextIInv, <1>1, PTL DEF Spec

\* Sealed means locked, a signature is made with the key the session offered,
\* and no window outlasts the limit, in every interleaving of State's callers.
THEOREM Safe == Spec => []KeySafe
<1>1. IInv => KeySafe
  BY DEF IInv, KeySafe
<1> QED
  BY InitIInv, NextIInv, <1>1, PTL DEF Spec

\* The watcher never cuts a window that has time left, however old its clock.
THEOREM WatcherSafe == Spec => WatcherSparesOpenWindow
<1>1. IInv /\ [Next]_vars => [WatchLock => (IsUnlocked => signer' = signer)]_vars
  BY DEF IInv, TypeOK, WatchLock, LockExpired, Lock, IsUnlocked, stateVars
<1> QED
  BY InitIInv, NextIInv, <1>1, PTL DEF Spec, WatcherSparesOpenWindow

-----------------------------------------------------------------------------
(* Credential implements KeyAuthorization.                                 *)

\* A step of State opens a window, closes it, or is invisible: no credential
\* of an earlier generation is in Holders afterwards.
LEMMA StateStepMaps ==
    ASSUME IInv, StateStep, UNCHANGED <<now, sessVars>>
    PROVE  [Authorization!Next]_(Authorization!vars)
<1> USE DEF IInv, TypeOK, sessVars
<1>1. CASE UNCHANGED stateVars \/ \E p \in Passphrases : Store(p)
  BY <1>1 DEF stateVars, Store, Holders, Authorization!vars
<1>2. CASE Seal \/ Lock
  <2>1. Holders' = {}
    BY <1>2 DEF Seal, Lock, Holders
  <2>2. Authorization!Revoke
    BY <1>2, <2>1 DEF Seal, Lock, Authorization!Revoke
  <2> QED
    BY <2>2 DEF Authorization!Next
<1>3. CASE \E ttl \in 1 .. MaxTTL :
              /\ passphrase # NoPass
              /\ signer' \in Keys
              /\ until' = now + ttl
              /\ generation' = generation + 1
              /\ UNCHANGED passphrase
  <2>1. Holders' = {}
    BY <1>3 DEF Holders, CredentialsFresh
  <2>2. until' \in now + 1 .. now + MaxTTL
    BY <1>3
  <2>3. Authorization!Grant
    BY <1>3, <2>1, <2>2 DEF Authorization!Grant
  <2> QED
    BY <2>3 DEF Authorization!Next
<1> QED
  BY <1>1, <1>2, <1>3 DEF StateStep

LEMMA SessionMaps ==
    ASSUME IInv, NEW s \in Sessions,
           Admit(s) \/ TakeSigner(s) \/ Sign(s) \/ DialFails(s) \/ CloseClient(s)
    PROVE  [Authorization!Next]_(Authorization!vars)
<1> USE DEF IInv, TypeOK, SessionStep, envVars, stateVars
<1>1. CASE Admit(s)
  <2>1. Holders' = Holders
    BY <1>1 DEF Admit, Holders
  <2> QED
    BY <1>1, <2>1 DEF Admit, Authorization!vars
<1>2. CASE TakeSigner(s) /\ IsUnlocked
  <2>1. Holders' = Holders \cup {s}
    BY <1>2 DEF TakeSigner, IsUnlocked, Holders
  <2>2. Authorization!Take(s)
    BY <1>2, <2>1
    DEF TakeSigner, IsUnlocked, Authorization!Take, Authorization!Open
  <2> QED
    BY <2>2 DEF Authorization!Next
<1>3. CASE TakeSigner(s) /\ ~IsUnlocked
  <2>1. Holders' = Holders
    BY <1>3 DEF TakeSigner, Holders
  <2> QED
    BY <1>3, <2>1 DEF TakeSigner, Authorization!vars
<1>4. CASE Sign(s)
  <2>1. s \in Holders /\ Holders' = Holders \ {s}
    BY <1>4 DEF Sign, Current, Holders
  <2>2. Authorization!Sign(s)
    BY <1>4, <2>1
    DEF Sign, Current, Authorization!Sign, Authorization!Open
  <2> QED
    BY <2>2 DEF Authorization!Next
<1>5. CASE DialFails(s) \/ CloseClient(s)
  <2>1. Holders' = Holders \ {s}
    BY <1>5 DEF DialFails, CloseClient, Holders
  <2>2. used' = [used EXCEPT ![s] = NoKey]
    BY <1>5 DEF DialFails, CloseClient, UsedOnlyConnected
  <2>3. Authorization!Leave(s)
    BY <1>5, <2>1, <2>2 DEF DialFails, CloseClient, Authorization!Leave
  <2> QED
    BY <2>3 DEF Authorization!Next
<1> QED
  BY <1>1, <1>2, <1>3, <1>4, <1>5

\* State implements the authorization window: a credential taken before a
\* Lock, a Seal, an expiry or a new Unlock is never honoured again, and a
\* credential of this window only before its deadline.
THEOREM ImplementsAuthorization == Spec => AuthorizationSpec
<1>1. Init => Authorization!Init
  BY DEF Init, Authorization!Init, Holders
<1>2. IInv /\ [Next]_vars => [Authorization!Next]_(Authorization!vars)
  <2> SUFFICES ASSUME IInv, [Next]_vars
               PROVE  [Authorization!Next]_(Authorization!vars)
    OBVIOUS
  <2>1. CASE StateAction
    BY <2>1, StateActionIsStateStep, StateStepMaps DEF IInv
  <2>2. ASSUME NEW s \in Sessions,
               Admit(s) \/ TakeSigner(s) \/ Sign(s) \/ DialFails(s) \/ CloseClient(s)
        PROVE  [Authorization!Next]_(Authorization!vars)
    BY <2>2, SessionMaps
  <2>3. CASE Tick
    <3>1. Authorization!Tick
      BY <2>3 DEF Tick, Authorization!Tick, Holders, stateVars, sessVars, envVars
    <3> QED
      BY <3>1 DEF Authorization!Next
  <2>4. CASE UNCHANGED vars
    BY <2>4 DEF vars, Holders, Authorization!vars
  <2> QED
    BY <2>1, <2>2, <2>3, <2>4 DEF Next, StateAction
<1> QED
  BY InitIInv, NextIInv, <1>1, <1>2, PTL DEF Spec, AuthorizationSpec, Authorization!Spec

-----------------------------------------------------------------------------
(* Update: the installed binary is whole and verified, and an update is    *)
(* announced once and truthfully, for any number of installations.         *)

\* An installation takes these steps before its binary is in place, before it has left its
\* marker, and after that.
Unplaced == {"idle", "download", "verify", "copy", "rename"}
Unmarked == Unplaced \cup {"unit", "marker", "write"}
Placed == {"unit", "marker", "write", "restart"}
Steps == Unmarked \cup {"restart", "failed", "done"}

Notices == [to : Releases, by : Installs]
Readable == marker \notin {None, Torn}

\* Positions in the history: entry n is the n-th replacement of the binary.
InHistory(i) == \E n \in 1 .. Len(history) : history[n] = i

\* The release that is in place after n replacements.
ReleaseAfter(n) == IF n = 0 THEN First ELSE tag[history[n]]

InstallsTyped ==
    /\ greeting \in {"unread", "held", "removed", "done"} /\ kept \in BOOLEAN
    /\ step \in [Installs -> Steps]
    /\ tag \in [Installs -> Releases]
    /\ DOMAIN body = Installs
    /\ history \in Seq(Installs)
    /\ started \in 0 .. Len(history)
    /\ Readable => marker \in Notices
    /\ notice # None => notice \in Notices
    /\ announced \in [once : SUBSET Installs, again : SUBSET Installs]

\* What is about to be installed is what was asked for.
BodyVerified == \A i \in Installs : step[i] \in {"copy", "rename"} => body[i] = tag[i]

\* The history has an installation from the replacement of the binary on, and once.
HistoryTrue ==
    /\ \A i \in Installs : step[i] \in Unplaced => ~InHistory(i)
    /\ \A i \in Installs : step[i] \in Placed => InHistory(i)
    /\ \A m, n \in 1 .. Len(history) : history[m] = history[n] => m = n

\* The daemon runs what was in place when it was started.
RunningKnown == running = ReleaseAfter(started)

\* A marker, and a notice, is of an installation that is in place, and past writing its marker.
MarkerTrue ==
    /\ Readable => /\ InHistory(marker.by) /\ marker.to = tag[marker.by]
                   /\ step[marker.by] \notin Unmarked
    /\ notice # None => /\ InHistory(notice.by) /\ notice.to = tag[notice.by]
                        /\ step[notice.by] \notin Unmarked

\* What has not been announced yet: a marker that is still to be read, or to be written, and one
\* that was read and removed.
Unannounced ==
    /\ \A i \in Installs : step[i] \in Unmarked => i \notin announced.once
    /\ Readable => marker.by \notin announced.once
    /\ greeting \in {"held", "removed"} /\ notice # None => notice.by \notin announced.once
    /\ greeting = "removed" /\ notice # None /\ Readable => marker.by # notice.by
    /\ announced.again = {}

UpdateIInv ==
    /\ InstallsTyped
    /\ BodyVerified
    /\ BinarySound
    /\ HistoryTrue
    /\ RunningKnown
    /\ MarkerTrue
    /\ kept \/ Unannounced

LEMMA InitUpdateIInv == UpdateInit => UpdateIInv
<1> SUFFICES ASSUME UpdateInit PROVE UpdateIInv OBVIOUS
<1>1. history = <<>> /\ Len(history) = 0 BY DEF UpdateInit
<1>2. InstallsTyped
  <2>1. history \in Seq(Installs) BY <1>1
  <2>2. greeting \in {"unread", "held", "removed", "done"} /\ kept \in BOOLEAN BY DEF UpdateInit
  <2>3. step \in [Installs -> Steps] BY DEF UpdateInit, Steps, Unmarked, Unplaced
  <2>4. started \in 0 .. Len(history) BY <1>1 DEF UpdateInit
  <2>5. announced \in [once : SUBSET Installs, again : SUBSET Installs] BY DEF UpdateInit
  <2> QED BY <2>1, <2>2, <2>3, <2>4, <2>5 DEF UpdateInit, InstallsTyped, Readable
<1>3. BodyVerified /\ BinarySound BY DEF UpdateInit, BodyVerified, BinarySound
<1>4. HistoryTrue BY <1>1 DEF UpdateInit, HistoryTrue, InHistory, Unplaced, Placed
<1>5. RunningKnown /\ MarkerTrue
  BY DEF UpdateInit, RunningKnown, ReleaseAfter, MarkerTrue, Readable
<1>6. Unannounced BY DEF UpdateInit, Unannounced, Readable
<1> QED BY <1>2, <1>3, <1>4, <1>5, <1>6 DEF UpdateIInv

-----------------------------------------------------------------------------
(* Steps of an installation that write neither binary nor marker, and ends *)
(* of the daemon: they only move installations forward.                    *)

\* Installations go forward and nothing else is written.
Forward ==
    /\ step' \in [Installs -> Steps]
    /\ \A i \in Installs :
          /\ step'[i] \in Unplaced => step[i] \in Unplaced
          /\ step'[i] \in Placed => step[i] \in Placed
          /\ step'[i] \in Unmarked => step[i] \in Unmarked
    /\ UNCHANGED <<running, greeting, started, notice, announced, kept, binary, marker, tag,
                   history>>

\* The history stays true while installations go forward.
LEMMA ForwardHistory ==
    ASSUME HistoryTrue, UNCHANGED history,
           \A i \in Installs : /\ step'[i] \in Unplaced => step[i] \in Unplaced
                               /\ step'[i] \in Placed => step[i] \in Placed
    PROVE  HistoryTrue'
  BY DEF HistoryTrue, InHistory

\* So it is enough to look at the downloads.
LEMMA ForwardKeeps ==
    ASSUME UpdateIInv, Forward, DOMAIN body' = Installs, BodyVerified'
    PROVE  UpdateIInv'
<1>1. InstallsTyped' BY DEF UpdateIInv, InstallsTyped, Forward, Readable
<1>2. BinarySound' BY DEF UpdateIInv, BinarySound, Forward
<1>3. HistoryTrue' BY ForwardHistory DEF UpdateIInv, Forward
<1>4. RunningKnown' BY DEF UpdateIInv, RunningKnown, ReleaseAfter, Forward
<1>5. MarkerTrue'
  BY DEF UpdateIInv, InstallsTyped, Notices, MarkerTrue, Readable, InHistory, Forward
<1>6. kept' \/ Unannounced' BY DEF UpdateIInv, Unannounced, Readable, Forward
<1> QED BY <1>1, <1>2, <1>3, <1>4, <1>5, <1>6 DEF UpdateIInv

\* One installation goes from a step to a later one.
LEMMA GoForward ==
    ASSUME UpdateIInv, NEW i \in Installs, NEW to \in Steps, Go(i, to),
           UNCHANGED <<daemon, binary, marker, tag, history>>,
           to \in Unplaced => step[i] \in Unplaced,
           to \in Placed => step[i] \in Placed,
           to \in Unmarked => step[i] \in Unmarked
    PROVE  Forward
  BY DEF UpdateIInv, InstallsTyped, Go, Forward, daemon

LEMMA BeginKeeps == ASSUME UpdateIInv, NEW i \in Installs, Begin(i) PROVE UpdateIInv'
<1> USE DEF Steps, Unmarked, Unplaced, Placed
<1>1. Forward BY GoForward DEF Begin
<1>2. DOMAIN body' = Installs BY DEF UpdateIInv, InstallsTyped, Begin
<1>3. BodyVerified' BY DEF UpdateIInv, InstallsTyped, BodyVerified, Begin, Go
<1> QED BY <1>1, <1>2, <1>3, ForwardKeeps

LEMMA DownloadKeeps == ASSUME UpdateIInv, NEW i \in Installs, Download(i) PROVE UpdateIInv'
<1> USE DEF Steps, Unmarked, Unplaced, Placed
<1>1. Forward BY GoForward DEF Download
<1>2. DOMAIN body' = Installs BY DEF UpdateIInv, InstallsTyped, Download
<1>3. \A j \in Installs : j # i => body'[j] = body[j]
  BY DEF UpdateIInv, InstallsTyped, Download
<1>4. BodyVerified' BY <1>3 DEF UpdateIInv, InstallsTyped, BodyVerified, Download, Go
<1> QED BY <1>1, <1>2, <1>4, ForwardKeeps

\* Here the download is compared with what was published.
LEMMA VerifyKeeps == ASSUME UpdateIInv, NEW i \in Installs, Verify(i) PROVE UpdateIInv'
<1> USE DEF Steps, Unmarked, Unplaced, Placed
<1>1. Forward BY GoForward DEF Verify
<1>2. DOMAIN body' = Installs BY DEF UpdateIInv, InstallsTyped, Verify
<1>3. BodyVerified' BY DEF UpdateIInv, InstallsTyped, BodyVerified, Verify, Go, Accepts
<1> QED BY <1>1, <1>2, <1>3, ForwardKeeps

LEMMA CopyBinaryKeeps == ASSUME UpdateIInv, NEW i \in Installs, CopyBinary(i) PROVE UpdateIInv'
<1> USE DEF Steps, Unmarked, Unplaced, Placed
<1>1. Forward BY GoForward DEF CopyBinary
<1>2. DOMAIN body' = Installs BY DEF UpdateIInv, InstallsTyped, CopyBinary
<1>3. BodyVerified' BY DEF UpdateIInv, InstallsTyped, BodyVerified, CopyBinary, Go
<1> QED BY <1>1, <1>2, <1>3, ForwardKeeps

LEMMA WriteUnitKeeps == ASSUME UpdateIInv, NEW i \in Installs, WriteUnit(i) PROVE UpdateIInv'
<1> USE DEF Steps, Unmarked, Unplaced, Placed
<1>1. Forward BY GoForward DEF WriteUnit
<1>2. DOMAIN body' = Installs BY DEF UpdateIInv, InstallsTyped, WriteUnit
<1>3. BodyVerified' BY DEF UpdateIInv, InstallsTyped, BodyVerified, WriteUnit, Go
<1> QED BY <1>1, <1>2, <1>3, ForwardKeeps

LEMMA StepFailsKeeps == ASSUME UpdateIInv, NEW i \in Installs, StepFails(i) PROVE UpdateIInv'
<1> USE DEF Steps, Unmarked, Unplaced, Placed
<1>1. Forward BY GoForward DEF StepFails
<1>2. DOMAIN body' = Installs BY DEF UpdateIInv, InstallsTyped, StepFails
<1>3. BodyVerified' BY DEF UpdateIInv, InstallsTyped, BodyVerified, StepFails, Go
<1> QED BY <1>1, <1>2, <1>3, ForwardKeeps

\* The end of the daemon ends its installations where they are.
LEMMA KilledForward ==
    ASSUME UpdateIInv, NEW before, before \in [Installs -> Steps],
           \A i \in Installs : before[i] = step[i] \/ before[i] = "done",
           step' = Killed(before), DaemonEnds,
           UNCHANGED <<binary, marker, tag, body, history>>
    PROVE  UpdateIInv'
<1> USE DEF Steps, Unmarked, Unplaced, Placed
<1>1. step' \in [Installs -> Steps] BY DEF Killed
<1>2. \A i \in Installs : step'[i] = step[i] \/ step'[i] = "done" BY DEF Killed
<1>3. Forward BY <1>1, <1>2 DEF Forward, DaemonEnds
<1>4. DOMAIN body' = Installs BY DEF UpdateIInv, InstallsTyped
<1>5. BodyVerified' BY <1>2 DEF UpdateIInv, BodyVerified
<1> QED BY <1>3, <1>4, <1>5, ForwardKeeps

LEMMA RestartKeeps == ASSUME UpdateIInv, NEW i \in Installs, Restart(i) PROVE UpdateIInv'
<1> USE DEF Steps, Unmarked, Unplaced, Placed
<1>1. CASE DaemonEnds /\ step' = Killed([step EXCEPT ![i] = "done"])
  <2> DEFINE before == [step EXCEPT ![i] = "done"]
  <2>1. before \in [Installs -> Steps] BY DEF UpdateIInv, InstallsTyped
  <2>2. \A j \in Installs : before[j] = step[j] \/ before[j] = "done"
    BY DEF UpdateIInv, InstallsTyped
  <2>3. step' = Killed(before) BY <1>1
  <2> HIDE DEF before
  <2> QED BY <1>1, <2>1, <2>2, <2>3, KilledForward DEF Restart
<1>2. CASE Go(i, "failed") /\ UNCHANGED daemon
  <2>1. Forward BY <1>2, GoForward DEF Restart
  <2>2. DOMAIN body' = Installs BY DEF UpdateIInv, InstallsTyped, Restart
  <2>3. BodyVerified' BY <1>2 DEF UpdateIInv, InstallsTyped, BodyVerified, Restart, Go
  <2> QED BY <2>1, <2>2, <2>3, ForwardKeeps
<1> QED BY <1>1, <1>2 DEF Restart

LEMMA CrashKeeps == ASSUME UpdateIInv, Crash PROVE UpdateIInv'
<1>1. step \in [Installs -> Steps] BY DEF UpdateIInv, InstallsTyped
<1> QED BY <1>1, KilledForward DEF Crash

-----------------------------------------------------------------------------
(* The binary and the marker are written, the daemon starts and announces. *)

\* The replacement of the binary is the last entry of the history.
LEMMA RenameBinaryKeeps ==
    ASSUME UpdateIInv, NEW i \in Installs, RenameBinary(i) PROVE UpdateIInv'
<1> USE DEF Steps, Unmarked, Unplaced, Placed
<1>1. /\ history' \in Seq(Installs) /\ Len(history') = Len(history) + 1
      /\ \A n \in 1 .. Len(history) : history'[n] = history[n]
      /\ history'[Len(history) + 1] = i
      /\ Len(history) \in Nat
  BY DEF UpdateIInv, InstallsTyped, RenameBinary
<1>2. /\ step' \in [Installs -> Steps] /\ step[i] = "rename" /\ step'[i] = "unit"
      /\ \A j \in Installs : j # i => step'[j] = step[j]
  BY DEF UpdateIInv, InstallsTyped, RenameBinary, Go
<1>3. InstallsTyped'
  BY <1>1, <1>2 DEF UpdateIInv, InstallsTyped, RenameBinary, daemon, Readable
<1>4. BodyVerified' BY <1>2 DEF UpdateIInv, BodyVerified, RenameBinary
<1>5. BinarySound'
  <2>1. binary' = tag[i] BY <1>2 DEF UpdateIInv, BodyVerified, RenameBinary
  <2>2. history' # <<>> /\ history'[Len(history')] = i BY <1>1
  <2> QED BY <2>1, <2>2 DEF BinarySound, RenameBinary
<1>6. ~InHistory(i) BY <1>2 DEF UpdateIInv, HistoryTrue
<1>7. \A j : InHistory(j)' <=> InHistory(j) \/ j = i BY <1>1 DEF InHistory
<1>8. HistoryTrue'
  <2>1. \A j \in Installs : step'[j] \in Unplaced => ~InHistory(j)'
    BY <1>2, <1>7 DEF UpdateIInv, HistoryTrue
  <2>2. \A j \in Installs : step'[j] \in Placed => InHistory(j)'
    BY <1>2, <1>7 DEF UpdateIInv, HistoryTrue
  <2>3. \A n \in 1 .. Len(history) : history[n] # i BY <1>6 DEF InHistory
  <2>4. ASSUME NEW m \in 1 .. Len(history'), NEW n \in 1 .. Len(history'),
               history'[m] = history'[n]
        PROVE  m = n
    <3>1. CASE m \in 1 .. Len(history) /\ n \in 1 .. Len(history)
      BY <1>1, <2>4, <3>1 DEF UpdateIInv, HistoryTrue
    <3>2. CASE m = Len(history) + 1 \/ n = Len(history) + 1
      BY <1>1, <2>3, <2>4, <3>2
    <3> QED BY <1>1, <3>1, <3>2
  <2> QED BY <2>1, <2>2, <2>4 DEF HistoryTrue
<1>9. RunningKnown'
  BY <1>1 DEF UpdateIInv, InstallsTyped, RunningKnown, ReleaseAfter, RenameBinary, daemon
<1>10. MarkerTrue'
  <2>1. Readable' => Readable /\ marker' = marker BY DEF RenameBinary, Readable
  <2>2. Readable => marker.by # i BY <1>2 DEF UpdateIInv, MarkerTrue
  <2>3. notice' = notice /\ tag' = tag BY DEF RenameBinary, daemon
  <2>4. Readable => marker.by \in Installs BY DEF UpdateIInv, InstallsTyped, Notices
  <2>5. notice # None => step'[notice.by] \notin Unmarked
    BY <1>2 DEF UpdateIInv, InstallsTyped, Notices, MarkerTrue
  <2> QED BY <1>2, <1>7, <2>1, <2>2, <2>3, <2>4, <2>5 DEF UpdateIInv, MarkerTrue
<1>11. kept' \/ Unannounced'
  BY <1>2 DEF UpdateIInv, Unannounced, RenameBinary, daemon, Readable
<1> QED BY <1>3, <1>4, <1>5, <1>8, <1>9, <1>10, <1>11 DEF UpdateIInv

\* Both writes of the marker change nothing but it.
LEMMA MarkerWritten ==
    ASSUME UpdateIInv, NEW i \in Installs, NEW to \in {"write", "restart"}, Go(i, to),
           to = "write" => step[i] = "marker", to = "restart" => step[i] = "write",
           UNCHANGED <<daemon, binary, tag, body, history>>,
           Readable' => to = "restart" /\ marker' = [to |-> tag[i], by |-> i]
    PROVE  UpdateIInv'
<1> USE DEF Steps, Unmarked, Unplaced, Placed
<1>1. /\ step' \in [Installs -> Steps] /\ step'[i] = to
      /\ \A j \in Installs : j # i => step'[j] = step[j]
  BY DEF UpdateIInv, InstallsTyped, Go
<1>2. Readable' => marker' \in Notices BY DEF UpdateIInv, InstallsTyped, Notices
<1>3. InstallsTyped' BY <1>1, <1>2 DEF UpdateIInv, InstallsTyped, daemon
<1>4. BodyVerified' /\ BinarySound' BY <1>1 DEF UpdateIInv, BodyVerified, BinarySound
<1>5. HistoryTrue'
  <2>1. \A j \in Installs : /\ step'[j] \in Unplaced => step[j] \in Unplaced
                            /\ step'[j] \in Placed => step[j] \in Placed
    BY <1>1
  <2> QED BY <2>1, ForwardHistory DEF UpdateIInv
<1>6. RunningKnown' BY DEF UpdateIInv, RunningKnown, ReleaseAfter, daemon
<1>7. InHistory(i)' BY DEF UpdateIInv, HistoryTrue, InHistory
<1>8. MarkerTrue'
  <2>1. Readable' => /\ InHistory(marker.by)' /\ marker'.to = tag'[marker'.by]
                     /\ step'[marker'.by] \notin Unmarked
    BY <1>1, <1>7
  <2>2. notice' # None => /\ InHistory(notice.by)' /\ notice'.to = tag'[notice'.by]
                          /\ step'[notice'.by] \notin Unmarked
    BY <1>1 DEF UpdateIInv, InstallsTyped, Notices, MarkerTrue, InHistory, daemon
  <2> QED BY <2>1, <2>2 DEF MarkerTrue
<1>9. kept' \/ Unannounced'
  <2>1. CASE kept BY <2>1 DEF daemon
  <2>2. CASE ~kept
    <3>1. i \notin announced.once BY <2>2 DEF UpdateIInv, Unannounced
    <3>2. \A j \in Installs : step'[j] \in Unmarked => step[j] \in Unmarked BY <1>1
    <3>3. notice # None => notice.by # i BY DEF UpdateIInv, MarkerTrue
    <3>4. Readable' => marker'.by = i OBVIOUS
    <3> QED BY <2>2, <3>1, <3>2, <3>3, <3>4 DEF UpdateIInv, Unannounced, daemon
  <2> QED BY <2>1, <2>2
<1> QED BY <1>3, <1>4, <1>5, <1>6, <1>8, <1>9 DEF UpdateIInv

LEMMA TruncateMarkerKeeps ==
    ASSUME UpdateIInv, NEW i \in Installs, TruncateMarker(i) PROVE UpdateIInv'
<1>1. ~Readable' BY DEF TruncateMarker, Readable
<1> QED BY <1>1, MarkerWritten DEF TruncateMarker

LEMMA WriteMarkerKeeps ==
    ASSUME UpdateIInv, NEW i \in Installs, WriteMarker(i) PROVE UpdateIInv'
<1>1. Readable' => marker' = [to |-> tag[i], by |-> i] BY DEF WriteMarker, Readable
<1> QED BY <1>1, MarkerWritten DEF WriteMarker

LEMMA StartKeeps == ASSUME UpdateIInv, Start PROVE UpdateIInv'
<1>1. /\ UNCHANGED <<marker, notice, announced, kept, step, tag, body, history, binary>>
      /\ running' = binary /\ started' = Len(history) /\ greeting' = "unread"
  BY DEF Start, install
<1>2. Len(history) \in Nat /\ (history = <<>> <=> Len(history) = 0)
  BY DEF UpdateIInv, InstallsTyped
<1>3. InstallsTyped'
  <2>1. greeting' \in {"unread", "held", "removed", "done"} BY <1>1
  <2>2. started' \in 0 .. Len(history') BY <1>1, <1>2
  <2> QED BY <1>1, <2>1, <2>2 DEF UpdateIInv, InstallsTyped, Readable
<1>4. RunningKnown' BY <1>1, <1>2 DEF UpdateIInv, RunningKnown, ReleaseAfter, BinarySound
<1>5. BodyVerified' /\ BinarySound' /\ HistoryTrue'
  BY <1>1 DEF UpdateIInv, BodyVerified, BinarySound, HistoryTrue, InHistory
<1>6. MarkerTrue' BY <1>1 DEF UpdateIInv, MarkerTrue, Readable, InHistory
<1>7. kept' \/ Unannounced' BY <1>1 DEF UpdateIInv, Unannounced, Readable
<1> QED BY <1>3, <1>4, <1>5, <1>6, <1>7 DEF UpdateIInv

\* What is read has not been announced, and no marker is there if none was read.
LEMMA ReadMarkerKeeps == ASSUME UpdateIInv, ReadMarker PROVE UpdateIInv'
<1>1. UNCHANGED <<running, started, announced, kept, binary, marker, step, tag, body, history>>
  BY DEF ReadMarker, install
<1>2. /\ greeting' \in {"held", "removed"} /\ (greeting' = "removed" => ~Readable)
      /\ notice' = None \/ (Readable /\ notice' = marker)
  BY DEF ReadMarker, Readable
<1>3. InstallsTyped' BY <1>1, <1>2 DEF UpdateIInv, InstallsTyped, Readable
<1>4. BodyVerified' /\ BinarySound' /\ HistoryTrue'
  BY <1>1 DEF UpdateIInv, BodyVerified, BinarySound, HistoryTrue, InHistory
<1>5. RunningKnown' BY <1>1 DEF UpdateIInv, RunningKnown, ReleaseAfter
<1>6. MarkerTrue' BY <1>1, <1>2 DEF UpdateIInv, MarkerTrue, Readable, InHistory
<1>7. kept' \/ Unannounced' BY <1>1, <1>2 DEF UpdateIInv, Unannounced, Readable
<1> QED BY <1>3, <1>4, <1>5, <1>6, <1>7 DEF UpdateIInv

\* The marker is removed, or what remains of it is on record.
LEMMA DropMarkerKeeps == ASSUME UpdateIInv, DropMarker PROVE UpdateIInv'
<1>1. /\ UNCHANGED <<running, started, notice, announced, binary, step, tag, body, history>>
      /\ greeting = "held" /\ greeting' = "removed"
  BY DEF DropMarker, install
<1>2. \/ ~Readable' /\ kept' = kept
      \/ marker' = marker /\ kept' = TRUE
  BY DEF DropMarker, RemoveMarker, Readable
<1>3. InstallsTyped' BY <1>1, <1>2 DEF UpdateIInv, InstallsTyped, Readable
<1>4. BodyVerified' /\ BinarySound' /\ HistoryTrue'
  BY <1>1 DEF UpdateIInv, BodyVerified, BinarySound, HistoryTrue, InHistory
<1>5. RunningKnown' BY <1>1 DEF UpdateIInv, RunningKnown, ReleaseAfter
<1>6. MarkerTrue' BY <1>1, <1>2 DEF UpdateIInv, MarkerTrue, Readable, InHistory
<1>7. kept' \/ Unannounced' BY <1>1, <1>2 DEF UpdateIInv, Unannounced
<1> QED BY <1>3, <1>4, <1>5, <1>6, <1>7 DEF UpdateIInv

\* What is announced is no longer in the marker, nor will be, unless that could not be removed.
LEMMA GreetKeeps == ASSUME UpdateIInv, Greet PROVE UpdateIInv'
<1>1. /\ UNCHANGED <<running, started, notice, kept, binary, marker, step, tag, body, history>>
      /\ greeting = "removed" /\ greeting' = "done"
  BY DEF Greet, install
<1>2. CASE notice = None
  <2>1. announced' = announced BY <1>2 DEF Greet
  <2> QED
    BY <1>1, <2>1
    DEF UpdateIInv, InstallsTyped, BodyVerified, BinarySound, HistoryTrue, RunningKnown,
        ReleaseAfter, MarkerTrue, Unannounced, Readable, InHistory
<1>3. CASE notice # None
  <2>1. notice.by \in Installs BY <1>3 DEF UpdateIInv, InstallsTyped, Notices
  <2>2. \/ announced' = [announced EXCEPT !.again = @ \cup {notice.by}]
        \/ announced' = [announced EXCEPT !.once = @ \cup {notice.by}]
    BY <1>3 DEF Greet
  <2>3. announced' \in [once : SUBSET Installs, again : SUBSET Installs]
    BY <2>1, <2>2 DEF UpdateIInv, InstallsTyped
  <2>4. InstallsTyped' BY <1>1, <2>3 DEF UpdateIInv, InstallsTyped, Readable
  <2>5. BodyVerified' /\ BinarySound' /\ HistoryTrue'
    BY <1>1 DEF UpdateIInv, BodyVerified, BinarySound, HistoryTrue, InHistory
  <2>6. RunningKnown' BY <1>1 DEF UpdateIInv, RunningKnown, ReleaseAfter
  <2>7. MarkerTrue' BY <1>1 DEF UpdateIInv, MarkerTrue, Readable, InHistory
  <2>8. CASE ~kept
    <3>1. notice.by \notin announced.once BY <1>1, <1>3, <2>8 DEF UpdateIInv, Unannounced
    <3>2. /\ announced'.once = announced.once \cup {notice.by}
          /\ announced'.again = announced.again
      BY <1>3, <3>1 DEF Greet, UpdateIInv, InstallsTyped
    <3>3. step[notice.by] \notin Unmarked BY <1>3 DEF UpdateIInv, MarkerTrue
    <3>4. Readable => marker.by # notice.by
      BY <1>1, <1>3, <2>8 DEF UpdateIInv, Unannounced
    <3>5. Unannounced'
      BY <1>1, <2>8, <3>2, <3>3, <3>4 DEF UpdateIInv, Unannounced, Readable
    <3> QED BY <2>4, <2>5, <2>6, <2>7, <3>5 DEF UpdateIInv
  <2>9. CASE kept BY <1>1, <2>4, <2>5, <2>6, <2>7, <2>9 DEF UpdateIInv
  <2> QED BY <2>8, <2>9
<1> QED BY <1>2, <1>3

-----------------------------------------------------------------------------
LEMMA UpdateNextKeeps == ASSUME UpdateIInv, [UpdateNext]_updateVars PROVE UpdateIInv'
<1>1. CASE UNCHANGED updateVars
  <2>1. UNCHANGED <<running, greeting, started, notice, announced, kept, binary, marker, step,
                    tag, body, history>>
    BY <1>1 DEF updateVars, daemon, install
  <2>2. InstallsTyped' BY <2>1 DEF UpdateIInv, InstallsTyped, Readable
  <2>3. BodyVerified' /\ BinarySound' /\ HistoryTrue' /\ RunningKnown'
    BY <2>1 DEF UpdateIInv, BodyVerified, BinarySound, HistoryTrue, InHistory, RunningKnown,
       ReleaseAfter
  <2>4. MarkerTrue' /\ (kept' \/ Unannounced')
    BY <2>1 DEF UpdateIInv, MarkerTrue, Readable, InHistory, Unannounced
  <2> QED BY <2>2, <2>3, <2>4 DEF UpdateIInv
<1>2. ASSUME NEW i \in Installs,
             \/ Begin(i) \/ Download(i) \/ Verify(i) \/ CopyBinary(i) \/ RenameBinary(i)
             \/ WriteUnit(i) \/ TruncateMarker(i) \/ WriteMarker(i) \/ Restart(i) \/ StepFails(i)
      PROVE  UpdateIInv'
  BY <1>2, BeginKeeps, DownloadKeeps, VerifyKeeps, CopyBinaryKeeps, RenameBinaryKeeps,
     WriteUnitKeeps, TruncateMarkerKeeps, WriteMarkerKeeps, RestartKeeps, StepFailsKeeps
<1> QED BY <1>1, <1>2, CrashKeeps, StartKeeps, ReadMarkerKeeps, DropMarkerKeeps, GreetKeeps
   DEF UpdateNext

LEMMA UpdateInvariant == UpdateSpec => []UpdateIInv
  BY InitUpdateIInv, UpdateNextKeeps, PTL DEF UpdateSpec

\* However many installations overlap and wherever they end, the installed binary is a whole
\* release that was verified: the one the last of them asked for.
THEOREM BinaryWhole == UpdateSpec => []BinarySound
<1>1. UpdateIInv => BinarySound BY DEF UpdateIInv
<1> QED BY <1>1, UpdateInvariant, PTL

LEMMA NoticesFollow == UpdateIInv => NoticesSound
<1> SUFFICES ASSUME UpdateIInv PROVE NoticesSound OBVIOUS
<1>1. NoticeTruthful
  <2> SUFFICES ASSUME notice # None
               PROVE  \E n \in 1 .. Len(history) : /\ history[n] = notice.by
                                                   /\ n = started => notice.to = running
    BY DEF NoticeTruthful
  <2>1. PICK n \in 1 .. Len(history) : history[n] = notice.by
    BY DEF UpdateIInv, MarkerTrue, InHistory
  <2>2. n = started => running = tag[history[n]]
    BY DEF UpdateIInv, RunningKnown, ReleaseAfter
  <2>3. notice.to = tag[notice.by] BY DEF UpdateIInv, MarkerTrue
  <2> QED BY <2>1, <2>2, <2>3
<1>2. AnnouncedOnce BY DEF UpdateIInv, Unannounced, AnnouncedOnce
<1> QED BY <1>1, <1>2 DEF NoticesSound

\* What is announced was in place, and is the release that runs if the daemon was started after
\* that installation and before any later one; it is announced at most once, unless its marker
\* could not be removed.
THEOREM NoticesTrue == UpdateSpec => []NoticesSound
  BY NoticesFollow, UpdateInvariant, PTL
=============================================================================
