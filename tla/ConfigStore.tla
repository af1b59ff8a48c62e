---------------------------- MODULE ConfigStore ----------------------------
(***************************************************************************)
(* config.Config (internal/config/config.go): the host database with the   *)
(* commands that change it, the two settings of config.json that commands  *)
(* change, and writeAtomic under both.  Handlers of the chats and of the   *)
(* control socket run at once; `picoman setup` is another process that     *)
(* shares config.json and no mutex.  A save can fail at each of its steps, *)
(* the daemon can end and the machine can lose power between any two.      *)
(*                                                                         *)
(* A value stands for the command that wrote it, 0 for what was there      *)
(* before.  A target is its annotations: note, remote_work_dir and groups; *)
(* address, key and Disabled are compared by nothing here.                 *)
(***************************************************************************)
EXTENDS Integers

CONSTANTS
    Hosts,        \* names of hosts
    Fields,       \* annotations of a host: its note, its directory, each group
    Clients,      \* handlers of the daemon
    Setup,        \* the process `picoman setup`
    None,         \* no such host
    Torn,         \* the content of a file whose data had not reached the disk
    MaxCommands,  \* bound: commands
    MaxFaults     \* bound: saves that fail, ends of the daemon and of power

ASSUME ConfigAssumption ==
    /\ Setup \notin Clients
    /\ MaxCommands \in Nat /\ MaxFaults \in Nat

VARIABLES
    up,                  \* the daemon runs
    hosts,               \* Config.Targets
    level, off,          \* Config.LogLevel and Config.DisabledTransports
    audit,               \* auditState.logLevel
    file, disk,          \* each file as it is read, and as a loss of power may leave it
    clean,               \* files whose data reached the disk before their rename
    pc, job,             \* where each command is, and what it holds
    accepted, since,     \* each file's last save that was reported done, and those after it
    unsaved,             \* the last save of the host database failed
    changes,             \* how often each host was changed
    lastSaved,           \* per setting, the last value that was written for it
    raced, overwritten,  \* level commands overlapped; setup wrote config.json
    commands, faults

memory == <<up, hosts, level, off, audit>>
files == <<file, disk, clean>>
ghosts == <<accepted, since, unsaved, changes, lastSaved, raced, overwritten>>
vars == <<memory, files, pc, job, ghosts, commands, faults>>

Procs == Clients \cup {Setup}
Settings == {"level", "off"}
Values == 0 .. MaxCommands
Targets == [Fields -> Values]
NewTarget == [f \in Fields |-> 0]
Registry == [Hosts -> Targets \cup {None}]
Config == [Settings -> Values]
Files == {"hosts", "config"}
FileOf(kind) == IF kind \in {"add", "set", "remove"} THEN "hosts" ELSE "config"

NoJob == [kind |-> "none"]

Init ==
    /\ up = TRUE
    /\ hosts \in [Hosts -> {NewTarget, None}]
    /\ level = 0 /\ off = 0 /\ audit = 0
    /\ file = [f \in Files |-> IF f = "hosts" THEN hosts ELSE [s \in Settings |-> 0]]
    /\ disk = file /\ accepted = file
    /\ clean = Files
    /\ pc = [p \in Procs |-> "idle"]
    /\ job = [p \in Procs |-> NoJob]
    /\ since = [f \in Files |-> {}]
    /\ unsaved = FALSE
    /\ changes = [h \in Hosts |-> 0]
    /\ lastSaved = [s \in Settings |-> 0]
    /\ raced = FALSE /\ overwritten = FALSE
    /\ commands = 0 /\ faults = 0

-----------------------------------------------------------------------------
(* Mutexes and commands.                                                   *)

Saving(p) == pc[p] \in {"write", "ready", "renamed"}
SavingHosts(p) == Saving(p) /\ FileOf(job[p].kind) = "hosts"

\* Config.mu is held by a command on the hosts until its save has ended.
MuFree == up /\ ~\E c \in Clients : SavingHosts(c)

\* Mutant: saveConfigField reads and writes the file without its mutex.
ConfigFileMuIgnored == TRUE

\* configFileMu is held across saveConfigField, by the goroutines of one process.
ConfigFileMuFree == ~\E c \in Clients : Saving(c) /\ job[c].kind \in Settings

Active(kind) == \E c \in Clients : job[c].kind = kind

\* A command arrives and gets as far as pc = at.
Begin(p, at, j) ==
    /\ pc[p] = "idle" /\ commands < MaxCommands
    /\ commands' = commands + 1
    /\ pc' = [pc EXCEPT ![p] = at]
    /\ job' = [job EXCEPT ![p] = j]

At(p, from, to) ==
    /\ pc[p] = from
    /\ pc' = [pc EXCEPT ![p] = to]

Done(p) ==
    /\ pc' = [pc EXCEPT ![p] = "idle"]
    /\ job' = [job EXCEPT ![p] = NoJob]

-----------------------------------------------------------------------------
(* Commands on hosts.                                                      *)

Changed(h, target) ==
    /\ hosts' = [hosts EXCEPT ![h] = target]
    /\ changes' = [changes EXCEPT ![h] = @ + 1]

\* addHostFromFields, to its read of the target that it may replace.
HostAddRead(c, h) ==
    /\ MuFree
    /\ Begin(c, "add", [kind |-> "add", host |-> h, saw |-> hosts[h], seen |-> changes[h]])
    /\ UNCHANGED <<memory, files, ghosts, faults>>

\* Mutant: host add takes nothing over from the target it replaces.
TakeNothingOver(saw) == NewTarget

\* The annotations of the target that host add writes.
TakeOver(saw) == IF saw = None THEN NewTarget ELSE saw

\* UpsertTarget, to its save.
HostAddUpsert(c) ==
    LET h == job[c].host  target == TakeOver(job[c].saw) IN
    /\ MuFree
    /\ At(c, "add", "write")
    /\ Changed(h, target)
    /\ job' = [job EXCEPT ![c] = [kind |-> "add", data |-> hosts']]
    /\ UNCHANGED <<up, level, off, audit, files, accepted, since, unsaved, lastSaved, raced,
                   overwritten, commands, faults>>

\* SetHostNote, SetHostRemoteWorkDir, AddHostGroup and RemoveHostGroup, to their save: one
\* annotation of a known host gets a value or is cleared.
SetAnnotation(c, h, f) ==
    /\ MuFree
    /\ hosts[h] # None
    /\ \E v \in {0, commands + 1} : Changed(h, [hosts[h] EXCEPT ![f] = v])
    /\ Begin(c, "write", [kind |-> "set", data |-> hosts'])
    /\ UNCHANGED <<up, level, off, audit, files, accepted, since, unsaved, lastSaved, raced,
                   overwritten, faults>>

\* Mutant: a removed host is not removed from the file.
RemoveUnsaved(c, h) ==
    /\ MuFree
    /\ hosts[h] # None
    /\ Changed(h, None)
    /\ Begin(c, "idle", NoJob)
    /\ UNCHANGED <<up, level, off, audit, files, accepted, since, unsaved, lastSaved, raced,
                   overwritten, faults>>

\* RemoveTarget, to its save.
RemoveTarget(c, h) ==
    /\ MuFree
    /\ hosts[h] # None
    /\ Changed(h, None)
    /\ Begin(c, "write", [kind |-> "remove", data |-> hosts'])
    /\ UNCHANGED <<up, level, off, audit, files, accepted, since, unsaved, lastSaved, raced,
                   overwritten, faults>>

-----------------------------------------------------------------------------
(* Settings.                                                               *)

\* SetLogLevel, to saveConfigField: memory changes first.
SetLogLevel(c) ==
    /\ MuFree
    /\ Begin(c, "file", [kind |-> "level", value |-> commands + 1, old |-> level])
    /\ level' = commands + 1
    /\ raced' = (raced \/ Active("level"))
    /\ UNCHANGED <<up, hosts, off, audit, files, accepted, since, unsaved, changes, lastSaved,
                   overwritten, faults>>

\* cmdTransports under toggleMu, to saveConfigField: memory changes last.
SetDisabledTransports(c) ==
    /\ MuFree /\ ~Active("off")
    /\ Begin(c, "file", [kind |-> "off", value |-> commands + 1, old |-> off])
    /\ UNCHANGED <<memory, files, ghosts, faults>>

\* saveConfigField reads the file again and changes one setting in it.
ReadConfig(c) ==
    LET j == job[c] IN
    /\ ConfigFileMuFree
    /\ At(c, "file", "write")
    /\ job' = [job EXCEPT ![c] =
                  [kind |-> j.kind, value |-> j.value, old |-> j.old,
                   data |-> [file["config"] EXCEPT ![j.kind] = j.value]]]
    /\ UNCHANGED <<memory, files, ghosts, commands, faults>>

\* Mutant: the level stays when it could not be saved.
UndoNothing(c) ==
    /\ pc[c] = "undo" /\ MuFree
    /\ Done(c)
    /\ UNCHANGED <<memory, files, ghosts, commands, faults>>

\* SetLogLevel puts the old level back when the save failed.
Undo(c) ==
    /\ pc[c] = "undo" /\ MuFree
    /\ level' = job[c].old
    /\ Done(c)
    /\ UNCHANGED <<up, hosts, off, audit, files, ghosts, commands, faults>>

\* setLogLevel tells the audit state once the level is saved.
SetAuditLevel(c) ==
    /\ pc[c] = "audit"
    /\ audit' = job[c].value
    /\ Done(c)
    /\ UNCHANGED <<up, hosts, level, off, files, ghosts, commands, faults>>

\* SetDisabledTransports changes memory once the set is saved.
ApplyDisabled(c) ==
    /\ pc[c] = "apply" /\ MuFree
    /\ off' = job[c].value
    /\ Done(c)
    /\ UNCHANGED <<up, hosts, level, audit, files, ghosts, commands, faults>>

\* runSetup loads config.json, asks its questions and saves all of it, with another level.
RunSetup ==
    /\ Begin(Setup, "write",
             [kind |-> "setup",
              data |-> [file["config"] EXCEPT !["level"] = commands + 1]])
    /\ UNCHANGED <<memory, files, ghosts, faults>>

-----------------------------------------------------------------------------
(* writeAtomic.                                                            *)

\* Create, write, sync and close the temporary file, and set its mode.
WriteTemp(p) ==
    /\ At(p, "write", "ready")
    /\ UNCHANGED <<memory, files, job, ghosts, commands, faults>>

\* Mutant: the temporary file is not synced before it replaces the file.
RenameUnsynced(p) ==
    LET f == FileOf(job[p].kind) IN
    /\ At(p, "ready", "renamed")
    /\ file' = [file EXCEPT ![f] = job[p].data]
    /\ clean' = clean \ {f}
    /\ since' = [since EXCEPT ![f] = @ \cup {job[p].data}]
    /\ unsaved' = (unsaved /\ f # "hosts")
    /\ lastSaved' = IF job[p].kind \in Settings
                    THEN [lastSaved EXCEPT ![job[p].kind] = job[p].value] ELSE lastSaved
    /\ overwritten' = (overwritten \/ p = Setup)
    /\ UNCHANGED <<memory, disk, job, accepted, changes, raced, commands, faults>>

\* Rename the temporary file over the file.
Rename(p) ==
    LET f == FileOf(job[p].kind) IN
    /\ At(p, "ready", "renamed")
    /\ file' = [file EXCEPT ![f] = job[p].data]
    /\ clean' = clean \cup {f}
    /\ since' = [since EXCEPT ![f] = @ \cup {job[p].data}]
    /\ unsaved' = (unsaved /\ f # "hosts")
    /\ lastSaved' = IF job[p].kind \in Settings
                    THEN [lastSaved EXCEPT ![job[p].kind] = job[p].value] ELSE lastSaved
    /\ overwritten' = (overwritten \/ p = Setup)
    /\ UNCHANGED <<memory, disk, job, accepted, changes, raced, commands, faults>>

\* What is left to do after a save, by its kind.
Continue(p, level_, off_) ==
    CASE job[p].kind = "level" -> At(p, pc[p], level_) /\ UNCHANGED job
      [] job[p].kind = "off" /\ off_ # "idle" -> At(p, pc[p], off_) /\ UNCHANGED job
      [] OTHER -> Done(p)

\* Mutant: the directory is not synced.
ReturnUnsynced(p) ==
    LET f == FileOf(job[p].kind) IN
    /\ pc[p] = "renamed"
    /\ Continue(p, "audit", "apply")
    /\ accepted' = [accepted EXCEPT ![f] = file[f]]
    /\ since' = [since EXCEPT ![f] = {}]
    /\ UNCHANGED <<memory, files, unsaved, changes, lastSaved, raced, overwritten, commands,
                   faults>>

\* fsyncDir; the save returns without an error.
SyncDir(p) ==
    LET f == FileOf(job[p].kind) IN
    /\ pc[p] = "renamed"
    /\ Continue(p, "audit", "apply")
    /\ disk' = [disk EXCEPT ![f] = file[f]]
    /\ accepted' = [accepted EXCEPT ![f] = file[f]]
    /\ since' = [since EXCEPT ![f] = {}]
    /\ UNCHANGED <<memory, file, clean, unsaved, changes, lastSaved, raced, overwritten,
                   commands, faults>>

\* A step of the save fails: the temporary file is removed, or fsyncDir fails after the
\* rename, whose new content stays.
SaveFails(p) ==
    /\ Saving(p) /\ faults < MaxFaults
    /\ faults' = faults + 1
    /\ Continue(p, "undo", "idle")
    /\ unsaved' = (unsaved \/ (SavingHosts(p) /\ pc[p] # "renamed"))
    /\ raced' = (raced \/ (job[p].kind = "level" /\ pc[p] = "renamed"))
    /\ UNCHANGED <<memory, files, accepted, since, changes, lastSaved, overwritten, commands>>

-----------------------------------------------------------------------------
(* Ends and starts.                                                        *)

\* The processes in the set end between two of their steps.
End(procs) ==
    /\ faults < MaxFaults
    /\ faults' = faults + 1
    /\ up' = FALSE
    /\ pc' = [p \in Procs |-> IF p \in procs THEN "idle" ELSE pc[p]]
    /\ job' = [p \in Procs |-> IF p \in procs THEN NoJob ELSE job[p]]
    /\ UNCHANGED <<hosts, level, off, audit, accepted, since, unsaved, changes, raced,
                   overwritten, commands>>

\* The daemon is killed or stopped.
Crash == up /\ End(Clients) /\ UNCHANGED <<files, lastSaved>>

\* The machine loses power: a rename may be undone, and data that was not synced is lost.
PowerLoss ==
    /\ End(Procs)
    /\ file' \in {g \in [Files -> UNION {{disk[f], file[f], Torn} : f \in Files}] :
                    \A f \in Files : g[f] = disk[f] \/ g[f] = IF f \in clean THEN file[f] ELSE Torn}
    /\ disk' = file' /\ clean' = Files
    /\ lastSaved' = file'["config"]

\* The daemon starts: Load and LoadHostDB, newAuditState.
Restart ==
    /\ ~up /\ \A f \in Files : file[f] # Torn
    /\ up' = TRUE
    /\ hosts' = file["hosts"]
    /\ level' = file["config"]["level"] /\ audit' = level'
    /\ off' = file["config"]["off"]
    /\ unsaved' = FALSE /\ raced' = FALSE /\ overwritten' = FALSE
    /\ lastSaved' = file["config"]
    /\ UNCHANGED <<files, pc, job, accepted, since, changes, commands, faults>>

-----------------------------------------------------------------------------

Next ==
    \/ \E c \in Clients, h \in Hosts :
          \/ HostAddRead(c, h)
          \/ RemoveTarget(c, h)
          \/ \E f \in Fields : SetAnnotation(c, h, f)
    \/ \E c \in Clients :
          \/ HostAddUpsert(c)
          \/ SetLogLevel(c)
          \/ SetDisabledTransports(c)
          \/ ReadConfig(c)
          \/ Undo(c)
          \/ SetAuditLevel(c)
          \/ ApplyDisabled(c)
    \/ \E p \in Procs : WriteTemp(p) \/ Rename(p) \/ SyncDir(p) \/ SaveFails(p)
    \/ RunSetup
    \/ Crash
    \/ PowerLoss
    \/ Restart

Spec == Init /\ [][Next]_vars

-----------------------------------------------------------------------------
(* Properties.                                                             *)

\* "Never observed half-written and survive a power loss" (config.go:363-364): each file, as it
\* is read and as a loss of power leaves it, is the last save that was reported done or a
\* later one, whole.
SavedSurvives ==
    \A f \in Files : {file[f], disk[f]} \subseteq {accepted[f]} \cup since[f]

\* Memory and host database differ between commands only after a save that failed.
MemoryAheadExplained == MuFree /\ hosts # file["hosts"] => unsaved

\* A host add changes the annotations of a host it replaces only when another command has
\* changed the host since it was read (addHostFromFields, daemon.go:1591).
OnlyStaleAddOverwrites ==
    [][\A c \in Clients :
          pc[c] = "add" /\ pc'[c] = "write" =>
             LET h == job[c].host IN
             hosts[h] \in {None, hosts'[h]} \/ changes[h] > job[c].seen]_vars

\* Between level commands, memory, config.json and the audit state agree on the level,
\* unless commands overlapped, setup wrote the file, or a save failed after its rename.
LevelSettled ==
    up /\ ~Active("level") /\ ~raced /\ ~overwritten =>
        level = audit /\ level = file["config"]["level"]

\* A save of one setting never takes back another one (saveConfigField), unless setup wrote
\* the file.
OtherSettingKept ==
    ~overwritten => \A s \in Settings : file["config"][s] = lastSaved[s]

\* The settings that commands change, in memory, in config.json and in the audit state.
SettingsAgree == LevelSettled /\ OtherSettingKept
=============================================================================
