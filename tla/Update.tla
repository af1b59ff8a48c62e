------------------------------- MODULE Update -------------------------------
(***************************************************************************)
(* Updates of picoman (update.go, install.go, service.go): installations   *)
(* by chat commands, which end with the daemon, and from a terminal, which *)
(* do not, replace the binary, leave a restart marker and restart the      *)
(* service; the daemon that starts reads the marker and announces.         *)
(* Processes may end anywhere; a loss of power, against which copyFile     *)
(* does nothing (it does not sync), is left out.                           *)
(***************************************************************************)
EXTENDS Naturals, Sequences

CONSTANTS
    Chat, Terminal,  \* installations by a chat command and by `picoman update`
    Releases, First, \* tags, and the one that runs at first
    None,
    Torn,            \* content that was cut off
    MaxFaults        \* bound: failed steps, bad downloads, ends of processes

ASSUME UpdateAssumption == Chat \cap Terminal = {} /\ First \in Releases /\ MaxFaults \in Nat

Installs == Chat \cup Terminal

VARIABLES
    up, running,    \* the daemon runs, and the release it was started from
    greeting,       \* how far the daemon is: the marker is unread, held, removed; done
    binary, marker, \* the installed binary and restart.json
    step, tag,        \* each installation: where it is and what it installs
    body,           \* what it has downloaded
    history,        \* the installations that replaced the binary, in that order
    started,        \* how many of them the daemon started after
    notice,         \* the marker the daemon read last, which it announces
    announced,      \* installations that were announced, and those announced again
    kept,           \* a marker could not be removed
    faults

daemon == <<up, running, greeting, started, notice, announced, kept>>
install == <<step, tag, body>>
updateVars == <<daemon, binary, marker, install, history, faults>>

UpdateInit ==
    /\ up = TRUE /\ running = First /\ greeting = "done"
    /\ binary = First /\ marker = None
    /\ step = [i \in Installs |-> "idle"]
    /\ tag \in [Installs -> Releases]
    /\ body = [i \in Installs |-> None]
    /\ history = <<>> /\ started = 0
    /\ notice = None /\ announced = [once |-> {}, again |-> {}] /\ kept = FALSE
    /\ faults = 0

Fault == faults < MaxFaults /\ faults' = faults + 1

Go(i, to) == step' = [step EXCEPT ![i] = to]

-----------------------------------------------------------------------------
(* installRelease.                                                         *)

\* handleInstallVersionMessage in the daemon, or runUpdate in a process of its own.  A start
\* message is queued and flushed first (Outbox.InstallFlush).
Begin(i) ==
    /\ step[i] = "idle" /\ (i \in Chat => up)
    /\ Go(i, "download")
    /\ UNCHANGED <<daemon, binary, marker, tag, body, history, faults>>

\* fetchReleaseSHA256 and the download into a temporary file; the server may send anything.
Download(i) ==
    /\ step[i] = "download"
    /\ \/ body' = [body EXCEPT ![i] = tag[i]] /\ UNCHANGED faults
       \/ Fault /\ body' = [body EXCEPT ![i] = Torn]
    /\ Go(i, "verify")
    /\ UNCHANGED <<daemon, binary, marker, tag, history>>

\* Mutant: the checksum is not compared.
AcceptsAny(i) == TRUE

\* The checksum of what was downloaded is the published one.
Accepts(i) == body[i] = tag[i]

\* A mismatch ends the installation.
Verify(i) ==
    /\ step[i] = "verify"
    /\ Go(i, IF Accepts(i) THEN "copy" ELSE "failed")
    /\ UNCHANGED <<daemon, binary, marker, tag, body, history, faults>>

\* Mutant: the installed binary is written in place.
CopyInPlace(i) ==
    /\ step[i] = "copy"
    /\ binary' = Torn
    /\ Go(i, "rename")
    /\ UNCHANGED <<daemon, marker, tag, body, history, faults>>

\* copyFile, up to the rename of the temporary file, in `<downloaded binary> install`.
CopyBinary(i) ==
    /\ step[i] = "copy"
    /\ Go(i, "rename")
    /\ UNCHANGED <<daemon, binary, marker, tag, body, history, faults>>

\* copyFile renames; the process ends without an error once the unit is written, too.
RenameBinary(i) ==
    /\ step[i] = "rename"
    /\ binary' = body[i]
    /\ history' = Append(history, i)
    /\ Go(i, "unit")
    /\ UNCHANGED <<daemon, marker, tag, body, faults>>

\* runInstall writes the unit file.
WriteUnit(i) ==
    /\ step[i] = "unit"
    /\ Go(i, "marker")
    /\ UNCHANGED <<daemon, binary, marker, tag, body, history, faults>>

\* os.WriteFile first truncates restart.json.
TruncateMarker(i) ==
    /\ step[i] = "marker"
    /\ marker' = Torn
    /\ Go(i, "write")
    /\ UNCHANGED <<daemon, binary, tag, body, history, faults>>

\* Then it writes; over a longer marker that another one wrote meanwhile, a tail stays.
WriteMarker(i) ==
    /\ step[i] = "write"
    /\ marker' \in {[to |-> tag[i], by |-> i]} \cup IF marker \in {None, Torn} THEN {} ELSE {Torn}
    /\ Go(i, "restart")
    /\ UNCHANGED <<daemon, binary, tag, body, history, faults>>

\* The daemon ends, and its installations with it.
DaemonEnds ==
    /\ up' = FALSE
    /\ UNCHANGED <<running, greeting, started, notice, announced, kept>>

Killed(p) == [i \in Installs |-> IF i \in Chat /\ p[i] # "idle" THEN "done" ELSE p[i]]

\* restartService: restart; or reset-failed and start, which starts a daemon that is down.
Restart(i) ==
    /\ step[i] = "restart"
    /\ \/ DaemonEnds /\ step' = Killed([step EXCEPT ![i] = "done"]) /\ UNCHANGED faults
       \/ Fault /\ Go(i, "failed") /\ UNCHANGED daemon
    /\ UNCHANGED <<binary, marker, tag, body, history>>

\* Mutant: the exit status of `install` is ignored.
StepFailsUnnoticed(i) ==
    /\ step[i] \in {"download", "verify", "copy", "rename", "unit", "marker", "write"}
    /\ Fault
    /\ Go(i, IF step[i] \in {"copy", "rename", "unit"} THEN "marker" ELSE "failed")
    /\ UNCHANGED <<daemon, binary, marker, tag, body, history>>

\* A step of an installation returns an error, which ends it.
StepFails(i) ==
    /\ step[i] \in {"download", "verify", "copy", "rename", "unit", "marker", "write"}
    /\ Fault
    /\ Go(i, "failed")
    /\ UNCHANGED <<daemon, binary, marker, tag, body, history>>

-----------------------------------------------------------------------------
(* The daemon.                                                             *)

Crash ==
    /\ up /\ Fault
    /\ DaemonEnds
    /\ step' = Killed(step)
    /\ UNCHANGED <<binary, marker, tag, body, history>>

\* systemd starts the binary.
Start ==
    /\ ~up
    /\ up' = TRUE /\ running' = binary /\ greeting' = "unread"
    /\ started' = Len(history)
    /\ UNCHANGED <<notice, announced, kept, binary, marker, install, history, faults>>

\* Mutant: the marker is read and stays.
KeepMarker == marker' = marker /\ UNCHANGED <<kept, faults>>

\* os.Remove; an error of it is ignored.
RemoveMarker ==
    \/ marker' = None /\ UNCHANGED <<kept, faults>>
    \/ marker' = marker /\ marker # None /\ Fault /\ kept' = TRUE

\* readRestartMarker; a marker that cannot be parsed is none,
ReadMarker ==
    /\ up /\ greeting = "unread"
    /\ greeting' = IF marker = None THEN "removed" ELSE "held"
    /\ notice' = IF marker = Torn THEN None ELSE marker
    /\ UNCHANGED <<up, running, started, announced, kept, binary, marker, install, history, faults>>

\* and is removed like any other, which may have replaced the one that was read.
DropMarker ==
    /\ up /\ greeting = "held"
    /\ greeting' = "removed"
    /\ RemoveMarker
    /\ UNCHANGED <<up, running, started, notice, announced, binary, install, history>>

\* runDaemon queues the announcement of an update, or that it has started if there was no marker.
Greet ==
    /\ up /\ greeting = "removed"
    /\ greeting' = "done"
    /\ announced' = CASE notice = None -> announced
                      [] notice # None /\ notice.by \in announced.once ->
                            [announced EXCEPT !.again = @ \cup {notice.by}]
                      [] OTHER -> [announced EXCEPT !.once = @ \cup {notice.by}]
    /\ UNCHANGED <<up, running, started, notice, kept, binary, marker, install, history, faults>>

-----------------------------------------------------------------------------

UpdateNext ==
    \/ \E i \in Installs :
          \/ Begin(i) \/ Download(i) \/ Verify(i) \/ CopyBinary(i) \/ RenameBinary(i)
          \/ WriteUnit(i) \/ TruncateMarker(i) \/ WriteMarker(i) \/ Restart(i) \/ StepFails(i)
    \/ Crash
    \/ Start
    \/ ReadMarker \/ DropMarker \/ Greet

UpdateSpec == UpdateInit /\ [][UpdateNext]_updateVars

-----------------------------------------------------------------------------
(* Properties.                                                             *)

\* The installed binary is at every moment a whole release whose checksum was verified, namely
\* the one that the last installation asked for, however many run at once and wherever their
\* processes end (downloadRelease, copyFile).
BinarySound ==
    binary = IF history = <<>> THEN First ELSE tag[history[Len(history)]]

\* An update is announced after its binary was in place, and names the release that runs,
\* unless the daemon was started before that, or after a later installation (installBinary).
NoticeTruthful ==
    greeting = "done" /\ notice # None =>
        \E n \in 1 .. Len(history) :
            /\ history[n] = notice.by
            /\ n = started => notice.to = running

\* An installation is announced at most once, unless its marker could not be removed; not at all
\* if the daemon ends after it has removed the marker, or removes a later one than it has read.
AnnouncedOnce == announced.again = {} \/ kept

\* What the daemon announces when it starts (readRestartMarker, updateLifecycleText).
NoticesSound == NoticeTruthful /\ AnnouncedOnce
=============================================================================
