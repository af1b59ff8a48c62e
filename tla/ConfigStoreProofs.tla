-------------------------- MODULE ConfigStoreProofs --------------------------
(***************************************************************************)
(* Proofs about ConfigStore, for any hosts, annotations, handlers, commands *)
(* and faults.                                                             *)
(***************************************************************************)
EXTENDS ConfigStore, TLAPS

IsMap(f, S) == f = [x \in S |-> f[x]]

\* The part of the types that the proofs need; and no file is renamed before its data has
\* reached the disk.
Shape ==
    /\ pc \in [Procs -> {"idle", "add", "file", "write", "ready", "renamed", "undo", "audit",
                         "apply"}]
    /\ changes \in [Hosts -> Nat]
    /\ IsMap(job, Procs) /\ IsMap(hosts, Hosts)
    /\ IsMap(file, Files) /\ IsMap(disk, Files)
    /\ IsMap(accepted, Files) /\ IsMap(since, Files)
    /\ IsMap(file["config"], Settings) /\ IsMap(disk["config"], Settings)
    /\ IsMap(file["hosts"], Hosts) /\ IsMap(disk["hosts"], Hosts)
    /\ IsMap(lastSaved, Settings)
    /\ clean = Files

\* What a process does tells its command.
JobFits(p) ==
    /\ p = Setup => /\ pc[p] \in {"idle", "write", "ready", "renamed"}
                    /\ job[p].kind \in {"none", "setup"}
    /\ p # Setup => job[p].kind \in {"none", "add", "set", "remove", "level", "off"}
    /\ ~up /\ p # Setup => pc[p] = "idle"
    /\ pc[p] = "idle" <=> job[p].kind = "none"
    /\ pc[p] = "add" => job[p].kind = "add" /\ job[p].host \in Hosts
    /\ pc[p] = "file" => job[p].kind \in Settings
    /\ pc[p] \in {"undo", "audit"} => job[p].kind = "level"
    /\ pc[p] = "apply" => job[p].kind = "off"
    /\ Saving(p) /\ job[p].kind \in {"level", "off", "setup"} => IsMap(job[p].data, Settings)

\* host add: the host has changed since it was read, or it is still what was read.
AddKnows(p) ==
    pc[p] = "add" =>
        /\ job[p].seen \in Nat /\ job[p].seen <= changes[job[p].host]
        /\ job[p].seen = changes[job[p].host] => job[p].saw = hosts[job[p].host]

\* Config.mu: one command at a time changes and saves the hosts.
HostsHeld ==
    /\ \A c, d \in Clients : SavingHosts(c) /\ SavingHosts(d) => c = d
    /\ \A c \in Clients : SavingHosts(c) =>
          hosts = IF pc[c] = "renamed" THEN file["hosts"] ELSE job[c].data
    /\ MuFree => hosts = file["hosts"] \/ unsaved

\* configFileMu: one command at a time reads and writes config.json.
ConfigHeld ==
    /\ \A c, d \in Clients :
          Saving(c) /\ Saving(d) /\ job[c].kind \in Settings /\ job[d].kind \in Settings => c = d
    /\ ~overwritten => file["config"] = lastSaved
    /\ \A c \in Clients :
          ~overwritten /\ pc[c] \in {"write", "ready"} /\ job[c].kind \in Settings =>
              job[c].data = [file["config"] EXCEPT ![job[c].kind] = job[c].value]

\* A level command that no other one overlaps: what it has changed, and what it has not yet.
LevelHeld ==
    ~raced =>
        /\ \A c, d \in Clients : job[c].kind = "level" /\ job[d].kind = "level" => c = d
        /\ \A c \in Clients : ~overwritten /\ up /\ job[c].kind = "level" =>
              /\ level = job[c].value
              /\ pc[c] \in {"file", "write", "ready", "undo"} =>
                    job[c].old = audit /\ job[c].old = file["config"]["level"]
              /\ pc[c] \in {"renamed", "audit"} => job[c].value = file["config"]["level"]
        /\ LevelSettled

IInv ==
    /\ Shape
    /\ \A p \in Procs : JobFits(p) /\ AddKnows(p)
    /\ HostsHeld
    /\ ConfigHeld
    /\ LevelHeld
    /\ SavedSurvives

-----------------------------------------------------------------------------

\* A process moves on, with another job or with the same.
Moved(p, to, j) ==
    /\ pc' \in [Procs -> {"idle", "add", "file", "write", "ready", "renamed", "undo", "audit",
                          "apply"}]
    /\ IsMap(job', Procs)
    /\ pc'[p] = to /\ job'[p] = j
    /\ \A q \in Procs \ {p} : pc'[q] = pc[q] /\ job'[q] = job[q]

\* A step that moves one process.
LEMMA Moves ==
    ASSUME Shape, NEW p \in Procs, NEW j,
           NEW to \in {"idle", "add", "file", "write", "ready", "renamed", "undo", "audit",
                       "apply"},
           pc' = [pc EXCEPT ![p] = to],
           job' = [job EXCEPT ![p] = j] \/ (UNCHANGED job /\ j = job[p])
    PROVE  Moved(p, to, j)
BY DEF Moved, Shape, IsMap

\* What EXCEPT does to a map.
LEMMA MapExcept ==
    ASSUME NEW S, NEW f, IsMap(f, S), NEW x, NEW v
    PROVE  /\ IsMap([f EXCEPT ![x] = v], S)
           /\ \A y \in S : [f EXCEPT ![x] = v][y] = IF y = x THEN v ELSE f[y]
BY DEF IsMap

\* The other processes stay where they are.
LEMMA OtherFits ==
    ASSUME NEW p \in Procs, NEW q \in Procs \ {p}, NEW to, NEW j, Moved(p, to, j),
           up' = up, JobFits(q)
    PROVE  JobFits(q)'
BY DEF JobFits, Saving, Moved

-----------------------------------------------------------------------------
(* Commands on hosts.                                                      *)

LEMMA HostAddReadIInv ==
    ASSUME IInv, NEW c \in Clients, NEW h \in Hosts, HostAddRead(c, h)
    PROVE  IInv'
<1> USE ConfigAssumption DEF IInv, memory, files, ghosts
<1>0. c \in Procs
    BY DEF Procs
<1>1. /\ MuFree /\ pc[c] = "idle" /\ UNCHANGED <<memory, files, ghosts>>
      /\ Moved(c, "add", [kind |-> "add", host |-> h, saw |-> hosts[h], seen |-> changes[h]])
    BY <1>0, Moves DEF HostAddRead, Begin, IsMap, Shape, JobFits, Saving
<1>2. Shape'
    BY <1>0, <1>1 DEF Shape, Moved
<1>3. \A q \in Procs : JobFits(q)'
    <2>1. JobFits(c)'
        BY <1>0, <1>1 DEF JobFits, Saving, NoJob, Settings, Shape, MuFree, Moved
    <2> QED
        BY <2>1, <1>0, <1>1, OtherFits
<1>4. \A q \in Procs : AddKnows(q)'
    BY <1>0, <1>1 DEF AddKnows, JobFits, Shape, Moved
<1>5. HostsHeld'
    BY <1>0, <1>1 DEF HostsHeld, SavingHosts, Saving, FileOf, MuFree, JobFits, Procs, NoJob, Moved
<1>6. ConfigHeld'
    <2>1. "add" \notin Settings /\ c \in Procs
        BY DEF Settings, Procs
    <2>2. \A d \in Clients : job'[d].kind \in Settings =>
              d # c /\ pc'[d] = pc[d] /\ job'[d] = job[d]
        BY <1>1, <2>1 DEF Moved, Procs
    <2>3. \A d \in Clients : Saving(d)' /\ job'[d].kind \in Settings =>
              Saving(d) /\ job[d].kind \in Settings
        BY <2>2 DEF Saving
    <2> QED
        BY <1>0, <1>1, <2>2, <2>3 DEF ConfigHeld
<1>7. LevelHeld'
    BY <1>0, <1>1 DEF LevelHeld, LevelSettled, Active, JobFits, Procs, NoJob, Moved
<1>8. SavedSurvives'
    BY <1>0, <1>1 DEF SavedSurvives, Moved
<1> QED
    BY <1>2, <1>3, <1>4, <1>5, <1>6, <1>7, <1>8

LEMMA HostAddUpsertIInv ==
    ASSUME IInv, NEW c \in Clients, HostAddUpsert(c)
    PROVE  IInv'
<1> USE ConfigAssumption DEF IInv, memory, files, ghosts
<1>0. c \in Procs
    BY DEF Procs
<1>1. /\ MuFree /\ pc[c] = "add" /\ IsMap(hosts', Hosts)
      /\ Moved(c, "write", [kind |-> "add", data |-> hosts'])
      /\ changes' = [changes EXCEPT ![job[c].host] = @ + 1]
      /\ \A g \in Hosts \ {job[c].host} : hosts'[g] = hosts[g]
      /\ UNCHANGED <<up, level, off, audit, files, accepted, since, unsaved, lastSaved, raced,
                     overwritten>>
    BY <1>0, Moves DEF HostAddUpsert, At, Changed, IsMap, Shape, JobFits, Saving
<1>2. Shape'
    <2>1. job[c].host \in Hosts
        BY <1>0, <1>1 DEF JobFits
    <2>2. changes' \in [Hosts -> Nat]
        BY <1>1, <2>1 DEF Shape
    <2> QED
        BY <1>1, <2>2 DEF Shape, Moved
<1>3. \A q \in Procs : JobFits(q)'
    <2>1. JobFits(c)'
        BY <1>0, <1>1 DEF JobFits, Saving, NoJob, Settings, Shape, MuFree, Moved
    <2> QED
        BY <2>1, <1>0, <1>1, OtherFits
<1>4. \A q \in Procs : AddKnows(q)'
    BY <1>0, <1>1 DEF AddKnows, JobFits, Shape, Moved
<1>5. HostsHeld'
    BY <1>0, <1>1 DEF HostsHeld, SavingHosts, Saving, FileOf, MuFree, JobFits, Procs, NoJob, Moved
<1>6. ConfigHeld'
    <2>1. "add" \notin Settings /\ c \in Procs
        BY DEF Settings, Procs
    <2>2. \A d \in Clients : job'[d].kind \in Settings =>
              d # c /\ pc'[d] = pc[d] /\ job'[d] = job[d]
        BY <1>1, <2>1 DEF Moved, Procs
    <2>3. \A d \in Clients : Saving(d)' /\ job'[d].kind \in Settings =>
              Saving(d) /\ job[d].kind \in Settings
        BY <2>2 DEF Saving
    <2> QED
        BY <1>0, <1>1, <2>2, <2>3 DEF ConfigHeld
<1>7. LevelHeld'
    BY <1>0, <1>1 DEF LevelHeld, LevelSettled, Active, JobFits, Procs, NoJob, Moved
<1>8. SavedSurvives'
    BY <1>0, <1>1 DEF SavedSurvives, Moved
<1> QED
    BY <1>2, <1>3, <1>4, <1>5, <1>6, <1>7, <1>8

LEMMA SetAnnotationIInv ==
    ASSUME IInv, NEW c \in Clients, NEW h \in Hosts, NEW f \in Fields, SetAnnotation(c, h, f)
    PROVE  IInv'
<1> USE ConfigAssumption DEF IInv, memory, files, ghosts
<1>0. c \in Procs
    BY DEF Procs
<1>1. /\ MuFree /\ pc[c] = "idle" /\ IsMap(hosts', Hosts)
      /\ Moved(c, "write", [kind |-> "set", data |-> hosts'])
      /\ changes' = [changes EXCEPT ![h] = @ + 1]
      /\ \A g \in Hosts \ {h} : hosts'[g] = hosts[g]
      /\ UNCHANGED <<up, level, off, audit, files, accepted, since, unsaved, lastSaved, raced,
                     overwritten>>
    BY <1>0, Moves DEF SetAnnotation, Begin, Changed, IsMap, Shape, JobFits, Saving
<1>2. Shape'
    BY <1>0, <1>1 DEF Shape, Moved
<1>3. \A q \in Procs : JobFits(q)'
    <2>1. JobFits(c)'
        BY <1>0, <1>1 DEF JobFits, Saving, NoJob, Settings, Shape, MuFree, Moved
    <2> QED
        BY <2>1, <1>0, <1>1, OtherFits
<1>4. \A q \in Procs : AddKnows(q)'
    BY <1>0, <1>1 DEF AddKnows, JobFits, Shape, Moved
<1>5. HostsHeld'
    BY <1>0, <1>1 DEF HostsHeld, SavingHosts, Saving, FileOf, MuFree, JobFits, Procs, NoJob, Moved
<1>6. ConfigHeld'
    BY <1>0, <1>1 DEF ConfigHeld, Saving, JobFits, Procs, Settings, NoJob, Moved
<1>7. LevelHeld'
    BY <1>0, <1>1 DEF LevelHeld, LevelSettled, Active, JobFits, Procs, NoJob, Moved
<1>8. SavedSurvives'
    BY <1>0, <1>1 DEF SavedSurvives, Moved
<1> QED
    BY <1>2, <1>3, <1>4, <1>5, <1>6, <1>7, <1>8

LEMMA RemoveTargetIInv ==
    ASSUME IInv, NEW c \in Clients, NEW h \in Hosts, RemoveTarget(c, h)
    PROVE  IInv'
<1> USE ConfigAssumption DEF IInv, memory, files, ghosts
<1>0. c \in Procs
    BY DEF Procs
<1>1. /\ MuFree /\ pc[c] = "idle" /\ IsMap(hosts', Hosts)
      /\ Moved(c, "write", [kind |-> "remove", data |-> hosts'])
      /\ changes' = [changes EXCEPT ![h] = @ + 1]
      /\ \A g \in Hosts \ {h} : hosts'[g] = hosts[g]
      /\ UNCHANGED <<up, level, off, audit, files, accepted, since, unsaved, lastSaved, raced,
                     overwritten>>
    BY <1>0, Moves DEF RemoveTarget, Begin, Changed, IsMap, Shape, JobFits, Saving
<1>2. Shape'
    BY <1>0, <1>1 DEF Shape, Moved
<1>3. \A q \in Procs : JobFits(q)'
    <2>1. JobFits(c)'
        BY <1>0, <1>1 DEF JobFits, Saving, NoJob, Settings, Shape, MuFree, Moved
    <2> QED
        BY <2>1, <1>0, <1>1, OtherFits
<1>4. \A q \in Procs : AddKnows(q)'
    BY <1>0, <1>1 DEF AddKnows, JobFits, Shape, Moved
<1>5. HostsHeld'
    BY <1>0, <1>1 DEF HostsHeld, SavingHosts, Saving, FileOf, MuFree, JobFits, Procs, NoJob, Moved
<1>6. ConfigHeld'
    BY <1>0, <1>1 DEF ConfigHeld, Saving, JobFits, Procs, Settings, NoJob, Moved
<1>7. LevelHeld'
    BY <1>0, <1>1 DEF LevelHeld, LevelSettled, Active, JobFits, Procs, NoJob, Moved
<1>8. SavedSurvives'
    BY <1>0, <1>1 DEF SavedSurvives, Moved
<1> QED
    BY <1>2, <1>3, <1>4, <1>5, <1>6, <1>7, <1>8

-----------------------------------------------------------------------------
(* Settings.                                                               *)

LEMMA SetLogLevelIInv ==
    ASSUME IInv, NEW c \in Clients, SetLogLevel(c)
    PROVE  IInv'
<1> USE ConfigAssumption DEF IInv, memory, files, ghosts
<1>0. c \in Procs
    BY DEF Procs
<1>1. /\ MuFree /\ pc[c] = "idle" /\ level' = commands + 1
      /\ Moved(c, "file", [kind |-> "level", value |-> commands + 1, old |-> level])
      /\ raced' = (raced \/ Active("level"))
      /\ UNCHANGED <<up, hosts, off, audit, files, accepted, since, unsaved, changes, lastSaved,
                     overwritten>>
    BY <1>0, Moves DEF SetLogLevel, Begin, IsMap, Shape, JobFits, Saving
<1>2. Shape'
    BY <1>0, <1>1 DEF Shape, Moved
<1>3. \A q \in Procs : JobFits(q)'
    <2>1. JobFits(c)'
        BY <1>0, <1>1 DEF JobFits, Saving, NoJob, Settings, Shape, MuFree, Moved
    <2> QED
        BY <2>1, <1>0, <1>1, OtherFits
<1>4. \A q \in Procs : AddKnows(q)'
    BY <1>0, <1>1 DEF AddKnows, JobFits, Shape, Moved
<1>5. HostsHeld'
    BY <1>0, <1>1 DEF HostsHeld, SavingHosts, Saving, FileOf, MuFree, JobFits, Procs, NoJob, Moved
<1>6. ConfigHeld'
    BY <1>0, <1>1 DEF ConfigHeld, Saving, JobFits, Procs, Settings, NoJob, Moved
<1>7. LevelHeld'
    <2>1. \A d \in Clients : d # c => pc'[d] = pc[d] /\ job'[d] = job[d]
        BY <1>0, <1>1 DEF Procs, Moved
    <2>2. /\ up /\ pc'[c] = "file" /\ job'[c].kind = "level"
          /\ job'[c].value = level' /\ job'[c].old = level
        BY <1>1 DEF MuFree, Moved
    <2>3. ASSUME ~raced'
          PROVE  ~raced /\ \A d \in Clients : job[d].kind # "level"
        BY <1>1, <2>3 DEF Active
    <2>4. ~raced' /\ ~overwritten => level = audit /\ level = file["config"]["level"]
        BY <2>2, <2>3 DEF LevelHeld, LevelSettled, Active
    <2>5. ASSUME ~raced', NEW d \in Clients, job'[d].kind = "level" PROVE d = c
        BY <2>1, <2>3, <2>5
    <2>6. Active("level")'
        BY <2>2 DEF Active
    <2> QED
        BY <1>1, <2>2, <2>4, <2>5, <2>6 DEF LevelHeld, LevelSettled
<1>8. SavedSurvives'
    BY <1>0, <1>1 DEF SavedSurvives, Moved
<1> QED
    BY <1>2, <1>3, <1>4, <1>5, <1>6, <1>7, <1>8

LEMMA SetDisabledTransportsIInv ==
    ASSUME IInv, NEW c \in Clients, SetDisabledTransports(c)
    PROVE  IInv'
<1> USE ConfigAssumption DEF IInv, memory, files, ghosts
<1>0. c \in Procs
    BY DEF Procs
<1>1. /\ MuFree /\ pc[c] = "idle" /\ UNCHANGED <<memory, files, ghosts>>
      /\ Moved(c, "file", [kind |-> "off", value |-> commands + 1, old |-> off])
    BY <1>0, Moves DEF SetDisabledTransports, Begin, IsMap, Shape, JobFits, Saving
<1>2. Shape'
    BY <1>0, <1>1 DEF Shape, Moved
<1>3. \A q \in Procs : JobFits(q)'
    <2>1. JobFits(c)'
        BY <1>0, <1>1 DEF JobFits, Saving, NoJob, Settings, Shape, MuFree, Moved
    <2> QED
        BY <2>1, <1>0, <1>1, OtherFits
<1>4. \A q \in Procs : AddKnows(q)'
    BY <1>0, <1>1 DEF AddKnows, JobFits, Shape, Moved
<1>5. HostsHeld'
    BY <1>0, <1>1 DEF HostsHeld, SavingHosts, Saving, FileOf, MuFree, JobFits, Procs, NoJob, Moved
<1>6. ConfigHeld'
    BY <1>0, <1>1 DEF ConfigHeld, Saving, JobFits, Procs, Settings, NoJob, Moved
<1>7. LevelHeld'
    BY <1>0, <1>1 DEF LevelHeld, LevelSettled, Active, JobFits, Procs, NoJob, Moved
<1>8. SavedSurvives'
    BY <1>0, <1>1 DEF SavedSurvives, Moved
<1> QED
    BY <1>2, <1>3, <1>4, <1>5, <1>6, <1>7, <1>8

LEMMA ReadConfigIInv ==
    ASSUME IInv, NEW c \in Clients, ReadConfig(c)
    PROVE  IInv'
<1> USE ConfigAssumption DEF IInv, memory, files, ghosts
<1>0. c \in Procs
    BY DEF Procs
<1>1. /\ ConfigFileMuFree /\ pc[c] = "file" /\ UNCHANGED <<memory, files, ghosts>>
      /\ Moved(c, "write", [kind |-> job[c].kind, value |-> job[c].value, old |-> job[c].old,
                            data |-> [file["config"] EXCEPT ![job[c].kind] = job[c].value]])
    BY <1>0, Moves DEF ReadConfig, At, IsMap, Shape, JobFits, Saving
<1>2. Shape'
    BY <1>0, <1>1 DEF Shape, Moved
<1>3. \A q \in Procs : JobFits(q)'
    <2>1. c # Setup /\ job[c].kind \in Settings /\ up
        BY <1>0, <1>1 DEF JobFits
    <2>2. IsMap([file["config"] EXCEPT ![job[c].kind] = job[c].value], Settings)
        BY MapExcept DEF Shape
    <2>3. JobFits(c)'
        BY <1>1, <2>1, <2>2 DEF JobFits, Saving, Settings, Moved
    <2> QED
        BY <2>3, <1>0, <1>1, OtherFits
<1>4. \A q \in Procs : AddKnows(q)'
    BY <1>0, <1>1 DEF AddKnows, JobFits, Shape, Moved
<1>5. HostsHeld'
    <2>1. job[c].kind \in Settings
        BY <1>0, <1>1 DEF JobFits
    <2>2. \A d \in Clients : SavingHosts(d)' <=> SavingHosts(d)
        BY <1>0, <1>1, <2>1 DEF SavingHosts, Saving, FileOf, Settings, Procs, Moved
    <2>3. \A d \in Clients : SavingHosts(d) => pc'[d] = pc[d] /\ job'[d] = job[d]
        BY <1>0, <1>1 DEF SavingHosts, Saving, Procs, Moved
    <2> QED
        BY <1>1, <2>2, <2>3 DEF HostsHeld, MuFree
<1>6. ConfigHeld'
    <2>1. \A d \in Clients : job[d].kind \in Settings => ~Saving(d)
        BY <1>1 DEF ConfigFileMuFree
    <2>2. \A d \in Clients : Saving(d)' /\ job'[d].kind \in Settings => d = c
        BY <1>0, <1>1, <2>1 DEF Saving, Procs, Moved
    <2>3. /\ job'[c].kind = job[c].kind /\ job'[c].value = job[c].value
          /\ job'[c].data = [file["config"] EXCEPT ![job[c].kind] = job[c].value]
        BY <1>1 DEF Moved
    <2> QED
        BY <1>1, <2>2, <2>3 DEF ConfigHeld, Saving
<1>7. LevelHeld'
    BY <1>0, <1>1 DEF LevelHeld, LevelSettled, Active, JobFits, Procs, NoJob, Moved
<1>8. SavedSurvives'
    BY <1>0, <1>1 DEF SavedSurvives, Moved
<1> QED
    BY <1>2, <1>3, <1>4, <1>5, <1>6, <1>7, <1>8

LEMMA UndoIInv ==
    ASSUME IInv, NEW c \in Clients, Undo(c)
    PROVE  IInv'
<1> USE ConfigAssumption DEF IInv, memory, files, ghosts
<1>0. c \in Procs
    BY DEF Procs
<1>1. /\ pc[c] = "undo" /\ MuFree /\ Moved(c, "idle", NoJob) /\ level' = job[c].old
      /\ UNCHANGED <<up, hosts, off, audit, files, ghosts>>
    BY <1>0, Moves DEF Undo, Done, IsMap, Shape, JobFits, Saving
<1>2. Shape'
    BY <1>0, <1>1 DEF Shape, Moved
<1>3. \A q \in Procs : JobFits(q)'
    <2>1. JobFits(c)'
        BY <1>0, <1>1 DEF JobFits, Saving, NoJob, Settings, Shape, MuFree, Moved
    <2> QED
        BY <2>1, <1>0, <1>1, OtherFits
<1>4. \A q \in Procs : AddKnows(q)'
    BY <1>0, <1>1 DEF AddKnows, JobFits, Shape, Moved
<1>5. HostsHeld'
    BY <1>0, <1>1 DEF HostsHeld, SavingHosts, Saving, FileOf, MuFree, JobFits, Procs, NoJob, Moved
<1>6. ConfigHeld'
    BY <1>0, <1>1 DEF ConfigHeld, Saving, JobFits, Procs, Settings, NoJob, Moved
<1>7. LevelHeld'
    BY <1>0, <1>1 DEF LevelHeld, LevelSettled, Active, JobFits, Procs, NoJob, Moved
<1>8. SavedSurvives'
    BY <1>0, <1>1 DEF SavedSurvives, Moved
<1> QED
    BY <1>2, <1>3, <1>4, <1>5, <1>6, <1>7, <1>8

LEMMA SetAuditLevelIInv ==
    ASSUME IInv, NEW c \in Clients, SetAuditLevel(c)
    PROVE  IInv'
<1> USE ConfigAssumption DEF IInv, memory, files, ghosts
<1>0. c \in Procs
    BY DEF Procs
<1>1. /\ pc[c] = "audit" /\ Moved(c, "idle", NoJob) /\ audit' = job[c].value
      /\ UNCHANGED <<up, hosts, level, off, files, ghosts>>
    BY <1>0, Moves DEF SetAuditLevel, Done, IsMap, Shape, JobFits, Saving
<1>2. Shape'
    BY <1>0, <1>1 DEF Shape, Moved
<1>3. \A q \in Procs : JobFits(q)'
    <2>1. JobFits(c)'
        BY <1>0, <1>1 DEF JobFits, Saving, NoJob, Settings, Shape, MuFree, Moved
    <2> QED
        BY <2>1, <1>0, <1>1, OtherFits
<1>4. \A q \in Procs : AddKnows(q)'
    BY <1>0, <1>1 DEF AddKnows, JobFits, Shape, Moved
<1>5. HostsHeld'
    BY <1>0, <1>1 DEF HostsHeld, SavingHosts, Saving, FileOf, MuFree, JobFits, Procs, NoJob, Moved
<1>6. ConfigHeld'
    BY <1>0, <1>1 DEF ConfigHeld, Saving, JobFits, Procs, Settings, NoJob, Moved
<1>7. LevelHeld'
    BY <1>0, <1>1 DEF LevelHeld, LevelSettled, Active, JobFits, Procs, NoJob, Moved
<1>8. SavedSurvives'
    BY <1>0, <1>1 DEF SavedSurvives, Moved
<1> QED
    BY <1>2, <1>3, <1>4, <1>5, <1>6, <1>7, <1>8

LEMMA ApplyDisabledIInv ==
    ASSUME IInv, NEW c \in Clients, ApplyDisabled(c)
    PROVE  IInv'
<1> USE ConfigAssumption DEF IInv, memory, files, ghosts
<1>0. c \in Procs
    BY DEF Procs
<1>1. /\ pc[c] = "apply" /\ Moved(c, "idle", NoJob)
      /\ UNCHANGED <<up, hosts, level, audit, files, ghosts>>
    BY <1>0, Moves DEF ApplyDisabled, Done, IsMap, Shape, JobFits, Saving
<1>2. Shape'
    BY <1>0, <1>1 DEF Shape, Moved
<1>3. \A q \in Procs : JobFits(q)'
    <2>1. JobFits(c)'
        BY <1>0, <1>1 DEF JobFits, Saving, NoJob, Settings, Shape, MuFree, Moved
    <2> QED
        BY <2>1, <1>0, <1>1, OtherFits
<1>4. \A q \in Procs : AddKnows(q)'
    BY <1>0, <1>1 DEF AddKnows, JobFits, Shape, Moved
<1>5. HostsHeld'
    BY <1>0, <1>1 DEF HostsHeld, SavingHosts, Saving, FileOf, MuFree, JobFits, Procs, NoJob, Moved
<1>6. ConfigHeld'
    BY <1>0, <1>1 DEF ConfigHeld, Saving, JobFits, Procs, Settings, NoJob, Moved
<1>7. LevelHeld'
    BY <1>0, <1>1 DEF LevelHeld, LevelSettled, Active, JobFits, Procs, NoJob, Moved
<1>8. SavedSurvives'
    BY <1>0, <1>1 DEF SavedSurvives, Moved
<1> QED
    BY <1>2, <1>3, <1>4, <1>5, <1>6, <1>7, <1>8

LEMMA RunSetupIInv ==
    ASSUME IInv, RunSetup
    PROVE  IInv'
<1> USE ConfigAssumption DEF IInv, memory, files, ghosts
<1>0. Setup \in Procs
    BY DEF Procs
<1>1. /\ pc[Setup] = "idle" /\ UNCHANGED <<memory, files, ghosts>>
      /\ Moved(Setup, "write",
               [kind |-> "setup",
                data |-> [file["config"] EXCEPT !["level"] = commands + 1]])
    BY <1>0, Moves DEF RunSetup, Begin, IsMap, Shape, JobFits, Saving
<1>2. Shape'
    BY <1>0, <1>1 DEF Shape, Moved
<1>3. \A q \in Procs : JobFits(q)'
    <2>1. IsMap([file["config"] EXCEPT !["level"] = commands + 1], Settings)
        BY MapExcept DEF Shape
    <2>2. JobFits(Setup)'
        BY <1>1, <2>1 DEF JobFits, Saving, Settings, Moved
    <2> QED
        BY <2>2, <1>0, <1>1, OtherFits
<1>4. \A q \in Procs : AddKnows(q)'
    BY <1>0, <1>1 DEF AddKnows, JobFits, Shape, Moved
<1>5. HostsHeld'
    BY <1>0, <1>1 DEF HostsHeld, SavingHosts, Saving, FileOf, MuFree, JobFits, Procs, NoJob, Moved
<1>6. ConfigHeld'
    BY <1>0, <1>1 DEF ConfigHeld, Saving, JobFits, Procs, Settings, NoJob, Moved
<1>7. LevelHeld'
    BY <1>0, <1>1 DEF LevelHeld, LevelSettled, Active, JobFits, Procs, NoJob, Moved
<1>8. SavedSurvives'
    BY <1>0, <1>1 DEF SavedSurvives, Moved
<1> QED
    BY <1>2, <1>3, <1>4, <1>5, <1>6, <1>7, <1>8

-----------------------------------------------------------------------------
(* writeAtomic.                                                            *)

LEMMA WriteTempIInv ==
    ASSUME IInv, NEW p \in Procs, WriteTemp(p)
    PROVE  IInv'
<1> USE ConfigAssumption DEF IInv, memory, files, ghosts
<1>0. p \in Procs
    BY DEF Procs
<1>1. /\ pc[p] = "write" /\ Moved(p, "ready", job[p])
      /\ UNCHANGED <<memory, files, ghosts>>
    BY <1>0, Moves DEF WriteTemp, At, IsMap, Shape, JobFits, Saving
<1>2. Shape'
    BY <1>0, <1>1 DEF Shape, Moved
<1>3. \A q \in Procs : JobFits(q)'
    <2>1. JobFits(p)'
        BY <1>0, <1>1 DEF JobFits, Saving, NoJob, Settings, Shape, MuFree, Moved
    <2> QED
        BY <2>1, <1>0, <1>1, OtherFits
<1>4. \A q \in Procs : AddKnows(q)'
    BY <1>0, <1>1 DEF AddKnows, JobFits, Shape, Moved
<1>5. HostsHeld'
    BY <1>0, <1>1 DEF HostsHeld, SavingHosts, Saving, FileOf, MuFree, JobFits, Procs, NoJob, Moved
<1>6. ConfigHeld'
    BY <1>0, <1>1 DEF ConfigHeld, Saving, JobFits, Procs, Settings, NoJob, Moved
<1>7. LevelHeld'
    BY <1>0, <1>1 DEF LevelHeld, LevelSettled, Active, JobFits, Procs, NoJob, Moved
<1>8. SavedSurvives'
    BY <1>0, <1>1 DEF SavedSurvives, Moved
<1> QED
    BY <1>2, <1>3, <1>4, <1>5, <1>6, <1>7, <1>8

LEMMA RenameIInv ==
    ASSUME IInv, NEW p \in Procs, Rename(p)
    PROVE  IInv'
<1> USE ConfigAssumption DEF IInv, memory, files, ghosts
<1> DEFINE f == FileOf(job[p].kind)
<1>0. /\ p \in Procs /\ f \in Files
      /\ p \in Clients => job[p].kind \in {"add", "set", "remove", "level", "off"}
      /\ p = Setup => job[p].kind = "setup"
      /\ f = "config" => job[p].kind \in {"level", "off", "setup"}
      /\ f = "hosts" => p \in Clients /\ SavingHosts(p)
    BY DEF Rename, At, JobFits, Procs, FileOf, Files, SavingHosts, Saving
<1>1. /\ pc[p] = "ready" /\ Moved(p, "renamed", job[p])
      /\ IsMap(file', Files) /\ IsMap(since', Files) /\ clean' = clean
      /\ file'[FileOf(job[p].kind)] = job[p].data
      /\ since'[FileOf(job[p].kind)] = since[FileOf(job[p].kind)] \cup {job[p].data}
      /\ \A g \in Files \ {FileOf(job[p].kind)} : file'[g] = file[g] /\ since'[g] = since[g]
      /\ unsaved' = (unsaved /\ FileOf(job[p].kind) # "hosts")
      /\ lastSaved' = IF job[p].kind \in Settings
                      THEN [lastSaved EXCEPT ![job[p].kind] = job[p].value] ELSE lastSaved
      /\ overwritten' = (overwritten \/ p = Setup)
      /\ UNCHANGED <<memory, disk, accepted, changes, raced>>
    BY <1>0, Moves DEF Rename, At, FileOf, Files, IsMap, Shape, JobFits, Saving
<1>2. Shape'
    <2>1. f = "config" => IsMap(file'["config"], Settings)
        BY <1>0, <1>1 DEF JobFits, Saving
    <2>2. f = "hosts" => IsMap(file'["hosts"], Hosts)
        BY <1>0, <1>1 DEF HostsHeld, Shape
    <2>3. "hosts" \in Files /\ "config" \in Files
        BY DEF Files
    <2>4. IsMap(file'["config"], Settings) /\ IsMap(file'["hosts"], Hosts)
        BY <1>0, <1>1, <2>1, <2>2, <2>3 DEF Shape, Files
    <2>5. IsMap(lastSaved', Settings)
        BY <1>1, MapExcept DEF Shape
    <2> QED
        BY <1>1, <2>4, <2>5 DEF Shape, Moved
<1>3. \A q \in Procs : JobFits(q)'
    <2>1. JobFits(p)'
        BY <1>0, <1>1 DEF JobFits, Saving, NoJob, Settings, Shape, MuFree, Moved
    <2> QED
        BY <2>1, <1>0, <1>1, OtherFits
<1>4. \A q \in Procs : AddKnows(q)'
    BY <1>0, <1>1 DEF AddKnows, JobFits, Shape, Moved
<1>5. HostsHeld'
    <2>1. \A c \in Clients : /\ SavingHosts(c)' <=> SavingHosts(c)
                             /\ job'[c] = job[c]
                             /\ c # p => pc'[c] = pc[c]
        BY <1>0, <1>1 DEF SavingHosts, Saving, Procs, Moved
    <2>2. CASE f = "hosts"
        <3>1. file'["hosts"] = hosts
            BY <1>0, <1>1, <2>2 DEF HostsHeld
        <3>2. p \in Clients /\ SavingHosts(p)' /\ pc'[p] = "renamed"
            BY <1>0, <1>1, <2>1, <2>2 DEF Moved
        <3>3. \A c \in Clients : SavingHosts(c)' => c = p
            BY <2>1, <3>2 DEF HostsHeld
        <3>4. ~MuFree'
            BY <3>2 DEF MuFree
        <3>5. hosts' = hosts
            BY <1>1
        <3> QED
            BY <3>1, <3>2, <3>3, <3>4, <3>5 DEF HostsHeld
    <2>3. CASE f # "hosts"
        <3>1. file'["hosts"] = file["hosts"] /\ (unsaved' <=> unsaved) /\ hosts' = hosts
            BY <1>1, <2>3 DEF Files
        <3>2. \A c \in Clients : SavingHosts(c) => c # p
            BY <2>3 DEF SavingHosts
        <3>3. MuFree' <=> MuFree
            BY <1>1, <2>1 DEF MuFree
        <3> QED
            BY <2>1, <3>1, <3>2, <3>3 DEF HostsHeld
    <2> QED
        BY <2>2, <2>3
<1>6. ConfigHeld'
    <2>1. \A c \in Clients : /\ Saving(c)' <=> Saving(c)
                             /\ job'[c] = job[c]
                             /\ pc'[c] \in {"write", "ready"} => pc'[c] = pc[c] /\ c # p
        BY <1>0, <1>1 DEF Saving, Procs, Moved
    <2>0. \A c, d \in Clients :
              (/\ Saving(c) /\ Saving(d)
               /\ job[c].kind \in Settings /\ job[d].kind \in Settings)' => c = d
        BY <2>1 DEF ConfigHeld
    <2>2. CASE overwritten'
        BY <2>0, <2>2 DEF ConfigHeld
    <2>3. CASE ~overwritten' /\ job[p].kind \in Settings
        <3>1. p \in Clients /\ ~overwritten
            BY <1>0, <1>1, <2>3 DEF Procs
        <3>2. f = "config"
            BY <2>3 DEF FileOf, Settings
        <3>3. file'["config"] = lastSaved'
            BY <1>1, <2>3, <3>1, <3>2 DEF ConfigHeld
        <3>4. \A c \in Clients : Saving(c) /\ job[c].kind \in Settings => c = p
            BY <1>1, <2>3, <3>1 DEF ConfigHeld, Saving
        <3>5. ASSUME NEW c \in Clients, pc'[c] \in {"write", "ready"}
              PROVE  job'[c].kind \notin Settings
            BY <2>1, <3>4, <3>5 DEF Saving
        <3> QED
            BY <2>0, <3>3, <3>5 DEF ConfigHeld
    <2>4. CASE ~overwritten' /\ job[p].kind \notin Settings
        <3>1. f # "config" /\ ~overwritten
            BY <1>0, <1>1, <2>4 DEF FileOf, Settings, Procs
        <3>2. file'["config"] = file["config"] /\ lastSaved' = lastSaved
            BY <1>1, <2>4, <3>1 DEF Files
        <3>3. file'["config"] = lastSaved'
            BY <3>1, <3>2 DEF ConfigHeld
        <3>4. ASSUME NEW c \in Clients, pc'[c] \in {"write", "ready"}, job'[c].kind \in Settings
              PROVE  job'[c].data = [file'["config"] EXCEPT ![job'[c].kind] = job'[c].value]
            BY <2>1, <3>1, <3>2, <3>4 DEF ConfigHeld
        <3> QED
            BY <2>0, <3>3, <3>4 DEF ConfigHeld
    <2> QED
        BY <2>2, <2>3, <2>4
<1>7. LevelHeld'
    <2>1. ASSUME ~overwritten'
          PROVE  /\ ~overwritten /\ p \in Clients
                 /\ file'["config"]["level"] = IF job[p].kind = "level" THEN job[p].value
                                               ELSE file["config"]["level"]
        <3>1. ~overwritten /\ p \in Clients
            BY <1>0, <1>1, <2>1 DEF Procs
        <3>2. CASE job[p].kind \in Settings
            <4>1. file'["config"] = [file["config"] EXCEPT ![job[p].kind] = job[p].value]
                BY <1>1, <3>1, <3>2 DEF ConfigHeld, FileOf, Settings
            <4>2. file'["config"]["level"] =
                      IF "level" = job[p].kind THEN job[p].value ELSE file["config"]["level"]
                <5>1. IsMap(file["config"], Settings) /\ "level" \in Settings
                    BY DEF Shape, Settings
                <5> QED
                    BY <4>1, <5>1, MapExcept
            <4> QED
                BY <3>1, <4>2
        <3>3. CASE job[p].kind \notin Settings
            <4>1. file'["config"] = file["config"]
                BY <1>0, <1>1, <3>1, <3>3 DEF Files, FileOf, Settings
            <4> QED
                BY <3>1, <3>3, <4>1 DEF Settings
        <3> QED
            BY <3>2, <3>3
    <2>2. \A c \in Clients : job'[c] = job[c] /\ (c # p => pc'[c] = pc[c])
        BY <1>0, <1>1 DEF Procs, Moved
    <2> QED
        BY <1>1, <2>1, <2>2 DEF LevelHeld, LevelSettled, Active, Moved
<1>8. SavedSurvives'
    BY <1>0, <1>1 DEF SavedSurvives, Moved
<1> QED
    BY <1>2, <1>3, <1>4, <1>5, <1>6, <1>7, <1>8

LEMMA SyncDirIInv ==
    ASSUME IInv, NEW p \in Procs, SyncDir(p)
    PROVE  IInv'
<1> USE ConfigAssumption DEF IInv, memory, files, ghosts
<1>0. p \in Procs /\ FileOf(job[p].kind) \in Files
    BY DEF FileOf, Files
<1>1. /\ pc[p] = "renamed"
      /\ IF job[p].kind = "level" THEN Moved(p, "audit", job[p])
         ELSE IF job[p].kind = "off" THEN Moved(p, "apply", job[p])
         ELSE Moved(p, "idle", NoJob)
      /\ IsMap(disk', Files) /\ IsMap(accepted', Files) /\ IsMap(since', Files)
      /\ LET f == FileOf(job[p].kind) IN
         /\ disk'[f] = file[f] /\ accepted'[f] = file[f]
         /\ \A g \in Files \ {f} :
               disk'[g] = disk[g] /\ accepted'[g] = accepted[g] /\ since'[g] = since[g]
      /\ UNCHANGED <<memory, file, clean, unsaved, changes, lastSaved, raced, overwritten>>
    BY <1>0, Moves DEF SyncDir, At, Done, Continue, FileOf, Files, IsMap, Shape, JobFits, Saving
<1>2. Shape'
    <2>1. IsMap(disk'["config"], Settings) /\ IsMap(disk'["hosts"], Hosts)
        <3>1. \A f \in Files : disk'[f] \in {disk[f], file[f]}
            BY <1>0, <1>1
        <3> QED
            BY <3>1 DEF Shape, Files
    <2>2. pc' \in [Procs -> {"idle", "add", "file", "write", "ready", "renamed", "undo",
                             "audit", "apply"}] /\ IsMap(job', Procs)
        BY <1>1 DEF Moved
    <2> QED
        BY <1>1, <2>1, <2>2 DEF Shape
<1>3. \A q \in Procs : JobFits(q)'
    <2>1. JobFits(p)'
        BY <1>0, <1>1 DEF JobFits, Saving, NoJob, Settings, Shape, MuFree, Moved
    <2> QED
        BY <2>1, <1>0, <1>1, OtherFits
<1>4. \A q \in Procs : AddKnows(q)'
    BY <1>0, <1>1 DEF AddKnows, JobFits, Shape, Moved
<1>5. HostsHeld'
    BY <1>0, <1>1 DEF HostsHeld, SavingHosts, Saving, FileOf, MuFree, JobFits, Procs, NoJob, Moved
<1>6. ConfigHeld'
    <2>1. \A c \in Clients :
              Saving(c)' => Saving(c) /\ job'[c] = job[c] /\ pc'[c] = pc[c]
        BY <1>0, <1>1 DEF Saving, Procs, Moved
    <2> QED
        BY <1>1, <2>1 DEF ConfigHeld, Saving
<1>7. LevelHeld'
    BY <1>0, <1>1 DEF LevelHeld, LevelSettled, Active, JobFits, Procs, NoJob, Moved
<1>8. SavedSurvives'
    BY <1>0, <1>1 DEF SavedSurvives, Moved
<1> QED
    BY <1>2, <1>3, <1>4, <1>5, <1>6, <1>7, <1>8

LEMMA SaveFailsIInv ==
    ASSUME IInv, NEW p \in Procs, SaveFails(p)
    PROVE  IInv'
<1> USE ConfigAssumption DEF IInv, memory, files, ghosts
<1>0. p \in Procs
    BY DEF Procs
<1>1. /\ Saving(p)
      /\ IF job[p].kind = "level" THEN Moved(p, "undo", job[p]) ELSE Moved(p, "idle", NoJob)
      /\ unsaved' = (unsaved \/ (SavingHosts(p) /\ pc[p] # "renamed"))
      /\ raced' = (raced \/ (job[p].kind = "level" /\ pc[p] = "renamed"))
      /\ UNCHANGED <<memory, files, accepted, since, changes, lastSaved, overwritten>>
    BY <1>0, Moves DEF SaveFails, At, Done, Continue, IsMap, Shape, JobFits, Saving
<1>2. Shape'
    BY <1>0, <1>1 DEF Shape, Moved
<1>3. \A q \in Procs : JobFits(q)'
    <2>1. JobFits(p)'
        BY <1>0, <1>1 DEF JobFits, Saving, NoJob, Settings, Shape, MuFree, Moved
    <2> QED
        BY <2>1, <1>0, <1>1, OtherFits
<1>4. \A q \in Procs : AddKnows(q)'
    BY <1>0, <1>1 DEF AddKnows, JobFits, Shape, Moved
<1>5. HostsHeld'
    <2>1. \A c \in Clients :
              /\ c # p => pc'[c] = pc[c] /\ job'[c] = job[c]
              /\ SavingHosts(c)' <=> SavingHosts(c) /\ c # p
        BY <1>0, <1>1 DEF Saving, SavingHosts, Procs, Moved
    <2>2. CASE SavingHosts(p)
        <3>1. p \in Clients
            BY <2>2 DEF SavingHosts, FileOf, JobFits, Procs
        <3>2. hosts = file["hosts"] \/ unsaved'
            BY <1>1, <2>2, <3>1 DEF HostsHeld
        <3> QED
            BY <1>1, <2>1, <3>2 DEF HostsHeld
    <2>3. CASE ~SavingHosts(p)
        <3>1. (unsaved' <=> unsaved) /\ (MuFree' <=> MuFree)
            BY <1>1, <2>1, <2>3 DEF MuFree
        <3> QED
            BY <1>1, <2>1, <3>1 DEF HostsHeld
    <2> QED
        BY <2>2, <2>3
<1>6. ConfigHeld'
    BY <1>0, <1>1 DEF ConfigHeld, Saving, JobFits, Procs, Settings, NoJob, Moved
<1>7. LevelHeld'
    <2>1. \A c \in Clients : c # p => pc'[c] = pc[c] /\ job'[c] = job[c]
        BY <1>0, <1>1 DEF Procs, Moved
    <2>2. CASE job[p].kind = "level"
        <3>1. pc'[p] = "undo" /\ job'[p] = job[p]
            BY <1>1, <2>2 DEF Moved
        <3>2. ~raced' => ~raced /\ pc[p] \in {"write", "ready"}
            BY <1>1, <2>2 DEF Saving
        <3> QED
            BY <1>1, <2>1, <3>1, <3>2 DEF LevelHeld, LevelSettled, Active
    <2>3. CASE job[p].kind # "level"
        <3>1. job'[p].kind = "none"
            BY <1>1, <2>3 DEF Moved, NoJob
        <3>2. raced' <=> raced
            BY <1>1, <2>3
        <3> QED
            BY <1>1, <2>1, <2>3, <3>1, <3>2 DEF LevelHeld, LevelSettled, Active
    <2> QED
        BY <2>2, <2>3
<1>8. SavedSurvives'
    BY <1>0, <1>1 DEF SavedSurvives, Moved
<1> QED
    BY <1>2, <1>3, <1>4, <1>5, <1>6, <1>7, <1>8

-----------------------------------------------------------------------------
(* Ends and starts.                                                        *)

LEMMA CrashIInv ==
    ASSUME IInv, Crash
    PROVE  IInv'
<1> USE ConfigAssumption DEF IInv, Shape, IsMap, Procs, Settings, Files, NoJob, End, memory,
        files, ghosts, Crash
<1>2. Shape'
    BY DEF Shape
<1>3. \A q \in Procs : JobFits(q)'
    BY DEF JobFits, Saving, NoJob, Settings, Procs
<1>4. \A q \in Procs : AddKnows(q)'
    BY DEF AddKnows, JobFits, Shape
<1>5. HostsHeld'
    BY DEF HostsHeld, SavingHosts, Saving, FileOf, MuFree, JobFits, Procs, NoJob
<1>6. ConfigHeld'
    BY DEF ConfigHeld, Saving, JobFits, Procs, Settings, NoJob
<1>7. LevelHeld'
    BY DEF LevelHeld, LevelSettled, Active, JobFits, Procs, NoJob
<1>8. SavedSurvives'
    BY DEF SavedSurvives
<1> QED
    BY <1>2, <1>3, <1>4, <1>5, <1>6, <1>7, <1>8

LEMMA PowerLossIInv ==
    ASSUME IInv, PowerLoss
    PROVE  IInv'
<1> USE ConfigAssumption DEF IInv, Shape, IsMap, Procs, Settings, Files, NoJob, End, memory,
        files, ghosts, PowerLoss
<1>2. Shape'
    BY DEF Shape
<1>3. \A q \in Procs : JobFits(q)'
    BY DEF JobFits, Saving, NoJob, Settings, Procs
<1>4. \A q \in Procs : AddKnows(q)'
    BY DEF AddKnows, JobFits, Shape
<1>5. HostsHeld'
    BY DEF HostsHeld, SavingHosts, Saving, FileOf, MuFree, JobFits, Procs, NoJob
<1>6. ConfigHeld'
    BY DEF ConfigHeld, Saving, JobFits, Procs, Settings, NoJob
<1>7. LevelHeld'
    BY DEF LevelHeld, LevelSettled, Active, JobFits, Procs, NoJob
<1>8. SavedSurvives'
    BY DEF SavedSurvives
<1> QED
    BY <1>2, <1>3, <1>4, <1>5, <1>6, <1>7, <1>8

LEMMA RestartIInv ==
    ASSUME IInv, Restart
    PROVE  IInv'
<1> USE ConfigAssumption DEF IInv, Shape, IsMap, Procs, Settings, Files, NoJob, End, memory,
        files, ghosts, Restart
<1>2. Shape'
    BY DEF Shape
<1>3. \A q \in Procs : JobFits(q)'
    BY DEF JobFits, Saving, NoJob, Settings, Procs
<1>4. \A q \in Procs : AddKnows(q)'
    BY DEF AddKnows, JobFits, Shape
<1>5. HostsHeld'
    BY DEF HostsHeld, SavingHosts, Saving, FileOf, MuFree, JobFits, Procs, NoJob
<1>6. ConfigHeld'
    BY DEF ConfigHeld, Saving, JobFits, Procs, Settings, NoJob
<1>7. LevelHeld'
    BY DEF LevelHeld, LevelSettled, Active, JobFits, Procs, NoJob
<1>8. SavedSurvives'
    BY DEF SavedSurvives
<1> QED
    BY <1>2, <1>3, <1>4, <1>5, <1>6, <1>7, <1>8

-----------------------------------------------------------------------------

LEMMA InitIInv == Init => IInv
<1> SUFFICES ASSUME Init PROVE IInv
    OBVIOUS
<1> USE ConfigAssumption DEF Init
<1>1. /\ file["hosts"] = hosts /\ file["config"] = [s \in Settings |-> 0]
      /\ IsMap(file, Files)
    BY DEF Files, IsMap
<1>2. \A p \in Procs : pc[p] = "idle" /\ job[p].kind = "none"
    BY DEF NoJob
<1>3. Shape
    <2>1. /\ pc \in [Procs -> {"idle"}] /\ changes \in [Hosts -> Nat] /\ clean = Files
        OBVIOUS
    <2>2. IsMap(job, Procs) /\ IsMap(since, Files) /\ IsMap(lastSaved, Settings)
        BY DEF IsMap
    <2>3. IsMap(hosts, Hosts) /\ IsMap(file["hosts"], Hosts)
        BY <1>1 DEF IsMap
    <2>4. IsMap(file["config"], Settings)
        BY <1>1 DEF IsMap
    <2>5. disk = file /\ accepted = file
        OBVIOUS
    <2>6. pc \in [Procs -> {"idle", "add", "file", "write", "ready", "renamed", "undo", "audit",
                            "apply"}]
        BY <2>1
    <2> QED
        BY <1>1, <2>1, <2>2, <2>3, <2>4, <2>5, <2>6 DEF Shape
<1>4. \A p \in Procs : JobFits(p) /\ AddKnows(p)
    BY <1>2 DEF JobFits, AddKnows, Saving
<1>5. HostsHeld
    BY <1>1, <1>2 DEF HostsHeld, SavingHosts, Saving, Procs
<1>6. ConfigHeld
    BY <1>1, <1>2 DEF ConfigHeld, Saving, Procs
<1>7. LevelHeld
    <2>1. \A c \in Clients : job[c].kind # "level"
        BY <1>2 DEF Procs
    <2>2. level = audit /\ level = file["config"]["level"]
        BY <1>1 DEF Settings
    <2> QED
        BY <2>1, <2>2 DEF LevelHeld, LevelSettled
<1>8. SavedSurvives
    BY DEF SavedSurvives
<1> QED
    BY <1>3, <1>4, <1>5, <1>6, <1>7, <1>8 DEF IInv

LEMMA StutterIInv == ASSUME IInv, UNCHANGED vars PROVE IInv'
<1> USE DEF IInv, vars, memory, files, ghosts
<1>1. Shape'
    BY DEF Shape
<1>2. \A p \in Procs : JobFits(p)' /\ AddKnows(p)'
    BY DEF JobFits, AddKnows, Saving
<1>3. HostsHeld'
    BY DEF HostsHeld, SavingHosts, Saving, MuFree
<1>4. ConfigHeld'
    BY DEF ConfigHeld, Saving
<1>5. LevelHeld'
    BY DEF LevelHeld, LevelSettled, Active
<1>6. SavedSurvives'
    BY DEF SavedSurvives
<1> QED
    BY <1>1, <1>2, <1>3, <1>4, <1>5, <1>6

LEMMA NextIInv == IInv /\ [Next]_vars => IInv'
<1> SUFFICES ASSUME IInv, [Next]_vars PROVE IInv'
    OBVIOUS
<1>1. ASSUME NEW c \in Clients, NEW h \in Hosts,
             HostAddRead(c, h) \/ RemoveTarget(c, h) \/ \E f \in Fields : SetAnnotation(c, h, f)
      PROVE  IInv'
    BY <1>1, HostAddReadIInv, RemoveTargetIInv, SetAnnotationIInv
<1>2. ASSUME NEW c \in Clients,
             \/ HostAddUpsert(c) \/ SetLogLevel(c) \/ SetDisabledTransports(c) \/ ReadConfig(c)
             \/ Undo(c) \/ SetAuditLevel(c) \/ ApplyDisabled(c)
      PROVE  IInv'
    BY <1>2, HostAddUpsertIInv, SetLogLevelIInv, SetDisabledTransportsIInv, ReadConfigIInv,
       UndoIInv, SetAuditLevelIInv, ApplyDisabledIInv
<1>3. ASSUME NEW p \in Procs, WriteTemp(p) \/ Rename(p) \/ SyncDir(p) \/ SaveFails(p)
      PROVE  IInv'
    BY <1>3, WriteTempIInv, RenameIInv, SyncDirIInv, SaveFailsIInv
<1>4. CASE RunSetup \/ Crash \/ PowerLoss \/ Restart
    BY <1>4, RunSetupIInv, CrashIInv, PowerLossIInv, RestartIInv
<1>5. CASE UNCHANGED vars
    BY <1>5, StutterIInv
<1> QED
    BY <1>1, <1>2, <1>3, <1>4, <1>5 DEF Next

\* The invariant the theorems below are read off.
LEMMA Invariant == Spec => []IInv
BY InitIInv, NextIInv, PTL DEF Spec

-----------------------------------------------------------------------------

\* writeAtomic: whichever step of a save fails, and whenever the daemon ends or the machine
\* loses power, each file is whole, and no older than its last save that was reported done.
THEOREM Saved == Spec => []SavedSurvives
<1>1. IInv => SavedSurvives
    BY DEF IInv
<1> QED
    BY <1>1, Invariant, PTL

\* UpsertTarget, the setters and RemoveTarget: between commands the hosts in memory are those
\* in the file, unless the last save has failed.
THEOREM Memory == Spec => []MemoryAheadExplained
<1>1. IInv => MemoryAheadExplained
    BY DEF IInv, HostsHeld, MemoryAheadExplained
<1> QED
    BY <1>1, Invariant, PTL

\* saveConfigField and setLogLevel: memory, config.json and the audit state agree on the level
\* between commands, and no save takes back another setting.
THEOREM Agree == Spec => []SettingsAgree
<1>1. ASSUME IInv PROVE SettingsAgree
    <2>1. LevelSettled
        BY <1>1 DEF IInv, LevelHeld, LevelSettled
    <2>2. OtherSettingKept
        BY <1>1 DEF IInv, ConfigHeld, OtherSettingKept
    <2> QED
        BY <2>1, <2>2 DEF SettingsAgree
<1> QED
    BY <1>1, Invariant, PTL

\* addHostFromFields: a host add takes over the annotations of the target it replaces, unless
\* the target was changed after it was read.
THEOREM TakesOver == Spec => OnlyStaleAddOverwrites
<1> DEFINE Kept(c) ==
        pc[c] = "add" /\ pc'[c] = "write" =>
            LET h == job[c].host IN hosts[h] \in {None, hosts'[h]} \/ changes[h] > job[c].seen
           A == \A c \in Clients : Kept(c)
<1>1. ASSUME IInv, [Next]_vars PROVE A
    <2> SUFFICES ASSUME NEW c \in Clients, pc[c] = "add", pc'[c] = "write"
                 PROVE  Kept(c)
        OBVIOUS
    <2> DEFINE h == job[c].host
    <2>0. c \in Procs /\ Shape
        BY <1>1 DEF Procs, IInv
    <2>1. HostAddUpsert(c)
        <3>1. CASE UNCHANGED pc
            BY <3>1
        <3>2. ASSUME NEW p \in Procs, NEW to, pc' = [pc EXCEPT ![p] = to], pc[p] # "add"
              PROVE  FALSE
            BY <3>2, <2>0 DEF Shape
        <3>3. ASSUME NEW d \in Clients, HostAddUpsert(d) PROVE d = c
            <4>1. d \in Procs /\ pc' = [pc EXCEPT ![d] = "write"]
                BY <3>3 DEF HostAddUpsert, At, Procs
            <4> QED
                BY <4>1, <2>0 DEF Shape
        <3>4. ASSUME NEW d \in Clients, NEW g \in Hosts,
                     \/ HostAddRead(d, g) \/ RemoveTarget(d, g)
                     \/ \E f \in Fields : SetAnnotation(d, g, f)
              PROVE  FALSE
            <4>1. d \in Procs /\ pc[d] = "idle" /\ \E to : pc' = [pc EXCEPT ![d] = to]
                BY <3>4 DEF HostAddRead, RemoveTarget, SetAnnotation, Begin, Procs
            <4> QED
                BY <4>1, <3>2
        <3>5. ASSUME NEW d \in Clients,
                     \/ SetLogLevel(d) \/ SetDisabledTransports(d) \/ ReadConfig(d)
                     \/ Undo(d) \/ SetAuditLevel(d) \/ ApplyDisabled(d)
              PROVE  FALSE
            <4>1. d \in Procs /\ pc[d] # "add" /\ \E to : pc' = [pc EXCEPT ![d] = to]
                BY <3>5 DEF SetLogLevel, SetDisabledTransports, ReadConfig, Undo, SetAuditLevel,
                    ApplyDisabled, Begin, At, Done, Procs
            <4> QED
                BY <4>1, <3>2
        <3>6. ASSUME NEW p \in Procs, WriteTemp(p) \/ Rename(p) \/ SyncDir(p) \/ SaveFails(p)
              PROVE  FALSE
            <4>1. pc[p] # "add" /\ \E to : pc' = [pc EXCEPT ![p] = to]
                BY <3>6 DEF WriteTemp, Rename, SyncDir, SaveFails, Continue, At, Done, Saving
            <4> QED
                BY <4>1, <3>2
        <3>7. CASE RunSetup
            <4>1. Setup \in Procs /\ pc[Setup] = "idle" /\ \E to : pc' = [pc EXCEPT ![Setup] = to]
                BY <3>7 DEF RunSetup, Begin, Procs
            <4> QED
                BY <4>1, <3>2
        <3>8. CASE Crash \/ PowerLoss
            BY <3>8, <2>0 DEF Crash, PowerLoss, End
        <3>9. CASE Restart
            BY <3>1, <3>9 DEF Restart
        <3> QED
            BY <1>1, <3>1, <3>3, <3>4, <3>5, <3>6, <3>7, <3>8, <3>9 DEF Next, vars
    <2>2. hosts' = [hosts EXCEPT ![h] = TakeOver(job[c].saw)] /\ h \in Hosts
        BY <1>1, <2>0, <2>1 DEF HostAddUpsert, Changed, IInv, JobFits
    <2>3. hosts'[h] = TakeOver(job[c].saw)
        BY <2>0, <2>2 DEF Shape, IsMap
    <2>4. job[c].seen \in Nat /\ changes[h] \in Nat /\ job[c].seen <= changes[h]
          /\ (job[c].seen = changes[h] => job[c].saw = hosts[h])
        BY <1>1, <2>0, <2>2 DEF IInv, AddKnows, Shape
    <2>5. CASE job[c].seen = changes[h]
        BY <2>3, <2>4, <2>5 DEF TakeOver
    <2>6. CASE job[c].seen # changes[h]
        BY <2>4, <2>6
    <2> QED
        BY <2>5, <2>6
<1>2. ASSUME IInv, [Next]_vars PROVE [A]_vars
    BY <1>1, <1>2
<1> HIDE DEF A
<1>3. Spec => [][A]_vars
    BY <1>2, Invariant, PTL DEF Spec
<1> QED
    BY <1>3 DEF OnlyStaleAddOverwrites, A
=============================================================================
