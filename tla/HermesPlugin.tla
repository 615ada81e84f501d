---------------------------- MODULE HermesPlugin ----------------------------
(***************************************************************************)
(* Installing, activating and removing the Borg plugin of a Hermes host    *)
(* (hermes-plugin-install.ts).  The plugin is two files and some keys of   *)
(* Hermes' own configuration; a running gateway has what it loaded when it *)
(* started.  A command writes down the generation it wants and the pid of  *)
(* the gateway that has not loaded it, then the files and keys one at a    *)
(* time, and marks the generation active once a gateway must have it.      *)
(* Commands fail at any write and are rolled back, or crash; the operator  *)
(* edits the configuration and restarts the gateway meanwhile.             *)
(*                                                                         *)
(* Abstracted: the backup of config.yaml, the several keys of a target     *)
(* (session, worktree, command) as one, the reminder to reload Desktop.    *)
(***************************************************************************)
EXTENDS Naturals

CONSTANTS
    Targets,     \* a worktree and conversation the plugin can be set up for
    Foreign,     \* a value that only the operator writes
    Absent,      \* no file, key, gateway or digest
    MaxRuns, MaxFaults, MaxStarts

\* What names a generation, and Borg's activation record of one.
Digests == (Nat \X Nat \X Targets \X Targets) \cup {Absent}
Records == [digest : Digests, active : BOOLEAN, pid : Nat \cup {Absent}]

ASSUME HermesAssumption ==
    /\ Foreign \notin Targets /\ Foreign # Absent
    /\ Absent \notin Targets \cup Nat \cup {"on"} \cup (Nat \X Nat \X Targets \X Targets) \cup Records
    /\ MaxRuns \in Nat /\ MaxFaults \in Nat /\ MaxStarts \in Nat

VARIABLES
    client,     \* the installed release, whose package holds the plugin's files
    disk,       \* the plugin's files and its keys of the configuration
    record,     \* Borg's activation record, or Absent
    gateway,    \* what runs, and what it loaded
    cmd,        \* the command that runs
    edited,     \* ghost: the operator changed a key since it was last written
    budget      \* commands, faults and starts so far

hVars == <<disk, record, gateway, cmd, edited>>

Files == {"init", "manifest"}
Keys == {"settings", "mcp", "enabled"}

\* What a gateway loads that starts over these files and keys; a generation's digest
\* names it.
Content(d) == IF d.manifest = Absent \/ d.enabled = Absent THEN Absent
              ELSE <<d.init, d.manifest, d.settings, d.mcp>>

desiredGeneration(t) == <<client, client, t, t>>

Idle == [kind |-> "none", at |-> "idle", digest |-> Absent, steps |-> {}, undo |-> {},
         prev |-> Absent, left |-> FALSE, clean |-> TRUE]

Stopped == [kind |-> "stopped", pid |-> 0, loaded |-> Absent, amid |-> FALSE]

HermesInit ==
    /\ disk = [k \in Files \cup Keys |-> Absent]
    /\ record = Absent /\ cmd = Idle /\ edited = FALSE
    /\ gateway \in {Stopped} \cup
         {[kind |-> k, pid |-> 1, loaded |-> Absent, amid |-> FALSE] : k \in {"service", "manual"}}

Spend(what) == budget' = [budget EXCEPT ![what] = @ + 1]
Fault == budget.faults < MaxFaults /\ Spend("faults")
End == cmd' = Idle
To(l) == cmd' = [cmd EXCEPT !.at = l]

-----------------------------------------------------------------------------
(* The plan                                                                *)

\* What is to be written, each key or file once: only where it differs.
Differing(steps) == {s \in steps : disk[s[1]] # s[2]}

configSteps(t) == {<<"settings", t>>, <<"mcp", t>>, <<"enabled", "on">>}

activationSteps(t) ==
    Differing({<<"init", client>>, <<"manifest", client>>} \cup configSteps(t))

\* An entry that is not Borg's stays.
isBorgMcpEntry == disk.mcp \in Targets

uninstallSteps ==
    Differing({<<"enabled", Absent>>, <<"settings", Absent>>}
              \cup (IF isBorgMcpEntry THEN {<<"mcp", Absent>>} ELSE {}))

\* The files of an install, or what a half-done one left, go last.
removal == Differing({<<"init", Absent>>, <<"manifest", Absent>>})

\* An install writes the files first, an uninstall the keys.
Rank(kind) ==
    IF kind = "uninstall"
    THEN [enabled |-> 1, settings |-> 2, mcp |-> 3, init |-> 4, manifest |-> 5]
    ELSE [init |-> 1, manifest |-> 2, settings |-> 3, mcp |-> 4, enabled |-> 5]

installState == IF disk.manifest = Absent THEN "absent" ELSE "installed"

Planned(kind, at, d, steps) ==
    cmd' = [Idle EXCEPT !.kind = kind, !.at = at, !.digest = d, !.steps = steps, !.prev = record]

\* MUTANT of SameGeneration: a pending generation is taken for the one wanted.
AnyGeneration(d) == record # Absent

SameGeneration(d) == record # Absent /\ record.digest = d

Active(d) == SameGeneration(d) /\ record.active

\* Nothing to write, and active; nothing to write, and pending; else a new generation.
activate(kind, t) ==
    LET d == desiredGeneration(t)
        steps == activationSteps(t)
    IN  \/ steps = {} /\ Active(d) /\ End
        \/ steps = {} /\ ~Active(d) /\ SameGeneration(d) /\ Planned(kind, "finish", d, {})
        \/ (steps # {} \/ ~SameGeneration(d)) /\ Planned(kind, "begin", d, steps)

\* The operator names a target or confirms one that is found.
planSessions == IF disk.settings \in Targets THEN {disk.settings} ELSE {}

runHermesPluginInstall ==
    /\ cmd = Idle /\ budget.runs < MaxRuns /\ Spend("runs")
    /\ \E t \in Targets : activate("install", t)
    /\ UNCHANGED <<client, disk, record, gateway, edited>>

\* After an update: only what is installed, and no question is asked.
activateHermesPlugin ==
    \/ /\ installState = "installed"
       /\ \E t \in planSessions : activate("activate", t)
    \/ /\ (installState = "absent" \/ planSessions = {}) /\ End

runHermesPluginUninstall ==
    LET steps == uninstallSteps
        gone == installState = "absent" /\ steps = {}
    IN  /\ cmd = Idle /\ budget.runs < MaxRuns /\ Spend("runs")
        /\ \/ gone /\ record = Absent /\ End
           \/ gone /\ SameGeneration(Absent) /\ Planned("uninstall", "finish", Absent, {})
           \/ /\ ~gone \/ ~SameGeneration(Absent)
              /\ ~(gone /\ record = Absent)
              /\ Planned("uninstall", "begin", Absent, IF gone THEN {} ELSE steps \cup removal)
        /\ UNCHANGED <<client, disk, record, gateway, edited>>

-----------------------------------------------------------------------------
(* The writes                                                              *)

Running == gateway.kind # "stopped"

\* The record comes first: what follows a crash is a pending generation.
beginGeneration ==
    /\ cmd.at = "begin"
    /\ record' = [digest |-> cmd.digest, active |-> FALSE,
                  pid |-> IF Running THEN gateway.pid ELSE Absent]
    /\ To("apply")
    /\ UNCHANGED <<client, disk, gateway, edited, budget>>

First(s) == \A q \in cmd.steps : Rank(cmd.kind)[s[1]] <= Rank(cmd.kind)[q[1]]
Write(k, v) == disk' = [disk EXCEPT ![k] = v]

\* The value before is read and kept, then the new one written and read back.
Undo(s) == <<s[1], disk[s[1]], s[2]>>
Applied(s) == cmd' = [cmd EXCEPT !.steps = @ \ {s}, !.undo = @ \cup {Undo(s)}]

applyStep ==
    /\ cmd.at = "apply"
    /\ \E s \in cmd.steps : First(s) /\ Write(s[1], s[2]) /\ Applied(s)
    /\ UNCHANGED <<client, record, gateway, edited, budget>>

\* Files are replaced by a rename: there or not.  A key may be there although
\* the call fails.  A file that an uninstall cannot remove ends the command.
applyFails ==
    /\ cmd.at = "apply" /\ Fault
    /\ \E s \in cmd.steps :
          /\ First(s)
          /\ \/ disk' = disk
             \/ s[1] \in Keys /\ Write(s[1], s[2])
          /\ cmd' = IF cmd.kind = "uninstall" /\ s[1] \in Files THEN Idle
                    ELSE [cmd EXCEPT !.at = "rollback",
                            !.undo = IF s[1] \in Keys THEN @ \cup {Undo(s)} ELSE @]
    /\ UNCHANGED <<client, record, gateway, edited>>

allApplied ==
    /\ cmd.at = "apply" /\ cmd.steps = {}
    /\ edited' = (edited /\ ~cmd.clean)
    /\ To("finish")
    /\ UNCHANGED <<client, disk, record, gateway, budget>>

-----------------------------------------------------------------------------
(* Rolling back: keys first, files only if every key is back               *)

Latest(u) == \A q \in cmd.undo : Rank(cmd.kind)[q[1]] <= Rank(cmd.kind)[u[1]]
Popped(u) == [cmd EXCEPT !.undo = @ \ {u}]
Left(u) == [Popped(u) EXCEPT !.left = TRUE]

\* A key somebody else has changed meanwhile is theirs.
reverseKey(u) ==
    LET k == u[1]
        before == u[2]
        wrote == u[3]
    IN  /\ k \in Keys
        /\ \/ disk[k] = wrote /\ Write(k, before) /\ cmd' = Popped(u) /\ budget' = budget
           \/ disk[k] = wrote /\ Fault /\ UNCHANGED disk /\ cmd' = Left(u)
           \/ /\ disk[k] # wrote /\ UNCHANGED <<disk, budget>>
              /\ cmd' = IF disk[k] = before \/ k = "enabled" THEN Popped(u) ELSE Left(u)

\* A file that was not there is removed; that it stays goes unnoticed, unless the run
\* made the plugin's directory.
restoreFiles(u) ==
    /\ u[1] \in Files
    /\ \/ ~cmd.left /\ Write(u[1], u[2]) /\ cmd' = Popped(u) /\ budget' = budget
       \/ cmd.left /\ UNCHANGED disk /\ cmd' = Popped(u) /\ budget' = budget
       \/ ~cmd.left /\ Fault /\ UNCHANGED disk /\ (End \/ (u[2] = Absent /\ cmd' = Popped(u)))

rollback ==
    /\ cmd.at = "rollback"
    /\ \E u \in cmd.undo : Latest(u) /\ (reverseKey(u) \/ restoreFiles(u))
    /\ UNCHANGED <<client, record, gateway, edited>>

\* The generation before is wanted again, unless something was left.
Restored == IF cmd.left THEN record ELSE cmd.prev

reportFailure ==
    /\ cmd.at = "rollback" /\ cmd.undo = {}
    /\ record' = Restored /\ End
    /\ UNCHANGED <<client, disk, gateway, edited, budget>>

-----------------------------------------------------------------------------
(* Having the gateway load it                                              *)

Started(kind) ==
    /\ budget.starts < MaxStarts /\ Spend("starts")
    /\ gateway' = [kind |-> kind, pid |-> 2 + budget.starts, loaded |-> Content(disk),
                   amid |-> edited \/ cmd.at \in {"apply", "rollback"}]

\* A gateway started by hand has it if it is not the one that ran before the
\* writes; one that is not running will.
HasIt == \/ gateway.kind = "stopped"
         \/ gateway.kind = "manual" /\ record.pid \notin {Absent, gateway.pid}

Complete == record' = IF record.digest = Absent THEN Absent ELSE [record EXCEPT !.active = TRUE]

\* --no-restart, or a status that says nothing of the gateway: it stays pending.
finishGeneration ==
    /\ cmd.at = "finish"
    /\ \/ HasIt /\ Complete /\ End
       \/ gateway.kind = "service" /\ To("restart") /\ UNCHANGED record
       \/ End /\ UNCHANGED record
    /\ UNCHANGED <<client, disk, gateway, edited, budget>>

activateHosts ==
    /\ cmd.at = "restart" /\ gateway.kind = "service"
    /\ Started("service") /\ To("restarted")
    /\ UNCHANGED <<client, disk, record, edited>>

\* The restart fails, or the status afterwards shows no new gateway.
restartFails ==
    /\ cmd.at \in {"restart", "restarted"} /\ Fault /\ End
    /\ UNCHANGED <<client, disk, record, gateway, edited>>

restartConfirmed ==
    /\ cmd.at = "restarted"
    /\ \/ gateway.kind = "service" /\ Complete
       \/ gateway.kind # "service" /\ UNCHANGED record
    /\ End
    /\ UNCHANGED <<client, disk, gateway, edited, budget>>

-----------------------------------------------------------------------------
(* Around it                                                               *)

Crash ==
    /\ cmd.kind \in {"install", "activate", "uninstall"} /\ Fault /\ End
    /\ UNCHANGED <<client, disk, record, gateway, edited>>

OperatorEdits ==
    /\ Fault /\ edited' = TRUE
    /\ \/ Write("settings", Foreign) \/ Write("mcp", Foreign) \/ Write("enabled", Absent)
    /\ cmd' = [cmd EXCEPT !.clean = (cmd = Idle)]
    /\ UNCHANGED <<client, record, gateway>>

\* By hand, by the service manager, or not at all.
GatewayStarts ==
    /\ IF Running THEN Started(gateway.kind) ELSE \E k \in {"service", "manual"} : Started(k)
    /\ UNCHANGED <<client, disk, record, cmd, edited>>

GatewayStops ==
    /\ Running /\ gateway' = Stopped
    /\ UNCHANGED <<client, disk, record, cmd, edited, budget>>

HermesCommand == runHermesPluginInstall \/ runHermesPluginUninstall

HermesStep ==
    \/ beginGeneration \/ applyStep \/ applyFails \/ allApplied
    \/ rollback \/ reportFailure
    \/ finishGeneration \/ activateHosts \/ restartFails \/ restartConfirmed

HermesEnv == Crash \/ OperatorEdits \/ GatewayStarts \/ GatewayStops

-----------------------------------------------------------------------------
(* Properties                                                              *)

\* While no command runs, a running gateway has loaded the generation the record
\* calls active, and no plugin when there is no record; except a gateway that
\* started among a command's writes, or after the operator's edit.
GatewayHasWhatIsActive ==
    cmd = Idle /\ Running /\ ~gateway.amid =>
        /\ record = Absent => gateway.loaded = Absent
        /\ record # Absent => (record.active => gateway.loaded = record.digest)
=============================================================================
