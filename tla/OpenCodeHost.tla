---------------------------- MODULE OpenCodeHost ----------------------------
(***************************************************************************)
(* The launch of OpenCode 2 (opencode-v2-launch.ts) and the supervisor     *)
(* process that starts the private server for it (opencode-v2-startup-     *)
(* host.ts, opencode-v2-startup.ts, opencode-v2-server.ts).  All launches  *)
(* of a user share one native database, so a whole bootstrap runs under a  *)
(* SQLite mutex, which the supervisor holds together with the server: a    *)
(* launcher that dies must not free the one before the other is reaped.    *)
(*                                                                         *)
(* The launcher's phases between the server's start and the kickoff are    *)
(* one step that succeeds or fails, and the files it makes are left out.   *)
(* Commands go over IPC in order, one reply each; the supervisor works     *)
(* them off one at a time (`tail`).                                        *)
(***************************************************************************)
EXTENDS Naturals, Sequences

CONSTANTS
    Launches,      \* `borg` invocations that launch OpenCode 2
    NoLaunch,
    LaunchTries,   \* attempts when the executable changes underfoot
    MaxHostFaults  \* bound: failures, kills and crashes

ASSUME HostAssumption ==
    /\ NoLaunch \notin Launches
    /\ LaunchTries \in Nat \ {0} /\ MaxHostFaults \in Nat

VARIABLES
    mutex2,   \* whose supervisor is inside BEGIN EXCLUSIVE
    sup,      \* each launch's supervisor
    server2,  \* its native server: "none", "booting", "up", "orphan"
    boot,     \* the launcher
    hfaults

hostLaunchVars == <<mutex2, sup, server2, boot, hfaults>>

NoSup == [pc |-> "none", queue |-> <<>>, reply |-> "none", linked |-> FALSE, released |-> FALSE]
AtRest == [pc |-> "idle", try |-> 0, hosting |-> FALSE, completed |-> FALSE, changed |-> FALSE]

HostInit ==
    /\ mutex2 = NoLaunch
    /\ sup = [l \in Launches |-> NoSup]
    /\ server2 = [l \in Launches |-> "none"]
    /\ boot = [l \in Launches |-> AtRest]
    /\ hfaults = 0

Mishap == hfaults < MaxHostFaults /\ hfaults' = hfaults + 1
NoMishap == UNCHANGED hfaults

BootTo(l, pc) == boot' = [boot EXCEPT ![l].pc = pc]
SupIs(l, s) == sup' = [sup EXCEPT ![l] = s]
Send(l, commands) == SupIs(l, [sup[l] EXCEPT !.queue = @ \o commands, !.reply = "none"])

\* The launcher's end of the IPC channel sees the supervisor gone.
Stopped2(l) == sup[l].pc = "gone"

\* The supervisor works off commands.
Serves(l) == sup[l].pc \in {"holding", "released"}

-----------------------------------------------------------------------------
(* The launcher.                                                           *)

\* withOpenCodeV2StartupHost spawns the supervisor.
LaunchV2(l) ==
    /\ boot[l].pc = "idle"
    /\ BootTo(l, "waiting")
    /\ SupIs(l, [NoSup EXCEPT !.pc = "waiting", !.linked = TRUE])
    /\ UNCHANGED <<mutex2, server2>> /\ NoMishap

\* One attempt: the plugin directory, then the server.
Attempt(l) ==
    /\ boot[l].pc = "waiting" /\ sup[l].pc = "holding"
    /\ boot' = [boot EXCEPT ![l].pc = "starting", ![l].try = @ + 1, ![l].changed = FALSE]
    /\ Send(l, <<"start">>)
    /\ UNCHANGED <<mutex2, server2>> /\ NoMishap

\* The overlay of the user's configuration does not parse, or the plugin's files
\* cannot be written: this happens before the launch's try.
OverlayThrows(l) ==
    /\ boot[l].pc = "waiting" /\ sup[l].pc = "holding"
    /\ Mishap
    /\ BootTo(l, "finally")
    /\ UNCHANGED <<mutex2, sup, server2>>

\* "Timed out waiting for another Borg OpenCode 2 session", or a supervisor
\* that died: nothing was started.
NotAcquired(l) ==
    /\ boot[l].pc = "waiting" /\ Stopped2(l)
    /\ BootTo(l, "failed")
    /\ UNCHANGED <<mutex2, sup, server2>> /\ NoMishap

Started(l) ==
    /\ boot[l].pc = "starting"
    /\ \/ /\ sup[l].reply = "started"
          /\ boot' = [boot EXCEPT ![l].pc = "preparing", ![l].hosting = TRUE]
       \/ /\ sup[l].reply \in {"refused", "changed"}
          /\ boot' = [boot EXCEPT ![l].pc = "cleanup", ![l].changed = (sup[l].reply = "changed")]
       \/ /\ Stopped2(l)
          /\ BootTo(l, "cleanup")
    /\ UNCHANGED <<mutex2, sup, server2>> /\ NoMishap

\* The broker and its descriptors, the session, the readiness of plugin and
\* tools, permissions, the executable again.
Prepared(l) ==
    /\ boot[l].pc = "preparing"
    /\ \/ /\ server2[l] = "up"
          /\ BootTo(l, "attached") /\ NoMishap
       \/ /\ Mishap
          /\ \E changed \in BOOLEAN :
                boot' = [boot EXCEPT ![l].pc = "cleanup", ![l].changed = changed]
    /\ UNCHANGED <<mutex2, sup, server2>>

\* The kickoff is admitted to the attached TUI, or the TUI ends.
Kickoff(l) ==
    /\ boot[l].pc = "attached"
    /\ \/ /\ server2[l] = "up"
          /\ boot' = [boot EXCEPT ![l].pc = "finally", ![l].completed = TRUE]
          /\ NoMishap
       \/ Mishap /\ BootTo(l, "cleanup")
    /\ UNCHANGED <<mutex2, sup, server2>>

\* cleanup: the broker closes, then the server, unless it is gone already, ...
CleanupStarts(l) ==
    /\ boot[l].pc = "cleanup"
    /\ IF boot[l].hosting /\ ~ Stopped2(l) /\ server2[l] # "none"
       THEN Send(l, <<"close">>) ELSE UNCHANGED sup
    /\ BootTo(l, "closing")
    /\ UNCHANGED <<mutex2, server2>> /\ NoMishap

\* ... and the launch is over, unless it tries again with the new executable.
CleanupEnds(l) ==
    /\ boot[l].pc = "closing"
    /\ (Serves(l) /\ sup[l].queue = <<>>) \/ Stopped2(l)
    /\ boot' = [boot EXCEPT ![l].hosting = FALSE, ![l].pc =
                  CASE boot[l].completed -> "ended"
                    [] ~ boot[l].completed /\ boot[l].changed /\ boot[l].try < LaunchTries
                         /\ ~ Stopped2(l) -> "waiting"
                    [] OTHER -> "finally"]
    /\ UNCHANGED <<mutex2, sup, server2>> /\ NoMishap

\* The finally of withOpenCodeV2StartupHost.
Finally(l) ==
    /\ boot[l].pc = "finally"
    /\ IF Stopped2(l)
       THEN UNCHANGED sup
       ELSE Send(l, IF boot[l].completed THEN <<"release">> ELSE <<"close", "release">>)
    /\ BootTo(l, "releasing")
    /\ UNCHANGED <<mutex2, server2>> /\ NoMishap

Released2(l) ==
    /\ boot[l].pc = "releasing"
    /\ sup[l].reply = "released" \/ Stopped2(l)
    /\ BootTo(l, IF boot[l].completed THEN "running" ELSE "failed")
    /\ SupIs(l, [sup[l] EXCEPT !.linked = @ /\ boot[l].completed])
    /\ UNCHANGED <<mutex2, server2>> /\ NoMishap

\* The TUI exits, or is killed because its server closed.  (One that exits while
\* the mutex is released only has its close and the release change places.)
TuiExits(l) ==
    /\ boot[l].pc = "running"
    /\ BootTo(l, "cleanup")
    /\ UNCHANGED <<mutex2, sup, server2>> /\ NoMishap

LauncherDies(l) ==
    /\ boot[l].pc \notin {"idle", "failed", "ended", "dead"}
    /\ Mishap
    /\ BootTo(l, "dead")
    /\ SupIs(l, [sup[l] EXCEPT !.linked = FALSE])
    /\ UNCHANGED <<mutex2, server2>>

-----------------------------------------------------------------------------
(* The supervisor.                                                         *)

\* BEGIN EXCLUSIVE, polled until it succeeds.
Acquire2(l) ==
    /\ sup[l].pc = "waiting" /\ sup[l].linked
    /\ mutex2 = NoLaunch
    /\ mutex2' = l
    /\ SupIs(l, [sup[l] EXCEPT !.pc = "holding"])
    /\ UNCHANGED <<server2, boot>> /\ NoMishap

QueueTimesOut(l) ==
    /\ sup[l].pc = "waiting" /\ mutex2 \notin {NoLaunch, l}
    /\ SupIs(l, [sup[l] EXCEPT !.pc = "gone", !.linked = FALSE])
    /\ UNCHANGED <<mutex2, server2, boot>> /\ NoMishap

Heads(l, c) == Serves(l) /\ sup[l].linked /\ sup[l].queue # <<>> /\ Head(sup[l].queue) = c
Replies(l, r) == SupIs(l, [sup[l] EXCEPT !.queue = Tail(@), !.reply = r])

StartServer(l) ==
    /\ Heads(l, "start") /\ server2[l] = "none"
    /\ server2' = [server2 EXCEPT ![l] = "booting"]
    /\ UNCHANGED <<mutex2, sup, boot>> /\ NoMishap

\* Ready and identified, or not: then close is awaited before the answer.
ServerReady(l) ==
    /\ Heads(l, "start") /\ server2[l] = "booting"
    /\ \/ server2' = [server2 EXCEPT ![l] = "up"] /\ Replies(l, "started") /\ NoMishap
       \/ /\ Mishap
          /\ server2' = [server2 EXCEPT ![l] = "none"]
          /\ \E r \in {"refused", "changed"} : Replies(l, r)
    /\ UNCHANGED <<mutex2, boot>>

CloseServer(l) ==
    /\ Heads(l, "close")
    /\ server2' = [server2 EXCEPT ![l] = "none"]
    /\ Replies(l, "closed")
    /\ UNCHANGED <<mutex2, boot>> /\ NoMishap

\* release: ROLLBACK, then the answer; the server's lease stays.
Release2(l) ==
    /\ Heads(l, "release")
    /\ mutex2' = IF mutex2 = l THEN NoLaunch ELSE mutex2
    /\ SupIs(l, [sup[l] EXCEPT !.queue = Tail(@), !.reply = "released",
                               !.pc = "released", !.released = TRUE])
    /\ UNCHANGED <<server2, boot>> /\ NoMishap

\* With the mutex released and no server left there is nothing to supervise.
Retires(l) ==
    /\ sup[l].pc = "released" /\ sup[l].linked
    /\ sup[l].queue = <<>> /\ server2[l] = "none"
    /\ boot[l].pc # "releasing"
    /\ SupIs(l, [sup[l] EXCEPT !.pc = "gone", !.linked = FALSE])
    /\ UNCHANGED <<mutex2, server2, boot>> /\ NoMishap

\* Mutant: the mutex is freed before the server is reaped.
UnlocksFirst(l) == mutex2' = IF mutex2 = l THEN NoLaunch ELSE mutex2

\* shutdown's first half leaves the mutex alone.
KeepsMutex(l) == UNCHANGED mutex2

\* shutdown, when the launcher is gone or on a signal: a start under way is aborted and the
\* commands behind it are dropped, the server is closed, ...
ShutdownBegins(l) ==
    /\ sup[l].pc \in {"waiting", "holding", "released"}
    /\ IF sup[l].linked THEN Mishap ELSE NoMishap
    /\ SupIs(l, [sup[l] EXCEPT !.pc = "reaping", !.queue = <<>>])
    /\ KeepsMutex(l)
    /\ UNCHANGED <<server2, boot>>

ShutdownReaps(l) ==
    /\ sup[l].pc = "reaping" /\ server2[l] # "none"
    /\ server2' = [server2 EXCEPT ![l] = "none"]
    /\ UNCHANGED <<mutex2, sup, boot>> /\ NoMishap

\* ... and only then the mutex is unlocked and the process ends.
ShutdownEnds(l) ==
    /\ sup[l].pc = "reaping" /\ server2[l] = "none"
    /\ mutex2' = IF mutex2 = l THEN NoLaunch ELSE mutex2
    /\ SupIs(l, [sup[l] EXCEPT !.pc = "gone", !.linked = FALSE])
    /\ UNCHANGED <<server2, boot>> /\ NoMishap

\* SIGKILL: SQLite's lock goes with the process, the server's stdin closes.
SupervisorKilled(l) ==
    /\ Mishap
    /\ sup[l].pc \notin {"none", "gone"}
    /\ SupIs(l, [sup[l] EXCEPT !.pc = "gone", !.linked = FALSE, !.queue = <<>>])
    /\ mutex2' = IF mutex2 = l THEN NoLaunch ELSE mutex2
    /\ server2' = [server2 EXCEPT ![l] = IF @ = "none" THEN "none" ELSE "orphan"]
    /\ UNCHANGED <<boot>>

\* A server ends when its stdin is closed, or by itself.
ServerEnds(l) ==
    /\ \/ server2[l] = "orphan" /\ NoMishap
       \/ server2[l] = "up" /\ Mishap
    /\ server2' = [server2 EXCEPT ![l] = "none"]
    /\ UNCHANGED <<mutex2, sup, boot>>

HostNext ==
    \E l \in Launches :
        \/ LaunchV2(l) \/ Attempt(l) \/ OverlayThrows(l) \/ NotAcquired(l) \/ Started(l)
        \/ Prepared(l) \/ Kickoff(l) \/ CleanupStarts(l) \/ CleanupEnds(l) \/ Finally(l) \/ Released2(l)
        \/ TuiExits(l) \/ LauncherDies(l)
        \/ Acquire2(l) \/ QueueTimesOut(l) \/ StartServer(l) \/ ServerReady(l)
        \/ CloseServer(l) \/ Release2(l) \/ Retires(l)
        \/ ShutdownBegins(l) \/ ShutdownReaps(l) \/ ShutdownEnds(l)
        \/ SupervisorKilled(l) \/ ServerEnds(l)

HostSpec == HostInit /\ [][HostNext]_hostLaunchVars

-----------------------------------------------------------------------------
(* Properties                                                              *)

Bootstrapping(l) == server2[l] \in {"booting", "up"} /\ ~ sup[l].released

\* opencode-v2-startup-host.ts:29, "Losing Borg's IPC connection closes the native
\* host BEFORE releasing startup exclusion": wherever a launcher fails or dies, two
\* servers never bootstrap on the shared database at once.  (The server of a
\* supervisor that was itself killed is an orphan on its way out.)
BootstrapExclusive ==
    \A a, b \in Launches : Bootstrapping(a) /\ Bootstrapping(b) => a = b

=============================================================================
