---------------------------- MODULE AgentLaunch ----------------------------
(***************************************************************************)
(* Launching an agent in a seat (claude.ts, codex-remote.ts and the same    *)
(* sequence in assimilate-cmd.ts): the tool policy is resolved against the  *)
(* agent CLI's effective configuration (ToolApproval), then Codex gets a    *)
(* private app-server on a socket of its own and a terminal client attached *)
(* to it, OpenCode a process and a launch plugin, Claude Code a process.    *)
(* Several launches share the runtime directory and the configuration.      *)
(***************************************************************************)
EXTENDS ToolApproval

CONSTANTS Launchers,     \* processes that launch an agent, each once
          LaunchAttempts,\* app-server starts per launch
          OpenAttempts   \* OpenCode starts per launch

ASSUME LaunchAssumption == LaunchAttempts \in Nat \ {0}

Servers == Launchers \X (1..LaunchAttempts)

VARIABLES cfg,      \* the layers nobody here edits: profile, operator's options, managed
          user,     \* the user's Codex layer, which an editor may change
          rules,    \* the user's OpenCode permission rules
          launch,   \* each launcher: where it is, what it has read and decided
          appServer,\* each app-server: process, socket, pid file
          edits,    \* edits of the user's layer still to come
          quiet,    \* no crash, torn file or failure happens (smaller instances)
          overtaken,\* launchers whose configuration was edited under them
          misread   \* servers whose pid file a pruning launch read half written

launchVars == <<cfg, user, rules, launch, appServer, edits, quiet, overtaken, misread>>
Fixed == <<cfg, rules, quiet>>
Config == <<cfg, user, rules, edits, quiet, overtaken, misread>>

NoServer == [alive |-> FALSE, told |-> FALSE, sock |-> FALSE, pid |-> "none"]
Launching(cli) ==
  [pc |-> "read", cli |-> cli, config |-> NoPolicy, approval |-> NoPolicy,
   compat |-> NoPolicy, permission |-> <<>>, attempt |-> 1, doomed |-> {}, child |-> FALSE]
Waiting == [pc |-> "idle"]
Done == [pc |-> "done"]

\* What the layers may hold.
Configured ==
  /\ cfg \in [profile : Fragments, flags : Fragments, managed : Fragments,
              managedRules : Seq(OpenCodeRules)]
  /\ user \in Fragments
  /\ rules \in Seq(OpenCodeRules) /\ Distinct(rules)

\* The given launchers are about to launch.
LaunchInit(about) ==
  /\ Configured
  /\ launch = [p \in Launchers |-> IF p \in about THEN Waiting ELSE Done]
  /\ appServer = [s \in Servers |-> NoServer]
  /\ overtaken = {} /\ misread = {}

GoTo(p, pc) == launch' = [launch EXCEPT ![p].pc = pc]
Own(p) == <<p, launch[p].attempt>>

-----------------------------------------------------------------------------
(* Resolving the policy: one step per query of the agent CLI.               *)

\* configureSelectedLaunchCli and the start of resolveLaunchBorgApprovals.
LaunchCli(p, cli) ==
  /\ launch[p].pc = "idle"
  /\ launch' = [launch EXCEPT ![p] = Launching(cli)]
  /\ UNCHANGED <<Config, appServer>>

\* Claude: its effective settings are checked and nothing is overridden.
ReadClaude(p) ==
  /\ launch[p].pc = "read" /\ launch[p].cli = "claude"
  /\ IF Migrated(user) THEN GoTo(p, "agent") ELSE launch' = [launch EXCEPT ![p] = Done]
  /\ UNCHANGED <<Config, appServer>>

\* Codex: the effective policy, completed for the legacy names; one that cannot be
\* completed refuses the launch.
ReadCodex(p) ==
  /\ launch[p].pc = "read" /\ launch[p].cli = "codex"
  /\ LET f == TuiConfig(cfg, user, NoPolicy, NoPolicy)
     IN  IF LayersMigrated(cfg, user, cfg.flags) /\ Migrated(Completed(f))
         THEN launch' = [launch EXCEPT ![p].config = Completed(f),
                                       ![p].compat = compatibilityArgs(f),
                                       ![p].pc = IF compatibilityArgs(f) = NoPolicy
                                                 THEN "inspect" ELSE "verify"]
         ELSE launch' = [launch EXCEPT ![p] = Done]
  /\ UNCHANGED <<Config, appServer>>

\* The CLI must report the completed tool fields when given the compatibility options.
VerifyCompatible(p) ==
  /\ launch[p].pc = "verify"
  /\ LET f == TuiConfig(cfg, user, NoPolicy, launch[p].compat)
         want == launch[p].config
     IN  IF LayersMigrated(cfg, user, launch[p].compat) /\ f.tools = want.tools /\ f.off = want.off
         THEN launch' = [launch EXCEPT ![p].config = f, ![p].pc = "inspect"]
         ELSE launch' = [launch EXCEPT ![p] = Done]
  /\ UNCHANGED <<Config, appServer>>

\* Without a tool that would ask, or with --no-borg-approval-override, nothing is added.
\* Else the override is tried; managed policy may still prevent it, and a policy that
\* cannot be verified leaves it out.
InspectCodex(p, skip) ==
  /\ launch[p].pc = "inspect"
  /\ LET own == launch[p].config
         approval == codexBorgApprovalArgs(own)
         lists == [launch[p].compat EXCEPT !.tools = NoPolicy.tools]
         with == TuiConfig(cfg, user, approval, lists)
     IN  IF Restrictive(own) /\ ~skip /\ LayersMigrated(cfg, user, approval)
              /\ Migrated(with) /\ ~Restrictive(with)
         THEN launch' = [launch EXCEPT ![p].pc = "finalize", ![p].config = with,
                                       ![p].approval = approval, ![p].compat = lists]
         ELSE GoTo(p, "finalize")
  /\ UNCHANGED <<Config, appServer>>

\* A private server started with the override alone.
FinalizeOverrideOnly(p) ==
  /\ launch[p].pc = "finalize"
  /\ GoTo(p, "scan")
  /\ UNCHANGED <<Config, appServer>>

\* finalizeCodexLaunchDecision: the whole policy is passed to the private server, and the
\* server must resolve to exactly that policy.
FinalizeCodex(p) ==
  /\ launch[p].pc = "finalize"
  /\ LET policy == launch[p].config
         owner == ServerConfig(cfg, user, Then(launch[p].approval, policy))
     IN  IF LayersMigrated(cfg, user, policy) /\ owner = policy
         THEN launch' = [launch EXCEPT ![p].pc = "scan", ![p].compat = policy]
         ELSE launch' = [launch EXCEPT ![p] = Done]
  /\ UNCHANGED <<Config, appServer>>

\* OpenCode: the override is merged into the rules, and kept if the CLI confirms it.
ReadOpenCode(p, skip) ==
  /\ launch[p].pc = "read" /\ launch[p].cli = "opencode"
  /\ IF ~AdjacentPairs(rules \o cfg.managedRules)
     THEN launch' = [launch EXCEPT ![p] = Done]
     ELSE \/ /\ Permission(rules \o cfg.managedRules, "tool") \in {"ask", "deny"} /\ ~skip
             /\ \E with \in Overridden(rules, Merged(rules), cfg.managedRules) :
                  launch' = [launch EXCEPT ![p].pc = "agent",
                    ![p].permission = IF AdjacentPairs(with) /\ Permission(with, "tool") = "allow"
                                      THEN with ELSE <<>>]
          \/ /\ Permission(rules \o cfg.managedRules, "tool") \notin {"ask", "deny"} \/ skip
             /\ GoTo(p, "agent")
  /\ UNCHANGED <<Config, appServer>>

\* A query times out, is rejected, answers too much or exits: a launch whose policy cannot
\* be read is refused, an override that cannot be verified is left out.
QueryFails(p) ==
  /\ ~quiet
  /\ \/ /\ launch[p].pc \in {"read", "verify", "finalize"}
        /\ launch' = [launch EXCEPT ![p] = Done]
     \/ /\ launch[p].pc = "inspect" /\ Restrictive(launch[p].config)
        /\ GoTo(p, "finalize")
  /\ UNCHANGED <<Config, appServer>>

\* The user's configuration is edited while launches are on their way.
EditConfig(f) ==
  /\ edits > 0 /\ f # user
  /\ user' = f /\ edits' = edits - 1
  /\ overtaken' = {p \in Launchers : launch[p].pc \notin {"idle", "done"}} \cup overtaken
  /\ UNCHANGED <<Fixed, launch, appServer, misread>>

-----------------------------------------------------------------------------
(* Codex's private app-server (codex-remote.ts).                            *)

\* Every pid file is taken for stale.
AnyPid(s) == appServer[s].pid # "none"

\* A pid file that is unreadable or empty, or whose process is gone.
StalePid(s) == appServer[s].pid = "torn" \/ (appServer[s].pid = "full" /\ ~appServer[s].alive)

\* pruneStaleSockets reads the directory, then removes what it found stale.
PruneScan(p) ==
  /\ launch[p].pc = "scan"
  /\ launch' = [launch EXCEPT ![p].pc = "prune", ![p].doomed = {s \in Servers : StalePid(s)}]
  /\ misread' = misread \cup {s \in Servers : appServer[s].pid = "torn"}
  /\ UNCHANGED <<cfg, user, rules, edits, quiet, overtaken, appServer>>

PruneRemove(p) ==
  /\ launch[p].pc = "prune"
  /\ appServer' = [s \in Servers |-> IF s \in launch[p].doomed
                                  THEN [appServer[s] EXCEPT !.sock = FALSE, !.pid = "none"]
                                  ELSE appServer[s]]
  /\ launch' = [launch EXCEPT ![p].pc = "spawn", ![p].doomed = {}]
  /\ UNCHANGED Config

\* The attempt is over: the next one, or the refusal of the launch.
NextAttempt(p) ==
  IF launch[p].attempt < LaunchAttempts
  THEN launch' = [launch EXCEPT ![p].attempt = @ + 1, ![p].pc = "spawn"]
  ELSE launch' = [launch EXCEPT ![p] = Done]

\* The server is started on a fresh socket id; the pid file is created, then filled.
SpawnServer(p) ==
  /\ launch[p].pc = "spawn"
  /\ \/ /\ appServer' = [appServer EXCEPT ![Own(p)] = [NoServer EXCEPT !.alive = TRUE, !.pid = "torn"]]
        /\ GoTo(p, "pid")
     \/ ~quiet /\ NextAttempt(p) /\ UNCHANGED appServer      \* spawn throws
  /\ UNCHANGED Config

FillPid(p) ==
  /\ launch[p].pc = "pid"
  /\ appServer' = [appServer EXCEPT ![Own(p)].pid = IF @ = "torn" THEN "full" ELSE @]
  /\ GoTo(p, "probe")
  /\ UNCHANGED Config

\* The server binds its socket.
ServerListens(s) ==
  /\ appServer[s].alive /\ ~appServer[s].told /\ ~appServer[s].sock
  /\ launch[s[1]].pc \in {"pid", "probe"} /\ Own(s[1]) = s
  /\ appServer' = [appServer EXCEPT ![s].sock = TRUE]
  /\ UNCHANGED <<Config, launch>>

ServerExits(s) ==
  /\ appServer[s].alive /\ (appServer[s].told \/ ~quiet)
  /\ appServer' = [appServer EXCEPT ![s].alive = FALSE]
  /\ UNCHANGED <<Config, launch>>

\* cleanup: the process is told to stop, its socket and pid file are removed.
Cleaned(s) == [appServer EXCEPT ![s].told = @ \/ appServer[s].alive,
                             ![s].sock = FALSE, ![s].pid = "none"]

\* The readiness probe answers: the terminal client is started against the socket.
ProbeReady(p) ==
  /\ launch[p].pc = "probe"
  /\ appServer[Own(p)].alive /\ appServer[Own(p)].sock
  /\ GoTo(p, "agent")
  /\ UNCHANGED <<Config, appServer>>

\* The server exited, or the readiness time passed: cleaned up, then the next attempt.
GiveUp(p) ==
  /\ launch[p].pc = "probe"
  /\ ~appServer[Own(p)].sock \/ ~appServer[Own(p)].alive
  /\ appServer' = Cleaned(Own(p))
  /\ NextAttempt(p)
  /\ UNCHANGED Config

-----------------------------------------------------------------------------
(* The agent itself.                                                        *)

\* The agent process is started: Codex and Claude run at once, OpenCode is watched until
\* its session is bound.
StartAgent(p) ==
  /\ launch[p].pc = "agent" /\ ~launch[p].child
  /\ launch' = [launch EXCEPT ![p].child = TRUE,
                              ![p].pc = IF launch[p].cli = "opencode" THEN "bind" ELSE "running"]
  /\ UNCHANGED <<Config, appServer>>

\* The agent cannot be started, or the launch arguments are refused.
AgentRefused(p) ==
  /\ launch[p].pc = "agent" /\ ~quiet
  /\ appServer' = IF launch[p].cli = "codex" THEN Cleaned(Own(p)) ELSE appServer
  /\ launch' = [launch EXCEPT ![p] = Done]
  /\ UNCHANGED Config

\* launchOpenCodeProcess: bound, not identifiable (killed), or gone before it was ready,
\* which is tried again on another port.
BindOpenCode(p) ==
  /\ launch[p].pc = "bind"
  /\ \/ GoTo(p, "running")
     \/ launch' = [launch EXCEPT ![p] = Done]
     \/ /\ launch[p].attempt < OpenAttempts
        /\ launch' = [launch EXCEPT ![p].pc = "agent", ![p].child = FALSE,
                                    ![p].attempt = @ + 1]
  /\ UNCHANGED <<Config, appServer>>

\* The agent ends: the server it used is cleaned up and the launcher exits.
AgentExits(p) ==
  /\ launch[p].pc = "running"
  /\ appServer' = IF launch[p].cli = "codex" THEN Cleaned(Own(p)) ELSE appServer
  /\ launch' = [launch EXCEPT ![p] = Done]
  /\ UNCHANGED Config

\* The launcher is killed: nothing is cleaned up.
LauncherDies(p) ==
  /\ ~quiet /\ launch[p].pc \notin {"idle", "done", "dead"}
  /\ launch' = [launch EXCEPT ![p] = [pc |-> "dead"]]
  /\ UNCHANGED <<Config, appServer>>

LaunchNext(edit) ==
  \/ \E p \in Launchers :
       \/ \E cli \in {"claude", "codex", "opencode"} : LaunchCli(p, cli)
       \/ ReadClaude(p) \/ ReadCodex(p) \/ VerifyCompatible(p) \/ FinalizeCodex(p)
       \/ \E skip \in BOOLEAN : InspectCodex(p, skip) \/ ReadOpenCode(p, skip)
       \/ QueryFails(p)
       \/ PruneScan(p) \/ PruneRemove(p) \/ SpawnServer(p) \/ FillPid(p)
       \/ ProbeReady(p) \/ GiveUp(p)
       \/ StartAgent(p) \/ AgentRefused(p) \/ BindOpenCode(p) \/ AgentExits(p)
       \/ LauncherDies(p)
  \/ \E s \in Servers : ServerListens(s) \/ ServerExits(s)
  \/ \E f \in edit : EditConfig(f)

\* The given launchers launch while the user's layer is edited to one of the given ones.
LaunchSpec(about, edit) == LaunchInit(about) /\ [][LaunchNext(edit)]_launchVars

-----------------------------------------------------------------------------
\* What the operator's own configuration gives n in the terminal client, before Borg adds
\* anything.
OwnMode(n) == ModeOf(Completed(TuiConfig(cfg, user, NoPolicy, NoPolicy)), n)

\* A launch never changes what the operator's configuration says about any tool but the
\* coordination tools, never lifts a managed rule, disables exactly what was disabled, and
\* treats a tool and its legacy alias alike, in the server that runs the tools as in the
\* rules OpenCode gets, whatever profile, options and layers they came from
\* (cli-tool-approval.ts:393-413, 443-448, 776-808).  An edit of the configuration during the
\* launch is excepted: the decision was made on what was read.
PolicyPreserved ==
  \A p \in Launchers \ overtaken : launch[p].pc = "running" =>
    /\ launch[p].cli = "codex" =>
         LET run == ServerConfig(cfg, user, Then(launch[p].approval, launch[p].compat))
             own == Completed(TuiConfig(cfg, user, NoPolicy, NoPolicy))
         IN  /\ ModeOf(run, "other") = OwnMode("other")
             /\ ModeOf(run, "tool") \in {OwnMode("tool"), "auto"}
             /\ cfg.managed.tools["tool"] # "none" => ModeOf(run, "tool") = cfg.managed.tools["tool"]
             /\ ModeOf(run, "tool") = ModeOf(run, "alias")
             /\ \A n \in Names : Disabled(run, n) <=> Disabled(own, n)
    /\ launch[p].cli = "opencode" /\ launch[p].permission # <<>> =>
         /\ Permission(launch[p].permission, "other") = Permission(rules \o cfg.managedRules, "other")
         /\ Permission(launch[p].permission, "tool") = Permission(launch[p].permission, "alias")

\* A running Codex session's server keeps its socket until its own launch cleans it up,
\* however many launches prune the shared runtime directory meanwhile
\* (codex-remote.ts:250-278): unless a pruning launch read its pid file half written.
RunningSocketKept ==
  \A p \in Launchers :
    launch[p].pc = "running" /\ launch[p].cli = "codex" /\ appServer[Own(p)].alive
      => appServer[Own(p)].sock \/ Own(p) \in misread
=============================================================================
