------------------------------- MODULE Update -------------------------------
(***************************************************************************)
(* borg update and borg setup (update-cmd.ts, first-run-server.ts,         *)
(* setup.ts), with what they call: the agents' configuration (AgentHooks)  *)
(* and the Hermes plugin (HermesPlugin).  Client and server are published  *)
(* one after the other, and each release pins the package they share: a    *)
(* client and a server agree if they pin the same.  An update reads both   *)
(* latest releases, installs the client, goes on in the new client with    *)
(* the releases it was given, then installs the server and has it change   *)
(* its runtime, and checks everything again.                               *)
(*                                                                         *)
(* One of these commands at a time; a launch of an agent overlaps any.     *)
(* Abstracted: versions are numbers, integrity digests and npm's prefix    *)
(* and registry are those of the release, the server's own update is what  *)
(* its reports can say.                                                    *)
(***************************************************************************)
EXTENDS HermesPlugin, AgentHooks

CONSTANT MaxPublished

ASSUME UpdateAssumption == MaxPublished \in Nat

VARIABLES
    registry,   \* the latest published client and server
    server,     \* the installed server controller, 0 if none
    runtime,    \* what the server has prepared and runs
    plan,       \* what the command resolved
    meddled     \* ghost: somebody else changed an installation since it was checked

uVars == <<registry, server, runtime, plan, meddled>>
vars == <<client, budget, hVars, kVars, uVars>>

sharedVersion(r) == (r + 1) \div 2

NoPlan == [client |-> 0, server |-> 0, present |-> FALSE, pinned |-> FALSE, running |-> FALSE,
           runs |-> FALSE, ops |-> <<>>]

UpdateInit ==
    /\ client = 1
    /\ server \in {0, 1}
    /\ runtime \in {[prepared |-> server, running |-> r] : r \in {0, server}}
    /\ plan = NoPlan /\ meddled = FALSE

\* A release of the client, or of the server, appears.
Publish ==
    \E p \in {"client", "server"} :
        /\ budget.published < MaxPublished /\ Spend("published")
        /\ registry' = [registry EXCEPT ![p] = @ + 1]
        /\ UNCHANGED <<client, hVars, kVars, server, runtime, plan, meddled>>

Quits == End /\ plan' = NoPlan

At1(l) == cmd.kind \in {"update", "setup"} /\ cmd.at = l

-----------------------------------------------------------------------------
(* borg update                                                             *)

runUpdate ==
    /\ cmd = Idle /\ budget.runs < MaxRuns /\ Spend("runs")
    /\ cmd' = [Idle EXCEPT !.kind = "update", !.at = "resolve"]
    /\ UNCHANGED <<client, disk, record, gateway, edited, kVars, uVars>>

\* Two requests, answered in any order; a release named by the first process is
\* the same when the new client asks again.
publishedPackage ==
    /\ At1("resolve") /\ cmd.kind = "update"
    /\ \E p \in {"client", "server"} :
          plan[p] = 0 /\ plan' = [plan EXCEPT ![p] = registry[p]]
    /\ UNCHANGED <<client, budget, hVars, kVars, registry, server, runtime, meddled>>

\* MUTANT of publishedPair: the pins are not compared.
AnyPair(c, s) == TRUE

publishedPair(c, s) == sharedVersion(c) = sharedVersion(s)

\* A server that was there before the client changed must still be.
serverWasPresent == IF plan.pinned THEN plan.present ELSE server # 0

\* Preflight, and the question unless it is the new client that goes on.
confirmUpdate ==
    /\ At1("resolve") /\ plan.client # 0 /\ plan.server # 0
    /\ \/ /\ publishedPair(plan.client, plan.server)
          /\ ~(plan.pinned /\ plan.present /\ server = 0)
          /\ plan' = [plan EXCEPT !.present = serverWasPresent]
          /\ To(IF client # plan.client THEN "client"
                ELSE IF serverWasPresent THEN "server" ELSE "refresh")
       \/ /\ \/ ~publishedPair(plan.client, plan.server) \/ ~plan.pinned
             \/ (plan.present /\ server = 0)
          /\ Quits
    /\ UNCHANGED <<client, disk, record, gateway, edited, budget, kVars, registry, server, runtime, meddled>>

\* Installed and verified, and the new program goes on with what was resolved;
\* or npm fails, or the program cannot be started.
installClient ==
    /\ At1("client")
    /\ \/ /\ client' = plan.client /\ plan' = [plan EXCEPT !.pinned = TRUE]
          /\ To("resolve") /\ UNCHANGED budget
       \/ client' \in {client, plan.client} /\ Fault /\ Quits
    /\ UNCHANGED <<disk, record, gateway, edited, kVars, registry, server, runtime, meddled>>

installServer ==
    /\ At1("server")
    /\ \/ server' = plan.server /\ To("status") /\ UNCHANGED <<budget, plan>>
       \/ server' \in {server, plan.server} /\ Fault /\ Quits
    /\ UNCHANGED <<client, disk, record, gateway, edited, kVars, registry, runtime, meddled>>

verifyServerStatus ==
    server = plan.server /\ runtime.prepared = plan.server /\ runtime.running \in {0, plan.server}

\* The controller must be the one installed; a runtime that is not makes it update.
serverStatus ==
    /\ At1("status")
    /\ \/ /\ server = plan.server
          /\ plan' = [plan EXCEPT !.running = runtime.running # 0, !.runs = runtime.running # 0]
          /\ To(IF verifyServerStatus THEN "verify" ELSE "activate")
       \/ server # plan.server /\ Quits
    /\ UNCHANGED <<client, disk, record, gateway, edited, budget, kVars, registry, server, runtime, meddled>>

\* The server prepares its new runtime and restarts, or says it failed and what
\* it recovered.
serverUpdate ==
    /\ At1("activate")
    /\ \/ /\ runtime' = [prepared |-> server, running |-> IF runtime.running = 0 THEN 0 ELSE server]
          /\ To("recheck") /\ UNCHANGED <<budget, plan>>
       \/ /\ Fault /\ Quits
          /\ \/ UNCHANGED runtime
             \/ runtime' = [runtime EXCEPT !.running = 0]
             \/ runtime' = [prepared |-> server, running |-> 0]
    /\ UNCHANGED <<client, disk, record, gateway, edited, kVars, registry, server, meddled>>

serverRecheck ==
    /\ At1("recheck")
    /\ \/ verifyServerStatus /\ plan' = [plan EXCEPT !.runs = runtime.running # 0] /\ To("verify")
       \/ ~verifyServerStatus /\ Quits
    /\ UNCHANGED <<client, disk, record, gateway, edited, budget, kVars, registry, server, runtime, meddled>>

finalVerification ==
    client = plan.client /\ server = plan.server /\ ~(plan.running /\ ~plan.runs)

\* The packages once more; and a server that ran must run, and answer.
verifyUpdate ==
    /\ At1("verify")
    /\ \/ finalVerification /\ To("refresh") /\ meddled' = FALSE /\ UNCHANGED <<plan, budget>>
       \/ ~finalVerification /\ Quits /\ UNCHANGED <<meddled, budget>>
       \/ plan.runs /\ Fault /\ Quits /\ UNCHANGED meddled
    /\ UNCHANGED <<client, disk, record, gateway, edited, kVars, registry, server, runtime>>

refreshAgentIntegrations ==
    /\ At1("refresh")
    /\ Begins("main", "refresh", RefreshOps) /\ To("refreshing")
    /\ UNCHANGED <<client, budget, disk, record, gateway, edited, file, tasks, torn, orig, uVars>>

\* A refresh that failed ends the command; otherwise the Hermes plugin is next.
activateHermesPluginAfterUpdate ==
    /\ At1("refreshing") /\ proc["main"].at = "done"
    /\ IF proc["main"].failed THEN End ELSE activateHermesPlugin
    /\ plan' = NoPlan
    /\ UNCHANGED <<client, budget, disk, record, gateway, edited, kVars, registry, server, runtime, meddled>>

-----------------------------------------------------------------------------
(* borg setup                                                              *)

\* The newest published server that shares the client's package.
resolveCompatibleServerTarget ==
    {r \in 1..registry.server : /\ sharedVersion(r) = sharedVersion(client)
                                /\ \A q \in 1..registry.server :
                                     sharedVersion(q) = sharedVersion(client) => q <= r}

setup ==
    /\ cmd = Idle /\ budget.runs < MaxRuns /\ Spend("runs")
    /\ \E selected \in SUBSET Agents, major \in {1, 2} :
          /\ selected # {}
          /\ plan' = [NoPlan EXCEPT !.ops = SetupOps(selected, major)]
          /\ cmd' = [Idle EXCEPT !.kind = "setup", !.at = "offer"]
    /\ UNCHANGED <<client, disk, record, gateway, edited, kVars, registry, server, runtime, meddled>>

\* A server that is there is used as it is.  Else one that fits is offered.  The
\* operator declines the changes or the offer, or no server fits: nothing is written.
offerFirstRunServerInstall ==
    /\ At1("offer")
    /\ \/ server # 0 /\ To("hooks") /\ UNCHANGED <<plan, meddled>>
       \/ /\ server = 0
          /\ \E r \in resolveCompatibleServerTarget : plan' = [plan EXCEPT !.server = r]
          /\ To("install") /\ meddled' = FALSE
       \/ Quits /\ UNCHANGED meddled
    /\ UNCHANGED <<client, disk, record, gateway, edited, budget, kVars, registry, server, runtime>>

installFirstServer ==
    /\ At1("install")
    /\ \/ server' = plan.server /\ To("hooks") /\ UNCHANGED <<budget, plan>>
       \/ server' \in {server, plan.server} /\ Fault /\ Quits
    /\ UNCHANGED <<client, disk, record, gateway, edited, kVars, registry, runtime, meddled>>

\* The server is initialised, then each selected agent is configured.
initializeServer ==
    /\ At1("hooks")
    /\ \/ /\ runtime' = [runtime EXCEPT !.prepared = IF @ = 0 THEN server ELSE @]
          /\ Begins("main", "setup", plan.ops) /\ To("configuring") /\ UNCHANGED <<budget, plan>>
       \/ Fault /\ Quits /\ UNCHANGED <<runtime, proc>>
    /\ UNCHANGED <<client, disk, record, gateway, edited, file, tasks, torn, orig, registry, server, meddled>>

setupDone ==
    /\ At1("configuring") /\ proc["main"].at = "done" /\ Quits
    /\ UNCHANGED <<client, disk, record, gateway, edited, budget, kVars, registry, server, runtime, meddled>>

-----------------------------------------------------------------------------
(* Around it                                                               *)

\* The operator installs a release by hand, or removes the server.
OperatorInstalls ==
    /\ Fault /\ meddled' = TRUE
    /\ \/ client' \in (1..registry.client) \ {client} /\ UNCHANGED server
       \/ server' \in (0..registry.server) \ {server} /\ UNCHANGED client
    /\ UNCHANGED <<hVars, kVars, registry, runtime, plan>>

\* The server is started, and runs what is prepared, or stops.
ServerStartsOrStops ==
    /\ runtime.prepared # 0 /\ budget.starts < MaxStarts /\ Spend("starts")
    /\ runtime' = [runtime EXCEPT !.running = IF @ = 0 THEN runtime.prepared ELSE 0]
    /\ UNCHANGED <<client, hVars, kVars, registry, server, plan, meddled>>

\* A command dies, and with it what it does to a file.
CommandDies ==
    /\ cmd.kind \in {"update", "setup"} /\ Fault /\ Quits
    /\ IF Busy("main") THEN ProcessDies("main") ELSE UNCHANGED kVars
    /\ UNCHANGED <<client, disk, record, gateway, edited, registry, server, runtime, meddled>>

LaunchDies ==
    /\ ProcessDies("other") /\ Fault
    /\ UNCHANGED <<client, hVars, uVars>>

UpdateNext ==
    \/ runUpdate \/ publishedPackage \/ confirmUpdate \/ installClient \/ installServer
    \/ serverStatus \/ serverUpdate \/ serverRecheck \/ verifyUpdate \/ refreshAgentIntegrations
    \/ activateHermesPluginAfterUpdate
    \/ setup \/ offerFirstRunServerInstall \/ installFirstServer \/ initializeServer \/ setupDone
    \/ Publish \/ OperatorInstalls \/ ServerStartsOrStops \/ CommandDies \/ LaunchDies

Next ==
    \/ UpdateNext
    \/ (HermesCommand \/ HermesStep \/ HermesEnv) /\ UNCHANGED <<kVars, uVars>>
    \/ (LaunchAgent \/ \E s \in Slots : HookStep(s)) /\ UNCHANGED <<client, budget, hVars, uVars>>

\* From any releases, files and budget.
UpdateSpec ==
    /\ UpdateInit /\ registry \in [client : Nat, server : Nat]
    /\ HermesInit /\ HooksInit([Configs -> Contents \cup {Broken}]) /\ tasks \in Nat
    /\ budget \in [runs : Nat, faults : Nat, starts : Nat, published : Nat]
    /\ [][Next]_vars

-----------------------------------------------------------------------------
(* Properties                                                              *)

\* Once an update has checked what it installed, and after setup has installed a
\* first server, the client and the server pin the same shared package, the server
\* has prepared what is installed and runs nothing else; whatever was published,
\* failed or changed by hand before that check (publishedPair, runUpdate's final
\* verification, resolveCompatibleServerTarget).
UpdatedPairAgrees ==
    ~meddled =>
      /\ cmd.kind = "update" /\ cmd.at \in {"refresh", "refreshing"} /\ plan.present =>
           /\ sharedVersion(client) = sharedVersion(server)
           /\ runtime.prepared = server /\ runtime.running \in {0, server}
      /\ cmd.kind = "setup" /\ cmd.at \in {"hooks", "configuring"} /\ plan.server # 0 =>
           sharedVersion(client) = sharedVersion(server)
=============================================================================
