--------------------------- MODULE InstallProofs ---------------------------
(***************************************************************************)
(* Proofs about update, setup and the installer of the Hermes plugin       *)
(* (Update, HermesPlugin), about the agents' configuration files that      *)
(* setup, update and every launch edit (AgentHooks), and about the launch  *)
(* itself (AgentLaunch).                                                   *)
(*                                                                         *)
(* What an update has checked and setup installed pins one shared package; *)
(* between commands a running gateway has loaded the generation that the   *)
(* plugin's record calls active; the operator's part of each agent's       *)
(* configuration stays; no launch removes the socket of a running session; *)
(* and a launched agent runs with what the operator's configuration says   *)
(* of every tool but Borg's.                                               *)
(*                                                                         *)
(* The second rests on what a command may undo.  Each file or key is       *)
(* written once, so the files and keys with everything undone are the same *)
(* before a write and after it, and before a reversal and after it         *)
(* (Undone, RollsBack); while a generation is written no gateway that      *)
(* counts has started since its record was, and once it is written, what a *)
(* gateway loads from then on is the generation, unless the operator has   *)
(* changed a key.  An edit only ever spoils a generation (FitsSpoiled).    *)
(***************************************************************************)
EXTENDS Update, AgentLaunch, FiniteSetTheorems, FunctionTheorems, WellFoundedInduction, TLAPS

(***************************************************************************)
(* The shape of the state.                                                 *)
(***************************************************************************)
UpdatePlaces == {"resolve", "client", "server", "status", "activate", "recheck", "verify",
                 "refresh", "refreshing"}
SetupPlaces  == {"offer", "install", "hooks", "configuring"}
Writing      == {"apply", "rollback"}
Finishing    == {"finish", "restart", "restarted"}
PluginPlaces == {"begin"} \cup Writing \cup Finishing
PluginKinds  == {"install", "activate", "uninstall"}

CommandTyped(c) ==
    /\ c = [kind |-> c.kind, at |-> c.at, digest |-> c.digest, steps |-> c.steps,
            undo |-> c.undo, prev |-> c.prev, left |-> c.left, clean |-> c.clean]
    /\ c.digest \in Digests /\ c.prev \in Records \cup {Absent}
    /\ c.left \in BOOLEAN /\ c.clean \in BOOLEAN
    /\ \/ c = Idle
       \/ c.kind = "update" /\ c.at \in UpdatePlaces
       \/ c.kind = "setup" /\ c.at \in SetupPlaces
       \/ c.kind \in PluginKinds /\ c.at \in PluginPlaces

PlanTyped(p) ==
    /\ p = [client |-> p.client, server |-> p.server, present |-> p.present, pinned |-> p.pinned,
            running |-> p.running, runs |-> p.runs, ops |-> p.ops]
    /\ p.client \in Nat /\ p.server \in Nat /\ p.present \in BOOLEAN

Typed ==
    /\ CommandTyped(cmd) /\ PlanTyped(plan)
    /\ client \in Nat /\ server \in Nat /\ registry \in [client : Nat, server : Nat]
    /\ runtime \in [prepared : Nat, running : Nat]
    /\ budget \in [runs : Nat, faults : Nat, starts : Nat, published : Nat]
    /\ disk = [k \in Files \cup Keys |-> disk[k]]
    /\ record \in Records \cup {Absent}
    /\ gateway = [kind |-> gateway.kind, pid |-> gateway.pid, loaded |-> gateway.loaded,
                  amid |-> gateway.amid]
    /\ gateway.pid \in Nat /\ gateway.amid \in BOOLEAN
    /\ edited \in BOOLEAN /\ meddled \in BOOLEAN

(***************************************************************************)
(* What a command has resolved, place by place: from the confirmation on   *)
(* the releases agree, from the check of the server's report on its        *)
(* runtime is the one installed, and from the last check on both packages  *)
(* are what was resolved, unless somebody else changed one.                *)
(***************************************************************************)
UpdateAgrees ==
    cmd.kind = "update" =>
        /\ cmd.at # "resolve" => sharedVersion(plan.client) = sharedVersion(plan.server)
        /\ cmd.at = "verify" => runtime.prepared = plan.server /\ runtime.running \in {0, plan.server}
        /\ cmd.at \in {"refresh", "refreshing"} /\ plan.present /\ ~meddled =>
               /\ client = plan.client /\ server = plan.server
               /\ runtime.prepared = plan.server /\ runtime.running \in {0, plan.server}

SetupAgrees ==
    cmd.kind = "setup" =>
        /\ cmd.at = "offer" => plan.server = 0
        /\ cmd.at = "install" /\ ~meddled => sharedVersion(plan.server) = sharedVersion(client)
        /\ cmd.at \in {"hooks", "configuring"} /\ plan.server # 0 /\ ~meddled =>
               sharedVersion(server) = sharedVersion(client)

(***************************************************************************)
(* What a record says of the gateway and of the files and keys.            *)
(***************************************************************************)

\* Nothing is left to write for this generation.
CompleteFor(d, files) ==
    IF d = Absent THEN files.manifest = Absent ELSE Content(files) = d

\* A gateway has what an active record names; and one that started since a pending
\* generation began, on all of it, has that.
Fits(r, files) ==
    Running /\ ~gateway.amid =>
        /\ r = Absent => gateway.loaded = Absent
        /\ r # Absent /\ r.active => gateway.loaded = r.digest
        /\ r # Absent /\ ~r.active /\ gateway.pid # r.pid /\ CompleteFor(r.digest, files) =>
               gateway.loaded = r.digest

Describes(r, files) ==
    ~edited => /\ r = Absent => Content(files) = Absent
               /\ r # Absent /\ r.active => Content(files) = r.digest

Pending == record # Absent /\ ~record.active /\ record.digest = cmd.digest

\* The files and keys as they were before the command wrote, where what it wrote is undone.
Undone(files) ==
    /\ files = [k \in Files \cup Keys |-> files[k]]
    /\ \A u \in cmd.undo : files[u[1]] = u[2]
    /\ \A k \in Files \cup Keys : (\A u \in cmd.undo : u[1] # k) => files[k] = disk[k]

\* The plugin is enabled, if it is, with both its files.
Switched(files) ==
    /\ files.enabled \in {Absent, "on"}
    /\ files.init = Absent \/ files.manifest = Absent => files.enabled = Absent

\* Undoing what is left to undo gives a state the record before fits.
RollsBack ==
    ~cmd.left => \A files : Undone(files) =>
        Fits(cmd.prev, files) /\ Describes(cmd.prev, files) /\ Switched(files)

Wanted(d) == [init |-> d[1], manifest |-> d[2], settings |-> d[3], mcp |-> d[4], enabled |-> "on"]

\* Each file or key is written once, with what the generation wants there,
Aimed(steps, d) ==
    /\ \A s \in steps : s = <<s[1], s[2]>> /\ s[1] \in Files \cup Keys
    /\ \A s, q \in steps : s[1] = q[1] => s = q
    /\ \A s \in steps : IF d = Absent THEN s[1] = "manifest" => s[2] = Absent
                        ELSE s[2] = Wanted(d)[s[1]]

\* and what differs from the generation is still to be written.
Covers(steps, d, files) ==
    IF d = Absent THEN files.manifest = Absent \/ <<"manifest", Absent>> \in steps
    ELSE \A k \in Files \cup Keys :
            files[k] = Wanted(d)[k] \/ <<k, Wanted(d)[k]>> \in steps

Planning ==
    /\ Aimed(cmd.steps, cmd.digest)
    /\ cmd.clean => Covers(cmd.steps, cmd.digest, disk)
    /\ cmd.clean \/ edited

UndoneOnce ==
    /\ \A u \in cmd.undo : u = <<u[1], u[2], u[3]>> /\ u[1] \in Files \cup Keys
    /\ \A u, q \in cmd.undo : u[1] = q[1] => u = q

\* A removal is done when its record goes.
NamesSomething(r) == r # Absent /\ r.active => r.digest # Absent

GatewayInv ==
    /\ NamesSomething(record)
    /\ cmd.at \notin Writing => Fits(record, disk) /\ Describes(record, disk)
    /\ cmd.at = "begin" => Planning /\ cmd.undo = {} /\ cmd.prev = record /\ ~cmd.left
    /\ cmd.at = "apply" => Planning /\ ~cmd.left
                          /\ \A s \in cmd.steps, u \in cmd.undo : s[1] # u[1]
    /\ cmd.at \in Writing =>
           /\ Pending /\ UndoneOnce /\ NamesSomething(cmd.prev)
           /\ Running /\ ~gateway.amid => gateway.pid = record.pid
           /\ \A u \in cmd.undo : u[1] = "enabled" =>
                  disk.enabled \in {u[2], u[3]} \/ (edited /\ disk.enabled = Absent)
           /\ RollsBack
    /\ cmd.at \in Finishing =>
           /\ Pending
           /\ ~edited => Content(disk) = cmd.digest
           /\ Running /\ ~gateway.amid /\ (gateway.pid # record.pid \/ cmd.at = "restarted") =>
                  gateway.loaded = cmd.digest

InstallInv == Typed /\ UpdateAgrees /\ SetupAgrees /\ GatewayInv

(***************************************************************************)
(* The order of the writes: an install has both files there before it      *)
(* enables the plugin, an uninstall removes none while it is enabled, and  *)
(* undoing either keeps to that.                                           *)
(***************************************************************************)
StepsFit ==
    IF cmd.kind = "uninstall"
    THEN /\ \A s \in cmd.steps : s[2] = Absent
         /\ disk.enabled # Absent => \E s \in cmd.steps : s[1] = "enabled"
    ELSE /\ \A s \in cmd.steps : s[2] # Absent
         /\ \A s \in cmd.steps : s[1] = "enabled" => s[2] = "on" /\ disk.enabled = Absent
         /\ \A f \in Files : disk[f] = Absent => \E s \in cmd.steps : s[1] = f

UndoFits ==
    IF cmd.kind = "uninstall"
    THEN cmd.at = "rollback" \/ (\E s \in cmd.steps : s[1] \in Keys) =>
             \A u \in cmd.undo :
                 /\ u[1] \in Keys
                 /\ u[1] = "enabled" => u[2] \in {Absent, "on"}
                 /\ u[1] = "enabled" /\ u[2] # Absent => \A f \in Files : disk[f] # Absent
    ELSE /\ \A u \in cmd.undo : u[1] = "enabled" => u[2] = Absent
         /\ ~cmd.left => \A u \in cmd.undo : u[1] \in Files /\ u[2] = Absent =>
                disk.enabled = Absent \/ \E q \in cmd.undo : q[1] = "enabled"

SwitchInv ==
    /\ Switched(disk)
    /\ cmd.at \in {"begin", "apply"} => StepsFit
    /\ cmd.at \in Writing => UndoFits

-----------------------------------------------------------------------------
(* Commands that move on.                                                  *)

LEMMA IdleFacts == CommandTyped(Idle) /\ Idle.kind = "none" /\ Idle.at = "idle"
  BY DEF CommandTyped, Idle, Digests

\* The kinds of commands have their own places.
LEMMA PlaceFacts ==
    ASSUME CommandTyped(cmd)
    PROVE  /\ cmd.kind = "update" => cmd.at \in UpdatePlaces
           /\ cmd.kind = "setup" => cmd.at \in SetupPlaces
           /\ cmd.at \in UpdatePlaces => cmd.kind \in {"update"} \cup PluginKinds
           /\ cmd.kind \in {"update", "setup", "none"} => cmd.at \notin PluginPlaces
           /\ cmd.at \in PluginPlaces => cmd.kind \in PluginKinds
           /\ cmd.kind \in PluginKinds => cmd.at \in PluginPlaces
  BY IdleFacts DEF CommandTyped, UpdatePlaces, SetupPlaces, PluginPlaces, Writing, Finishing,
     PluginKinds

LEMMA PlaceOf ==
    ASSUME CommandTyped(cmd), NEW l, At1(l)
    PROVE  /\ cmd.at = l /\ cmd.at \notin PluginPlaces
           /\ l \in UpdatePlaces => cmd.kind = "update"
           /\ l \in SetupPlaces => cmd.kind = "setup"
<1>1. cmd.at = l /\ cmd.kind \in {"update", "setup"}
  BY DEF At1
<1>2. CASE cmd.kind = "update"
  <2>1. l \in UpdatePlaces /\ l \notin PluginPlaces
    BY <1>1, <1>2, PlaceFacts
  <2>2. l \notin SetupPlaces
    BY <2>1 DEF UpdatePlaces, SetupPlaces
  <2> QED
    BY <1>1, <1>2, <2>1, <2>2
<1>3. CASE cmd.kind = "setup"
  <2>1. l \in SetupPlaces /\ l \notin PluginPlaces
    BY <1>1, <1>3, PlaceFacts
  <2>2. l \notin UpdatePlaces
    BY <2>1 DEF UpdatePlaces, SetupPlaces
  <2> QED
    BY <1>1, <1>3, <2>1, <2>2
<1> QED
  BY <1>1, <1>2, <1>3

LEMMA Moves ==
    ASSUME CommandTyped(cmd), NEW l, To(l),
           \/ cmd.kind = "update" /\ l \in UpdatePlaces
           \/ cmd.kind = "setup" /\ l \in SetupPlaces
           \/ cmd.kind \in PluginKinds /\ l \in PluginPlaces
    PROVE  /\ CommandTyped(cmd') /\ cmd'.kind = cmd.kind /\ cmd'.at = l
           /\ cmd'.digest = cmd.digest /\ cmd'.steps = cmd.steps /\ cmd'.undo = cmd.undo
           /\ cmd'.prev = cmd.prev /\ cmd'.left = cmd.left /\ cmd'.clean = cmd.clean
<1>1. PICK c : c = cmd
  OBVIOUS
<1>2. cmd' = [c EXCEPT !.at = l]
  BY <1>1 DEF To
<1>3. c = [kind |-> c.kind, at |-> c.at, digest |-> c.digest, steps |-> c.steps,
           undo |-> c.undo, prev |-> c.prev, left |-> c.left, clean |-> c.clean]
  BY <1>1 DEF CommandTyped
<1> HIDE <1>1
<1>4. cmd' = [kind |-> c.kind, at |-> l, digest |-> c.digest, steps |-> c.steps,
              undo |-> c.undo, prev |-> c.prev, left |-> c.left, clean |-> c.clean]
  BY <1>2, <1>3
<1> QED
  BY <1>1, <1>4 DEF CommandTyped

LEMMA SpendTyped ==
    ASSUME Typed, NEW what \in {"runs", "faults", "starts", "published"}, Spend(what)
    PROVE  budget' \in [runs : Nat, faults : Nat, starts : Nat, published : Nat]
  BY DEF Typed, Spend

\* A step of the updater leaves the plugin as it is.
LEMMA GatewayQuiet ==
    ASSUME GatewayInv, UNCHANGED <<disk, record, gateway, edited>>,
           cmd.at \notin PluginPlaces, cmd'.at \notin PluginPlaces
    PROVE  GatewayInv'
  BY DEF GatewayInv, Fits, Describes, Running, PluginPlaces, Writing, Finishing

\* A step of the plugin leaves what an update has resolved as it is.
LEMMA AgreesKept ==
    ASSUME UpdateAgrees, SetupAgrees, UNCHANGED <<client, server, runtime, plan, meddled>>,
           \/ cmd'.kind = cmd.kind /\ cmd'.at = cmd.at
           \/ cmd'.kind \notin {"update", "setup"}
    PROVE  UpdateAgrees' /\ SetupAgrees'
  BY DEF UpdateAgrees, SetupAgrees

\* A step of update or setup: the command's place and the plan's type, and what is agreed.
LEMMA UpdaterSteps ==
    ASSUME InstallInv, cmd.at \notin PluginPlaces,
           UNCHANGED <<disk, record, gateway, edited>>,
           CommandTyped(cmd'), cmd'.at \notin PluginPlaces, PlanTyped(plan'),
           client' \in Nat, server' \in Nat, registry' \in [client : Nat, server : Nat],
           runtime' \in [prepared : Nat, running : Nat], meddled' \in BOOLEAN,
           budget' \in [runs : Nat, faults : Nat, starts : Nat, published : Nat],
           UpdateAgrees', SetupAgrees'
    PROVE  InstallInv'
  BY GatewayQuiet DEF InstallInv, Typed

LEMMA NoPlanTyped == PlanTyped(NoPlan) /\ NoPlan.server = 0
  BY DEF PlanTyped, NoPlan

\* A command that gives up.
LEMMA QuitSteps ==
    ASSUME InstallInv, Quits, cmd.at \notin PluginPlaces,
           UNCHANGED <<disk, record, gateway, edited>>,
           client' \in Nat, server' \in Nat, UNCHANGED registry,
           runtime' \in [prepared : Nat, running : Nat], meddled' \in BOOLEAN,
           UNCHANGED budget \/ Fault
    PROVE  InstallInv'
<1>1. cmd' = Idle /\ plan' = NoPlan
  BY DEF Quits, End
<1>2. CommandTyped(cmd') /\ cmd'.at \notin PluginPlaces /\ cmd'.kind = "none" /\ PlanTyped(plan')
  BY <1>1, IdleFacts, NoPlanTyped DEF PluginPlaces, Writing, Finishing
<1>3. budget' \in [runs : Nat, faults : Nat, starts : Nat, published : Nat]
  BY SpendTyped DEF Fault, InstallInv, Typed
<1>4. UpdateAgrees' /\ SetupAgrees'
  BY <1>2 DEF UpdateAgrees, SetupAgrees
<1> QED
  BY <1>2, <1>3, <1>4, UpdaterSteps DEF InstallInv, Typed

-----------------------------------------------------------------------------
(* borg update                                                             *)

LEMMA runUpdateInv ==
    ASSUME InstallInv, runUpdate
    PROVE  InstallInv'
<1>1. cmd' = [Idle EXCEPT !.kind = "update", !.at = "resolve"] /\ cmd = Idle
  BY DEF runUpdate
<1>2. CommandTyped(cmd') /\ cmd'.kind = "update" /\ cmd'.at = "resolve"
  BY <1>1 DEF CommandTyped, Idle, UpdatePlaces, Digests
<1>3. cmd.at \notin PluginPlaces /\ cmd'.at \notin PluginPlaces
  BY <1>1, <1>2, IdleFacts DEF PluginPlaces, Writing, Finishing
<1>4. UpdateAgrees' /\ SetupAgrees'
  BY <1>2 DEF UpdateAgrees, SetupAgrees
<1>5. budget' \in [runs : Nat, faults : Nat, starts : Nat, published : Nat]
  BY SpendTyped DEF runUpdate, InstallInv
<1> QED
  BY <1>2, <1>3, <1>4, <1>5, UpdaterSteps DEF runUpdate, uVars, InstallInv, Typed

LEMMA publishedPackageInv ==
    ASSUME InstallInv, publishedPackage
    PROVE  InstallInv'
<1>1. cmd.kind = "update" /\ cmd.at = "resolve" /\ cmd.at \notin PluginPlaces
  BY DEF publishedPackage, At1, PluginPlaces, Writing, Finishing
<1>2. PICK p \in {"client", "server"} : plan' = [plan EXCEPT ![p] = registry[p]]
  BY DEF publishedPackage
<1>3. PlanTyped(plan')
  <2>1. registry[p] \in Nat
    BY <1>2 DEF InstallInv, Typed
  <2>2. PlanTyped(plan)
    BY DEF InstallInv, Typed
  <2>3. CASE p = "client"
    BY <1>2, <2>1, <2>2, <2>3 DEF PlanTyped
  <2>4. CASE p = "server"
    BY <1>2, <2>1, <2>2, <2>4 DEF PlanTyped
  <2> QED
    BY <2>3, <2>4
<1>4. UpdateAgrees' /\ SetupAgrees'
  BY <1>1 DEF UpdateAgrees, SetupAgrees, publishedPackage, hVars
<1> QED
  BY <1>1, <1>3, <1>4, UpdaterSteps DEF publishedPackage, hVars, InstallInv, Typed

LEMMA confirmUpdateInv ==
    ASSUME InstallInv, confirmUpdate
    PROVE  InstallInv'
<1>1. CommandTyped(cmd) /\ PlanTyped(plan) /\ Typed
  BY DEF InstallInv, Typed
<1>2. cmd.kind = "update" /\ cmd.at = "resolve" /\ cmd.at \notin PluginPlaces
  BY <1>1, PlaceOf DEF confirmUpdate, UpdatePlaces
<1>3. UNCHANGED <<client, disk, record, gateway, edited, budget, registry, server, runtime, meddled>>
  BY DEF confirmUpdate
<1>4. CASE Quits
  BY <1>2, <1>3, <1>4, QuitSteps DEF InstallInv, Typed
<1>5. CASE ~Quits
  <2>1. /\ publishedPair(plan.client, plan.server)
        /\ plan' = [plan EXCEPT !.present = serverWasPresent]
    BY <1>5 DEF confirmUpdate
  <2>2. PICK l : l = IF client # plan.client THEN "client"
                     ELSE IF serverWasPresent THEN "server" ELSE "refresh"
    OBVIOUS
  <2>3. To(l)
    BY <1>5, <2>2 DEF confirmUpdate
  <2>4. l \in {"client", "server", "refresh"} /\ (l = "refresh" => serverWasPresent = FALSE)
    <3>1. serverWasPresent \in BOOLEAN
      BY <1>1 DEF serverWasPresent, PlanTyped
    <3> QED
      BY <2>2, <3>1
  <2>5. CommandTyped(cmd') /\ cmd'.kind = "update" /\ cmd'.at = l
    BY <1>1, <1>2, <2>3, <2>4, Moves DEF UpdatePlaces
  <2>6. /\ PlanTyped(plan') /\ plan'.client = plan.client /\ plan'.server = plan.server
        /\ plan'.present = serverWasPresent
    <3>1. serverWasPresent \in BOOLEAN
      BY <1>1 DEF serverWasPresent, PlanTyped
    <3> QED
      BY <1>1, <2>1, <3>1 DEF PlanTyped
  <2>7. UpdateAgrees' /\ SetupAgrees'
    BY <2>1, <2>4, <2>5, <2>6 DEF UpdateAgrees, SetupAgrees, publishedPair
  <2>8. cmd'.at \notin PluginPlaces
    BY <2>4, <2>5 DEF PluginPlaces, Writing, Finishing
  <2> QED
    BY <1>1, <1>2, <1>3, <2>5, <2>6, <2>7, <2>8, UpdaterSteps DEF Typed
<1> QED
  BY <1>4, <1>5

LEMMA installClientInv ==
    ASSUME InstallInv, installClient
    PROVE  InstallInv'
<1>1. CommandTyped(cmd) /\ PlanTyped(plan) /\ Typed
  BY DEF InstallInv, Typed
<1>2. cmd.kind = "update" /\ cmd.at = "client" /\ cmd.at \notin PluginPlaces
  BY <1>1, PlaceOf DEF installClient, UpdatePlaces
<1>3. UNCHANGED <<disk, record, gateway, edited, registry, server, runtime, meddled>>
      /\ client' \in Nat
  BY <1>1 DEF installClient, Typed, PlanTyped
<1>4. CASE Fault /\ Quits
  BY <1>1, <1>2, <1>3, <1>4, QuitSteps DEF Typed
<1>5. CASE /\ plan' = [plan EXCEPT !.pinned = TRUE]
           /\ To("resolve") /\ UNCHANGED budget
  <2>1. CommandTyped(cmd') /\ cmd'.kind = "update" /\ cmd'.at = "resolve"
    BY <1>1, <1>2, <1>5, Moves DEF UpdatePlaces
  <2>2. PlanTyped(plan')
    BY <1>1, <1>5 DEF PlanTyped
  <2>3. UpdateAgrees' /\ SetupAgrees'
    BY <2>1 DEF UpdateAgrees, SetupAgrees
  <2>4. cmd'.at \notin PluginPlaces
    BY <2>1 DEF PluginPlaces, Writing, Finishing
  <2> QED
    BY <1>1, <1>2, <1>3, <1>5, <2>1, <2>2, <2>3, <2>4, UpdaterSteps DEF Typed
<1> QED
  BY <1>4, <1>5 DEF installClient

LEMMA installServerInv ==
    ASSUME InstallInv, installServer
    PROVE  InstallInv'
<1>1. CommandTyped(cmd) /\ PlanTyped(plan) /\ Typed
  BY DEF InstallInv, Typed
<1>2. cmd.kind = "update" /\ cmd.at = "server" /\ cmd.at \notin PluginPlaces
  BY <1>1, PlaceOf DEF installServer, UpdatePlaces
<1>3. UNCHANGED <<client, disk, record, gateway, edited, registry, runtime, meddled>>
      /\ server' \in Nat
  BY <1>1 DEF installServer, Typed, PlanTyped
<1>4. CASE Fault /\ Quits
  BY <1>1, <1>2, <1>3, <1>4, QuitSteps DEF Typed
<1>5. CASE To("status") /\ UNCHANGED <<budget, plan>>
  <2>1. CommandTyped(cmd') /\ cmd'.kind = "update" /\ cmd'.at = "status"
    BY <1>1, <1>2, <1>5, Moves DEF UpdatePlaces
  <2>2. UpdateAgrees' /\ SetupAgrees'
    BY <1>2, <1>5, <2>1 DEF UpdateAgrees, SetupAgrees, InstallInv
  <2>3. cmd'.at \notin PluginPlaces
    BY <2>1 DEF PluginPlaces, Writing, Finishing
  <2> QED
    BY <1>1, <1>2, <1>3, <1>5, <2>1, <2>2, <2>3, UpdaterSteps DEF Typed
<1> QED
  BY <1>4, <1>5 DEF installServer

LEMMA serverStatusInv ==
    ASSUME InstallInv, serverStatus
    PROVE  InstallInv'
<1>1. CommandTyped(cmd) /\ PlanTyped(plan) /\ Typed
  BY DEF InstallInv, Typed
<1>2. cmd.kind = "update" /\ cmd.at = "status" /\ cmd.at \notin PluginPlaces
  BY <1>1, PlaceOf DEF serverStatus, UpdatePlaces
<1>3. UNCHANGED <<client, disk, record, gateway, edited, budget, registry, server, runtime, meddled>>
  BY DEF serverStatus
<1>4. CASE Quits
  BY <1>1, <1>2, <1>3, <1>4, QuitSteps DEF Typed
<1>5. CASE ~Quits
  <2>1. PICK runs : plan' = [plan EXCEPT !.running = runs, !.runs = runs]
    BY <1>5 DEF serverStatus
  <2>2. PICK l \in {"verify", "activate"} : To(l) /\ (l = "verify" => verifyServerStatus)
    BY <1>5 DEF serverStatus
  <2>3. CommandTyped(cmd') /\ cmd'.kind = "update" /\ cmd'.at = l
    BY <1>1, <1>2, <2>2, Moves DEF UpdatePlaces
  <2>4. PlanTyped(plan') /\ plan'.client = plan.client /\ plan'.server = plan.server
        /\ plan'.present = plan.present
    BY <1>1, <2>1 DEF PlanTyped
  <2>5. UpdateAgrees' /\ SetupAgrees'
    BY <1>2, <1>3, <2>2, <2>3, <2>4 DEF UpdateAgrees, SetupAgrees, InstallInv, verifyServerStatus
  <2>6. cmd'.at \notin PluginPlaces
    BY <2>3 DEF PluginPlaces, Writing, Finishing
  <2> QED
    BY <1>1, <1>2, <1>3, <2>3, <2>4, <2>5, <2>6, UpdaterSteps DEF Typed
<1> QED
  BY <1>4, <1>5

LEMMA serverUpdateInv ==
    ASSUME InstallInv, serverUpdate
    PROVE  InstallInv'
<1>1. CommandTyped(cmd) /\ PlanTyped(plan) /\ Typed
  BY DEF InstallInv, Typed
<1>2. cmd.kind = "update" /\ cmd.at = "activate" /\ cmd.at \notin PluginPlaces
  BY <1>1, PlaceOf DEF serverUpdate, UpdatePlaces
<1>3. UNCHANGED <<client, disk, record, gateway, edited, registry, server, meddled>>
      /\ runtime' \in [prepared : Nat, running : Nat]
  BY <1>1 DEF serverUpdate, Typed
<1>4. CASE Fault /\ Quits
  BY <1>1, <1>2, <1>3, <1>4, QuitSteps DEF Typed
<1>5. CASE To("recheck") /\ UNCHANGED <<budget, plan>>
  <2>1. CommandTyped(cmd') /\ cmd'.kind = "update" /\ cmd'.at = "recheck"
    BY <1>1, <1>2, <1>5, Moves DEF UpdatePlaces
  <2>2. UpdateAgrees' /\ SetupAgrees'
    BY <1>2, <1>5, <2>1 DEF UpdateAgrees, SetupAgrees, InstallInv
  <2>3. cmd'.at \notin PluginPlaces
    BY <2>1 DEF PluginPlaces, Writing, Finishing
  <2> QED
    BY <1>1, <1>2, <1>3, <1>5, <2>1, <2>2, <2>3, UpdaterSteps DEF Typed
<1> QED
  BY <1>4, <1>5 DEF serverUpdate

LEMMA serverRecheckInv ==
    ASSUME InstallInv, serverRecheck
    PROVE  InstallInv'
<1>1. CommandTyped(cmd) /\ PlanTyped(plan) /\ Typed
  BY DEF InstallInv, Typed
<1>2. cmd.kind = "update" /\ cmd.at = "recheck" /\ cmd.at \notin PluginPlaces
  BY <1>1, PlaceOf DEF serverRecheck, UpdatePlaces
<1>3. UNCHANGED <<client, disk, record, gateway, edited, budget, registry, server, runtime, meddled>>
  BY DEF serverRecheck
<1>4. CASE Quits
  BY <1>1, <1>2, <1>3, <1>4, QuitSteps DEF Typed
<1>5. CASE ~Quits
  <2>1. PICK runs : plan' = [plan EXCEPT !.runs = runs]
    BY <1>5 DEF serverRecheck
  <2>2. To("verify") /\ verifyServerStatus
    BY <1>5 DEF serverRecheck
  <2>3. CommandTyped(cmd') /\ cmd'.kind = "update" /\ cmd'.at = "verify"
    BY <1>1, <1>2, <2>2, Moves DEF UpdatePlaces
  <2>4. PlanTyped(plan') /\ plan'.client = plan.client /\ plan'.server = plan.server
        /\ plan'.present = plan.present
    BY <1>1, <2>1 DEF PlanTyped
  <2>5. UpdateAgrees' /\ SetupAgrees'
    BY <1>2, <1>3, <2>2, <2>3, <2>4 DEF UpdateAgrees, SetupAgrees, InstallInv, verifyServerStatus
  <2>6. cmd'.at \notin PluginPlaces
    BY <2>3 DEF PluginPlaces, Writing, Finishing
  <2> QED
    BY <1>1, <1>2, <1>3, <2>3, <2>4, <2>5, <2>6, UpdaterSteps DEF Typed
<1> QED
  BY <1>4, <1>5

LEMMA verifyUpdateInv ==
    ASSUME InstallInv, verifyUpdate
    PROVE  InstallInv'
<1>1. CommandTyped(cmd) /\ PlanTyped(plan) /\ Typed
  BY DEF InstallInv, Typed
<1>2. cmd.kind = "update" /\ cmd.at = "verify" /\ cmd.at \notin PluginPlaces
  BY <1>1, PlaceOf DEF verifyUpdate, UpdatePlaces
<1>3. UNCHANGED <<client, disk, record, gateway, edited, registry, server, runtime>>
  BY DEF verifyUpdate
<1>4. CASE Quits /\ UNCHANGED meddled /\ (UNCHANGED budget \/ Fault)
  BY <1>1, <1>2, <1>3, <1>4, QuitSteps DEF Typed
<1>5. CASE finalVerification /\ To("refresh") /\ meddled' = FALSE /\ UNCHANGED <<plan, budget>>
  <2>1. CommandTyped(cmd') /\ cmd'.kind = "update" /\ cmd'.at = "refresh"
    BY <1>1, <1>2, <1>5, Moves DEF UpdatePlaces
  <2>2. UpdateAgrees' /\ SetupAgrees'
    BY <1>2, <1>3, <1>5, <2>1 DEF UpdateAgrees, SetupAgrees, InstallInv, finalVerification
  <2>3. cmd'.at \notin PluginPlaces
    BY <2>1 DEF PluginPlaces, Writing, Finishing
  <2> QED
    BY <1>1, <1>2, <1>3, <1>5, <2>1, <2>2, <2>3, UpdaterSteps DEF Typed
<1> QED
  BY <1>4, <1>5 DEF verifyUpdate

LEMMA refreshAgentIntegrationsInv ==
    ASSUME InstallInv, refreshAgentIntegrations
    PROVE  InstallInv'
<1>1. CommandTyped(cmd) /\ PlanTyped(plan) /\ Typed
  BY DEF InstallInv, Typed
<1>2. cmd.kind = "update" /\ cmd.at = "refresh" /\ cmd.at \notin PluginPlaces
  BY <1>1, PlaceOf DEF refreshAgentIntegrations, UpdatePlaces
<1>3. UNCHANGED <<client, budget, disk, record, gateway, edited, uVars>> /\ To("refreshing")
  BY DEF refreshAgentIntegrations
<1>4. CommandTyped(cmd') /\ cmd'.kind = "update" /\ cmd'.at = "refreshing"
  BY <1>1, <1>2, <1>3, Moves DEF UpdatePlaces
<1>5. UpdateAgrees' /\ SetupAgrees'
  BY <1>2, <1>3, <1>4 DEF UpdateAgrees, SetupAgrees, InstallInv, uVars
<1>6. cmd'.at \notin PluginPlaces
  BY <1>4 DEF PluginPlaces, Writing, Finishing
<1> QED
  BY <1>1, <1>2, <1>3, <1>4, <1>5, <1>6, UpdaterSteps DEF Typed, uVars

-----------------------------------------------------------------------------
(* borg setup                                                              *)

LEMMA setupInv ==
    ASSUME InstallInv, setup
    PROVE  InstallInv'
<1>1. cmd = Idle /\ Typed /\ PlanTyped(plan)
  BY DEF setup, InstallInv, Typed
<1>2. PICK ops : plan' = [NoPlan EXCEPT !.ops = ops]
  BY DEF setup
<1>3. PlanTyped(plan') /\ plan'.server = 0
  BY <1>2 DEF PlanTyped, NoPlan
<1>4. cmd' = [Idle EXCEPT !.kind = "setup", !.at = "offer"]
  BY DEF setup
<1>5. CommandTyped(cmd') /\ cmd'.kind = "setup" /\ cmd'.at = "offer"
  BY <1>4 DEF CommandTyped, Idle, SetupPlaces, Digests
<1>6. cmd.at \notin PluginPlaces /\ cmd'.at \notin PluginPlaces
  BY <1>1, <1>5, IdleFacts DEF PluginPlaces, Writing, Finishing
<1>7. UpdateAgrees' /\ SetupAgrees'
  BY <1>3, <1>5 DEF UpdateAgrees, SetupAgrees
<1>8. budget' \in [runs : Nat, faults : Nat, starts : Nat, published : Nat]
  BY <1>1, SpendTyped DEF setup
<1> QED
  BY <1>1, <1>3, <1>5, <1>6, <1>7, <1>8, UpdaterSteps DEF setup, Typed

LEMMA offerInv ==
    ASSUME InstallInv, offerFirstRunServerInstall
    PROVE  InstallInv'
<1>1. CommandTyped(cmd) /\ PlanTyped(plan) /\ Typed
  BY DEF InstallInv, Typed
<1>2. cmd.kind = "setup" /\ cmd.at = "offer" /\ cmd.at \notin PluginPlaces
  BY <1>1, PlaceOf DEF offerFirstRunServerInstall, SetupPlaces
<1>3. UNCHANGED <<client, disk, record, gateway, edited, budget, registry, server, runtime>>
  BY DEF offerFirstRunServerInstall
<1>4. CASE Quits /\ UNCHANGED meddled
  BY <1>1, <1>2, <1>3, <1>4, QuitSteps DEF Typed
<1>5. CASE To("hooks") /\ UNCHANGED <<plan, meddled>>
  <2>1. CommandTyped(cmd') /\ cmd'.kind = "setup" /\ cmd'.at = "hooks"
    BY <1>1, <1>2, <1>5, Moves DEF SetupPlaces
  <2>2. UpdateAgrees' /\ SetupAgrees'
    BY <1>2, <1>5, <2>1 DEF UpdateAgrees, SetupAgrees, InstallInv
  <2>3. cmd'.at \notin PluginPlaces
    BY <2>1 DEF PluginPlaces, Writing, Finishing
  <2> QED
    BY <1>1, <1>2, <1>3, <1>5, <2>1, <2>2, <2>3, UpdaterSteps DEF Typed
<1>6. CASE /\ \E r \in resolveCompatibleServerTarget : plan' = [plan EXCEPT !.server = r]
           /\ To("install") /\ meddled' = FALSE
  <2>1. PICK r \in resolveCompatibleServerTarget : plan' = [plan EXCEPT !.server = r]
    BY <1>6
  <2>2. r \in Nat /\ sharedVersion(r) = sharedVersion(client)
    BY <1>1 DEF resolveCompatibleServerTarget, Typed
  <2>3. PlanTyped(plan') /\ plan'.server = r
    BY <1>1, <2>1, <2>2 DEF PlanTyped
  <2>4. CommandTyped(cmd') /\ cmd'.kind = "setup" /\ cmd'.at = "install"
    BY <1>1, <1>2, <1>6, Moves DEF SetupPlaces
  <2>5. UpdateAgrees' /\ SetupAgrees'
    BY <1>3, <2>2, <2>3, <2>4 DEF UpdateAgrees, SetupAgrees
  <2>6. cmd'.at \notin PluginPlaces
    BY <2>4 DEF PluginPlaces, Writing, Finishing
  <2> QED
    BY <1>1, <1>2, <1>3, <1>6, <2>3, <2>4, <2>5, <2>6, UpdaterSteps DEF Typed
<1> QED
  BY <1>4, <1>5, <1>6 DEF offerFirstRunServerInstall

LEMMA installFirstServerInv ==
    ASSUME InstallInv, installFirstServer
    PROVE  InstallInv'
<1>1. CommandTyped(cmd) /\ PlanTyped(plan) /\ Typed
  BY DEF InstallInv, Typed
<1>2. cmd.kind = "setup" /\ cmd.at = "install" /\ cmd.at \notin PluginPlaces
  BY <1>1, PlaceOf DEF installFirstServer, SetupPlaces
<1>3. UNCHANGED <<client, disk, record, gateway, edited, registry, runtime, meddled>>
      /\ server' \in Nat
  BY <1>1 DEF installFirstServer, Typed, PlanTyped
<1>4. CASE Fault /\ Quits
  BY <1>1, <1>2, <1>3, <1>4, QuitSteps DEF Typed
<1>5. CASE server' = plan.server /\ To("hooks") /\ UNCHANGED <<budget, plan>>
  <2>1. CommandTyped(cmd') /\ cmd'.kind = "setup" /\ cmd'.at = "hooks"
    BY <1>1, <1>2, <1>5, Moves DEF SetupPlaces
  <2>2. UpdateAgrees' /\ SetupAgrees'
    BY <1>2, <1>3, <1>5, <2>1 DEF UpdateAgrees, SetupAgrees, InstallInv
  <2>3. cmd'.at \notin PluginPlaces
    BY <2>1 DEF PluginPlaces, Writing, Finishing
  <2> QED
    BY <1>1, <1>2, <1>3, <1>5, <2>1, <2>2, <2>3, UpdaterSteps DEF Typed
<1> QED
  BY <1>4, <1>5 DEF installFirstServer

LEMMA initializeServerInv ==
    ASSUME InstallInv, initializeServer
    PROVE  InstallInv'
<1>1. CommandTyped(cmd) /\ PlanTyped(plan) /\ Typed
  BY DEF InstallInv, Typed
<1>2. cmd.kind = "setup" /\ cmd.at = "hooks" /\ cmd.at \notin PluginPlaces
  BY <1>1, PlaceOf DEF initializeServer, SetupPlaces
<1>3. UNCHANGED <<client, disk, record, gateway, edited, registry, server, meddled>>
      /\ runtime' \in [prepared : Nat, running : Nat]
  BY <1>1 DEF initializeServer, Typed
<1>4. CASE Fault /\ Quits
  BY <1>1, <1>2, <1>3, <1>4, QuitSteps DEF Typed
<1>5. CASE To("configuring") /\ UNCHANGED <<budget, plan>>
  <2>1. CommandTyped(cmd') /\ cmd'.kind = "setup" /\ cmd'.at = "configuring"
    BY <1>1, <1>2, <1>5, Moves DEF SetupPlaces
  <2>2. UpdateAgrees' /\ SetupAgrees'
    BY <1>2, <1>3, <1>5, <2>1 DEF UpdateAgrees, SetupAgrees, InstallInv
  <2>3. cmd'.at \notin PluginPlaces
    BY <2>1 DEF PluginPlaces, Writing, Finishing
  <2> QED
    BY <1>1, <1>2, <1>3, <1>5, <2>1, <2>2, <2>3, UpdaterSteps DEF Typed
<1> QED
  BY <1>4, <1>5 DEF initializeServer

LEMMA EndsInv ==
    ASSUME InstallInv, setupDone \/ CommandDies
    PROVE  InstallInv'
<1>1. CommandTyped(cmd) /\ Typed
  BY DEF InstallInv, Typed
<1>2. cmd.kind \in {"update", "setup"}
  BY DEF setupDone, CommandDies, At1
<1>3. cmd.at \notin PluginPlaces
  BY <1>1, <1>2, PlaceFacts
<1>4. /\ Quits /\ UNCHANGED <<client, disk, record, gateway, edited, registry, server, runtime, meddled>>
      /\ (UNCHANGED budget \/ Fault)
  BY DEF setupDone, CommandDies
<1> QED
  BY <1>1, <1>3, <1>4, QuitSteps DEF Typed

\* Releases appear, the operator installs by hand, the server starts and stops, launches
\* configure agents: no command moves, and what it checked still holds or was meddled with.
LEMMA AroundInv ==
    ASSUME InstallInv,
           \/ Publish \/ OperatorInstalls \/ ServerStartsOrStops \/ LaunchDies
           \/ UNCHANGED <<client, budget, hVars, uVars>>
    PROVE  InstallInv'
<1>1. Typed /\ UNCHANGED hVars
  BY DEF InstallInv, Publish, OperatorInstalls, ServerStartsOrStops, LaunchDies
<1>2. budget' \in [runs : Nat, faults : Nat, starts : Nat, published : Nat]
  BY <1>1, SpendTyped DEF Publish, OperatorInstalls, ServerStartsOrStops, LaunchDies, Fault, Typed
<1>3. UNCHANGED plan
  BY DEF Publish, OperatorInstalls, ServerStartsOrStops, LaunchDies, uVars
<1>4. /\ client' \in Nat /\ server' \in Nat /\ runtime' \in [prepared : Nat, running : Nat]
      /\ registry' \in [client : Nat, server : Nat] /\ meddled' \in BOOLEAN
  <2>1. CASE Publish
    BY <1>1, <2>1 DEF Publish, Typed
  <2>2. CASE OperatorInstalls
    BY <1>1, <2>2 DEF OperatorInstalls, Typed
  <2>3. CASE ServerStartsOrStops
    BY <1>1, <2>3 DEF ServerStartsOrStops, Typed
  <2>4. CASE LaunchDies \/ UNCHANGED <<client, budget, hVars, uVars>>
    BY <1>1, <2>4 DEF LaunchDies, uVars, Typed
  <2> QED
    BY <2>1, <2>2, <2>3, <2>4
<1>5. UpdateAgrees' /\ SetupAgrees'
  <2>1. CASE OperatorInstalls
    BY <1>1, <2>1 DEF OperatorInstalls, UpdateAgrees, SetupAgrees, InstallInv, hVars
  <2>2. CASE ServerStartsOrStops
    <3>1. runtime'.prepared = runtime.prepared /\ runtime'.running \in {0, runtime.prepared}
      BY <1>1, <2>2 DEF ServerStartsOrStops, Typed
    <3> QED
      BY <1>1, <2>2, <3>1 DEF ServerStartsOrStops, UpdateAgrees, SetupAgrees, InstallInv, hVars
  <2>3. CASE Publish \/ LaunchDies \/ UNCHANGED <<client, budget, hVars, uVars>>
    BY <1>1, <2>3, AgreesKept DEF Publish, LaunchDies, uVars, hVars, InstallInv
  <2> QED
    BY <2>1, <2>2, <2>3
<1>6. GatewayInv'
  <2>1. disk' = disk /\ record' = record /\ gateway' = gateway /\ cmd' = cmd /\ edited' = edited
    BY <1>1 DEF hVars
  <2>2. RollsBack' <=> RollsBack
    BY <2>1 DEF RollsBack, Undone, Fits, Describes, Switched, Running
  <2>3. Planning' <=> Planning
    BY <2>1 DEF Planning
  <2>4. UndoneOnce' <=> UndoneOnce
    BY <2>1 DEF UndoneOnce
  <2>5. Fits(record, disk)' <=> Fits(record, disk)
    BY <2>1 DEF Fits, Running
  <2>6. Describes(record, disk)' <=> Describes(record, disk)
    BY <2>1 DEF Describes
  <2> QED
    BY <2>1, <2>2, <2>3, <2>4, <2>5, <2>6 DEF InstallInv, GatewayInv, Running, Pending
<1> QED
  BY <1>1, <1>2, <1>3, <1>4, <1>5, <1>6 DEF InstallInv, Typed, hVars

-----------------------------------------------------------------------------
(* The plugin's commands.                                                  *)

\* What an operator's edit of a key leaves complete was complete before it.
Spoiled(files, before) ==
    /\ files.init = before.init /\ files.manifest = before.manifest
    /\ files.settings \in {before.settings, Foreign}
    /\ files.mcp \in {before.mcp, Foreign}
    /\ files.enabled \in {before.enabled, Absent}

LEMMA EditsOnlySpoil ==
    ASSUME NEW files, NEW before, Spoiled(files, before), NEW d \in Digests, CompleteFor(d, files)
    PROVE  CompleteFor(d, before)
<1>1. CASE d = Absent
  BY <1>1 DEF CompleteFor, Spoiled
<1>2. CASE d # Absent
  <2>1. d \in Nat \X Nat \X Targets \X Targets /\ Content(files) = d
    BY <1>2 DEF Digests, CompleteFor
  <2>2. /\ files.manifest # Absent /\ files.enabled # Absent
        /\ d = <<files.init, files.manifest, files.settings, files.mcp>>
    BY <1>2, <2>1 DEF Content
  <2>3. files.settings \in Targets /\ files.mcp \in Targets
    BY <2>1, <2>2
  <2>4. files.settings = before.settings /\ files.mcp = before.mcp /\ files.enabled = before.enabled
    BY <2>2, <2>3, HermesAssumption DEF Spoiled
  <2> QED
    BY <1>2, <2>2, <2>4 DEF CompleteFor, Content, Spoiled
<1> QED
  BY <1>1, <1>2

LEMMA FitsSpoiled ==
    ASSUME NEW r \in Records \cup {Absent}, NEW files, NEW before, Spoiled(files, before),
           Fits(r, before)
    PROVE  Fits(r, files)
<1>1. r # Absent => r.digest \in Digests
  BY DEF Records
<1> QED
  BY <1>1, EditsOnlySpoil DEF Fits

\* What a new generation names, and what is written for it.
LEMMA PlannedFacts ==
    ASSUME NEW kind \in PluginKinds, NEW at \in PluginPlaces, NEW d \in Digests, NEW steps,
           Planned(kind, at, d, steps), Typed
    PROVE  /\ CommandTyped(cmd') /\ cmd'.kind = kind /\ cmd'.at = at /\ cmd'.digest = d
           /\ cmd'.steps = steps /\ cmd'.undo = {} /\ cmd'.prev = record
           /\ cmd'.left = FALSE /\ cmd'.clean = TRUE
  BY DEF Planned, Idle, CommandTyped, Typed

\* A command that plans what to write, or goes on with a generation that is all written.
LEMMA PlannedInv ==
    ASSUME InstallInv, cmd.at \notin PluginPlaces,
           NEW kind \in PluginKinds, NEW d \in Digests, NEW steps,
           UNCHANGED <<disk, record, gateway, edited>>,
           \/ Planned(kind, "begin", d, steps) /\ Aimed(steps, d) /\ Covers(steps, d, disk)
           \/ /\ Planned(kind, "finish", d, steps)
              /\ record # Absent /\ record.digest = d /\ ~record.active /\ CompleteFor(d, disk)
    PROVE  GatewayInv' /\ CommandTyped(cmd') /\ cmd'.kind = kind
<1>0. Typed /\ GatewayInv /\ Fits(record, disk) /\ Describes(record, disk)
  BY DEF InstallInv, GatewayInv, PluginPlaces
<1>1. CASE Planned(kind, "begin", d, steps) /\ Aimed(steps, d) /\ Covers(steps, d, disk)
  <2>0. "begin" \in PluginPlaces
    BY DEF PluginPlaces
  <2>1. /\ CommandTyped(cmd') /\ cmd'.kind = kind /\ cmd'.at = "begin" /\ cmd'.digest = d
        /\ cmd'.steps = steps /\ cmd'.undo = {} /\ cmd'.prev = record
        /\ cmd'.left = FALSE /\ cmd'.clean = TRUE
    BY <1>0, <1>1, <2>0, PlannedFacts
  <2>4. Planning'
    BY <1>1, <2>1 DEF Planning
  <2>5. cmd'.at \notin Writing \cup Finishing
    BY <2>1 DEF Writing, Finishing
  <2> QED
    BY <1>0, <2>1, <2>4, <2>5 DEF GatewayInv, Fits, Describes, Running, Writing
<1>2. CASE /\ Planned(kind, "finish", d, steps)
           /\ record # Absent /\ record.digest = d /\ ~record.active /\ CompleteFor(d, disk)
  <2>0. "finish" \in PluginPlaces
    BY DEF PluginPlaces, Finishing
  <2>1. /\ CommandTyped(cmd') /\ cmd'.kind = kind /\ cmd'.at = "finish" /\ cmd'.digest = d
    BY <1>0, <1>2, <2>0, PlannedFacts
  <2>2. Content(disk) = d
    BY <1>2 DEF CompleteFor, Content
  <2>3. Running /\ ~gateway.amid /\ gateway.pid # record.pid => gateway.loaded = d
    BY <1>0, <1>2 DEF Fits
  <2> QED
    BY <1>0, <1>2, <2>1, <2>2, <2>3 DEF GatewayInv, Fits, Describes, Running, Writing, Finishing, Pending
<1> QED
  BY <1>1, <1>2

\* A plugin's command leaves what an update has resolved.
LEMMA PluginSteps ==
    ASSUME InstallInv, GatewayInv', CommandTyped(cmd'),
           \/ cmd'.kind = cmd.kind /\ cmd'.at = cmd.at
           \/ cmd'.kind \notin {"update", "setup"},
           UNCHANGED <<client, uVars>>,
           budget' \in [runs : Nat, faults : Nat, starts : Nat, published : Nat],
           disk' = [k \in Files \cup Keys |-> disk'[k]],
           record' \in Records \cup {Absent},
           gateway' = [kind |-> gateway'.kind, pid |-> gateway'.pid, loaded |-> gateway'.loaded,
                       amid |-> gateway'.amid],
           gateway'.pid \in Nat, gateway'.amid \in BOOLEAN, edited' \in BOOLEAN
    PROVE  InstallInv'
<1>1. UpdateAgrees' /\ SetupAgrees'
  BY AgreesKept DEF InstallInv, uVars
<1> QED
  BY <1>1 DEF InstallInv, Typed, uVars

\* What is to be written for a target's generation.
LEMMA ActivationPlan ==
    ASSUME Typed, NEW t \in Targets
    PROVE  /\ desiredGeneration(t) \in Digests /\ desiredGeneration(t) # Absent
           /\ Aimed(activationSteps(t), desiredGeneration(t))
           /\ Covers(activationSteps(t), desiredGeneration(t), disk)
           /\ activationSteps(t) = {} => CompleteFor(desiredGeneration(t), disk)
<1> DEFINE d == desiredGeneration(t)
           steps == activationSteps(t)
<1>1. d = <<client, client, t, t>> /\ client \in Nat
  BY DEF desiredGeneration, Typed
<1>2. d \in Nat \X Nat \X Targets \X Targets /\ d \in Digests /\ d # Absent
  BY <1>1, HermesAssumption DEF Digests
<1>3. /\ Wanted(d).init = client /\ Wanted(d).manifest = client /\ Wanted(d).settings = t
      /\ Wanted(d).mcp = t /\ Wanted(d).enabled = "on"
  BY <1>1 DEF Wanted
<1>4. \A s : s \in steps <=> /\ disk[s[1]] # s[2]
                             /\ \/ s = <<"init", client>> \/ s = <<"manifest", client>>
                                \/ s = <<"settings", t>> \/ s = <<"mcp", t>> \/ s = <<"enabled", "on">>
  BY DEF activationSteps, Differing, configSteps
<1>5. Aimed(steps, d)
  <2>1. \A s \in steps : s = <<s[1], s[2]>> /\ s[1] \in Files \cup Keys /\ s[2] = Wanted(d)[s[1]]
    BY <1>3, <1>4 DEF Files, Keys
  <2>2. \A s, q \in steps : s[1] = q[1] => s = q
    BY <2>1
  <2> QED
    BY <1>2, <2>1, <2>2 DEF Aimed
<1>6. Covers(steps, d, disk)
  <2>1. SUFFICES ASSUME NEW k \in Files \cup Keys
                 PROVE  disk[k] = Wanted(d)[k] \/ <<k, Wanted(d)[k]>> \in steps
    BY <1>2 DEF Covers
  <2> QED
    BY <1>3, <1>4 DEF Files, Keys
<1>7. ASSUME steps = {}
      PROVE  CompleteFor(d, disk)
  <2>1. \A k \in Files \cup Keys : disk[k] = Wanted(d)[k]
    BY <1>2, <1>6, <1>7 DEF Covers
  <2>2. disk.init = client /\ disk.manifest = client /\ disk.settings = t /\ disk.mcp = t
        /\ disk.enabled = "on"
    BY <1>3, <2>1 DEF Files, Keys
  <2> QED
    BY <1>1, <1>2, <2>2, HermesAssumption DEF CompleteFor, Content
<1> QED
  BY <1>2, <1>5, <1>6, <1>7

LEMMA ActivateInv ==
    ASSUME InstallInv, cmd.at \notin PluginPlaces, NEW kind \in PluginKinds, NEW t \in Targets,
           activate(kind, t), UNCHANGED <<disk, record, gateway, edited>>
    PROVE  GatewayInv' /\ CommandTyped(cmd') /\ cmd'.kind \notin {"update", "setup"}
<1> DEFINE d == desiredGeneration(t)
           steps == activationSteps(t)
<1>1. /\ d \in Digests /\ d # Absent /\ Aimed(steps, d) /\ Covers(steps, d, disk)
      /\ steps = {} => CompleteFor(d, disk)
  BY ActivationPlan DEF InstallInv
<1>2. kind \notin {"update", "setup"}
  BY DEF PluginKinds
<1>3. CASE End
  <2>1. CommandTyped(cmd') /\ cmd'.kind = "none" /\ cmd'.at \notin PluginPlaces
    BY <1>3, IdleFacts DEF End, PluginPlaces, Writing, Finishing
  <2> QED
    BY <2>1, GatewayQuiet DEF InstallInv
<1>4. CASE steps = {} /\ ~Active(d) /\ SameGeneration(d) /\ Planned(kind, "finish", d, {})
  <2>1. record # Absent /\ record.digest = d /\ ~record.active /\ CompleteFor(d, disk)
    BY <1>1, <1>4 DEF Active, SameGeneration
  <2> HIDE DEF d, steps
  <2> QED
    BY <1>1, <1>2, <1>4, <2>1, PlannedInv
<1>5. CASE Planned(kind, "begin", d, steps)
  <2> HIDE DEF d, steps
  <2> QED
    BY <1>1, <1>2, <1>5, PlannedInv
<1> QED
  BY <1>3, <1>4, <1>5 DEF activate

LEMMA runHermesPluginInstallInv ==
    ASSUME InstallInv, runHermesPluginInstall, UNCHANGED uVars
    PROVE  InstallInv'
<1>1. cmd = Idle /\ cmd.at \notin PluginPlaces
  BY IdleFacts DEF runHermesPluginInstall, PluginPlaces, Writing, Finishing
<1>2. PICK t \in Targets : activate("install", t)
  BY DEF runHermesPluginInstall
<1>3. "install" \in PluginKinds
  BY DEF PluginKinds
<1>4. UNCHANGED <<disk, record, gateway, edited, client>>
  BY DEF runHermesPluginInstall
<1>5. GatewayInv' /\ CommandTyped(cmd') /\ cmd'.kind \notin {"update", "setup"}
  BY <1>1, <1>2, <1>3, <1>4, ActivateInv
<1>6. budget' \in [runs : Nat, faults : Nat, starts : Nat, published : Nat]
  BY SpendTyped DEF runHermesPluginInstall, InstallInv
<1> QED
  BY <1>4, <1>5, <1>6, PluginSteps DEF InstallInv, Typed

LEMMA activateHermesPluginAfterUpdateInv ==
    ASSUME InstallInv, activateHermesPluginAfterUpdate
    PROVE  InstallInv'
<1>1. CommandTyped(cmd) /\ Typed
  BY DEF InstallInv, Typed
<1>2. cmd.at \notin PluginPlaces
  BY <1>1, PlaceOf DEF activateHermesPluginAfterUpdate
<1>3. UNCHANGED <<client, budget, disk, record, gateway, edited, registry, server, runtime, meddled>>
      /\ plan' = NoPlan
  BY DEF activateHermesPluginAfterUpdate
<1>4. GatewayInv' /\ CommandTyped(cmd') /\ cmd'.kind \notin {"update", "setup"}
  <2>1. CASE End
    <3>1. CommandTyped(cmd') /\ cmd'.kind = "none" /\ cmd'.at \notin PluginPlaces
      BY <2>1, IdleFacts DEF End, PluginPlaces, Writing, Finishing
    <3> QED
      BY <1>2, <1>3, <3>1, GatewayQuiet DEF InstallInv
  <2>2. CASE \E t \in planSessions : activate("activate", t)
    <3>1. PICK t \in Targets : activate("activate", t)
      BY <2>2 DEF planSessions
    <3>2. "activate" \in PluginKinds
      BY DEF PluginKinds
    <3> QED
      BY <1>2, <1>3, <3>1, <3>2, ActivateInv
  <2> QED
    BY <2>1, <2>2 DEF activateHermesPluginAfterUpdate, activateHermesPlugin
<1>5. UpdateAgrees' /\ SetupAgrees'
  BY <1>4 DEF UpdateAgrees, SetupAgrees
<1> QED
  BY <1>1, <1>3, <1>4, <1>5, NoPlanTyped DEF InstallInv, Typed

LEMMA runHermesPluginUninstallInv ==
    ASSUME InstallInv, runHermesPluginUninstall, UNCHANGED uVars
    PROVE  InstallInv'
<1> DEFINE gone == installState = "absent" /\ uninstallSteps = {}
           steps == IF gone THEN {} ELSE uninstallSteps \cup removal
<1>1. cmd = Idle /\ cmd.at \notin PluginPlaces
  BY IdleFacts DEF runHermesPluginUninstall, PluginPlaces, Writing, Finishing
<1>2. "uninstall" \in PluginKinds /\ Absent \in Digests /\ "uninstall" \notin {"update", "setup"}
  BY DEF PluginKinds, Digests
<1>3. UNCHANGED <<disk, record, gateway, edited, client>>
  BY DEF runHermesPluginUninstall
<1>4. gone => disk.manifest = Absent
  BY DEF installState
<1>5. GatewayInv' /\ CommandTyped(cmd') /\ cmd'.kind \notin {"update", "setup"}
  <2>1. CASE End
    <3>1. CommandTyped(cmd') /\ cmd'.kind = "none" /\ cmd'.at \notin PluginPlaces
      BY <2>1, IdleFacts DEF End, PluginPlaces, Writing, Finishing
    <3> QED
      BY <1>1, <1>3, <3>1, GatewayQuiet DEF InstallInv
  <2>2. CASE gone /\ SameGeneration(Absent) /\ Planned("uninstall", "finish", Absent, {})
    <3>1. record # Absent /\ record.digest = Absent /\ ~record.active /\ CompleteFor(Absent, disk)
      BY <1>4, <2>2 DEF SameGeneration, InstallInv, GatewayInv, NamesSomething, CompleteFor
    <3> QED
      BY <1>1, <1>2, <1>3, <2>2, <3>1, PlannedInv
  <2>3. CASE Planned("uninstall", "begin", Absent, steps)
    <3>1. \A s \in steps : /\ s[2] = Absent /\ s = <<s[1], s[2]>> /\ s[1] \in Files \cup Keys
      <4>1. \A s \in uninstallSteps : s \in {<<"enabled", Absent>>, <<"settings", Absent>>, <<"mcp", Absent>>}
        BY DEF uninstallSteps, Differing
      <4>2. \A s \in removal : s \in {<<"init", Absent>>, <<"manifest", Absent>>}
        BY DEF removal, Differing
      <4> QED
        BY <4>1, <4>2 DEF Files, Keys
    <3>2. Aimed(steps, Absent)
      BY <3>1 DEF Aimed
    <3>3. Covers(steps, Absent, disk)
      BY <1>4 DEF Covers, removal, Differing
    <3> HIDE DEF steps
    <3> QED
      BY <1>1, <1>2, <1>3, <2>3, <3>2, <3>3, PlannedInv
  <2> QED
    BY <2>1, <2>2, <2>3 DEF runHermesPluginUninstall
<1>6. budget' \in [runs : Nat, faults : Nat, starts : Nat, published : Nat]
  BY SpendTyped DEF runHermesPluginUninstall, InstallInv
<1> QED
  BY <1>3, <1>5, <1>6, PluginSteps DEF InstallInv, Typed

-----------------------------------------------------------------------------
(* The writes and their reversal.                                          *)

\* The state a command is in at a place of the plugin's.
LEMMA AtPlugin ==
    ASSUME InstallInv, NEW l \in PluginPlaces, cmd.at = l
    PROVE  cmd.kind \in PluginKinds /\ cmd # Idle /\ Typed /\ CommandTyped(cmd) /\ GatewayInv
<1>1. Typed /\ CommandTyped(cmd) /\ GatewayInv
  BY DEF InstallInv, Typed
<1>2. cmd.kind \in PluginKinds
  BY <1>1, PlaceFacts
<1>3. cmd # Idle
  BY <1>2, IdleFacts DEF PluginKinds
<1> QED
  BY <1>1, <1>2, <1>3

\* A pending generation that nobody has loaded fits whatever was written of it.
LEMMA PendingFits ==
    ASSUME GatewayInv, cmd.at \in Writing, NEW files
    PROVE  Fits(record, files) /\ Describes(record, files)
  BY DEF GatewayInv, Pending, Fits, Describes

\* So a command may stop among its writes.
LEMMA StopsInv ==
    ASSUME InstallInv, cmd.at \in PluginPlaces, End, UNCHANGED <<client, uVars>>,
           UNCHANGED <<disk, record, gateway, edited>>, UNCHANGED budget \/ Fault
    PROVE  InstallInv'
<1>1. CommandTyped(cmd') /\ cmd'.kind = "none" /\ cmd'.at = "idle"
  BY IdleFacts DEF End
<1>2. Typed /\ GatewayInv /\ NamesSomething(record)
  BY DEF InstallInv, GatewayInv
<1>3. Fits(record, disk) /\ Describes(record, disk)
  BY <1>2, PendingFits DEF GatewayInv
<1>4. cmd'.at # "begin" /\ cmd'.at # "apply" /\ cmd'.at \notin Writing /\ cmd'.at \notin Finishing
  BY <1>1 DEF Writing, Finishing
<1>5. GatewayInv'
  <2>1. (Fits(record, disk) /\ Describes(record, disk) /\ NamesSomething(record))'
    BY <1>2, <1>3 DEF Fits, Describes, Running, NamesSomething
  <2> QED
    BY <1>4, <2>1 DEF GatewayInv
<1>6. budget' \in [runs : Nat, faults : Nat, starts : Nat, published : Nat]
  BY <1>2, SpendTyped DEF Fault, Typed
<1> QED
  BY <1>1, <1>2, <1>5, <1>6, PluginSteps DEF Typed

LEMMA beginGenerationInv ==
    ASSUME InstallInv, SwitchInv, beginGeneration, UNCHANGED uVars
    PROVE  InstallInv'
<1>1. cmd.at = "begin" /\ "begin" \in PluginPlaces /\ "apply" \in PluginPlaces
  BY DEF beginGeneration, PluginPlaces, Writing
<1>2. Typed /\ CommandTyped(cmd) /\ GatewayInv /\ cmd.kind \in PluginKinds
  BY <1>1, AtPlugin
<1>3. UNCHANGED <<client, disk, gateway, edited, budget>> /\ To("apply")
  BY DEF beginGeneration
<1>4. /\ CommandTyped(cmd') /\ cmd'.kind = cmd.kind /\ cmd'.at = "apply"
      /\ cmd'.digest = cmd.digest /\ cmd'.steps = cmd.steps /\ cmd'.undo = cmd.undo
      /\ cmd'.prev = cmd.prev /\ cmd'.left = cmd.left /\ cmd'.clean = cmd.clean
  BY <1>1, <1>2, <1>3, Moves
<1>5. PICK pid \in Nat \cup {Absent} :
          /\ record' = [digest |-> cmd.digest, active |-> FALSE, pid |-> pid]
          /\ Running => pid = gateway.pid
  BY <1>2 DEF beginGeneration, Typed
<1>6. record' \in Records /\ record' # Absent /\ record'.active = FALSE
      /\ record'.digest = cmd.digest /\ record'.pid = pid
  <2>1. record' \in Records
    BY <1>2, <1>5 DEF Records, CommandTyped
  <2> QED
    BY <1>5, <2>1, HermesAssumption
<1>7. /\ Planning /\ cmd.undo = {} /\ cmd.prev = record /\ ~cmd.left
      /\ Fits(record, disk) /\ Describes(record, disk) /\ NamesSomething(record)
  <2>1. cmd.at \notin Writing
    BY <1>1 DEF Writing
  <2> QED
    BY <1>1, <1>2, <2>1 DEF GatewayInv
<1>8. Planning'
  BY <1>3, <1>4, <1>7 DEF Planning
<1>9. RollsBack'
  <2>1. SUFFICES ASSUME NEW files, Undone(files)'
                 PROVE  Fits(cmd.prev, files)' /\ Describes(cmd.prev, files)' /\ Switched(files)'
    BY DEF RollsBack
  <2>2. files = disk
    BY <1>2, <1>3, <1>4, <1>7, <2>1 DEF Undone, Typed
  <2> QED
    BY <1>3, <1>4, <1>7, <2>2 DEF Fits, Describes, Running, SwitchInv, Switched
<1>10. Pending' /\ UndoneOnce' /\ NamesSomething(cmd.prev)' /\ NamesSomething(record)'
  BY <1>4, <1>6, <1>7 DEF Pending, UndoneOnce, NamesSomething
<1>11. GatewayInv'
  <2>1. "apply" \in Writing /\ "apply" \notin Finishing /\ "apply" # "begin"
    BY DEF Writing, Finishing
  <2>2. (Running /\ ~gateway.amid => gateway.pid = record.pid)'
    BY <1>3, <1>5, <1>6 DEF Running
  <2> QED
    BY <1>4, <1>7, <1>8, <1>9, <1>10, <2>1, <2>2 DEF GatewayInv
<1> QED
  <2>1. cmd'.kind \notin {"update", "setup"}
    BY <1>2, <1>4 DEF PluginKinds
  <2> QED
    BY <1>2, <1>3, <1>4, <1>6, <1>11, <2>1, PluginSteps DEF Typed

\* What a write adds to undo.
Pushes(u) ==
    /\ cmd'.undo = cmd.undo \cup {u}
    /\ u[2] = disk[u[1]] /\ u = <<u[1], u[2], u[3]>> /\ u[1] \in Files \cup Keys
    /\ \A q \in cmd.undo : q[1] # u[1]
    /\ \A k \in Files \cup Keys : k # u[1] => disk'[k] = disk[k]

\* A write, or nothing, keeps what undoing gives.
LEMMA PushRollsBack ==
    ASSUME RollsBack, cmd'.prev = cmd.prev, cmd'.left = cmd.left, UNCHANGED <<gateway, edited>>,
           \/ \E u : Pushes(u)
           \/ cmd'.undo = cmd.undo /\ UNCHANGED disk
    PROVE  RollsBack'
<1>1. SUFFICES ASSUME NEW files, ~cmd'.left, Undone(files)'
               PROVE  Fits(cmd.prev, files)' /\ Describes(cmd.prev, files)' /\ Switched(files)'
  BY DEF RollsBack
<1>2. Undone(files)
  <2>1. CASE cmd'.undo = cmd.undo /\ UNCHANGED disk
    BY <1>1, <2>1 DEF Undone
  <2>2. CASE \E u : Pushes(u)
    <3>1. PICK u : Pushes(u)
      BY <2>2
    <3>2. files = [k \in Files \cup Keys |-> files[k]]
      BY <1>1 DEF Undone
    <3>3. \A q \in cmd.undo : files[q[1]] = q[2]
      BY <1>1, <3>1 DEF Undone, Pushes
    <3>4. files[u[1]] = disk[u[1]]
      BY <1>1, <3>1 DEF Undone, Pushes
    <3>5. ASSUME NEW k \in Files \cup Keys, \A q \in cmd.undo : q[1] # k
          PROVE  files[k] = disk[k]
      <4>1. CASE k = u[1]
        BY <3>4, <4>1
      <4>2. CASE k # u[1]
        <5>1. \A q \in cmd'.undo : q[1] # k
          BY <3>1, <3>5, <4>2 DEF Pushes
        <5>2. files[k] = disk'[k]
          BY <1>1, <5>1 DEF Undone
        <5> QED
          BY <3>1, <4>2, <5>2 DEF Pushes
      <4> QED
        BY <4>1, <4>2
    <3> QED
      BY <3>2, <3>3, <3>5 DEF Undone
  <2> QED
    BY <2>1, <2>2
<1>3. Fits(cmd.prev, files) /\ Describes(cmd.prev, files) /\ Switched(files)
  BY <1>1, <1>2 DEF RollsBack
<1> QED
  BY <1>3 DEF Fits, Describes, Running, Switched

\* A reversal does, and so does giving up a key that is already what it was.
LEMMA PopRollsBack ==
    ASSUME RollsBack, Typed, UndoneOnce, NEW u \in cmd.undo,
           cmd'.undo = cmd.undo \ {u}, cmd'.prev = cmd.prev, cmd'.left = cmd.left,
           UNCHANGED <<gateway, edited>>,
           disk' = [disk EXCEPT ![u[1]] = u[2]]
    PROVE  RollsBack'
<1>1. SUFFICES ASSUME NEW files, ~cmd'.left, Undone(files)'
               PROVE  Fits(cmd.prev, files)' /\ Describes(cmd.prev, files)' /\ Switched(files)'
  BY DEF RollsBack
<1>2. u[1] \in Files \cup Keys /\ \A q \in cmd.undo \ {u} : q[1] # u[1]
  BY DEF UndoneOnce
<1>3. disk'[u[1]] = u[2] /\ \A k \in Files \cup Keys : k # u[1] => disk'[k] = disk[k]
  BY <1>2 DEF Typed
<1>4. Undone(files)
  <2>1. files = [k \in Files \cup Keys |-> files[k]]
    BY <1>1 DEF Undone
  <2>2. files[u[1]] = u[2]
    BY <1>1, <1>2, <1>3 DEF Undone
  <2>3. \A q \in cmd.undo : files[q[1]] = q[2]
    BY <1>1, <2>2 DEF Undone
  <2>4. ASSUME NEW k \in Files \cup Keys, \A q \in cmd.undo : q[1] # k
        PROVE  files[k] = disk[k]
    BY <1>1, <1>3, <2>4 DEF Undone
  <2> QED
    BY <2>1, <2>3, <2>4 DEF Undone
<1>5. Fits(cmd.prev, files) /\ Describes(cmd.prev, files) /\ Switched(files)
  BY <1>1, <1>4 DEF RollsBack
<1> QED
  BY <1>5 DEF Fits, Describes, Running, Switched

\* What holds of a command among its writes.
LEMMA AtWriting ==
    ASSUME InstallInv, cmd.at \in Writing
    PROVE  /\ Typed /\ CommandTyped(cmd) /\ cmd.kind \in PluginKinds /\ cmd # Idle /\ cmd.at \in PluginPlaces
           /\ Pending /\ UndoneOnce /\ NamesSomething(cmd.prev) /\ NamesSomething(record) /\ RollsBack
           /\ Running /\ ~gateway.amid => gateway.pid = record.pid
           /\ \A u \in cmd.undo : u[1] = "enabled" =>
                  disk.enabled \in {u[2], u[3]} \/ (edited /\ disk.enabled = Absent)
<1>1. cmd.at \in PluginPlaces
  BY DEF PluginPlaces
<1> QED
  BY <1>1, AtPlugin DEF GatewayInv

\* A step that stays among the writes.
LEMMA WritesOn ==
    ASSUME InstallInv, cmd.at \in Writing, UNCHANGED <<client, uVars, record, gateway, edited>>,
           CommandTyped(cmd'), cmd'.kind = cmd.kind, cmd'.at \in Writing,
           cmd'.digest = cmd.digest, cmd'.prev = cmd.prev,
           disk' = [k \in Files \cup Keys |-> disk'[k]],
           budget' \in [runs : Nat, faults : Nat, starts : Nat, published : Nat],
           UndoneOnce', RollsBack',
           \A u \in cmd'.undo : u[1] = "enabled" =>
                  disk'.enabled \in {u[2], u[3]} \/ (edited /\ disk'.enabled = Absent),
           cmd'.at = "apply" => /\ Planning' /\ ~cmd'.left
                                /\ \A s \in cmd'.steps, u \in cmd'.undo : s[1] # u[1]
    PROVE  InstallInv'
<1>1. /\ Typed /\ CommandTyped(cmd) /\ cmd.kind \in PluginKinds
      /\ Pending /\ NamesSomething(cmd.prev) /\ NamesSomething(record)
      /\ Running /\ ~gateway.amid => gateway.pid = record.pid
  BY AtWriting
<1>2. cmd'.at # "begin" /\ cmd'.at \notin Finishing /\ cmd'.kind \notin {"update", "setup"}
  BY <1>1 DEF Writing, Finishing, PluginKinds
<1>3. (NamesSomething(cmd.prev) /\ NamesSomething(record) /\ Pending)'
  BY <1>1 DEF NamesSomething, Pending
<1>4. (Running /\ ~gateway.amid => gateway.pid = record.pid)'
  BY <1>1 DEF Running
<1>5. GatewayInv'
  BY <1>2, <1>3, <1>4 DEF GatewayInv
<1> QED
  BY <1>1, <1>2, <1>5, PluginSteps DEF Typed

\* A write leaves the command as it is but for its steps and what undoes them.
LEMMA AppliedFacts ==
    ASSUME CommandTyped(cmd), cmd # Idle, cmd.kind \in PluginKinds, cmd.at \in PluginPlaces,
           NEW s, Applied(s)
    PROVE  /\ CommandTyped(cmd') /\ cmd'.kind = cmd.kind /\ cmd'.at = cmd.at
           /\ cmd'.digest = cmd.digest
           /\ cmd'.steps = cmd.steps \ {s} /\ cmd'.undo = cmd.undo \cup {Undo(s)}
           /\ cmd'.prev = cmd.prev /\ cmd'.left = cmd.left /\ cmd'.clean = cmd.clean
<1>1. PICK c : c = cmd
  OBVIOUS
<1>2. PICK u : u = Undo(s)
  OBVIOUS
<1>3. cmd' = [c EXCEPT !.steps = @ \ {s}, !.undo = @ \cup {u}]
  BY <1>1, <1>2 DEF Applied
<1>4. c = [kind |-> c.kind, at |-> c.at, digest |-> c.digest, steps |-> c.steps,
           undo |-> c.undo, prev |-> c.prev, left |-> c.left, clean |-> c.clean]
  BY <1>1 DEF CommandTyped
<1> HIDE <1>1
<1>5. cmd' = [kind |-> c.kind, at |-> c.at, digest |-> c.digest, steps |-> c.steps \ {s},
              undo |-> c.undo \cup {u}, prev |-> c.prev, left |-> c.left, clean |-> c.clean]
  BY <1>3, <1>4
<1> QED
  BY <1>1, <1>2, <1>5 DEF CommandTyped

\* So does the turn to the rollback,
LEMMA GaveUpFacts ==
    ASSUME CommandTyped(cmd), cmd # Idle, cmd.kind \in PluginKinds, NEW undo,
           cmd' = [cmd EXCEPT !.at = "rollback", !.undo = undo]
    PROVE  /\ CommandTyped(cmd') /\ cmd'.kind = cmd.kind /\ cmd'.at = "rollback"
           /\ cmd'.digest = cmd.digest /\ cmd'.undo = undo
           /\ cmd'.prev = cmd.prev /\ cmd'.left = cmd.left
<1>1. PICK c : c = cmd
  OBVIOUS
<1>2. cmd' = [c EXCEPT !.at = "rollback", !.undo = undo]
  BY <1>1
<1>3. c = [kind |-> c.kind, at |-> c.at, digest |-> c.digest, steps |-> c.steps,
           undo |-> c.undo, prev |-> c.prev, left |-> c.left, clean |-> c.clean]
  BY <1>1 DEF CommandTyped
<1> HIDE <1>1
<1>4. cmd' = [kind |-> c.kind, at |-> "rollback", digest |-> c.digest, steps |-> c.steps,
              undo |-> undo, prev |-> c.prev, left |-> c.left, clean |-> c.clean]
  BY <1>2, <1>3
<1>5. "rollback" \in PluginPlaces
  BY DEF PluginPlaces, Writing
<1> QED
  BY <1>1, <1>4, <1>5 DEF CommandTyped

\* and a step of it.
LEMMA PoppedFacts ==
    ASSUME CommandTyped(cmd), cmd # Idle, cmd.kind \in PluginKinds, cmd.at \in PluginPlaces,
           NEW u, cmd' = Popped(u) \/ cmd' = Left(u)
    PROVE  /\ CommandTyped(cmd') /\ cmd'.kind = cmd.kind /\ cmd'.at = cmd.at
           /\ cmd'.digest = cmd.digest /\ cmd'.undo = cmd.undo \ {u}
           /\ cmd'.prev = cmd.prev /\ cmd'.left \in BOOLEAN
           /\ cmd' = Popped(u) => cmd'.left = cmd.left
           /\ cmd' = Left(u) => cmd'.left = TRUE
<1>1. PICK c : c = cmd
  OBVIOUS
<1>2. c = [kind |-> c.kind, at |-> c.at, digest |-> c.digest, steps |-> c.steps,
           undo |-> c.undo, prev |-> c.prev, left |-> c.left, clean |-> c.clean]
  BY <1>1 DEF CommandTyped
<1>3. /\ cmd' = Popped(u) => cmd' = [c EXCEPT !.undo = @ \ {u}]
      /\ cmd' = Left(u) => cmd' = [[c EXCEPT !.undo = @ \ {u}] EXCEPT !.left = TRUE]
  BY <1>1 DEF Popped, Left
<1> HIDE <1>1
<1>4. cmd' = Popped(u) =>
          cmd' = [kind |-> c.kind, at |-> c.at, digest |-> c.digest, steps |-> c.steps,
                  undo |-> c.undo \ {u}, prev |-> c.prev, left |-> c.left, clean |-> c.clean]
  BY <1>2, <1>3
<1>5. cmd' = Left(u) =>
          cmd' = [kind |-> c.kind, at |-> c.at, digest |-> c.digest, steps |-> c.steps,
                  undo |-> c.undo \ {u}, prev |-> c.prev, left |-> TRUE, clean |-> c.clean]
  BY <1>2, <1>3
<1>6. CASE cmd' = Popped(u)
  <2>1. cmd' = Left(u) => cmd'.left = TRUE
    BY <1>5
  <2> QED
    BY <1>1, <1>4, <1>6, <2>1 DEF CommandTyped
<1>7. CASE cmd' = Left(u)
  <2>1. cmd' = Popped(u) => cmd'.left = cmd.left
    BY <1>1, <1>4
  <2>2. cmd' = [kind |-> cmd.kind, at |-> cmd.at, digest |-> cmd.digest, steps |-> cmd.steps,
                undo |-> cmd.undo \ {u}, prev |-> cmd.prev, left |-> TRUE, clean |-> cmd.clean]
    BY <1>1, <1>5, <1>7
  <2>3. /\ cmd'.kind = cmd.kind /\ cmd'.at = cmd.at /\ cmd'.digest = cmd.digest
        /\ cmd'.undo = cmd.undo \ {u} /\ cmd'.prev = cmd.prev /\ cmd'.left = TRUE
        /\ cmd'.steps = cmd.steps /\ cmd'.clean = cmd.clean
    BY <2>2
  <2>4. CommandTyped(cmd')
    BY <2>2, <2>3 DEF CommandTyped
  <2> QED
    BY <2>1, <2>3, <2>4
<1> QED
  BY <1>6, <1>7

LEMMA applyStepInv ==
    ASSUME InstallInv, applyStep, UNCHANGED uVars
    PROVE  InstallInv'
<1>1. cmd.at = "apply" /\ "apply" \in Writing
  BY DEF applyStep, Writing
<1>2. /\ Typed /\ CommandTyped(cmd) /\ UndoneOnce /\ RollsBack /\ cmd.kind \in PluginKinds
      /\ \A u \in cmd.undo : u[1] = "enabled" =>
             disk.enabled \in {u[2], u[3]} \/ (edited /\ disk.enabled = Absent)
  BY <1>1, AtWriting
<1>3. Planning /\ ~cmd.left /\ \A s \in cmd.steps, u \in cmd.undo : s[1] # u[1]
  BY <1>1 DEF InstallInv, GatewayInv
<1>4. PICK s \in cmd.steps : Write(s[1], s[2]) /\ Applied(s)
  BY DEF applyStep
<1>5. PICK u : u = Undo(s)
  OBVIOUS
<1>6. s = <<s[1], s[2]>> /\ s[1] \in Files \cup Keys
      /\ u[1] = s[1] /\ u[2] = disk[s[1]] /\ u[3] = s[2] /\ u = <<u[1], u[2], u[3]>>
  BY <1>3, <1>4, <1>5 DEF Planning, Aimed, Undo
<1>7. /\ CommandTyped(cmd') /\ cmd'.kind = cmd.kind /\ cmd'.at = cmd.at /\ cmd'.digest = cmd.digest
      /\ cmd'.steps = cmd.steps \ {s} /\ cmd'.undo = cmd.undo \cup {u}
      /\ cmd'.prev = cmd.prev /\ cmd'.left = cmd.left /\ cmd'.clean = cmd.clean
  BY <1>1, <1>2, <1>4, <1>5, AtWriting, AppliedFacts
<1>8. /\ disk' = [k \in Files \cup Keys |-> disk'[k]] /\ disk'[s[1]] = s[2]
      /\ \A k \in Files \cup Keys : k # s[1] => disk'[k] = disk[k]
  BY <1>2, <1>4, <1>6 DEF Write, Typed
<1>9. UNCHANGED <<client, record, gateway, edited, budget>>
  BY DEF applyStep
<1>10. Pushes(u)
  BY <1>3, <1>4, <1>6, <1>7, <1>8 DEF Pushes
<1>11. RollsBack'
  BY <1>2, <1>7, <1>9, <1>10, PushRollsBack
<1>12. UndoneOnce'
  BY <1>2, <1>6, <1>7, <1>10 DEF UndoneOnce, Pushes
<1>13. \A q \in cmd'.undo : q[1] = "enabled" =>
           disk'.enabled \in {q[2], q[3]} \/ (edited /\ disk'.enabled = Absent)
  <2>1. SUFFICES ASSUME NEW q \in cmd'.undo, q[1] = "enabled"
                 PROVE  disk'.enabled \in {q[2], q[3]} \/ (edited /\ disk'.enabled = Absent)
    OBVIOUS
  <2>2. CASE q = u
    BY <1>6, <1>8, <2>1, <2>2
  <2>3. CASE q \in cmd.undo
    <3>1. q[1] # s[1] /\ "enabled" \in Files \cup Keys
      BY <1>3, <1>4, <2>3 DEF Keys
    <3> QED
      BY <1>2, <1>8, <2>1, <2>3, <3>1
  <2> QED
    BY <1>7, <2>1, <2>2, <2>3
<1>14. Planning'
  <2>1. Aimed(cmd'.steps, cmd'.digest)
    BY <1>3, <1>7 DEF Planning, Aimed
  <2>2. ASSUME cmd'.clean
        PROVE  Covers(cmd'.steps, cmd'.digest, disk')
    <3>1. Covers(cmd.steps, cmd.digest, disk)
      BY <1>3, <1>7, <2>2 DEF Planning
    <3>2. CASE cmd.digest = Absent
      <4>1. s[1] = "manifest" => s[2] = Absent
        BY <1>3, <1>4, <3>2 DEF Planning, Aimed
      <4>2. "manifest" \in Files \cup Keys
        BY DEF Files
      <4> QED
        BY <1>6, <1>7, <1>8, <3>1, <3>2, <4>1, <4>2 DEF Covers
    <3>3. CASE cmd.digest # Absent
      <4>1. s[2] = Wanted(cmd.digest)[s[1]]
        BY <1>3, <1>4, <3>3 DEF Planning, Aimed
      <4>2. ASSUME NEW k \in Files \cup Keys
            PROVE  disk'[k] = Wanted(cmd.digest)[k] \/ <<k, Wanted(cmd.digest)[k]>> \in cmd'.steps
        BY <1>6, <1>7, <1>8, <3>1, <3>3, <4>1 DEF Covers
      <4> QED
        BY <1>7, <3>3, <4>2 DEF Covers
    <3> QED
      BY <3>2, <3>3
  <2> QED
    BY <1>3, <1>7, <1>9, <2>1, <2>2 DEF Planning
<1>15. \A r \in cmd'.steps, q \in cmd'.undo : r[1] # q[1]
  <2>1. \A r \in cmd.steps \ {s} : r[1] # s[1]
    BY <1>3, <1>4 DEF Planning, Aimed
  <2> QED
    BY <1>3, <1>6, <1>7, <2>1
<1> QED
  BY <1>1, <1>2, <1>3, <1>7, <1>8, <1>9, <1>11, <1>12, <1>13, <1>14, <1>15, WritesOn DEF Typed

LEMMA applyFailsInv ==
    ASSUME InstallInv, applyFails, UNCHANGED uVars
    PROVE  InstallInv'
<1>1. cmd.at = "apply" /\ "apply" \in Writing /\ "rollback" \in Writing /\ "rollback" # "apply"
  BY DEF applyFails, Writing
<1>2. /\ Typed /\ CommandTyped(cmd) /\ UndoneOnce /\ RollsBack /\ cmd.kind \in PluginKinds
      /\ \A u \in cmd.undo : u[1] = "enabled" =>
             disk.enabled \in {u[2], u[3]} \/ (edited /\ disk.enabled = Absent)
      /\ cmd.at \in PluginPlaces
  BY <1>1, AtWriting
<1>3. Planning /\ \A s \in cmd.steps, u \in cmd.undo : s[1] # u[1]
  BY <1>1 DEF InstallInv, GatewayInv
<1>4. PICK s \in cmd.steps :
          /\ \/ disk' = disk
             \/ s[1] \in Keys /\ Write(s[1], s[2])
          /\ cmd' = IF cmd.kind = "uninstall" /\ s[1] \in Files THEN Idle
                    ELSE [cmd EXCEPT !.at = "rollback",
                            !.undo = IF s[1] \in Keys THEN @ \cup {Undo(s)} ELSE @]
  BY DEF applyFails
<1>5. UNCHANGED <<client, record, gateway, edited>> /\ Fault
  BY DEF applyFails
<1>6. CASE cmd.kind = "uninstall" /\ s[1] \in Files
  <2>1. s[1] \notin Keys
    BY <1>6 DEF Files, Keys
  <2>2. End /\ UNCHANGED disk
    BY <1>4, <1>6, <2>1 DEF End
  <2> QED
    BY <1>2, <1>5, <2>2, StopsInv
<1>7. CASE ~(cmd.kind = "uninstall" /\ s[1] \in Files)
  <2>1. PICK u : u = Undo(s)
    OBVIOUS
  <2>2. s = <<s[1], s[2]>> /\ s[1] \in Files \cup Keys
        /\ u[1] = s[1] /\ u[2] = disk[s[1]] /\ u[3] = s[2] /\ u = <<u[1], u[2], u[3]>>
    BY <1>3, <1>4, <2>1 DEF Planning, Aimed, Undo
  <2>3. PICK undo : undo = IF s[1] \in Keys THEN cmd.undo \cup {u} ELSE cmd.undo
    OBVIOUS
  <2>4. /\ CommandTyped(cmd') /\ cmd'.kind = cmd.kind /\ cmd'.at = "rollback"
        /\ cmd'.digest = cmd.digest /\ cmd'.undo = undo
        /\ cmd'.prev = cmd.prev /\ cmd'.left = cmd.left
    <3>1. cmd' = [cmd EXCEPT !.at = "rollback", !.undo = undo]
      BY <1>4, <1>7, <2>1, <2>3
    <3> QED
      BY <1>1, <1>2, <3>1, AtWriting, GaveUpFacts
  <2>5. /\ disk' = [k \in Files \cup Keys |-> disk'[k]] /\ disk'[s[1]] \in {disk[s[1]], s[2]}
        /\ \A k \in Files \cup Keys : k # s[1] => disk'[k] = disk[k]
        /\ s[1] \notin Keys => disk' = disk
    <3>1. CASE disk' = disk
      BY <1>2, <3>1 DEF Typed
    <3>2. CASE s[1] \in Keys /\ Write(s[1], s[2])
      BY <1>2, <2>2, <3>2 DEF Write, Typed
    <3> QED
      BY <1>4, <3>1, <3>2
  <2>6. s[1] \in Keys => Pushes(u)
    BY <1>3, <1>4, <2>2, <2>3, <2>4, <2>5 DEF Pushes
  <2>7. s[1] \notin Keys => cmd'.undo = cmd.undo /\ UNCHANGED disk
    BY <2>3, <2>4, <2>5
  <2>8. RollsBack'
    BY <1>2, <1>5, <2>4, <2>6, <2>7, PushRollsBack
  <2>9. UndoneOnce'
    <3>1. CASE s[1] \notin Keys
      BY <1>2, <2>7, <3>1 DEF UndoneOnce
    <3>2. CASE s[1] \in Keys
      BY <1>2, <2>2, <2>6, <3>2 DEF UndoneOnce, Pushes
    <3> QED
      BY <3>1, <3>2
  <2>10. \A q \in cmd'.undo : q[1] = "enabled" =>
             disk'.enabled \in {q[2], q[3]} \/ (edited /\ disk'.enabled = Absent)
    <3>1. SUFFICES ASSUME NEW q \in cmd'.undo, q[1] = "enabled"
                   PROVE  disk'.enabled \in {q[2], q[3]} \/ (edited /\ disk'.enabled = Absent)
      OBVIOUS
    <3>2. CASE q = u
      BY <2>2, <2>5, <3>1, <3>2
    <3>3. CASE q \in cmd.undo
      <4>1. q[1] # s[1] /\ "enabled" \in Files \cup Keys
        BY <1>3, <1>4, <3>3 DEF Keys
      <4> QED
        BY <1>2, <2>5, <3>1, <3>3, <4>1
    <3> QED
      BY <2>3, <2>4, <3>1, <3>2, <3>3
  <2>11. budget' \in [runs : Nat, faults : Nat, starts : Nat, published : Nat]
    BY <1>2, <1>5, SpendTyped DEF Fault
  <2> QED
    BY <1>1, <1>5, <2>4, <2>5, <2>8, <2>9, <2>10, <2>11, WritesOn
<1> QED
  BY <1>6, <1>7

\* All is written: what the gateway loads from now on is the generation, unless somebody
\* changed a key meanwhile.
LEMMA allAppliedInv ==
    ASSUME InstallInv, allApplied, UNCHANGED uVars
    PROVE  InstallInv'
<1>1. cmd.at = "apply" /\ "apply" \in Writing /\ cmd.steps = {}
  BY DEF allApplied, Writing
<1>2. /\ Typed /\ CommandTyped(cmd) /\ GatewayInv /\ cmd.kind \in PluginKinds /\ Pending
      /\ NamesSomething(record) /\ (Running /\ ~gateway.amid => gateway.pid = record.pid)
  BY <1>1, AtWriting DEF InstallInv
<1>3. Planning
  BY <1>1, <1>2 DEF GatewayInv
<1>4. UNCHANGED <<client, disk, record, gateway, budget>> /\ To("finish")
      /\ edited' = (edited /\ ~cmd.clean)
  BY DEF allApplied
<1>5. "finish" \in PluginPlaces /\ "finish" \in Finishing /\ "finish" \notin Writing
  BY DEF PluginPlaces, Finishing, Writing
<1>6. CommandTyped(cmd') /\ cmd'.kind = cmd.kind /\ cmd'.at = "finish" /\ cmd'.digest = cmd.digest
  BY <1>2, <1>4, <1>5, Moves
<1>7. edited' \in BOOLEAN /\ (~edited' => cmd.clean)
  <2>1. edited \in BOOLEAN /\ cmd.clean \in BOOLEAN /\ (cmd.clean \/ edited)
    BY <1>2, <1>3 DEF Typed, CommandTyped, Planning
  <2> QED
    BY <1>4, <2>1
<1>8. ASSUME cmd.clean
      PROVE  Content(disk) = cmd.digest
  <2>1. Covers({}, cmd.digest, disk)
    BY <1>1, <1>3, <1>8 DEF Planning
  <2>2. CASE cmd.digest = Absent
    BY <2>1, <2>2 DEF Covers, Content
  <2>3. CASE cmd.digest # Absent
    <3>1. cmd.digest \in Nat \X Nat \X Targets \X Targets
      BY <1>2, <2>3 DEF CommandTyped, Digests
    <3>2. \A k \in Files \cup Keys : disk[k] = Wanted(cmd.digest)[k]
      BY <2>1, <2>3 DEF Covers
    <3>3. disk.init = cmd.digest[1] /\ disk.manifest = cmd.digest[2]
          /\ disk.settings = cmd.digest[3] /\ disk.mcp = cmd.digest[4] /\ disk.enabled = "on"
      BY <3>2 DEF Files, Keys, Wanted
    <3>4. disk.manifest # Absent /\ disk.enabled # Absent
      BY <3>1, <3>3, HermesAssumption
    <3>5. cmd.digest = <<cmd.digest[1], cmd.digest[2], cmd.digest[3], cmd.digest[4]>>
      BY <3>1
    <3> QED
      BY <3>3, <3>4, <3>5 DEF Content
  <2> QED
    BY <2>2, <2>3
<1>9. (Fits(record, disk) /\ Describes(record, disk) /\ Pending /\ NamesSomething(record))'
  BY <1>2, <1>4, <1>6 DEF Fits, Describes, Pending, Running, NamesSomething
<1>10. (~edited => Content(disk) = cmd.digest)'
  BY <1>4, <1>6, <1>7, <1>8 DEF Content
<1>11. GatewayInv'
  <2>1. cmd'.at # "begin" /\ cmd'.at # "apply" /\ cmd'.at # "restarted"
    BY <1>6
  <2>2. (~(Running /\ ~gateway.amid /\ gateway.pid # record.pid))'
    BY <1>2, <1>4 DEF Running
  <2> QED
    BY <1>5, <1>6, <1>9, <1>10, <2>1, <2>2 DEF GatewayInv
<1> QED
  <2>1. cmd'.kind \notin {"update", "setup"}
    BY <1>2, <1>6 DEF PluginKinds
  <2> QED
    BY <1>2, <1>4, <1>6, <1>7, <1>11, <2>1, PluginSteps DEF Typed

\* Of a plugin that is not enabled, which files are there is told apart by nothing.
LEMMA DisabledAlike ==
    ASSUME NEW r, NEW files, NEW before, Fits(r, before), Describes(r, before),
           files.enabled = Absent, before.enabled = Absent,
           files.manifest = Absent => before.manifest = Absent
    PROVE  Fits(r, files) /\ Describes(r, files)
<1>1. Content(files) = Absent /\ Content(before) = Absent
  BY DEF Content
<1>2. \A d : CompleteFor(d, files) => CompleteFor(d, before)
  BY <1>1 DEF CompleteFor
<1> QED
  BY <1>1, <1>2 DEF Fits, Describes

LEMMA rollbackInv ==
    ASSUME InstallInv, rollback, UNCHANGED uVars
    PROVE  InstallInv'
<1>1. cmd.at = "rollback" /\ "rollback" \in Writing /\ "rollback" # "apply"
  BY DEF rollback, Writing
<1>2. /\ Typed /\ CommandTyped(cmd) /\ UndoneOnce /\ RollsBack /\ cmd.kind \in PluginKinds
      /\ \A u \in cmd.undo : u[1] = "enabled" =>
             disk.enabled \in {u[2], u[3]} \/ (edited /\ disk.enabled = Absent)
      /\ cmd.at \in PluginPlaces /\ cmd # Idle
  BY <1>1, AtWriting
<1>3. PICK u \in cmd.undo : reverseKey(u) \/ restoreFiles(u)
  BY DEF rollback
<1>4. UNCHANGED <<client, record, gateway, edited>>
  BY DEF rollback
<1>5. /\ u = <<u[1], u[2], u[3]>> /\ u[1] \in Files \cup Keys
      /\ \A q \in cmd.undo \ {u} : q[1] # u[1]
  BY <1>2, <1>3 DEF UndoneOnce
<1>6. CASE End /\ Fault /\ UNCHANGED disk
  BY <1>2, <1>4, <1>6, StopsInv
<1>7. CASE ~(End /\ Fault /\ UNCHANGED disk)
  <2>1. \/ Write(u[1], u[2]) /\ cmd' = Popped(u) /\ budget' = budget
        \/ disk' = disk /\ cmd' = Left(u) /\ (Fault \/ budget' = budget)
        \/ disk' = disk /\ cmd' = Popped(u) /\ cmd.left /\ budget' = budget
        \/ /\ disk' = disk /\ cmd' = Popped(u) /\ budget' = budget
           /\ disk[u[1]] # u[3] /\ (disk[u[1]] = u[2] \/ u[1] = "enabled")
        \/ disk' = disk /\ cmd' = Popped(u) /\ Fault /\ u[1] \in Files /\ u[2] = Absent
    <3>1. CASE reverseKey(u)
      BY <3>1 DEF reverseKey
    <3>2. CASE restoreFiles(u)
      BY <1>7, <3>2 DEF restoreFiles
    <3> QED
      BY <1>3, <3>1, <3>2
  <2>2. PICK left \in BOOLEAN : /\ cmd'.left = left
                                /\ cmd' = Popped(u) => left = cmd.left
                                /\ cmd' = Left(u) => left = TRUE
    BY <1>2, <2>1, PoppedFacts
  <2>3. /\ CommandTyped(cmd') /\ cmd'.kind = cmd.kind /\ cmd'.at = "rollback"
        /\ cmd'.digest = cmd.digest /\ cmd'.undo = cmd.undo \ {u}
        /\ cmd'.prev = cmd.prev /\ cmd'.left = left
    BY <1>1, <1>2, <2>1, <2>2, PoppedFacts
  <2>4. /\ disk' = [k \in Files \cup Keys |-> disk'[k]]
        /\ \A k \in Files \cup Keys : k # u[1] => disk'[k] = disk[k]
    BY <1>2, <1>5, <2>1 DEF Write, Typed
  <2>5. UndoneOnce'
    BY <1>2, <2>3 DEF UndoneOnce
  <2>6. \A q \in cmd'.undo : q[1] = "enabled" =>
            disk'.enabled \in {q[2], q[3]} \/ (edited /\ disk'.enabled = Absent)
    <3>1. "enabled" \in Files \cup Keys
      BY DEF Keys
    <3>2. \A q \in cmd'.undo : q[1] # u[1] /\ q \in cmd.undo
      BY <1>5, <2>3
    <3> QED
      BY <1>2, <2>4, <3>1, <3>2
  <2>7. budget' \in [runs : Nat, faults : Nat, starts : Nat, published : Nat]
    BY <1>2, <2>1, SpendTyped DEF Fault, Typed
  <2>8. RollsBack'
    <3>1. CASE Write(u[1], u[2]) /\ cmd' = Popped(u)
      <4>1. left = cmd.left
        BY <2>2, <3>1
      <4> QED
        BY <1>2, <1>3, <1>4, <2>3, <3>1, <4>1, PopRollsBack DEF Write
    <3>2. CASE cmd' = Left(u) \/ (cmd' = Popped(u) /\ cmd.left)
      <4>1. left
        BY <2>2, <3>2
      <4> QED
        BY <2>3, <4>1 DEF RollsBack
    <3>3. CASE disk' = disk /\ cmd' = Popped(u) /\ disk[u[1]] = u[2]
      <4>1. disk' = [disk EXCEPT ![u[1]] = u[2]]
        BY <1>2, <1>5, <3>3 DEF Typed
      <4>2. left = cmd.left
        BY <2>2, <3>3
      <4> QED
        BY <1>2, <1>3, <1>4, <2>3, <4>1, <4>2, PopRollsBack
    <3>4. CASE disk' = disk /\ cmd' = Popped(u) /\ u[1] = "enabled" /\ disk[u[1]] \notin {u[2], u[3]}
      <4>1. edited /\ disk.enabled = Absent
        BY <1>2, <1>3, <3>4
      <4>2. left = cmd.left
        BY <2>2, <3>4
      <4>3. SUFFICES ASSUME NEW files, ~cmd'.left, Undone(files)'
                     PROVE  Fits(cmd.prev, files)' /\ Describes(cmd.prev, files)' /\ Switched(files)'
        BY DEF RollsBack
      <4> DEFINE before == [files EXCEPT !.enabled = u[2]]
      <4>4. /\ files = [k \in Files \cup Keys |-> files[k]]
            /\ \A q \in cmd.undo \ {u} : files[q[1]] = q[2]
            /\ \A k \in Files \cup Keys : (\A q \in cmd.undo \ {u} : q[1] # k) => files[k] = disk[k]
        BY <2>3, <3>4, <4>3 DEF Undone
      <4>5. "enabled" \in Files \cup Keys
        BY DEF Keys
      <4>6. files.enabled = Absent
        BY <1>5, <3>4, <4>1, <4>4, <4>5
      <4>7. /\ before = [k \in Files \cup Keys |-> before[k]] /\ before.enabled = u[2]
            /\ \A k \in Files \cup Keys : k # "enabled" => before[k] = files[k]
        BY <4>4, <4>5
      <4> HIDE DEF before
      <4>8. Undone(before)
        <5>1. \A q \in cmd.undo : before[q[1]] = q[2]
          <6>1. \A q \in cmd.undo \ {u} : q[1] \in Files \cup Keys /\ q[1] # "enabled"
            BY <1>2, <1>5, <3>4 DEF UndoneOnce
          <6> QED
            BY <3>4, <4>4, <4>7, <6>1
        <5>2. ASSUME NEW k \in Files \cup Keys, \A q \in cmd.undo : q[1] # k
              PROVE  before[k] = disk[k]
          <6>1. k # "enabled"
            BY <1>3, <3>4, <5>2
          <6> QED
            BY <4>4, <4>7, <5>2, <6>1
        <5> QED
          BY <4>7, <5>1, <5>2 DEF Undone
      <4>9. Fits(cmd.prev, before) /\ Switched(before)
        BY <1>2, <2>3, <4>2, <4>3, <4>8 DEF RollsBack
      <4>10. Spoiled(files, before)
        BY <4>6, <4>7 DEF Spoiled, Files, Keys
      <4>11. Fits(cmd.prev, files)
        BY <1>2, <4>9, <4>10, FitsSpoiled DEF CommandTyped
      <4>12. Switched(files)
        BY <4>9, <4>10 DEF Switched, Spoiled
      <4> QED
        BY <1>4, <2>3, <4>1, <4>11, <4>12 DEF Fits, Describes, Running, Switched
    <3>5. CASE disk' = disk /\ cmd' = Popped(u) /\ u[1] \in Files /\ u[2] = Absent
      <4>1. left = cmd.left
        BY <2>2, <3>5
      <4>2. SUFFICES ASSUME NEW files, ~cmd'.left, Undone(files)'
                     PROVE  Fits(cmd.prev, files)' /\ Describes(cmd.prev, files)' /\ Switched(files)'
        BY DEF RollsBack
      <4> DEFINE before == [files EXCEPT ![u[1]] = Absent]
      <4>3. /\ files = [k \in Files \cup Keys |-> files[k]]
            /\ \A q \in cmd.undo \ {u} : files[q[1]] = q[2]
            /\ \A k \in Files \cup Keys : (\A q \in cmd.undo \ {u} : q[1] # k) => files[k] = disk[k]
        BY <2>3, <3>5, <4>2 DEF Undone
      <4>4. /\ before = [k \in Files \cup Keys |-> before[k]] /\ before[u[1]] = Absent
            /\ \A k \in Files \cup Keys : k # u[1] => before[k] = files[k]
        BY <1>5, <4>3
      <4> HIDE DEF before
      <4>5. Undone(before)
        <5>1. \A q \in cmd.undo : before[q[1]] = q[2]
          <6>1. \A q \in cmd.undo \ {u} : q[1] \in Files \cup Keys /\ q[1] # u[1]
            BY <1>2, <1>5 DEF UndoneOnce
          <6> QED
            BY <3>5, <4>3, <4>4, <6>1
        <5>2. ASSUME NEW k \in Files \cup Keys, \A q \in cmd.undo : q[1] # k
              PROVE  before[k] = disk[k]
          <6>1. k # u[1]
            BY <1>3, <5>2
          <6> QED
            BY <4>3, <4>4, <5>2, <6>1
        <5> QED
          BY <4>4, <5>1, <5>2 DEF Undone
      <4>6. Fits(cmd.prev, before) /\ Describes(cmd.prev, before) /\ Switched(before)
        BY <1>2, <2>3, <4>1, <4>2, <4>5 DEF RollsBack
      <4>7. before.enabled = Absent /\ files.enabled = Absent
            /\ (files.manifest = Absent => before.manifest = Absent)
        BY <3>5, <4>4, <4>6 DEF Switched, Files, Keys
      <4>8. Fits(cmd.prev, files) /\ Describes(cmd.prev, files) /\ Switched(files)
        BY <4>6, <4>7, DisabledAlike DEF Switched
      <4> QED
        BY <1>4, <2>3, <4>8 DEF Fits, Describes, Running, Switched
    <3> QED
      BY <2>1, <3>1, <3>2, <3>3, <3>4, <3>5
  <2> QED
    BY <1>1, <1>4, <2>3, <2>4, <2>5, <2>6, <2>7, <2>8, WritesOn
<1> QED
  BY <1>6, <1>7

\* Everything undone that could be: the record before says what is there, or this
\* generation stays pending.
LEMMA reportFailureInv ==
    ASSUME InstallInv, reportFailure, UNCHANGED uVars
    PROVE  InstallInv'
<1>1. cmd.at = "rollback" /\ "rollback" \in Writing /\ cmd.undo = {}
  BY DEF reportFailure, Writing
<1>2. /\ Typed /\ CommandTyped(cmd) /\ RollsBack /\ NamesSomething(cmd.prev)
      /\ cmd.at \in PluginPlaces
  BY <1>1, AtWriting
<1>3. End /\ record' = Restored /\ UNCHANGED <<client, disk, gateway, edited, budget>>
  BY DEF reportFailure
<1>4. CASE cmd.left
  BY <1>2, <1>3, <1>4, StopsInv DEF Restored
<1>5. CASE ~cmd.left
  <2>1. Undone(disk)
    BY <1>1, <1>2 DEF Undone, Typed
  <2>2. Fits(cmd.prev, disk) /\ Describes(cmd.prev, disk)
    BY <1>2, <1>5, <2>1 DEF RollsBack, Typed
  <2>3. record' = cmd.prev
    BY <1>3, <1>5 DEF Restored
  <2>4. CommandTyped(cmd') /\ cmd'.kind = "none" /\ cmd'.at = "idle"
    BY <1>3, IdleFacts DEF End
  <2>5. (Fits(record, disk) /\ Describes(record, disk) /\ NamesSomething(record))'
    BY <1>2, <1>3, <2>2, <2>3 DEF Fits, Describes, Running, NamesSomething
  <2>6. GatewayInv'
    BY <2>4, <2>5 DEF GatewayInv, Writing, Finishing
  <2>7. record' \in Records \cup {Absent}
    BY <1>2, <2>3 DEF CommandTyped
  <2> QED
    BY <1>2, <1>3, <2>4, <2>6, <2>7, PluginSteps DEF Typed
<1> QED
  BY <1>4, <1>5

-----------------------------------------------------------------------------
(* Having the gateway load it, and what happens around it.                 *)

\* What holds of a command whose writes are done.
LEMMA AtFinishing ==
    ASSUME InstallInv, cmd.at \in Finishing
    PROVE  /\ Typed /\ CommandTyped(cmd) /\ cmd.kind \in PluginKinds /\ cmd # Idle
           /\ cmd.at \in PluginPlaces /\ cmd.at \notin Writing
           /\ Pending /\ NamesSomething(record) /\ Fits(record, disk) /\ Describes(record, disk)
           /\ ~edited => Content(disk) = cmd.digest
           /\ Running /\ ~gateway.amid /\ (gateway.pid # record.pid \/ cmd.at = "restarted") =>
                  gateway.loaded = cmd.digest
<1>1. cmd.at \in PluginPlaces /\ cmd.at \notin Writing
  BY DEF PluginPlaces, Finishing, Writing
<1> QED
  BY <1>1, AtPlugin DEF GatewayInv

\* The generation is marked active, and the record of a removal goes.
LEMMA CompletesInv ==
    ASSUME InstallInv, cmd.at \in Finishing, Complete, End,
           Running /\ ~gateway.amid => gateway.loaded = cmd.digest,
           UNCHANGED <<client, uVars, disk, gateway, edited, budget>>
    PROVE  InstallInv'
<1>1. /\ Typed /\ Pending /\ (~edited => Content(disk) = cmd.digest)
  BY AtFinishing
<1>2. CommandTyped(cmd') /\ cmd'.kind = "none" /\ cmd'.at = "idle"
  BY IdleFacts DEF End
<1>3. /\ record' \in Records \cup {Absent}
      /\ IF cmd.digest = Absent THEN record' = Absent
         ELSE record' # Absent /\ record'.active /\ record'.digest = cmd.digest
  <2>1. record \in Records /\ record.digest = cmd.digest
    BY <1>1 DEF Pending, Typed
  <2>2. CASE cmd.digest = Absent
    BY <2>1, <2>2 DEF Complete
  <2>3. CASE cmd.digest # Absent
    <3>1. record' = [record EXCEPT !.active = TRUE]
      BY <2>1, <2>3 DEF Complete
    <3>2. record' \in Records /\ record'.active /\ record'.digest = cmd.digest
      BY <2>1, <3>1 DEF Records
    <3> QED
      BY <2>3, <3>2, HermesAssumption
  <2> QED
    BY <2>2, <2>3
<1>4. (Fits(record, disk) /\ Describes(record, disk) /\ NamesSomething(record))'
  <2>1. CASE cmd.digest = Absent
    BY <1>1, <1>3, <2>1 DEF Fits, Describes, Running, NamesSomething
  <2>2. CASE cmd.digest # Absent
    BY <1>1, <1>3, <2>2 DEF Fits, Describes, Running, NamesSomething
  <2> QED
    BY <2>1, <2>2
<1>5. GatewayInv'
  BY <1>2, <1>4 DEF GatewayInv, Writing, Finishing
<1> QED
  BY <1>1, <1>2, <1>3, <1>5, PluginSteps DEF Typed

LEMMA finishGenerationInv ==
    ASSUME InstallInv, finishGeneration, UNCHANGED uVars
    PROVE  InstallInv'
<1>1. cmd.at = "finish" /\ "finish" \in Finishing
  BY DEF finishGeneration, Finishing
<1>2. /\ Typed /\ CommandTyped(cmd) /\ cmd.kind \in PluginKinds /\ cmd.at \in PluginPlaces
      /\ Pending /\ NamesSomething(record) /\ Fits(record, disk) /\ Describes(record, disk)
      /\ ~edited => Content(disk) = cmd.digest
      /\ Running /\ ~gateway.amid /\ gateway.pid # record.pid => gateway.loaded = cmd.digest
  BY <1>1, AtFinishing
<1>3. UNCHANGED <<client, disk, gateway, edited, budget>>
  BY DEF finishGeneration
<1>4. CASE HasIt /\ Complete /\ End
  <2>1. Running /\ ~gateway.amid => gateway.loaded = cmd.digest
    BY <1>2, <1>4 DEF HasIt, Running
  <2> QED
    BY <1>1, <1>3, <1>4, <2>1, CompletesInv
<1>5. CASE To("restart") /\ UNCHANGED record
  <2>1. "restart" \in PluginPlaces /\ "restart" \in Finishing /\ "restart" \notin Writing
    BY DEF PluginPlaces, Finishing, Writing
  <2>2. CommandTyped(cmd') /\ cmd'.kind = cmd.kind /\ cmd'.at = "restart" /\ cmd'.digest = cmd.digest
    BY <1>2, <1>5, <2>1, Moves
  <2>3. (Fits(record, disk) /\ Describes(record, disk) /\ NamesSomething(record) /\ Pending)'
    BY <1>2, <1>3, <1>5, <2>2 DEF Fits, Describes, Running, NamesSomething, Pending
  <2>4. (~edited => Content(disk) = cmd.digest)'
    BY <1>2, <1>3, <2>2 DEF Content
  <2>5. (Running /\ ~gateway.amid /\ (gateway.pid # record.pid \/ cmd.at = "restarted") =>
            gateway.loaded = cmd.digest)'
    BY <1>2, <1>3, <1>5, <2>2 DEF Running
  <2>6. GatewayInv'
    BY <2>1, <2>2, <2>3, <2>4, <2>5 DEF GatewayInv
  <2>7. cmd'.kind \notin {"update", "setup"}
    BY <1>2, <2>2 DEF PluginKinds
  <2> QED
    BY <1>2, <1>3, <1>5, <2>2, <2>6, <2>7, PluginSteps DEF Typed
<1>6. CASE End /\ UNCHANGED record
  BY <1>2, <1>3, <1>6, StopsInv
<1> QED
  BY <1>4, <1>5, <1>6 DEF finishGeneration

\* What a gateway has that is started now.
LEMMA StartedFacts ==
    ASSUME Typed, NEW kind, Started(kind)
    PROVE  /\ gateway' = [kind |-> gateway'.kind, pid |-> gateway'.pid,
                          loaded |-> gateway'.loaded, amid |-> gateway'.amid]
           /\ gateway'.pid \in Nat /\ gateway'.amid \in BOOLEAN
           /\ gateway'.loaded = Content(disk)
           /\ ~gateway'.amid => ~edited /\ cmd.at \notin Writing
           /\ budget' \in [runs : Nat, faults : Nat, starts : Nat, published : Nat]
<1>1. PICK amid \in BOOLEAN : amid <=> (edited \/ cmd.at \in Writing)
  BY Zenon
<1>2. edited \in BOOLEAN /\ budget.starts \in Nat
  BY DEF Typed
<1>3. (edited \/ cmd.at \in {"apply", "rollback"}) = amid
  BY <1>1, <1>2 DEF Writing
<1>4. gateway' = [kind |-> kind, pid |-> 2 + budget.starts, loaded |-> Content(disk), amid |-> amid]
  BY <1>3 DEF Started
<1>5. budget' \in [runs : Nat, faults : Nat, starts : Nat, published : Nat]
  BY SpendTyped DEF Started
<1> QED
  BY <1>1, <1>2, <1>4, <1>5

\* A gateway started over what a record describes has what it names.
LEMMA StartedFits ==
    ASSUME GatewayInv, NEW kind, Started(kind), Typed, cmd.at \notin Writing,
           UNCHANGED <<record, disk>>
    PROVE  Fits(record, disk)'
<1>1. gateway'.loaded = Content(disk) /\ (~gateway'.amid => ~edited)
  BY StartedFacts
<1>2. Describes(record, disk)
  BY DEF GatewayInv
<1> QED
  BY <1>1, <1>2 DEF Fits, Describes, CompleteFor, Content

LEMMA activateHostsInv ==
    ASSUME InstallInv, activateHosts, UNCHANGED uVars
    PROVE  InstallInv'
<1>1. cmd.at = "restart" /\ "restart" \in Finishing
  BY DEF activateHosts, Finishing
<1>2. /\ Typed /\ CommandTyped(cmd) /\ cmd.kind \in PluginKinds /\ cmd.at \notin Writing
      /\ Pending /\ NamesSomething(record) /\ Describes(record, disk)
      /\ ~edited => Content(disk) = cmd.digest
  BY <1>1, AtFinishing
<1>3. UNCHANGED <<client, disk, record, edited>> /\ To("restarted") /\ Started("service")
  BY DEF activateHosts
<1>4. /\ gateway' = [kind |-> gateway'.kind, pid |-> gateway'.pid,
                     loaded |-> gateway'.loaded, amid |-> gateway'.amid]
      /\ gateway'.pid \in Nat /\ gateway'.amid \in BOOLEAN
      /\ gateway'.loaded = Content(disk) /\ (~gateway'.amid => ~edited)
      /\ budget' \in [runs : Nat, faults : Nat, starts : Nat, published : Nat]
  BY <1>2, <1>3, StartedFacts
<1>5. "restarted" \in PluginPlaces /\ "restarted" \in Finishing /\ "restarted" \notin Writing
  BY DEF PluginPlaces, Finishing, Writing
<1>6. CommandTyped(cmd') /\ cmd'.kind = cmd.kind /\ cmd'.at = "restarted" /\ cmd'.digest = cmd.digest
  BY <1>2, <1>3, <1>5, Moves
<1>7. (~edited => Content(disk) = cmd.digest)'
  BY <1>2, <1>3, <1>6 DEF Content
<1>8. (Running /\ ~gateway.amid => gateway.loaded = cmd.digest)'
  BY <1>2, <1>3, <1>4, <1>6
<1>9. (Pending /\ NamesSomething(record) /\ Describes(record, disk))'
  BY <1>2, <1>3, <1>6 DEF Pending, NamesSomething, Describes
<1>10. Fits(record, disk)'
  BY <1>8, <1>9 DEF Fits, Pending
<1>11. GatewayInv'
  BY <1>5, <1>6, <1>7, <1>8, <1>9, <1>10 DEF GatewayInv
<1>12. cmd'.kind \notin {"update", "setup"}
  BY <1>2, <1>6 DEF PluginKinds
<1> QED
  BY <1>2, <1>3, <1>4, <1>6, <1>11, <1>12, PluginSteps DEF Typed

LEMMA restartConfirmedInv ==
    ASSUME InstallInv, restartConfirmed, UNCHANGED uVars
    PROVE  InstallInv'
<1>1. cmd.at = "restarted" /\ "restarted" \in Finishing
  BY DEF restartConfirmed, Finishing
<1>2. /\ cmd.at \in PluginPlaces
      /\ Running /\ ~gateway.amid => gateway.loaded = cmd.digest
  BY <1>1, AtFinishing
<1>3. UNCHANGED <<client, disk, gateway, edited, budget>> /\ End
  BY DEF restartConfirmed
<1>4. CASE Complete
  BY <1>1, <1>2, <1>3, <1>4, CompletesInv
<1>5. CASE UNCHANGED record
  BY <1>2, <1>3, <1>5, StopsInv
<1> QED
  BY <1>4, <1>5 DEF restartConfirmed

\* A restart that fails, and a command that dies.
LEMMA GivesUpInv ==
    ASSUME InstallInv, restartFails \/ Crash, UNCHANGED uVars
    PROVE  InstallInv'
<1>1. cmd.at \in PluginPlaces
  <2>1. CASE restartFails
    BY <2>1 DEF restartFails, PluginPlaces, Finishing
  <2>2. CASE Crash
    <3>1. cmd.kind \in PluginKinds
      BY <2>2 DEF Crash, PluginKinds
    <3> QED
      BY <3>1, PlaceFacts DEF InstallInv, Typed
  <2> QED
    BY <2>1, <2>2
<1>2. UNCHANGED <<client, disk, record, gateway, edited>> /\ Fault /\ End
  BY DEF restartFails, Crash
<1> QED
  BY <1>1, <1>2, StopsInv

\* A key that the operator changes may hold up a generation, and completes none.
LEMMA OperatorEditsInv ==
    ASSUME InstallInv, OperatorEdits, UNCHANGED uVars
    PROVE  InstallInv'
<1>1. Typed /\ CommandTyped(cmd) /\ GatewayInv /\ NamesSomething(record)
  BY DEF InstallInv, Typed, GatewayInv
<1>2. UNCHANGED <<client, record, gateway>> /\ edited' = TRUE /\ Fault
  BY DEF OperatorEdits
<1>3. /\ disk' = [k \in Files \cup Keys |-> disk'[k]] /\ Spoiled(disk', disk)
      /\ disk'.enabled = disk.enabled \/ disk'.enabled = Absent
  BY <1>1 DEF OperatorEdits, Write, Typed, Spoiled, Files, Keys
<1>4. PICK clean \in BOOLEAN : clean <=> cmd = Idle
  BY Zenon
<1>5. /\ CommandTyped(cmd') /\ cmd'.kind = cmd.kind /\ cmd'.at = cmd.at
      /\ cmd'.digest = cmd.digest /\ cmd'.steps = cmd.steps /\ cmd'.undo = cmd.undo
      /\ cmd'.prev = cmd.prev /\ cmd'.left = cmd.left /\ cmd'.clean = clean
      /\ cmd = Idle => cmd' = Idle
  <2>1. PICK c : c = cmd
    OBVIOUS
  <2>2. cmd' = [c EXCEPT !.clean = clean]
    <3>1. (cmd = Idle) = clean
      BY <1>4
    <3> QED
      BY <2>1, <3>1 DEF OperatorEdits
  <2>3. c = [kind |-> c.kind, at |-> c.at, digest |-> c.digest, steps |-> c.steps,
             undo |-> c.undo, prev |-> c.prev, left |-> c.left, clean |-> c.clean]
    BY <1>1, <2>1 DEF CommandTyped
  <2> HIDE <2>1
  <2>4. cmd' = [kind |-> c.kind, at |-> c.at, digest |-> c.digest, steps |-> c.steps,
                undo |-> c.undo, prev |-> c.prev, left |-> c.left, clean |-> clean]
    BY <2>2, <2>3
  <2>5. c = Idle => cmd' = Idle
    BY <1>4, <2>1, <2>4 DEF Idle
  <2> QED
    BY <1>1, <2>1, <2>4, <2>5 DEF CommandTyped
<1>6. Describes(record, disk)' /\ NamesSomething(record)'
  BY <1>1, <1>2 DEF Describes, NamesSomething
<1>7. ASSUME cmd.at \notin Writing
      PROVE  Fits(record, disk)'
  <2>1. Fits(record, disk) /\ record \in Records \cup {Absent}
    BY <1>1, <1>7 DEF GatewayInv, Typed
  <2>2. Fits(record, disk')
    BY <1>3, <2>1, FitsSpoiled
  <2> QED
    BY <1>2, <2>2 DEF Fits, Running
<1>8. ASSUME cmd.at \in {"begin", "apply"}
      PROVE  Planning'
  <2>1. Planning /\ ~clean
    <3>1. cmd # Idle
      BY <1>8, IdleFacts
    <3> QED
      BY <1>1, <1>4, <1>8, <3>1 DEF GatewayInv
  <2> QED
    BY <1>2, <1>5, <2>1 DEF Planning
<1>9. ASSUME cmd.at \in Writing
      PROVE  /\ Pending' /\ UndoneOnce' /\ NamesSomething(cmd.prev)' /\ RollsBack'
             /\ (Running /\ ~gateway.amid => gateway.pid = record.pid)'
             /\ \A u \in cmd'.undo : u[1] = "enabled" =>
                    disk'.enabled \in {u[2], u[3]} \/ (edited' /\ disk'.enabled = Absent)
  <2>1. /\ Pending /\ UndoneOnce /\ NamesSomething(cmd.prev) /\ RollsBack
        /\ Running /\ ~gateway.amid => gateway.pid = record.pid
        /\ \A u \in cmd.undo : u[1] = "enabled" =>
               disk.enabled \in {u[2], u[3]} \/ (edited /\ disk.enabled = Absent)
    BY <1>9, AtWriting
  <2>2. (Pending /\ UndoneOnce /\ NamesSomething(cmd.prev))'
    BY <1>2, <1>5, <2>1 DEF Pending, UndoneOnce, NamesSomething
  <2>3. (Running /\ ~gateway.amid => gateway.pid = record.pid)'
    BY <1>2, <2>1 DEF Running
  <2>4. \A u \in cmd'.undo : u[1] = "enabled" =>
            disk'.enabled \in {u[2], u[3]} \/ (edited' /\ disk'.enabled = Absent)
    BY <1>2, <1>3, <1>5, <2>1
  <2>5. RollsBack'
    <3>1. SUFFICES ASSUME NEW files, ~cmd'.left, Undone(files)'
                   PROVE  Fits(cmd.prev, files)' /\ Describes(cmd.prev, files)' /\ Switched(files)'
      BY DEF RollsBack
    <3> DEFINE before == [k \in Files \cup Keys |->
                            IF \E u \in cmd.undo : u[1] = k THEN files[k] ELSE disk[k]]
    <3>2. Undone(before)
      <4>1. \A u \in cmd.undo : before[u[1]] = u[2]
        BY <1>5, <2>1, <3>1 DEF Undone, UndoneOnce
      <4>2. \A k \in Files \cup Keys : (\A u \in cmd.undo : u[1] # k) => before[k] = disk[k]
        OBVIOUS
      <4>3. before = [k \in Files \cup Keys |-> before[k]]
        OBVIOUS
      <4> HIDE DEF before
      <4> QED
        BY <4>1, <4>2, <4>3 DEF Undone
    <3>3. Spoiled(files, before)
      <4>1. \A k \in Files \cup Keys : files[k] = before[k] \/ (files[k] = disk'[k] /\ before[k] = disk[k])
        BY <1>5, <3>1 DEF Undone
      <4>2. "init" \in Files \cup Keys /\ "manifest" \in Files \cup Keys /\ "settings" \in Files \cup Keys
            /\ "mcp" \in Files \cup Keys /\ "enabled" \in Files \cup Keys
        BY DEF Files, Keys
      <4> HIDE DEF before
      <4> QED
        BY <1>3, <4>1, <4>2 DEF Spoiled
    <3> HIDE DEF before
    <3>4. Fits(cmd.prev, before) /\ Switched(before)
      BY <1>5, <2>1, <3>1, <3>2 DEF RollsBack
    <3>6. Switched(files)
      BY <3>3, <3>4 DEF Switched, Spoiled
    <3>5. Fits(cmd.prev, files)
      BY <1>1, <3>3, <3>4, FitsSpoiled DEF CommandTyped
    <3> QED
      BY <1>2, <1>5, <3>5, <3>6 DEF Fits, Describes, Running, Switched
  <2> QED
    BY <2>2, <2>3, <2>4, <2>5
<1>10. ASSUME cmd.at \in Finishing
       PROVE  /\ Pending' /\ (~edited => Content(disk) = cmd.digest)'
              /\ (Running /\ ~gateway.amid /\ (gateway.pid # record.pid \/ cmd.at = "restarted") =>
                     gateway.loaded = cmd.digest)'
  <2>1. /\ Pending
        /\ Running /\ ~gateway.amid /\ (gateway.pid # record.pid \/ cmd.at = "restarted") =>
               gateway.loaded = cmd.digest
    BY <1>10, AtFinishing
  <2> QED
    BY <1>2, <1>5, <2>1 DEF Pending, Running
<1>11. GatewayInv'
  <2>1. cmd.at = "begin" => cmd.undo = {} /\ cmd.prev = record /\ ~cmd.left
    BY <1>1 DEF GatewayInv
  <2>2. cmd.at = "apply" => ~cmd.left /\ \A s \in cmd.steps, u \in cmd.undo : s[1] # u[1]
    BY <1>1 DEF GatewayInv
  <2> QED
    BY <1>2, <1>5, <1>6, <1>7, <1>8, <1>9, <1>10, <2>1, <2>2 DEF GatewayInv
<1>12. budget' \in [runs : Nat, faults : Nat, starts : Nat, published : Nat]
  BY <1>1, <1>2, SpendTyped DEF Fault
<1> QED
  BY <1>1, <1>2, <1>3, <1>5, <1>11, <1>12, PluginSteps DEF Typed

LEMMA GatewayStartsInv ==
    ASSUME InstallInv, GatewayStarts, UNCHANGED uVars
    PROVE  InstallInv'
<1>1. Typed /\ GatewayInv /\ NamesSomething(record) /\ CommandTyped(cmd)
  BY DEF InstallInv, GatewayInv, Typed
<1>2. PICK kind : Started(kind)
  BY DEF GatewayStarts
<1>3. UNCHANGED <<client, disk, record, cmd, edited>>
  BY DEF GatewayStarts
<1>4. /\ gateway' = [kind |-> gateway'.kind, pid |-> gateway'.pid,
                     loaded |-> gateway'.loaded, amid |-> gateway'.amid]
      /\ gateway'.pid \in Nat /\ gateway'.amid \in BOOLEAN
      /\ gateway'.loaded = Content(disk) /\ (~gateway'.amid => ~edited /\ cmd.at \notin Writing)
      /\ budget' \in [runs : Nat, faults : Nat, starts : Nat, published : Nat]
  BY <1>1, <1>2, StartedFacts
<1>5. (Describes(record, disk) <=> Describes(record, disk)') /\ NamesSomething(record)'
  BY <1>1, <1>3 DEF Describes, NamesSomething
<1>6. cmd.at \notin Writing => Fits(record, disk)'
  BY <1>1, <1>2, <1>3, StartedFits
<1>7. ASSUME cmd.at \in {"begin", "apply"}
      PROVE  Planning'
  BY <1>1, <1>3, <1>7 DEF GatewayInv, Planning
<1>8. ASSUME cmd.at \in Writing
      PROVE  Pending' /\ UndoneOnce' /\ NamesSomething(cmd.prev)' /\ RollsBack' /\ gateway'.amid
  <2>1. Pending /\ UndoneOnce /\ NamesSomething(cmd.prev) /\ RollsBack /\ gateway'.amid
    BY <1>4, <1>8, AtWriting
  <2>2. (Pending /\ UndoneOnce /\ NamesSomething(cmd.prev))'
    BY <1>3, <2>1 DEF Pending, UndoneOnce, NamesSomething
  <2>3. RollsBack'
    <3>1. SUFFICES ASSUME NEW files, ~cmd.left, Undone(files)'
                   PROVE  Fits(cmd.prev, files)' /\ Describes(cmd.prev, files)' /\ Switched(files)'
      BY <1>3 DEF RollsBack
    <3>2. Undone(files)
      BY <1>3, <3>1 DEF Undone
    <3>3. Describes(cmd.prev, files) /\ Switched(files)
      BY <2>1, <3>1, <3>2 DEF RollsBack
    <3> QED
      BY <1>3, <2>1, <3>3 DEF Fits, Describes, Switched
  <2> QED
    BY <2>1, <2>2, <2>3
<1>9. ASSUME cmd.at \in Finishing
      PROVE  /\ Pending' /\ (~edited => Content(disk) = cmd.digest)'
             /\ ~gateway'.amid => gateway'.loaded = cmd.digest
  <2>1. Pending /\ (~edited => Content(disk) = cmd.digest)
    BY <1>9, AtFinishing
  <2>2. (~edited => Content(disk) = cmd.digest)'
    BY <1>3, <2>1 DEF Content
  <2> QED
    BY <1>3, <1>4, <2>1, <2>2 DEF Pending
<1>10. GatewayInv'
  <2>1. cmd.at = "begin" => cmd.undo = {} /\ cmd.prev = record /\ ~cmd.left
    BY <1>1 DEF GatewayInv
  <2>2. cmd.at = "apply" => ~cmd.left /\ \A s \in cmd.steps, u \in cmd.undo : s[1] # u[1]
    BY <1>1 DEF GatewayInv
  <2>3. cmd.at \in Writing => \A u \in cmd.undo : u[1] = "enabled" =>
                disk.enabled \in {u[2], u[3]} \/ (edited /\ disk.enabled = Absent)
    BY <1>1 DEF GatewayInv
  <2>4. cmd.at \notin Writing => Describes(record, disk)
    BY <1>1 DEF GatewayInv
  <2> QED
    BY <1>3, <1>5, <1>6, <1>7, <1>8, <1>9, <2>1, <2>2, <2>3, <2>4 DEF GatewayInv
<1> QED
  BY <1>1, <1>3, <1>4, <1>10, PluginSteps DEF Typed

LEMMA GatewayStopsInv ==
    ASSUME InstallInv, GatewayStops, UNCHANGED uVars
    PROVE  InstallInv'
<1>1. Typed /\ GatewayInv /\ NamesSomething(record) /\ CommandTyped(cmd)
  BY DEF InstallInv, GatewayInv, Typed
<1>2. UNCHANGED <<client, disk, record, cmd, edited, budget>> /\ gateway' = Stopped
  BY DEF GatewayStops
<1>3. ~Running' /\ gateway' = [kind |-> gateway'.kind, pid |-> gateway'.pid,
                              loaded |-> gateway'.loaded, amid |-> gateway'.amid]
      /\ gateway'.pid \in Nat /\ gateway'.amid \in BOOLEAN
  BY <1>2 DEF Stopped, Running
<1>4. \A r, files : Fits(r, files)'
  BY <1>3 DEF Fits
<1>5. \A r, files : Describes(r, files)' <=> Describes(r, files)
  BY <1>2 DEF Describes
<1>6. ASSUME RollsBack
      PROVE  RollsBack'
  <2>1. \A files : Undone(files)' <=> Undone(files)
    BY <1>2 DEF Undone
  <2> QED
    BY <1>2, <1>4, <1>5, <1>6, <2>1 DEF RollsBack, Switched
<1>7. (Planning' <=> Planning) /\ (Pending' <=> Pending) /\ (UndoneOnce' <=> UndoneOnce)
  BY <1>2 DEF Planning, Pending, UndoneOnce
<1>8. Content(disk)' = Content(disk)
  BY <1>2 DEF Content
<1>9. GatewayInv'
  BY <1>1, <1>2, <1>3, <1>4, <1>5, <1>6, <1>7, <1>8 DEF GatewayInv, NamesSomething
<1> QED
  BY <1>1, <1>2, <1>3, <1>9, PluginSteps DEF Typed

-----------------------------------------------------------------------------
(* The order of the writes.                                                *)

LEMMA SwitchQuiet ==
    ASSUME SwitchInv, UNCHANGED disk, cmd' = cmd \/ cmd'.at \notin {"begin"} \cup Writing
    PROVE  SwitchInv'
<1>1. Switched(disk)'
  BY DEF SwitchInv, Switched
<1>2. CASE cmd' = cmd
  BY <1>2 DEF SwitchInv, Switched, StepsFit, UndoFits
<1>3. CASE cmd'.at \notin {"begin"} \cup Writing
  BY <1>1, <1>3 DEF SwitchInv, Writing
<1> QED
  BY <1>2, <1>3

\* A command of the updater's goes on to a place of its own, or ends.
LEMMA UpdaterQuiet ==
    ASSUME InstallInv, UpdateNext, ~activateHermesPluginAfterUpdate
    PROVE  UNCHANGED disk /\ (cmd' = cmd \/ cmd'.at \notin {"begin"} \cup Writing)
<1>1. \A l : To(l) => cmd'.at = l
  BY DEF To, InstallInv, Typed, CommandTyped
<1>2. End => cmd'.at = "idle"
  BY IdleFacts DEF End
<1>3. CASE runUpdate \/ setup
  <2>1. cmd'.at \in {"resolve", "offer"}
    BY <1>3 DEF runUpdate, setup, Idle
  <2> QED
    BY <1>3, <2>1 DEF runUpdate, setup, Writing
<1>4. CASE confirmUpdate \/ installClient \/ installServer \/ serverStatus
  <2>1. UNCHANGED disk /\ cmd'.at \in {"idle", "client", "server", "refresh", "resolve", "status",
                                       "verify", "activate"}
    BY <1>1, <1>2, <1>4 DEF confirmUpdate, installClient, installServer, serverStatus, Quits
  <2> QED
    BY <2>1 DEF Writing
<1>5. CASE serverUpdate \/ serverRecheck \/ verifyUpdate \/ refreshAgentIntegrations
  <2>1. UNCHANGED disk /\ cmd'.at \in {"idle", "recheck", "verify", "refresh", "refreshing"}
    BY <1>1, <1>2, <1>5 DEF serverUpdate, serverRecheck, verifyUpdate, refreshAgentIntegrations, Quits
  <2> QED
    BY <2>1 DEF Writing
<1>6. CASE offerFirstRunServerInstall \/ installFirstServer \/ initializeServer \/ setupDone
           \/ CommandDies
  <2>1. UNCHANGED disk /\ cmd'.at \in {"idle", "hooks", "install", "configuring"}
    BY <1>1, <1>2, <1>6 DEF offerFirstRunServerInstall, installFirstServer, initializeServer,
       setupDone, CommandDies, Quits
  <2> QED
    BY <2>1 DEF Writing
<1>7. CASE publishedPackage \/ Publish \/ OperatorInstalls \/ ServerStartsOrStops \/ LaunchDies
  BY <1>7 DEF publishedPackage, Publish, OperatorInstalls, ServerStartsOrStops, LaunchDies, hVars
<1> QED
  BY <1>3, <1>4, <1>5, <1>6, <1>7 DEF UpdateNext

LEMMA PlannedSwitch ==
    ASSUME SwitchInv, Typed, UNCHANGED disk, NEW kind \in PluginKinds, NEW d \in Digests, NEW steps,
           \/ Planned(kind, "finish", d, steps)
           \/ /\ Planned(kind, "begin", d, steps)
              /\ IF kind = "uninstall"
                 THEN /\ \A s \in steps : s[2] = Absent
                      /\ disk.enabled # Absent => \E s \in steps : s[1] = "enabled"
                 ELSE /\ \A s \in steps : s[2] # Absent
                      /\ \A s \in steps : s[1] = "enabled" => s[2] = "on" /\ disk.enabled = Absent
                      /\ \A f \in Files : disk[f] = Absent => \E s \in steps : s[1] = f
    PROVE  SwitchInv'
<1>0. "begin" \in PluginPlaces /\ "finish" \in PluginPlaces
  BY DEF PluginPlaces, Finishing
<1>1. CASE Planned(kind, "finish", d, steps)
  <2>1. cmd'.at = "finish"
    BY <1>0, <1>1, PlannedFacts
  <2> QED
    BY <2>1, SwitchQuiet DEF Writing
<1>2. CASE Planned(kind, "begin", d, steps)
  <2>1. cmd'.at = "begin" /\ cmd'.kind = kind /\ cmd'.steps = steps
    BY <1>0, <1>2, PlannedFacts
  <2>2. cmd'.at \notin Writing
    BY <2>1 DEF Writing
  <2>3. Switched(disk)'
    BY DEF SwitchInv, Switched
  <2>4. "finish" # "begin" /\ ~Planned(kind, "finish", d, steps)
    BY <1>0, <2>1, PlannedFacts
  <2>5. StepsFit'
    BY <2>1, <2>4 DEF StepsFit
  <2> QED
    BY <2>2, <2>3, <2>5 DEF SwitchInv
<1> QED
  BY <1>1, <1>2

LEMMA ActivateSwitch ==
    ASSUME SwitchInv, Typed, UNCHANGED disk, NEW kind \in {"install", "activate"},
           NEW t \in Targets, activate(kind, t)
    PROVE  SwitchInv'
<1> DEFINE d == desiredGeneration(t)
           steps == activationSteps(t)
<1>1. d \in Digests /\ kind \in PluginKinds /\ kind # "uninstall"
  BY ActivationPlan DEF PluginKinds
<1>2. CASE End
  <2>1. cmd'.at = "idle"
    BY <1>2, IdleFacts DEF End
  <2> QED
    BY <2>1, SwitchQuiet DEF Writing
<1>3. CASE Planned(kind, "finish", d, {})
  <2> HIDE DEF d
  <2> QED
    BY <1>1, <1>3, PlannedSwitch
<1>4. CASE Planned(kind, "begin", d, steps)
  <2>1. client # Absent /\ t # Absent /\ "on" # Absent
    BY HermesAssumption DEF Typed
  <2>2. \A s : s \in steps <=> /\ disk[s[1]] # s[2]
                               /\ \/ s = <<"init", client>> \/ s = <<"manifest", client>>
                                  \/ s = <<"settings", t>> \/ s = <<"mcp", t>> \/ s = <<"enabled", "on">>
    BY DEF activationSteps, Differing, configSteps
  <2>3. ASSUME NEW s \in steps
        PROVE  s[2] # Absent /\ (s[1] = "enabled" => s[2] = "on" /\ disk.enabled = Absent)
    BY <2>1, <2>2 DEF SwitchInv, Switched
  <2>4. ASSUME NEW f \in Files, disk[f] = Absent
        PROVE  \E s \in steps : s[1] = f
    <3>1. <<f, client>> \in steps
      BY <2>1, <2>2, <2>4 DEF Files
    <3> QED
      BY <3>1
  <2> HIDE DEF d, steps
  <2> QED
    BY <1>1, <1>4, <2>3, <2>4, PlannedSwitch
<1> QED
  BY <1>2, <1>3, <1>4 DEF activate

LEMMA UninstallSwitch ==
    ASSUME SwitchInv, Typed, runHermesPluginUninstall
    PROVE  SwitchInv'
<1> DEFINE gone == installState = "absent" /\ uninstallSteps = {}
           steps == IF gone THEN {} ELSE uninstallSteps \cup removal
<1>1. "uninstall" \in PluginKinds /\ Absent \in Digests /\ UNCHANGED disk
  BY DEF PluginKinds, Digests, runHermesPluginUninstall
<1>2. CASE End
  <2>1. cmd'.at = "idle"
    BY <1>2, IdleFacts DEF End
  <2> QED
    BY <1>1, <2>1, SwitchQuiet DEF Writing
<1>3. CASE Planned("uninstall", "finish", Absent, {})
  BY <1>1, <1>3, PlannedSwitch
<1>4. CASE Planned("uninstall", "begin", Absent, steps)
  <2>1. \A s \in steps : s[2] = Absent
    <3>1. \A s \in uninstallSteps : s \in {<<"enabled", Absent>>, <<"settings", Absent>>, <<"mcp", Absent>>}
      BY DEF uninstallSteps, Differing
    <3>2. \A s \in removal : s \in {<<"init", Absent>>, <<"manifest", Absent>>}
      BY DEF removal, Differing
    <3> QED
      BY <3>1, <3>2
  <2>2. ASSUME disk.enabled # Absent
        PROVE  \E s \in steps : s[1] = "enabled"
    <3>1. <<"enabled", Absent>> \in uninstallSteps
      BY <2>2 DEF uninstallSteps, Differing
    <3>2. <<"enabled", Absent>> \in steps
      BY <3>1
    <3> QED
      BY <3>2
  <2> HIDE DEF steps
  <2> QED
    BY <1>1, <1>4, <2>1, <2>2, PlannedSwitch
<1> QED
  BY <1>2, <1>3, <1>4 DEF runHermesPluginUninstall

\* The place of each write among the others.
LEMMA RankFacts ==
    /\ \A k \in Keys, f \in Files : /\ Rank("uninstall")[k] < Rank("uninstall")[f]
                                    /\ Rank("uninstall")["enabled"] <= Rank("uninstall")[k]
    /\ \A kind : kind # "uninstall" => \A k \in Files \cup Keys :
           k # "enabled" => ~(Rank(kind)["enabled"] <= Rank(kind)[k])
  BY DEF Rank, Files, Keys

LEMMA applyStepSwitch ==
    ASSUME InstallInv, SwitchInv, applyStep
    PROVE  SwitchInv'
<1>1. cmd.at = "apply" /\ "apply" \in Writing /\ cmd.at # "rollback"
  BY DEF applyStep, Writing
<1>2. /\ Typed /\ CommandTyped(cmd) /\ cmd.kind \in PluginKinds /\ cmd # Idle
      /\ cmd.at \in PluginPlaces /\ Planning /\ ~cmd.left
  BY <1>1, AtWriting DEF InstallInv, GatewayInv
<1>3. Switched(disk) /\ StepsFit /\ UndoFits
  BY <1>1 DEF SwitchInv
<1>4. PICK s \in cmd.steps : First(s) /\ Write(s[1], s[2]) /\ Applied(s)
  BY DEF applyStep
<1>5. PICK u : u = Undo(s)
  OBVIOUS
<1>6. s[1] \in Files \cup Keys /\ u[1] = s[1] /\ u[2] = disk[s[1]]
      /\ \A q \in cmd.steps : q[1] \in Files \cup Keys /\ (q[1] = s[1] => q = s)
  BY <1>2, <1>4, <1>5 DEF Planning, Aimed, Undo
<1>7. /\ cmd'.kind = cmd.kind /\ cmd'.at = "apply" /\ cmd'.left = cmd.left
      /\ cmd'.steps = cmd.steps \ {s} /\ cmd'.undo = cmd.undo \cup {u}
  BY <1>1, <1>2, <1>4, <1>5, AppliedFacts
<1>8. /\ disk'[s[1]] = s[2]
      /\ \A k \in Files \cup Keys : k # s[1] => disk'[k] = disk[k]
  BY <1>2, <1>4, <1>6 DEF Write, Typed
<1>9. "enabled" \in Keys /\ "init" \in Files /\ "manifest" \in Files /\ Files \cap Keys = {}
  BY DEF Files, Keys
<1>10. CASE cmd.kind = "uninstall"
  <2>1. s[2] = Absent
    BY <1>3, <1>4, <1>10 DEF StepsFit
  <2>2. ASSUME s[1] \in Files
        PROVE  disk.enabled = Absent /\ \A q \in cmd.steps : q[1] \notin Keys
    <3>1. \A q \in cmd.steps : q[1] \notin Keys
      BY <1>4, <1>10, <2>2, RankFacts DEF First, Rank, Files, Keys
    <3> QED
      BY <1>3, <1>9, <1>10, <3>1 DEF StepsFit
  <2>3. Switched(disk)'
    BY <1>3, <1>6, <1>8, <1>9, <2>1, <2>2 DEF Switched
  <2>4. StepsFit'
    <3>1. ASSUME disk'.enabled # Absent
          PROVE  \E q \in cmd'.steps : q[1] = "enabled"
      <4>1. s[1] # "enabled" /\ disk.enabled # Absent
        BY <1>8, <1>9, <2>1, <3>1
      <4>2. PICK q \in cmd.steps : q[1] = "enabled"
        BY <1>3, <1>10, <4>1 DEF StepsFit
      <4> QED
        BY <1>7, <4>1, <4>2
    <3> QED
      BY <1>3, <1>7, <1>10, <3>1 DEF StepsFit
  <2>5. UndoFits'
    <3>1. SUFFICES ASSUME \E q \in cmd'.steps : q[1] \in Keys
                   PROVE  \A v \in cmd'.undo :
                              /\ v[1] \in Keys
                              /\ v[1] = "enabled" => v[2] \in {Absent, "on"}
                              /\ v[1] = "enabled" /\ v[2] # Absent =>
                                     \A f \in Files : disk'[f] # Absent
      BY <1>7, <1>10 DEF UndoFits
    <3>2. s[1] \in Keys /\ \E q \in cmd.steps : q[1] \in Keys
      BY <1>6, <1>7, <2>2, <3>1
    <3>3. \A f \in Files : disk'[f] = disk[f]
      BY <1>8, <1>9, <3>2
    <3>4. \A v \in cmd.undo :
              /\ v[1] \in Keys
              /\ v[1] = "enabled" => v[2] \in {Absent, "on"}
              /\ v[1] = "enabled" /\ v[2] # Absent => \A f \in Files : disk[f] # Absent
      BY <1>10, <3>2, <1>3 DEF UndoFits
    <3>5. u[1] = "enabled" => /\ u[2] \in {Absent, "on"}
                              /\ u[2] # Absent => \A f \in Files : disk[f] # Absent
      BY <1>3, <1>6 DEF Switched, Files
    <3> QED
      BY <1>6, <1>7, <3>2, <3>3, <3>4, <3>5
  <2> QED
    BY <1>1, <1>7, <2>3, <2>4, <2>5 DEF SwitchInv
<1>11. CASE cmd.kind # "uninstall"
  <2>0. \A q \in cmd.steps :
            q[2] # Absent /\ (q[1] = "enabled" => q[2] = "on" /\ disk.enabled = Absent)
    BY <1>3, <1>11 DEF StepsFit
  <2>1. s[2] # Absent /\ (s[1] = "enabled" => s[2] = "on" /\ disk.enabled = Absent)
    BY <1>4, <2>0
  <2>2. ASSUME s[1] = "enabled"
        PROVE  \A f \in Files : disk[f] # Absent
    <3>1. ASSUME NEW f \in Files, disk[f] = Absent
          PROVE  FALSE
      <4>1. PICK q \in cmd.steps : q[1] = f
        BY <1>3, <1>11, <3>1 DEF StepsFit
      <4> QED
        BY <1>4, <1>9, <1>11, <2>2, <3>1, <4>1, RankFacts DEF First
    <3> QED
      BY <3>1
  <2>3. Switched(disk)'
    <3>1. CASE s[1] = "enabled"
      BY <1>8, <1>9, <2>1, <2>2, <3>1 DEF Switched
    <3>2. CASE s[1] # "enabled"
      BY <1>3, <1>6, <1>8, <1>9, <2>1, <3>2 DEF Switched
    <3> QED
      BY <3>1, <3>2
  <2>4. StepsFit'
    <3>1. ASSUME NEW q \in cmd'.steps
          PROVE  q[2] # Absent /\ (q[1] = "enabled" => q[2] = "on" /\ disk'.enabled = Absent)
      <4>1. q \in cmd.steps /\ q[1] # s[1]
        BY <1>6, <1>7, <3>1
      <4>2. q[2] # Absent /\ (q[1] = "enabled" => q[2] = "on" /\ disk.enabled = Absent)
        BY <2>0, <4>1
      <4> QED
        BY <1>8, <1>9, <4>1, <4>2
    <3>2. ASSUME NEW f \in Files, disk'[f] = Absent
          PROVE  \E q \in cmd'.steps : q[1] = f
      <4>1. f # s[1] /\ disk[f] = Absent
        BY <1>8, <2>1, <3>2
      <4>2. PICK q \in cmd.steps : q[1] = f
        BY <1>3, <1>11, <3>2, <4>1 DEF StepsFit
      <4> QED
        BY <1>7, <4>1, <4>2
    <3> QED
      BY <1>7, <1>11, <3>1, <3>2 DEF StepsFit
  <2>5. UndoFits'
    <3>1. \A v \in cmd.undo : v[1] = "enabled" => v[2] = Absent
      BY <1>3, <1>11 DEF UndoFits
    <3>2. u[1] = "enabled" => u[2] = Absent
      BY <1>6, <2>1
    <3>3. ASSUME NEW v \in cmd'.undo, v[1] \in Files, v[2] = Absent
          PROVE  disk'.enabled = Absent \/ \E q \in cmd'.undo : q[1] = "enabled"
      <4>1. CASE s[1] = "enabled"
        BY <1>6, <1>7, <4>1
      <4>2. CASE s[1] # "enabled"
        <5>1. disk'.enabled = disk.enabled
          BY <1>8, <1>9, <4>2
        <5>2. CASE v = u
          <6>1. disk[u[1]] = Absent /\ u[1] \in Files
            BY <1>6, <3>3, <5>2
          <6> QED
            BY <1>3, <5>1, <6>1 DEF Switched, Files
        <5>3. CASE v \in cmd.undo
          BY <1>2, <1>3, <1>7, <1>11, <3>3, <5>1, <5>3 DEF UndoFits
        <5> QED
          BY <1>7, <5>2, <5>3
      <4> QED
        BY <4>1, <4>2
    <3> QED
      BY <1>7, <1>11, <3>1, <3>2, <3>3 DEF UndoFits
  <2> QED
    BY <1>1, <1>7, <2>3, <2>4, <2>5 DEF SwitchInv
<1> QED
  BY <1>10, <1>11

LEMMA applyFailsSwitch ==
    ASSUME InstallInv, SwitchInv, applyFails
    PROVE  SwitchInv'
<1>1. cmd.at = "apply" /\ "apply" \in Writing
  BY DEF applyFails, Writing
<1>2. /\ Typed /\ CommandTyped(cmd) /\ cmd.kind \in PluginKinds /\ cmd # Idle
      /\ cmd.at \in PluginPlaces /\ Planning /\ ~cmd.left
  BY <1>1, AtWriting DEF InstallInv, GatewayInv
<1>3. Switched(disk) /\ StepsFit /\ UndoFits
  BY <1>1 DEF SwitchInv
<1>4. PICK s \in cmd.steps :
          /\ First(s)
          /\ \/ disk' = disk
             \/ s[1] \in Keys /\ Write(s[1], s[2])
          /\ cmd' = IF cmd.kind = "uninstall" /\ s[1] \in Files THEN Idle
                    ELSE [cmd EXCEPT !.at = "rollback",
                            !.undo = IF s[1] \in Keys THEN @ \cup {Undo(s)} ELSE @]
  BY DEF applyFails
<1>5. PICK u : u = Undo(s)
  OBVIOUS
<1>6. s[1] \in Files \cup Keys /\ u[1] = s[1] /\ u[2] = disk[s[1]]
  BY <1>2, <1>4, <1>5 DEF Planning, Aimed, Undo
<1>7. /\ disk'[s[1]] \in {disk[s[1]], s[2]}
      /\ \A k \in Files \cup Keys : k # s[1] => disk'[k] = disk[k]
      /\ s[1] \notin Keys => disk' = disk
  BY <1>2, <1>4, <1>6 DEF Write, Typed
<1>8. "enabled" \in Keys /\ "init" \in Files /\ "manifest" \in Files /\ Files \cap Keys = {}
  BY DEF Files, Keys
<1>9. \A f \in Files : disk'[f] = disk[f]
  BY <1>6, <1>7, <1>8
<1>10. CASE cmd.kind = "uninstall" /\ s[1] \in Files
  <2>1. cmd'.at = "idle" /\ disk' = disk
    BY <1>4, <1>7, <1>8, <1>10, IdleFacts
  <2> QED
    BY <2>1, SwitchQuiet DEF Writing
<1>11. CASE ~(cmd.kind = "uninstall" /\ s[1] \in Files)
  <2>1. PICK undo : undo = IF s[1] \in Keys THEN cmd.undo \cup {u} ELSE cmd.undo
    OBVIOUS
  <2>2. cmd' = [cmd EXCEPT !.at = "rollback", !.undo = undo]
    BY <1>4, <1>5, <1>11, <2>1
  <2>3. /\ cmd'.kind = cmd.kind /\ cmd'.at = "rollback" /\ cmd'.left = cmd.left
        /\ cmd'.undo = undo
    BY <1>2, <2>2, GaveUpFacts
  <2>4. cmd'.at \notin {"begin", "apply"}
    BY <2>3
  <2>5. CASE cmd.kind = "uninstall"
    <3>1. s[1] \in Keys /\ s[2] = Absent
      BY <1>3, <1>4, <1>6, <1>11, <2>5 DEF StepsFit
    <3>2. Switched(disk)'
      BY <1>3, <1>6, <1>7, <1>8, <1>9, <3>1 DEF Switched
    <3>3. \A v \in cmd.undo :
              /\ v[1] \in Keys
              /\ v[1] = "enabled" => v[2] \in {Absent, "on"}
              /\ v[1] = "enabled" /\ v[2] # Absent => \A f \in Files : disk[f] # Absent
      BY <1>3, <1>4, <2>5, <3>1 DEF UndoFits
    <3>4. u[1] = "enabled" => /\ u[2] \in {Absent, "on"}
                              /\ u[2] # Absent => \A f \in Files : disk[f] # Absent
      BY <1>3, <1>6 DEF Switched, Files
    <3>5. \A v \in cmd'.undo :
              /\ v[1] \in Keys
              /\ v[1] = "enabled" => v[2] \in {Absent, "on"}
              /\ v[1] = "enabled" /\ v[2] # Absent => \A f \in Files : disk'[f] # Absent
      BY <1>6, <1>9, <2>1, <2>3, <3>1, <3>3, <3>4
    <3>6. UndoFits'
      BY <2>3, <2>5, <3>5 DEF UndoFits
    <3> QED
      BY <2>4, <3>2, <3>6 DEF SwitchInv
  <2>6. CASE cmd.kind # "uninstall"
    <3>1. \A q \in cmd.steps :
              q[2] # Absent /\ (q[1] = "enabled" => q[2] = "on" /\ disk.enabled = Absent)
      BY <1>3, <2>6 DEF StepsFit
    <3>2. ASSUME s[1] = "enabled"
          PROVE  \A f \in Files : disk[f] # Absent
      <4>1. ASSUME NEW f \in Files, disk[f] = Absent
            PROVE  FALSE
        <5>1. PICK q \in cmd.steps : q[1] = f
          BY <1>3, <2>6, <4>1 DEF StepsFit
        <5> QED
          BY <1>4, <1>8, <2>6, <3>2, <4>1, <5>1, RankFacts DEF First
      <4> QED
        BY <4>1
    <3>3. Switched(disk)'
      <4>1. CASE s[1] = "enabled"
        BY <1>3, <1>4, <1>7, <1>8, <1>9, <3>1, <3>2, <4>1 DEF Switched
      <4>2. CASE s[1] # "enabled"
        BY <1>3, <1>7, <1>8, <1>9, <4>2 DEF Switched
      <4> QED
        BY <4>1, <4>2
    <3>4. \A v \in cmd.undo : v[1] = "enabled" => v[2] = Absent
      BY <1>3, <2>6 DEF UndoFits
    <3>5. u[1] = "enabled" => u[2] = Absent
      BY <1>4, <1>6, <3>1
    <3>6. ASSUME NEW v \in cmd'.undo, v[1] \in Files, v[2] = Absent
          PROVE  disk'.enabled = Absent \/ \E q \in cmd'.undo : q[1] = "enabled"
      <4>1. v \in cmd.undo
        BY <1>6, <1>8, <2>1, <2>3, <3>6
      <4>2. disk.enabled = Absent \/ \E q \in cmd.undo : q[1] = "enabled"
        BY <1>2, <1>3, <2>6, <3>6, <4>1 DEF UndoFits
      <4> QED
        BY <1>6, <1>7, <1>8, <2>1, <2>3, <4>2
    <3>7. UndoFits'
      BY <2>1, <2>3, <2>6, <3>4, <3>5, <3>6 DEF UndoFits
    <3> QED
      BY <2>4, <3>3, <3>7 DEF SwitchInv
  <2> QED
    BY <2>5, <2>6
<1> QED
  BY <1>10, <1>11

LEMMA rollbackSwitch ==
    ASSUME InstallInv, SwitchInv, rollback
    PROVE  SwitchInv'
<1>1. cmd.at = "rollback" /\ "rollback" \in Writing
  BY DEF rollback, Writing
<1>2. /\ Typed /\ CommandTyped(cmd) /\ cmd.kind \in PluginKinds /\ cmd # Idle
      /\ cmd.at \in PluginPlaces /\ UndoneOnce
      /\ \A u \in cmd.undo : u[1] = "enabled" =>
             disk.enabled \in {u[2], u[3]} \/ (edited /\ disk.enabled = Absent)
  BY <1>1, AtWriting
<1>3. Switched(disk) /\ UndoFits
  BY <1>1 DEF SwitchInv
<1>4. PICK u \in cmd.undo : Latest(u) /\ (reverseKey(u) \/ restoreFiles(u))
  BY DEF rollback
<1>5. u[1] \in Files \cup Keys /\ \A q \in cmd.undo : q[1] = u[1] => q = u
  BY <1>2, <1>4 DEF UndoneOnce
<1>6. "enabled" \in Keys /\ "init" \in Files /\ "manifest" \in Files /\ Files \cap Keys = {}
  BY DEF Files, Keys
<1>7. CASE End /\ UNCHANGED disk
  <2>1. cmd'.at = "idle"
    BY <1>7, IdleFacts DEF End
  <2> QED
    BY <1>7, <2>1, SwitchQuiet DEF Writing
<1>8. CASE ~(End /\ UNCHANGED disk)
  <2>1. /\ cmd' = Popped(u) \/ cmd' = Left(u)
        /\ \/ disk' = disk
           \/ disk' = [disk EXCEPT ![u[1]] = u[2]] /\ (u[1] \in Keys \/ ~cmd.left)
        /\ u[1] = "enabled" =>
               disk'.enabled = u[2] \/ cmd' = Left(u) \/ disk.enabled # u[3]
    <3>1. CASE reverseKey(u)
      <4>1. /\ u[1] \in Keys
            /\ \/ disk' = [disk EXCEPT ![u[1]] = u[2]] /\ cmd' = Popped(u)
               \/ disk' = disk /\ cmd' = Left(u)
               \/ disk' = disk /\ disk[u[1]] # u[3] /\ (cmd' = Popped(u) \/ cmd' = Left(u))
        BY <3>1 DEF reverseKey, Write
      <4>2. disk' = [disk EXCEPT ![u[1]] = u[2]] => disk'[u[1]] = u[2]
        BY <1>2, <1>5 DEF Typed
      <4> QED
        BY <4>1, <4>2
    <3>2. CASE restoreFiles(u)
      BY <1>6, <1>8, <3>2 DEF restoreFiles, Write
    <3> QED
      BY <1>4, <3>1, <3>2
  <2>2. /\ cmd'.kind = cmd.kind /\ cmd'.at = "rollback" /\ cmd'.undo = cmd.undo \ {u}
        /\ cmd'.left \in BOOLEAN /\ (~cmd'.left => ~cmd.left /\ cmd' # Left(u))
    BY <1>1, <1>2, <2>1, PoppedFacts
  <2>3. /\ disk'[u[1]] \in {disk[u[1]], u[2]}
        /\ \A k \in Files \cup Keys : k # u[1] => disk'[k] = disk[k]
    BY <1>2, <1>5, <2>1 DEF Typed
  <2>4. cmd'.at \notin {"begin", "apply"}
    BY <2>2
  <2>5. CASE cmd.kind = "uninstall"
    <3>1. \A v \in cmd.undo :
              /\ v[1] \in Keys
              /\ v[1] = "enabled" => v[2] \in {Absent, "on"}
              /\ v[1] = "enabled" /\ v[2] # Absent => \A f \in Files : disk[f] # Absent
      BY <1>1, <1>3, <2>5 DEF UndoFits
    <3>2. \A f \in Files : disk'[f] = disk[f]
      BY <1>4, <1>6, <2>3, <3>1
    <3>3. Switched(disk)'
      BY <1>3, <1>4, <1>6, <2>3, <3>1, <3>2 DEF Switched
    <3>4. UndoFits'
      BY <2>2, <2>5, <3>1, <3>2 DEF UndoFits
    <3> QED
      BY <2>4, <3>3, <3>4 DEF SwitchInv
  <2>6. CASE cmd.kind # "uninstall"
    <3>1. /\ \A v \in cmd.undo : v[1] = "enabled" => v[2] = Absent
          /\ ~cmd.left => \A v \in cmd.undo : v[1] \in Files /\ v[2] = Absent =>
                 disk.enabled = Absent \/ \E q \in cmd.undo : q[1] = "enabled"
      BY <1>3, <2>6 DEF UndoFits
    <3>2. ASSUME u[1] \in Files, u[2] = Absent, disk' # disk
          PROVE  disk.enabled = Absent
      <4>1. ~cmd.left
        BY <1>6, <2>1, <3>2
      <4>2. \A q \in cmd.undo : q[1] # "enabled"
        BY <1>4, <1>6, <2>6, <3>2, RankFacts DEF Latest
      <4> QED
        BY <1>4, <3>1, <3>2, <4>1, <4>2
    <3>3. disk'.enabled \in {disk.enabled, Absent}
      BY <1>4, <1>6, <2>3, <3>1
    <3>4. Switched(disk)'
      <4>1. CASE disk' = disk
        BY <1>3, <4>1 DEF Switched
      <4>2. CASE disk' # disk /\ u[1] \in Files /\ u[2] = Absent
        BY <3>2, <3>3, <4>2 DEF Switched
      <4>3. CASE u[1] \in Files /\ u[2] # Absent
        BY <1>3, <1>6, <2>3, <4>3 DEF Switched
      <4>4. CASE u[1] \in Keys
        BY <1>3, <1>6, <2>3, <3>3, <4>4 DEF Switched
      <4> QED
        BY <1>5, <4>1, <4>2, <4>3, <4>4
    <3>5. \A v \in cmd'.undo : v[1] = "enabled" => v[2] = Absent
      BY <2>2, <3>1
    <3>6. ASSUME ~cmd'.left, NEW v \in cmd'.undo, v[1] \in Files, v[2] = Absent
          PROVE  disk'.enabled = Absent \/ \E q \in cmd'.undo : q[1] = "enabled"
      <4>1. v \in cmd.undo /\ ~cmd.left /\ cmd' # Left(u)
        BY <2>2, <3>6
      <4>2. disk.enabled = Absent \/ \E q \in cmd.undo : q[1] = "enabled"
        BY <3>1, <3>6, <4>1
      <4>3. ASSUME u[1] = "enabled"
            PROVE  disk'.enabled = Absent
        <5>1. u[2] = Absent
          BY <1>4, <3>1, <4>3
        <5>2. disk'.enabled = Absent \/ disk.enabled # u[3]
          BY <2>1, <4>1, <4>3, <5>1
        <5>3. disk.enabled # u[3] => disk.enabled = Absent
          BY <1>2, <1>4, <4>3, <5>1
        <5> QED
          BY <3>3, <5>2, <5>3
      <4> QED
        BY <2>2, <3>3, <4>2, <4>3
    <3>7. UndoFits'
      BY <2>2, <2>6, <3>5, <3>6 DEF UndoFits
    <3> QED
      BY <2>4, <3>4, <3>7 DEF SwitchInv
  <2> QED
    BY <2>5, <2>6
<1> QED
  BY <1>7, <1>8

LEMMA OperatorEditsSwitch ==
    ASSUME InstallInv, SwitchInv, OperatorEdits
    PROVE  SwitchInv'
<1>1. Typed /\ CommandTyped(cmd)
  BY DEF InstallInv, Typed
<1>2. /\ disk'.enabled \in {disk.enabled, Absent}
      /\ disk'.init = disk.init /\ disk'.manifest = disk.manifest
  BY <1>1 DEF OperatorEdits, Write, Typed, Files, Keys
<1>3. \A f \in Files : disk'[f] = disk[f]
  BY <1>2 DEF Files
<1>4. /\ cmd'.kind = cmd.kind /\ cmd'.at = cmd.at /\ cmd'.steps = cmd.steps
      /\ cmd'.undo = cmd.undo /\ cmd'.left = cmd.left
  <2>1. PICK c : c = cmd
    OBVIOUS
  <2>2. PICK clean : cmd' = [c EXCEPT !.clean = clean]
    BY <2>1 DEF OperatorEdits
  <2>3. c = [kind |-> c.kind, at |-> c.at, digest |-> c.digest, steps |-> c.steps,
             undo |-> c.undo, prev |-> c.prev, left |-> c.left, clean |-> c.clean]
    BY <1>1, <2>1 DEF CommandTyped
  <2> HIDE <2>1
  <2>4. cmd' = [kind |-> c.kind, at |-> c.at, digest |-> c.digest, steps |-> c.steps,
                undo |-> c.undo, prev |-> c.prev, left |-> c.left, clean |-> clean]
    BY <2>2, <2>3
  <2> QED
    BY <2>1, <2>4
<1>5. Switched(disk)'
  BY <1>2 DEF SwitchInv, Switched
<1>6. ASSUME StepsFit
      PROVE  StepsFit'
  BY <1>2, <1>3, <1>4, <1>6 DEF StepsFit
<1>7. ASSUME UndoFits
      PROVE  UndoFits'
  BY <1>2, <1>3, <1>4, <1>7 DEF UndoFits
<1> QED
  BY <1>4, <1>5, <1>6, <1>7 DEF SwitchInv

LEMMA SwitchNext ==
    ASSUME InstallInv, SwitchInv, [Next]_vars
    PROVE  SwitchInv'
<1>1. Typed /\ CommandTyped(cmd)
  BY DEF InstallInv, Typed
<1>2. \A l : To(l) => cmd'.at = l
  BY <1>1 DEF To, CommandTyped
<1>3. End => cmd'.at = "idle"
  BY IdleFacts DEF End
<1>4. CASE UpdateNext /\ ~activateHermesPluginAfterUpdate
  BY <1>4, UpdaterQuiet, SwitchQuiet
<1>5. CASE activateHermesPluginAfterUpdate
  <2>1. UNCHANGED disk
    BY <1>5 DEF activateHermesPluginAfterUpdate
  <2>2. CASE End
    BY <1>3, <2>1, <2>2, SwitchQuiet DEF Writing
  <2>3. CASE \E t \in planSessions : activate("activate", t)
    <3>1. PICK t \in Targets : activate("activate", t)
      BY <2>3 DEF planSessions
    <3> QED
      BY <1>1, <2>1, <3>1, ActivateSwitch
  <2> QED
    BY <1>5, <2>2, <2>3 DEF activateHermesPluginAfterUpdate, activateHermesPlugin
<1>6. CASE HermesCommand
  <2>1. CASE runHermesPluginInstall
    <3>1. PICK t \in Targets : activate("install", t)
      BY <2>1 DEF runHermesPluginInstall
    <3>2. UNCHANGED disk
      BY <2>1 DEF runHermesPluginInstall
    <3> QED
      BY <1>1, <3>1, <3>2, ActivateSwitch
  <2> QED
    BY <1>1, <1>6, <2>1, UninstallSwitch DEF HermesCommand
<1>7. CASE beginGeneration
  <2>1. cmd.at = "begin" /\ UNCHANGED disk /\ To("apply") /\ "begin" \in PluginPlaces
    BY <1>7 DEF beginGeneration, PluginPlaces
  <2>2. /\ cmd'.kind = cmd.kind /\ cmd'.at = "apply" /\ cmd'.steps = cmd.steps
        /\ cmd'.undo = cmd.undo /\ cmd'.left = cmd.left
    <3>1. cmd.kind \in PluginKinds /\ "apply" \in PluginPlaces
      BY <2>1, AtPlugin DEF PluginPlaces, Writing
    <3> QED
      BY <1>1, <2>1, <3>1, Moves
  <2>3. cmd.undo = {}
    BY <2>1 DEF InstallInv, GatewayInv
  <2>4. Switched(disk)' /\ StepsFit'
    BY <2>1, <2>2 DEF SwitchInv, Switched, StepsFit
  <2>5. UndoFits'
    BY <2>2, <2>3 DEF UndoFits
  <2> QED
    BY <2>4, <2>5 DEF SwitchInv
<1>8. CASE allApplied \/ reportFailure \/ finishGeneration \/ activateHosts \/ restartFails
           \/ restartConfirmed \/ Crash
  <2>1. UNCHANGED disk /\ cmd'.at \in {"idle", "finish", "restart", "restarted"}
    BY <1>2, <1>3, <1>8 DEF allApplied, reportFailure, finishGeneration, activateHosts,
       restartFails, restartConfirmed, Crash
  <2> QED
    BY <2>1, SwitchQuiet DEF Writing
<1>9. CASE GatewayStarts \/ GatewayStops
  <2>1. UNCHANGED <<disk, cmd>>
    BY <1>9 DEF GatewayStarts, GatewayStops
  <2> QED
    BY <2>1, SwitchQuiet
<1>10. CASE UNCHANGED <<client, budget, hVars, uVars>>
  <2>1. UNCHANGED <<disk, cmd>>
    BY <1>10 DEF hVars
  <2> QED
    BY <2>1, SwitchQuiet
<1> QED
  BY <1>4, <1>5, <1>6, <1>7, <1>8, <1>9, <1>10, applyStepSwitch, applyFailsSwitch, rollbackSwitch,
     OperatorEditsSwitch DEF Next, vars, HermesStep, HermesEnv

-----------------------------------------------------------------------------
(* The specification.                                                      *)

LEMMA InstallInit ==
    ASSUME UpdateInit, HermesInit, registry \in [client : Nat, server : Nat],
           budget \in [runs : Nat, faults : Nat, starts : Nat, published : Nat]
    PROVE  InstallInv
<1>1. cmd = Idle /\ CommandTyped(cmd) /\ cmd.kind = "none" /\ cmd.at = "idle"
  BY IdleFacts DEF HermesInit
<1>2. record = Absent /\ edited = FALSE /\ gateway.loaded = Absent
      /\ gateway = [kind |-> gateway.kind, pid |-> gateway.pid, loaded |-> gateway.loaded,
                    amid |-> gateway.amid]
      /\ gateway.pid \in Nat /\ gateway.amid \in BOOLEAN
  <2>1. \E k : \E n \in {0, 1} : gateway = [kind |-> k, pid |-> n, loaded |-> Absent, amid |-> FALSE]
    BY DEF HermesInit, Stopped
  <2>2. PICK k : \E n \in {0, 1} : gateway = [kind |-> k, pid |-> n, loaded |-> Absent, amid |-> FALSE]
    BY <2>1
  <2>3. PICK n \in {0, 1} : gateway = [kind |-> k, pid |-> n, loaded |-> Absent, amid |-> FALSE]
    BY <2>2
  <2>4. gateway.loaded = Absent /\ gateway.pid \in Nat /\ gateway.amid = FALSE
        /\ gateway = [kind |-> gateway.kind, pid |-> gateway.pid, loaded |-> gateway.loaded,
                      amid |-> gateway.amid]
    BY <2>3
  <2>5. record = Absent /\ edited = FALSE
    BY DEF HermesInit
  <2> QED
    BY <2>4, <2>5
<1>3. disk = [k \in Files \cup Keys |-> disk[k]] /\ Content(disk) = Absent
  BY DEF HermesInit, Content, Files
<1>4. client \in Nat /\ server \in Nat /\ runtime \in [prepared : Nat, running : Nat]
      /\ PlanTyped(plan) /\ meddled \in BOOLEAN
  <2>1. client = 1 /\ server \in {0, 1} /\ plan = NoPlan /\ meddled = FALSE
    BY DEF UpdateInit
  <2>2. PICK r \in {0, server} : runtime = [prepared |-> server, running |-> r]
    BY DEF UpdateInit
  <2>3. runtime \in [prepared : Nat, running : Nat]
    BY <2>1, <2>2
  <2> QED
    <3>1. meddled \in BOOLEAN
      BY <2>1
    <3>2. PlanTyped(plan)
      BY <2>1, NoPlanTyped
    <3>3. client \in Nat /\ server \in Nat
      BY <2>1
    <3> QED
      BY <2>3, <3>1, <3>2, <3>3
<1>5. Typed
  BY <1>1, <1>2, <1>3, <1>4 DEF Typed
<1>6. UpdateAgrees /\ SetupAgrees
  BY <1>1 DEF UpdateAgrees, SetupAgrees
<1>7. GatewayInv
  BY <1>1, <1>2, <1>3 DEF GatewayInv, Fits, Describes, NamesSomething, Writing, Finishing
<1> QED
  BY <1>5, <1>6, <1>7 DEF InstallInv

LEMMA UpdaterNext ==
    ASSUME InstallInv, UpdateNext
    PROVE  InstallInv'
  BY runUpdateInv, publishedPackageInv, confirmUpdateInv, installClientInv, installServerInv,
     serverStatusInv, serverUpdateInv, serverRecheckInv, verifyUpdateInv,
     refreshAgentIntegrationsInv, activateHermesPluginAfterUpdateInv,
     setupInv, offerInv, installFirstServerInv, initializeServerInv, EndsInv, AroundInv
     DEF UpdateNext

LEMMA HermesNext ==
    ASSUME InstallInv, SwitchInv, HermesCommand \/ HermesStep \/ HermesEnv, UNCHANGED uVars
    PROVE  InstallInv'
  BY runHermesPluginInstallInv, runHermesPluginUninstallInv, beginGenerationInv, applyStepInv,
     applyFailsInv, allAppliedInv, rollbackInv, reportFailureInv, finishGenerationInv,
     activateHostsInv, restartConfirmedInv, GivesUpInv, OperatorEditsInv, GatewayStartsInv,
     GatewayStopsInv
     DEF HermesCommand, HermesStep, HermesEnv

LEMMA InstallNext ==
    ASSUME InstallInv, SwitchInv, [Next]_vars
    PROVE  InstallInv'
<1>1. CASE UpdateNext
  BY <1>1, UpdaterNext
<1>2. CASE (HermesCommand \/ HermesStep \/ HermesEnv) /\ UNCHANGED <<kVars, uVars>>
  BY <1>2, HermesNext
<1>3. CASE UNCHANGED <<client, budget, hVars, uVars>>
  BY <1>3, AroundInv
<1> QED
  BY <1>1, <1>2, <1>3 DEF Next, vars

\* From any releases and budget, update, setup and the plugin's installer keep what the
\* invariant says of them: each step of a command leaves the files, the record and the
\* gateway as the command's place promises.
THEOREM InstallIsInductive == UpdateSpec => []InstallInv
<1>1. UpdateSpec => InstallInv /\ SwitchInv /\ [][Next]_vars
  <2>1. HermesInit => SwitchInv
    BY IdleFacts DEF HermesInit, SwitchInv, Switched, Writing, Files, Keys
  <2> QED
    BY <2>1, InstallInit DEF UpdateSpec
<1>2. InstallInv /\ SwitchInv /\ [Next]_vars => InstallInv' /\ SwitchInv'
  BY InstallNext, SwitchNext
<1> QED
  BY <1>1, <1>2, PTL

\* What an update has checked, and what setup has installed, pins one shared package on
\* both sides, whatever is published, fails or is changed by hand before the check.
THEOREM UpdatedPairsAgree == UpdateSpec => []UpdatedPairAgrees
<1>1. InstallInv => UpdatedPairAgrees
  BY DEF InstallInv, UpdateAgrees, SetupAgrees, UpdatedPairAgrees
<1> QED
  BY <1>1, InstallIsInductive, PTL

\* Between commands a running gateway has loaded what the record calls active, whichever
\* write failed, whatever could not be undone and whenever the gateway was restarted.
THEOREM GatewaysHaveWhatIsActive == UpdateSpec => []GatewayHasWhatIsActive
<1>1. InstallInv => GatewayHasWhatIsActive
  <2>1. SUFFICES ASSUME InstallInv, cmd = Idle
                 PROVE  GatewayHasWhatIsActive
    BY DEF GatewayHasWhatIsActive
  <2>2. cmd.at \notin Writing
    BY <2>1, IdleFacts DEF Writing
  <2> QED
    BY <2>1, <2>2 DEF InstallInv, GatewayInv, Fits, GatewayHasWhatIsActive
<1> QED
  BY <1>1, InstallIsInductive, PTL

-----------------------------------------------------------------------------
(***************************************************************************)
(* The agents' configuration files (AgentHooks): the operator's part of    *)
(* each stays, in its order.                                               *)
(*                                                                         *)
(* A filter is stated in closed form (Selections), so what it keeps is     *)
(* proved of lists of any length: every change of a file keeps what is not *)
(* Borg's in it (ChangedKeeps), so every process holds, from its read to   *)
(* its write, contents with the operator's part unless what it read was    *)
(* lost already (FilesInv); and a command's process is at work only while  *)
(* the command waits for it (OrderInv).                                    *)
(***************************************************************************)

(* What a filter keeps of a list.                                          *)

\* A set of places of some sequence.
LEMMA PlacesFinite ==
    ASSUME NEW m \in Nat, NEW K \in SUBSET (1..m)
    PROVE  /\ IsFiniteSet(K) /\ Cardinality(K) \in Nat
           /\ \A i : IsFiniteSet(Upto(K, i)) /\ Cardinality(Upto(K, i)) \in Nat
<1>1. IsFiniteSet(1..m)
  BY FS_Interval
<1>2. \A i : Upto(K, i) \in SUBSET (1..m)
  BY DEF Upto
<1> QED BY <1>1, <1>2, FS_Subset, FS_CardinalityType

\* A later place has a higher rank.
LEMMA RankGrows ==
    ASSUME NEW m \in Nat, NEW K \in SUBSET (1..m), NEW i \in K, NEW j \in K, i < j
    PROVE  Cardinality(Upto(K, i)) < Cardinality(Upto(K, j))
<1>0. \A k \in K : k \in Nat
  OBVIOUS
<1>a. i \in Nat /\ j \in Nat
  BY <1>0
<1>1. Upto(K, i) \in SUBSET Upto(K, j) /\ j \in Upto(K, j) /\ j \notin Upto(K, i)
  <2>1. \A k \in K : k <= i => k <= j
    BY <1>0, <1>a
  <2>2. Upto(K, i) \subseteq Upto(K, j)
    BY <2>1 DEF Upto
  <2>3. j \in Upto(K, j)
    <3>1. j <= j BY <1>a
    <3> QED BY <3>1 DEF Upto
  <2>4. j \notin Upto(K, i)
    <3>1. ~(j <= i) BY <1>a
    <3> QED BY <3>1 DEF Upto
  <2> QED BY <2>2, <2>3, <2>4
<1>2. IsFiniteSet(Upto(K, i)) /\ IsFiniteSet(Upto(K, j)) /\ Cardinality(Upto(K, i)) \in Nat
      /\ Cardinality(Upto(K, j)) \in Nat
  BY PlacesFinite
<1>3. Cardinality(Upto(K, i)) <= Cardinality(Upto(K, j))
  BY <1>1, <1>2, FS_Subset
<1>4. Cardinality(Upto(K, i)) # Cardinality(Upto(K, j))
  BY <1>1, <1>2, FS_Subset
<1> QED BY <1>2, <1>3, <1>4

LEMMA RankInRange ==
    ASSUME NEW m \in Nat, NEW K \in SUBSET (1..m), NEW i \in K
    PROVE  Cardinality(Upto(K, i)) \in 1..Cardinality(K)
<1>1. Upto(K, i) \in SUBSET K /\ i \in Upto(K, i)
  BY DEF Upto
<1>2. IsFiniteSet(K) /\ Cardinality(K) \in Nat /\ IsFiniteSet(Upto(K, i)) /\ Cardinality(Upto(K, i)) \in Nat
  BY PlacesFinite
<1>3. Cardinality(Upto(K, i)) <= Cardinality(K)
  BY <1>1, <1>2, FS_Subset
<1>4. Cardinality(Upto(K, i)) # 0
  BY <1>1, <1>2, FS_EmptySet
<1> QED BY <1>2, <1>3, <1>4

\* The n-th place is one, has rank n, and each place is the n-th for its rank.
LEMMA NthPlace ==
    ASSUME NEW m \in Nat, NEW K \in SUBSET (1..m)
    PROVE  /\ \A n \in 1..Cardinality(K) : Nth(K, n) \in K /\ Cardinality(Upto(K, Nth(K, n))) = n
           /\ \A i \in K : Nth(K, Cardinality(Upto(K, i))) = i
<1> DEFINE f == [i \in K |-> Cardinality(Upto(K, i))]
           N == 1..Cardinality(K)
<1>0. IsFiniteSet(K) /\ Cardinality(K) \in Nat
  BY PlacesFinite
<1>a. IsFiniteSet(N) /\ Cardinality(N) = Cardinality(K)
  BY <1>0, FS_Interval
<1>1. \A i, j \in K : f[i] = f[j] => i = j
  <2> SUFFICES ASSUME NEW i \in K, NEW j \in K, i < j PROVE f[i] # f[j]
    OBVIOUS
  <2>1. Cardinality(Upto(K, i)) < Cardinality(Upto(K, j)) BY RankGrows
  <2>2. Cardinality(Upto(K, i)) \in Nat /\ Cardinality(Upto(K, j)) \in Nat BY PlacesFinite
  <2> QED BY <2>1, <2>2
<1>2. f \in [K -> N]
  BY RankInRange
<1>3. f \in Injection(K, N)
  BY <1>1, <1>2 DEF Injection, IsInjective
<1>4. f \in Surjection(K, N)
  <2> HIDE DEF f
  <2> QED BY <1>0, <1>a, <1>3, FS_Injection
<1>5. \A n \in N : \E i \in K : f[i] = n
  BY <1>4 DEF Surjection
<1>6. \A n \in N : Nth(K, n) \in K /\ Cardinality(Upto(K, Nth(K, n))) = n
  BY <1>5 DEF Nth
<1>7. ASSUME NEW i \in K PROVE Nth(K, Cardinality(Upto(K, i))) = i
  <2>1. Cardinality(Upto(K, i)) \in N BY RankInRange
  <2>2. Nth(K, f[i]) \in K /\ f[Nth(K, f[i])] = f[i] BY <2>1, <1>6
  <2> QED BY <2>2, <1>1
<1> QED BY <1>6, <1>7

\* The n-th places are in order.
LEMMA NthGrows ==
    ASSUME NEW m \in Nat, NEW K \in SUBSET (1..m), NEW n \in 1..Cardinality(K),
           NEW o \in 1..Cardinality(K)
    PROVE  n < o <=> Nth(K, n) < Nth(K, o)
<1>1. Nth(K, n) \in K /\ Cardinality(Upto(K, Nth(K, n))) = n
  BY NthPlace
<1>2. Nth(K, o) \in K /\ Cardinality(Upto(K, Nth(K, o))) = o
  BY NthPlace
<1>3. Nth(K, n) < Nth(K, o) => n < o
  BY <1>1, <1>2, RankGrows
<1>4. Nth(K, o) < Nth(K, n) => o < n
  BY <1>1, <1>2, RankGrows
<1>5. n \in Nat /\ o \in Nat /\ Nth(K, n) \in Nat /\ Nth(K, o) \in Nat
  <2>1. Cardinality(K) \in Nat BY PlacesFinite
  <2>2. \A k \in K : k \in Nat OBVIOUS
  <2>3. n \in Nat /\ o \in Nat BY <2>1
  <2> QED BY <1>1, <1>2, <2>3, <2>2
<1>6. n = o <=> Nth(K, n) = Nth(K, o)
  BY <1>1, <1>2
<1> QED BY <1>3, <1>4, <1>5, <1>6

\* What is chosen is a sequence of elements of the sequence, as many as the places.
LEMMA ChosenFrom ==
    ASSUME NEW X, NEW s \in Seq(X), NEW K \in SUBSET (DOMAIN s)
    PROVE  /\ Chosen(s, K) \in Seq(X)
           /\ DOMAIN Chosen(s, K) = 1..Cardinality(K)
           /\ \A n \in 1..Cardinality(K) : Nth(K, n) \in K /\ Chosen(s, K)[n] = s[Nth(K, n)]
<1>1. Len(s) \in Nat /\ DOMAIN s = 1..Len(s) /\ \A i \in DOMAIN s : s[i] \in X
  OBVIOUS
<1>2. K \in SUBSET (1..Len(s))
  BY <1>1
<1>3. Cardinality(K) \in Nat
  BY <1>1, <1>2, PlacesFinite
<1>4. \A n \in 1..Cardinality(K) : Nth(K, n) \in K
  BY <1>1, <1>2, NthPlace
<1>5. \A n \in 1..Cardinality(K) : s[Nth(K, n)] \in X
  BY <1>1, <1>4
<1>6. Chosen(s, K) \in [1..Cardinality(K) -> X]
  BY <1>5 DEF Chosen
<1>7. Chosen(s, K) \in Seq(X)
  BY <1>3, <1>6
<1> QED
  BY <1>4, <1>7 DEF Chosen

LEMMA NothingChosen ==
    ASSUME NEW s
    PROVE  Chosen(s, {}) = <<>>
<1>1. Cardinality({}) = 0
  BY FS_EmptySet
<1> QED
  BY <1>1 DEF Chosen

\* Choosing places, and then those of interest among them, is choosing those of interest.
LEMMA ChosenAmong ==
    ASSUME NEW X, NEW s \in Seq(X), NEW K \in SUBSET (DOMAIN s), NEW M \in SUBSET K
    PROVE  Chosen(Chosen(s, K), {l \in 1..Cardinality(K) : Nth(K, l) \in M}) = Chosen(s, M)
<1> DEFINE L == {l \in 1..Cardinality(K) : Nth(K, l) \in M}
           c == Cardinality(K)
<1>m. PICK m \in Nat : DOMAIN s = 1..m
  OBVIOUS
<1>k. K \in SUBSET (1..m)
  BY <1>m
<1>0. c \in Nat /\ IsFiniteSet(K)
  BY <1>k, PlacesFinite
<1>1. \A l \in 1..c : Nth(K, l) \in K
  BY <1>k, NthPlace
<1>2. \A i \in M : \E l \in L : i = Nth(K, l)
  <2> TAKE i \in M
  <2>1. Nth(K, Cardinality(Upto(K, i))) = i /\ Cardinality(Upto(K, i)) \in 1..Cardinality(K)
    BY <1>k, NthPlace, RankInRange
  <2> QED BY <2>1
<1>2a. \A k \in K : k \in Nat
  BY <1>k
<1>2b. M = {Nth(K, l) : l \in L}
  BY <1>2
<1>3. \A n, o \in 1..c : n <= o <=> Nth(K, n) <= Nth(K, o)
  <2> TAKE n, o \in 1..c
  <2>1. o < n <=> Nth(K, o) < Nth(K, n)
    BY <1>k, NthGrows
  <2>2. Nth(K, n) \in Nat /\ Nth(K, o) \in Nat
    BY <1>1, <1>2a
  <2>3. n \in Nat /\ o \in Nat
    BY <1>0
  <2> QED BY <2>1, <2>2, <2>3
<1>3a. L \in SUBSET (1..c)
  OBVIOUS
<1> HIDE DEF L, c
<1>4. ASSUME NEW A \in SUBSET L
      PROVE  Cardinality({Nth(K, l) : l \in A}) = Cardinality(A)
  <2> DEFINE B == {Nth(K, l) : l \in A}
             g == [l \in A |-> Nth(K, l)]
  <2>1. IsFiniteSet(A)
    <3>1. A \in SUBSET (1..c) BY <1>3a
    <3> QED BY <1>0, <3>1, PlacesFinite
  <2>2. \A n, o \in A : g[n] = g[o] => n = o
    <3> TAKE n, o \in A
    <3>1. n \in 1..c /\ o \in 1..c BY <1>3a
    <3>2. Nth(K, n) = Nth(K, o) => n <= o /\ o <= n
      <4>1. Nth(K, n) \in Nat /\ Nth(K, o) \in Nat BY <3>1, <1>1, <1>2a
      <4> QED BY <3>1, <1>3, <4>1
    <3> QED BY <3>1, <3>2, <1>0
  <2>3. g \in [A -> B] /\ \A b \in B : \E a \in A : g[a] = b
    OBVIOUS
  <2>4. g \in Bijection(A, B)
    BY <2>2, <2>3 DEF Bijection, Injection, IsInjective, Surjection
  <2>5. ExistsBijection(A, B)
    BY <2>4 DEF ExistsBijection
  <2> HIDE DEF B
  <2> QED BY <2>1, <2>5, FS_Bijection DEF B
<1>5. Cardinality(M) = Cardinality(L)
  BY <1>4, <1>2b
<1>6. M \in SUBSET (1..m) /\ L \in SUBSET (1..c)
  BY <1>k, <1>3a
<1>7. ASSUME NEW n \in 1..Cardinality(L)
      PROVE  Nth(M, n) = Nth(K, Nth(L, n))
  <2> DEFINE l == Nth(L, n)
  <2>1. l \in L /\ Cardinality(Upto(L, l)) = n
    BY <1>0, <1>6, NthPlace
  <2> HIDE DEF l
  <2>2. Upto(M, Nth(K, l)) = {Nth(K, k) : k \in Upto(L, l)}
    BY <1>2b, <1>3, <1>6, <2>1 DEF Upto
  <2>3. Cardinality(Upto(M, Nth(K, l))) = n
    <3>1. Upto(L, l) \in SUBSET L BY DEF Upto
    <3> QED BY <2>1, <2>2, <3>1, <1>4
  <2>4. Nth(K, l) \in M
    BY <2>1, <1>2b
  <2>5. Nth(M, Cardinality(Upto(M, Nth(K, l)))) = Nth(K, l)
    BY <2>4, <1>6, NthPlace
  <2> QED BY <2>3, <2>5 DEF l
<1>8. \A n \in 1..Cardinality(L) : Nth(L, n) \in 1..c
  BY <1>0, <1>6, NthPlace
<1>9. Chosen(Chosen(s, K), L) = Chosen(s, M)
  BY <1>5, <1>7, <1>8 DEF Chosen, c
<1> QED BY <1>9 DEF L, c

-----------------------------------------------------------------------------
(* What the operator has in an entry, and in a list of entries.            *)

TheirPlaces(e) == {j \in DOMAIN e.hooks : e.hooks[j].k = "other"}

\* The operator's hooks of an entry are the same in two entries that have them at the
\* same places.
LEMMA SameHooks ==
    ASSUME NEW e \in Entry, NEW d \in Entry, DOMAIN d.hooks = DOMAIN e.hooks,
           \A j \in DOMAIN e.hooks : d.hooks[j].k = "other" <=> e.hooks[j].k = "other",
           \A j \in TheirPlaces(e) : d.hooks[j] = e.hooks[j]
    PROVE  TheirHooks(d) = TheirHooks(e)
<1>1. TheirPlaces(d) = TheirPlaces(e) /\ TheirPlaces(e) \in SUBSET (DOMAIN e.hooks)
  BY DEF TheirPlaces
<1>2. e.hooks \in Seq(Hook)
  BY DEF Entry
<1>3. \A n \in 1..Cardinality(TheirPlaces(e)) : Nth(TheirPlaces(e), n) \in TheirPlaces(e)
  BY <1>1, <1>2, ChosenFrom
<1>4. Chosen(d.hooks, TheirPlaces(e)) = Chosen(e.hooks, TheirPlaces(e))
  BY <1>3 DEF Chosen
<1> QED
  BY <1>1, <1>4 DEF TheirHooks, TheirPlaces

\* Hooks that are not the operator's are taken out of an entry.
LEMMA HooksTakenOut ==
    ASSUME NEW e \in Entry, NEW J \in SUBSET (DOMAIN e.hooks), TheirPlaces(e) \subseteq J
    PROVE  LET d == [e EXCEPT !.hooks = Chosen(@, J)]
           IN  d \in Entry /\ TheirHooks(d) = TheirHooks(e)
<1> DEFINE d == [e EXCEPT !.hooks = Chosen(@, J)]
           M == TheirPlaces(e)
<1>1. e.hooks \in Seq(Hook) /\ d.hooks = Chosen(e.hooks, J)
  BY DEF Entry
<1>2. /\ Chosen(e.hooks, J) \in Seq(Hook)
      /\ DOMAIN Chosen(e.hooks, J) = 1..Cardinality(J)
      /\ \A n \in 1..Cardinality(J) : Nth(J, n) \in J /\ Chosen(e.hooks, J)[n] = e.hooks[Nth(J, n)]
  BY <1>1, ChosenFrom
<1>3. d \in Entry
  BY <1>1, <1>2 DEF Entry
<1>4. TheirPlaces(d) = {l \in 1..Cardinality(J) : Nth(J, l) \in M}
  BY <1>1, <1>2 DEF TheirPlaces
<1>5. Chosen(Chosen(e.hooks, J), {l \in 1..Cardinality(J) : Nth(J, l) \in M}) = Chosen(e.hooks, M)
  <2>1. M \in SUBSET J OBVIOUS
  <2> HIDE DEF M
  <2> QED BY <1>1, <2>1, ChosenAmong
<1>6. TheirHooks(d) = Chosen(d.hooks, TheirPlaces(d)) /\ TheirHooks(e) = Chosen(e.hooks, TheirPlaces(e))
  BY DEF TheirHooks, TheirPlaces
<1> QED
  BY <1>1, <1>3, <1>4, <1>5, <1>6

TheirEntries(es) == {i \in DOMAIN es : TheirHooks(es[i]) # <<>>}

LEMMA TheirHooksType ==
    ASSUME NEW e \in Entry
    PROVE  /\ TheirHooks(e) \in Seq(Hook)
           /\ TheirHooks(e) # <<>> => \E j \in DOMAIN e.hooks : e.hooks[j].k = "other"
<1>1. e.hooks \in Seq(Hook) /\ TheirPlaces(e) \in SUBSET (DOMAIN e.hooks)
  BY DEF Entry, TheirPlaces
<1>2. TheirHooks(e) = Chosen(e.hooks, TheirPlaces(e))
  BY DEF TheirHooks, TheirPlaces
<1>3. TheirHooks(e) \in Seq(Hook)
  BY <1>1, <1>2, ChosenFrom
<1>4. TheirPlaces(e) = {} => TheirHooks(e) = <<>>
  BY <1>2, NothingChosen
<1> QED
  BY <1>3, <1>4 DEF TheirPlaces

\* Entries change, but not what they hold of the operator's.
LEMMA SameEntries ==
    ASSUME NEW es, NEW fs, DOMAIN fs = DOMAIN es,
           \A i \in DOMAIN es : TheirHooks(fs[i]) = TheirHooks(es[i])
    PROVE  Theirs(fs) = Theirs(es)
<1>1. [i \in DOMAIN fs |-> TheirHooks(fs[i])] = [i \in DOMAIN es |-> TheirHooks(es[i])]
  OBVIOUS
<1>2. {i \in DOMAIN fs : TheirHooks(fs[i]) # <<>>} = {i \in DOMAIN es : TheirHooks(es[i]) # <<>>}
  OBVIOUS
<1> QED
  BY <1>1, <1>2 DEF Theirs

\* Entries without any of the operator's hooks are taken out.
LEMMA EntriesTakenOut ==
    ASSUME NEW es \in Seq(Entry), NEW I \in SUBSET (DOMAIN es), TheirEntries(es) \subseteq I
    PROVE  Chosen(es, I) \in Seq(Entry) /\ Theirs(Chosen(es, I)) = Theirs(es)
<1> DEFINE V == [i \in DOMAIN es |-> TheirHooks(es[i])]
           fs == Chosen(es, I)
           W == [n \in DOMAIN fs |-> TheirHooks(fs[n])]
           M == TheirEntries(es)
<1>1. /\ fs \in Seq(Entry) /\ DOMAIN fs = 1..Cardinality(I)
      /\ \A n \in 1..Cardinality(I) : Nth(I, n) \in I /\ fs[n] = es[Nth(I, n)]
  BY ChosenFrom
<1>2. \A i \in DOMAIN es : V[i] \in Seq(Hook)
  BY TheirHooksType
<1>3. V \in Seq(Seq(Hook)) /\ DOMAIN V = DOMAIN es
  <2>1. DOMAIN es = 1..Len(es) /\ Len(es) \in Nat OBVIOUS
  <2>2. V \in [1..Len(es) -> Seq(Hook)] BY <1>2, <2>1
  <2> QED BY <2>1, <2>2
<1>4. W = Chosen(V, I)
  BY <1>1 DEF Chosen
<1>5. {n \in DOMAIN fs : TheirHooks(fs[n]) # <<>>} = {l \in 1..Cardinality(I) : Nth(I, l) \in M}
  BY <1>1 DEF TheirEntries
<1>6. Chosen(Chosen(V, I), {l \in 1..Cardinality(I) : Nth(I, l) \in M}) = Chosen(V, M)
  <2>1. M \in SUBSET I /\ I \in SUBSET (DOMAIN V) BY <1>3
  <2> HIDE DEF V, M
  <2> QED BY <1>3, <2>1, ChosenAmong
<1> HIDE DEF V, W, fs, M
<1>7. Theirs(fs) = Chosen(W, {n \in DOMAIN fs : TheirHooks(fs[n]) # <<>>})
  BY DEF Theirs, W
<1>8. Theirs(es) = Chosen(V, M)
  BY DEF Theirs, V, M, TheirEntries
<1> QED
  BY <1>1, <1>4, <1>5, <1>6, <1>7, <1>8 DEF fs

\* An entry of Borg's is added at the end.
LEMMA EntryAdded ==
    ASSUME NEW es \in Seq(Entry), NEW e \in Entry, TheirHooks(e) = <<>>
    PROVE  Append(es, e) \in Seq(Entry) /\ Theirs(Append(es, e)) = Theirs(es)
<1> DEFINE fs == Append(es, e)
           M == TheirEntries(es)
           V == [i \in DOMAIN es |-> TheirHooks(es[i])]
           W == [i \in DOMAIN fs |-> TheirHooks(fs[i])]
<1>1. fs \in Seq(Entry) /\ DOMAIN es = 1..Len(es) /\ DOMAIN fs = 1..(Len(es) + 1) /\ Len(es) \in Nat
      /\ fs[Len(es) + 1] = e /\ \A i \in DOMAIN es : fs[i] = es[i]
  OBVIOUS
<1>2. TheirEntries(fs) = M
  BY <1>1 DEF TheirEntries
<1>3. M \in SUBSET (DOMAIN es)
  BY DEF TheirEntries
<1>4. \A n \in 1..Cardinality(M) : Nth(M, n) \in M
  BY <1>3, ChosenFrom
<1>5. \A i \in M : W[i] = V[i]
  BY <1>1, <1>3
<1> HIDE DEF M, V, W, fs
<1>6. Chosen(W, M) = Chosen(V, M)
  BY <1>4, <1>5 DEF Chosen
<1>7. Theirs(fs) = Chosen(W, TheirEntries(fs)) /\ Theirs(es) = Chosen(V, M)
  BY DEF Theirs, W, V, M, TheirEntries
<1> QED
  BY <1>1, <1>2, <1>6, <1>7 DEF fs

-----------------------------------------------------------------------------
(* Each change of a list of entries.                                       *)

\* A hook of Borg's, and an entry with other hooks.
LEMMA CanonHook ==
    ASSUME NEW k \in Kinds
    PROVE  Canon(k) \in Hook /\ Canon(k).k = k
BY DEF Canon, Hook, Forms

LEMMA EntryWith ==
    ASSUME NEW e \in Entry, NEW t \in Seq(Hook)
    PROVE  /\ e.hooks \in Seq(Hook)
           /\ [e EXCEPT !.hooks = t] \in Entry /\ [e EXCEPT !.hooks = t].hooks = t
BY DEF Entry

\* Hooks of Borg's are rewritten where they are.
LEMMA HooksRewritten ==
    ASSUME NEW es \in Seq(Entry), NEW fs, DOMAIN fs = DOMAIN es,
           \A i \in DOMAIN es :
              /\ fs[i] = [es[i] EXCEPT !.hooks = fs[i].hooks]
              /\ fs[i].hooks \in Seq(Hook) /\ DOMAIN fs[i].hooks = DOMAIN es[i].hooks
              /\ \A j \in DOMAIN es[i].hooks :
                    /\ fs[i].hooks[j].k = "other" <=> es[i].hooks[j].k = "other"
                    /\ es[i].hooks[j].k = "other" => fs[i].hooks[j] = es[i].hooks[j],
           fs = [i \in DOMAIN es |-> fs[i]]
    PROVE  fs \in Seq(Entry) /\ Theirs(fs) = Theirs(es)
<1>1. \A i \in DOMAIN es : es[i] \in Entry
  OBVIOUS
<1>2. \A i \in DOMAIN es : fs[i] \in Entry
  BY <1>1, EntryWith
<1>3. fs \in Seq(Entry)
  <2>1. DOMAIN es = 1..Len(es) /\ Len(es) \in Nat
    OBVIOUS
  <2>2. fs \in [1..Len(es) -> Entry]
    BY <1>2, <2>1
  <2> QED BY <2>1, <2>2
<1>4. \A i \in DOMAIN es : TheirHooks(fs[i]) = TheirHooks(es[i])
  <2> TAKE i \in DOMAIN es
  <2>1. \A j \in TheirPlaces(es[i]) : fs[i].hooks[j] = es[i].hooks[j]
    BY DEF TheirPlaces
  <2> QED BY <1>1, <1>2, <2>1, SameHooks
<1>5. Theirs(fs) = Theirs(es)
  BY <1>4, SameEntries
<1> QED
  BY <1>3, <1>5

\* The forms Borg rewrites are its own.
LEMMA CanonicalizedKeeps ==
    ASSUME NEW es \in Seq(Entry)
    PROVE  Canonicalized(es) \in Seq(Entry) /\ Theirs(Canonicalized(es)) = Theirs(es)
<1> DEFINE C(h) == IF ownedCanonical(h) THEN Canon(h.k) ELSE h
           fs == Canonicalized(es)
<1>1. \A h \in Hook : /\ C(h) \in Hook /\ (C(h).k = "other" <=> h.k = "other")
                      /\ h.k = "other" => C(h) = h
  <2> TAKE h \in Hook
  <2>1. h.k \in Kinds
    BY DEF Hook
  <2>2. Canon(h.k) \in Hook /\ Canon(h.k).k = h.k
    BY <2>1, CanonHook
  <2> QED BY <2>2 DEF ownedCanonical
<1>2. fs = [i \in DOMAIN es |-> [es[i] EXCEPT !.hooks = [j \in DOMAIN @ |-> C(@[j])]]]
  BY DEF Canonicalized, Mapped
<1>3. \A i \in DOMAIN es : es[i] \in Entry /\ es[i].hooks \in Seq(Hook)
  <2>1. \A i \in DOMAIN es : es[i] \in Entry
    OBVIOUS
  <2> QED BY <2>1 DEF Entry
<1> HIDE DEF C, fs
<1>4. \A i \in DOMAIN es : fs[i].hooks = [j \in DOMAIN es[i].hooks |-> C(es[i].hooks[j])]
                           /\ fs[i] = [es[i] EXCEPT !.hooks = fs[i].hooks]
  BY <1>2, <1>3 DEF Entry
<1>5. ASSUME NEW i \in DOMAIN es
      PROVE  fs[i].hooks \in Seq(Hook) /\ DOMAIN fs[i].hooks = DOMAIN es[i].hooks
  <2> DEFINE t == es[i].hooks
  <2>1. t \in Seq(Hook) /\ fs[i].hooks = [j \in DOMAIN t |-> C(t[j])]
    BY <1>3, <1>4
  <2> HIDE DEF t
  <2>2. DOMAIN t = 1..Len(t) /\ Len(t) \in Nat /\ \A j \in DOMAIN t : t[j] \in Hook
    BY <2>1
  <2>3. [j \in DOMAIN t |-> C(t[j])] \in [1..Len(t) -> Hook]
    BY <1>1, <2>2
  <2> QED BY <2>1, <2>2, <2>3 DEF t
<1>6. \A i \in DOMAIN es : \A j \in DOMAIN es[i].hooks : es[i].hooks[j] \in Hook
  BY <1>3
<1>7. DOMAIN fs = DOMAIN es /\ fs = [i \in DOMAIN es |-> fs[i]]
  BY <1>2
<1>8. \A i \in DOMAIN es : \A j \in DOMAIN es[i].hooks :
         /\ fs[i].hooks[j].k = "other" <=> es[i].hooks[j].k = "other"
         /\ es[i].hooks[j].k = "other" => fs[i].hooks[j] = es[i].hooks[j]
  <2> TAKE i \in DOMAIN es
  <2> TAKE j \in DOMAIN es[i].hooks
  <2>1. fs[i].hooks[j] = C(es[i].hooks[j])
    BY <1>4
  <2>2. es[i].hooks[j] \in Hook
    BY <1>6
  <2> QED BY <1>1, <2>1, <2>2
<1> QED
  BY <1>4, <1>5, <1>7, <1>8, HooksRewritten DEF fs

\* Places are left out that hold none of the operator's hooks.
LEMMA FilteredKeeps ==
    ASSUME NEW es \in Seq(Entry), NEW keep,
           \A p \in Hooks(es) : At(es, p).k = "other" => p \in keep
    PROVE  /\ Filtered(es, keep) \in Seq(Entry) /\ DOMAIN Filtered(es, keep) = DOMAIN es
           /\ \A i \in DOMAIN es : TheirHooks(Filtered(es, keep)[i]) = TheirHooks(es[i])
           /\ Theirs(Filtered(es, keep)) = Theirs(es)
<1> DEFINE fs == Filtered(es, keep)
           J(i) == {j \in DOMAIN es[i].hooks : <<i, j>> \in keep}
<1>1. \A i \in DOMAIN es : es[i] \in Entry
  OBVIOUS
<1>2. DOMAIN fs = DOMAIN es
      /\ \A i \in DOMAIN es : fs[i] = [es[i] EXCEPT !.hooks = Chosen(@, J(i))]
  BY <1>1 DEF Filtered, Entry
<1>3. ASSUME NEW i \in DOMAIN es PROVE J(i) \in SUBSET (DOMAIN es[i].hooks) /\ TheirPlaces(es[i]) \subseteq J(i)
  <2>1. \A j \in DOMAIN es[i].hooks : <<i, j>> \in Hooks(es) /\ At(es, <<i, j>>) = es[i].hooks[j]
    BY DEF Hooks, At
  <2> QED BY <2>1 DEF TheirPlaces
<1> HIDE DEF fs, J
<1>4. \A i \in DOMAIN es : fs[i] \in Entry /\ TheirHooks(fs[i]) = TheirHooks(es[i])
  <2> TAKE i \in DOMAIN es
  <2>1. es[i] \in Entry /\ fs[i] = [es[i] EXCEPT !.hooks = Chosen(@, J(i))]
    BY <1>1, <1>2
  <2>2. J(i) \in SUBSET (DOMAIN es[i].hooks) /\ TheirPlaces(es[i]) \subseteq J(i)
    BY <1>3
  <2> QED BY <2>1, <2>2, HooksTakenOut
<1>5. fs \in Seq(Entry)
  <2>1. DOMAIN es = 1..Len(es) /\ Len(es) \in Nat
    OBVIOUS
  <2>2. fs = [i \in DOMAIN es |-> fs[i]]
    BY DEF fs, Filtered
  <2>3. fs \in [1..Len(es) -> Entry]
    BY <1>4, <2>1, <2>2
  <2> QED BY <2>1, <2>3
<1>6. Theirs(fs) = Theirs(es)
  BY <1>2, <1>4, SameEntries
<1> QED
  BY <1>2, <1>4, <1>5, <1>6 DEF fs

LEMMA DroppedKeeps ==
    ASSUME NEW es \in Seq(Entry), NEW keep,
           \A p \in Hooks(es) : At(es, p).k = "other" => p \in keep
    PROVE  Dropped(es, keep) \in Seq(Entry) /\ Theirs(Dropped(es, keep)) = Theirs(es)
<1> DEFINE fs == Filtered(es, keep)
           I == {i \in DOMAIN es : es[i].hooks = <<>> \/ \E j \in DOMAIN es[i].hooks : <<i, j>> \in keep}
<1>1. /\ fs \in Seq(Entry) /\ DOMAIN fs = DOMAIN es
      /\ \A i \in DOMAIN es : TheirHooks(fs[i]) = TheirHooks(es[i])
      /\ Theirs(fs) = Theirs(es)
  BY FilteredKeeps
<1>2. ASSUME NEW i \in DOMAIN es, TheirHooks(es[i]) # <<>> PROVE i \in I
  <2>1. PICK j \in DOMAIN es[i].hooks : es[i].hooks[j].k = "other"
    <3>1. es[i] \in Entry OBVIOUS
    <3> QED BY <1>2, <3>1, TheirHooksType
  <2>2. <<i, j>> \in Hooks(es) /\ At(es, <<i, j>>) = es[i].hooks[j]
    BY DEF Hooks, At
  <2> QED BY <2>1, <2>2
<1>3. TheirEntries(fs) \subseteq I
  BY <1>1, <1>2 DEF TheirEntries
<1>4. I \in SUBSET (DOMAIN fs)
  BY <1>1
<1>5. Dropped(es, keep) = Chosen(fs, I)
  BY DEF Dropped
<1> HIDE DEF fs, I
<1> QED
  BY <1>1, <1>3, <1>4, <1>5, EntriesTakenOut

LEMMA NonEmptyKeeps ==
    ASSUME NEW es \in Seq(Entry)
    PROVE  NonEmpty(es) \in Seq(Entry) /\ Theirs(NonEmpty(es)) = Theirs(es)
<1> DEFINE I == {i \in DOMAIN es : es[i].hooks # <<>>}
<1>1. ASSUME NEW i \in DOMAIN es, TheirHooks(es[i]) # <<>> PROVE i \in I
  <2>1. es[i] \in Entry
    OBVIOUS
  <2>2. PICK j \in DOMAIN es[i].hooks : es[i].hooks[j].k = "other"
    BY <1>1, <2>1, TheirHooksType
  <2>3. DOMAIN <<>> = {}
    OBVIOUS
  <2> QED BY <2>2, <2>3
<1>2. TheirEntries(es) \subseteq I /\ I \in SUBSET (DOMAIN es)
  BY <1>1 DEF TheirEntries
<1> HIDE DEF I
<1> QED
  BY <1>2, EntriesTakenOut DEF NonEmpty, I

\* Of each kind of Borg's hooks the first stays, and every hook that is not Borg's.
LEMMA migrateAndDedupKeeps ==
    ASSUME NEW es \in Seq(Entry)
    PROVE  /\ migrateAndDedupOwnedHooks(es) \in Seq(Entry)
           /\ Theirs(migrateAndDedupOwnedHooks(es)) = Theirs(es)
<1> DEFINE m == Canonicalized(es)
<1>1. m \in Seq(Entry) /\ Theirs(m) = Theirs(es)
  BY CanonicalizedKeeps
<1> HIDE DEF m
<1>2. \A p \in Hooks(m) : At(m, p).k = "other" => p \in FirstOfKind(m)
  BY DEF FirstOfKind, ownedCanonical
<1>3. Dropped(m, FirstOfKind(m)) \in Seq(Entry) /\ Theirs(Dropped(m, FirstOfKind(m))) = Theirs(m)
  BY <1>1, <1>2, DroppedKeeps
<1> QED
  BY <1>1, <1>3 DEF migrateAndDedupOwnedHooks, m

\* An entry with one hook of Borg's holds none of the operator's.
LEMMA OwnEntry ==
    ASSUME NEW on \in {"all", "clear"}, NEW k \in Kinds, k # "other"
    PROVE  LET e == [on |-> on, hooks |-> <<Canon(k)>>]
           IN  e \in Entry /\ TheirHooks(e) = <<>>
<1> DEFINE e == [on |-> on, hooks |-> <<Canon(k)>>]
<1>1. Canon(k) \in Hook /\ Canon(k).k = k
  BY CanonHook
<1>2. <<Canon(k)>> \in Seq(Hook)
  BY <1>1
<1>3. e \in Entry
  BY <1>2 DEF Entry
<1>4. TheirPlaces(e) = {}
  BY <1>1 DEF TheirPlaces
<1>5. TheirHooks(e) = Chosen(e.hooks, TheirPlaces(e))
  BY DEF TheirHooks, TheirPlaces
<1> QED
  BY <1>3, <1>4, <1>5, NothingChosen

LEMMA AddedKeeps ==
    ASSUME NEW es \in Seq(Entry), NEW k \in Kinds, k # "other"
    PROVE  Added(es, k) \in Seq(Entry) /\ Theirs(Added(es, k)) = Theirs(es)
<1> DEFINE m == migrateAndDedupOwnedHooks(es)
           e == [on |-> "all", hooks |-> <<Canon(k)>>]
<1>1. m \in Seq(Entry) /\ Theirs(m) = Theirs(es)
  BY migrateAndDedupKeeps
<1>2. e \in Entry /\ TheirHooks(e) = <<>>
  <2>1. "all" \in {"all", "clear"}
    OBVIOUS
  <2> QED BY <2>1, OwnEntry
<1> HIDE DEF m, e
<1>3. Append(m, e) \in Seq(Entry) /\ Theirs(Append(m, e)) = Theirs(m)
  BY <1>1, <1>2, EntryAdded
<1> QED
  BY <1>1, <1>3 DEF Added, m, e

\* One entry for Claude's clear; what goes for it is Borg's.
LEMMA normalizeClearKeeps ==
    ASSUME NEW es \in Seq(Entry)
    PROVE  /\ normalizeClearRewakeHook(es) \in Seq(Entry)
           /\ Theirs(normalizeClearRewakeHook(es)) = Theirs(es)
<1> DEFINE C(h) == IF commandMatches(h, "clear") THEN Canon("clear") ELSE h
           m == Mapped(es, C)
           own == {p \in Hooks(m) : At(m, p).k = "clear" /\ commandMatches(At(m, p), "clear")}
           f == Filtered(m, Hooks(m) \ own)
<1>1. \A h \in Hook : /\ C(h) \in Hook /\ (C(h).k = "other" <=> h.k = "other")
                      /\ h.k = "other" => C(h) = h
  <2> TAKE h \in Hook
  <2>1. "clear" \in Kinds
    BY DEF Kinds
  <2>2. Canon("clear") \in Hook /\ Canon("clear").k = "clear"
    BY <2>1, CanonHook
  <2> QED BY <2>2 DEF commandMatches
<1>2. m = [i \in DOMAIN es |-> [es[i] EXCEPT !.hooks = [j \in DOMAIN @ |-> C(@[j])]]]
  BY DEF Mapped
<1>3. \A i \in DOMAIN es : es[i] \in Entry /\ es[i].hooks \in Seq(Hook)
  <2>1. \A i \in DOMAIN es : es[i] \in Entry
    OBVIOUS
  <2> QED BY <2>1 DEF Entry
<1>x. normalizeClearRewakeHook(es) = m \/ normalizeClearRewakeHook(es) = Append(NonEmpty(f), ClearEntry)
  BY DEF normalizeClearRewakeHook
<1>y. \A p \in Hooks(m) : At(m, p).k = "other" => p \in Hooks(m) \ own
  OBVIOUS
<1> HIDE DEF C, m, own
<1>4. \A i \in DOMAIN es : m[i].hooks = [j \in DOMAIN es[i].hooks |-> C(es[i].hooks[j])]
                           /\ m[i] = [es[i] EXCEPT !.hooks = m[i].hooks]
  BY <1>2, <1>3 DEF Entry
<1>5. ASSUME NEW i \in DOMAIN es
      PROVE  m[i].hooks \in Seq(Hook) /\ DOMAIN m[i].hooks = DOMAIN es[i].hooks
  <2> DEFINE t == es[i].hooks
  <2>1. t \in Seq(Hook) /\ m[i].hooks = [j \in DOMAIN t |-> C(t[j])]
    BY <1>3, <1>4
  <2> HIDE DEF t
  <2>2. DOMAIN t = 1..Len(t) /\ Len(t) \in Nat /\ \A j \in DOMAIN t : t[j] \in Hook
    BY <2>1
  <2>3. [j \in DOMAIN t |-> C(t[j])] \in [1..Len(t) -> Hook]
    BY <1>1, <2>2
  <2> QED BY <2>1, <2>2, <2>3 DEF t
<1>6. \A i \in DOMAIN es : \A j \in DOMAIN es[i].hooks : es[i].hooks[j] \in Hook
  BY <1>3
<1>7. DOMAIN m = DOMAIN es /\ m = [i \in DOMAIN es |-> m[i]]
  BY <1>2
<1>8. \A i \in DOMAIN es : \A j \in DOMAIN es[i].hooks :
         /\ m[i].hooks[j].k = "other" <=> es[i].hooks[j].k = "other"
         /\ es[i].hooks[j].k = "other" => m[i].hooks[j] = es[i].hooks[j]
  <2> TAKE i \in DOMAIN es
  <2> TAKE j \in DOMAIN es[i].hooks
  <2>1. m[i].hooks[j] = C(es[i].hooks[j])
    BY <1>4
  <2>2. es[i].hooks[j] \in Hook
    BY <1>6
  <2> QED BY <1>1, <2>1, <2>2
<1>9. m \in Seq(Entry) /\ Theirs(m) = Theirs(es)
  BY <1>4, <1>5, <1>7, <1>8, HooksRewritten
<1>10. f \in Seq(Entry) /\ Theirs(f) = Theirs(m)
  BY <1>9, <1>y, FilteredKeeps
<1> HIDE DEF f
<1>11. NonEmpty(f) \in Seq(Entry) /\ Theirs(NonEmpty(f)) = Theirs(m)
  BY <1>10, NonEmptyKeeps
<1>12. ClearEntry \in Entry /\ TheirHooks(ClearEntry) = <<>>
  <2>1. "clear" \in {"all", "clear"} /\ "clear" \in Kinds /\ "clear" # "other"
    BY DEF Kinds
  <2>2. LET e == [on |-> "clear", hooks |-> <<Canon("clear")>>]
        IN  e \in Entry /\ TheirHooks(e) = <<>>
    BY <2>1, OwnEntry
  <2> QED BY <2>2 DEF ClearEntry
<1>13. /\ Append(NonEmpty(f), ClearEntry) \in Seq(Entry)
       /\ Theirs(Append(NonEmpty(f), ClearEntry)) = Theirs(m)
  BY <1>11, <1>12, EntryAdded
<1> QED
  BY <1>9, <1>13, <1>x

-----------------------------------------------------------------------------
(* A whole file.                                                           *)

LEMMA EntrySame ==
    ASSUME NEW f, NEW a
    PROVE  McpKept(f, a, a)
  BY DEF McpKept, Recognized

LEMMA EntryKeptTwice ==
    ASSUME NEW f, NEW a, NEW b, NEW c, McpKept(f, a, b), McpKept(f, b, c)
    PROVE  McpKept(f, a, c)
<1>1. CASE Recognized(f, a, TRUE)
  <2>1. Recognized(f, b, TRUE)
    BY <1>1 DEF McpKept, Recognized
  <2> QED BY <1>1, <2>1 DEF McpKept
<1>2. CASE ~Recognized(f, a, TRUE)
  BY <1>2 DEF McpKept
<1> QED
  BY <1>1, <1>2

LEMMA KeptTwice ==
    ASSUME NEW f, NEW a, NEW b, NEW c, FileKept(f, a, b), FileKept(f, b, c)
    PROVE  FileKept(f, a, c)
  BY EntryKeptTwice DEF FileKept

LEMMA Entries ==
    /\ NoEntry \in Registration
    /\ \A f : Fresh(f) \in Registration
  BY DEF NoEntry, Fresh, Registration, Marks

LEMMA BlankIsContents == Blank \in Contents
<1>1. <<>> \in Seq(Entry)
  OBVIOUS
<1> QED
  BY <1>1, Entries DEF Blank, Contents, Rules

\* A list of hooks changes, and the rest does not.
LEMMA ListChanged ==
    ASSUME NEW f, NEW c \in Contents, NEW ev \in Events, NEW a \in Seq(Entry), Theirs(a) = Theirs(c[ev])
    PROVE  [c EXCEPT ![ev] = a] \in Contents /\ FileKept(f, c, [c EXCEPT ![ev] = a])
<1> DEFINE n == [c EXCEPT ![ev] = a]
<1>1. ev = "start" \/ ev = "prompt" \/ ev = "tool"
  BY DEF Events
<1>2. n \in Contents
  BY <1>1 DEF Contents
<1>3. /\ n.rest = c.rest /\ n.mcp = c.mcp /\ n["exact"] = c["exact"] /\ n["tree"] = c["tree"]
      /\ n[ev] = a /\ \A o \in Events : o # ev => n[o] = c[o]
  BY <1>1 DEF Contents, Events
<1> HIDE DEF n
<1>4. FileKept(f, c, n)
  BY <1>3, EntrySame DEF FileKept
<1> QED
  BY <1>2, <1>4 DEF n

\* What is known of a change: where it may be made.
Whats == {"session", "dirs", "unstart", "refresh", "remcp", "access", "common", "inspect"}
         \cup Registers \cup Events
KnownOps == {op \in Configs \X Whats : op[2] = "common" => op[1] = "opencode.json"}

LEMMA ContentsLists ==
    ASSUME NEW c \in Contents, NEW ev \in Events
    PROVE  c[ev] \in Seq(Entry)
<1>1. ev = "start" \/ ev = "prompt" \/ ev = "tool"
  BY DEF Events
<1> QED
  BY <1>1 DEF Contents

LEMMA KindsAt ==
    ASSUME NEW ev \in Events
    PROVE  KindAt[ev] \in Kinds /\ KindAt[ev] # "other"
  BY DEF Events, KindAt, Kinds

\* Every change keeps what the operator has in the file.
LEMMA addHookKeeps ==
    ASSUME NEW f, NEW c \in Contents, NEW ev \in Events
    PROVE  addHook(c, ev) \in Contents /\ FileKept(f, c, addHook(c, ev))
<1>1. c[ev] \in Seq(Entry) /\ KindAt[ev] \in Kinds /\ KindAt[ev] # "other"
  BY ContentsLists, KindsAt
<1>2. Added(c[ev], KindAt[ev]) \in Seq(Entry) /\ Theirs(Added(c[ev], KindAt[ev])) = Theirs(c[ev])
  BY <1>1, AddedKeeps
<1> DEFINE a == Added(c[ev], KindAt[ev])
           n == [c EXCEPT ![ev] = a]
<1>3. addHook(c, ev) = n
  BY DEF addHook
<1> HIDE DEF a
<1>4. n \in Contents /\ FileKept(f, c, n)
  BY <1>2, ListChanged DEF a
<1> HIDE DEF n
<1> QED
  BY <1>3, <1>4

LEMMA addSessionStartHookKeeps ==
    ASSUME NEW f, NEW c \in Contents
    PROVE  addSessionStartHookAt(c) \in Contents /\ FileKept(f, c, addSessionStartHookAt(c))
<1> DEFINE a == normalizeClearRewakeHook(Added(c.start, "regen"))
<1>1. "start" \in Events /\ c["start"] = c.start /\ "regen" \in Kinds
  BY DEF Events, Kinds
<1>2. c.start \in Seq(Entry)
  BY <1>1, ContentsLists
<1>3. Added(c.start, "regen") \in Seq(Entry) /\ Theirs(Added(c.start, "regen")) = Theirs(c.start)
  BY <1>1, <1>2, AddedKeeps
<1>4. a \in Seq(Entry) /\ Theirs(a) = Theirs(c.start)
  BY <1>3, normalizeClearKeeps
<1>5. addSessionStartHookAt(c) = [c EXCEPT !["start"] = a]
  BY DEF addSessionStartHookAt
<1> HIDE DEF a
<1> DEFINE n == [c EXCEPT !["start"] = a]
<1>6. n \in Contents /\ FileKept(f, c, n)
  BY <1>1, <1>4, ListChanged
<1> HIDE DEF n
<1> QED
  BY <1>5, <1>6 DEF n

LEMMA addClaudeLaunchAccessKeeps ==
    ASSUME NEW f, NEW c \in Contents
    PROVE  addClaudeLaunchAccess(c) \in Contents /\ FileKept(f, c, addClaudeLaunchAccess(c))
<1> DEFINE d == [c EXCEPT !.dirs = TRUE]
           t == Added(c.tool, "remind")
<1>1. d \in Contents /\ FileKept(f, c, d) /\ d.tool = c.tool
  <2>1. d \in Contents /\ d.tool = c.tool
    BY DEF Contents
  <2>2. /\ d.rest = c.rest /\ d.mcp = c.mcp /\ d["exact"] = c["exact"] /\ d["tree"] = c["tree"]
        /\ \A o \in Events : d[o] = c[o]
    BY DEF Contents, Events
  <2> HIDE DEF d
  <2> QED BY <2>1, <2>2, EntrySame DEF FileKept
<1>2. "tool" \in Events /\ c["tool"] = c.tool /\ d["tool"] = d.tool /\ "remind" \in Kinds
  BY DEF Events, Kinds
<1>3. c.tool \in Seq(Entry)
  BY <1>2, ContentsLists
<1>4. t \in Seq(Entry) /\ Theirs(t) = Theirs(c.tool)
  BY <1>2, <1>3, AddedKeeps
<1>5. addClaudeLaunchAccess(c) = [d EXCEPT !["tool"] = t]
  <2>1. addClaudeLaunchAccess(c) = [c EXCEPT !.dirs = TRUE, !.tool = t]
    BY DEF addClaudeLaunchAccess, Contents
  <2> HIDE DEF t
  <2> QED BY <2>1 DEF Contents
<1> HIDE DEF d, t
<1>6. [d EXCEPT !["tool"] = t] \in Contents /\ FileKept(f, d, [d EXCEPT !["tool"] = t])
  BY <1>1, <1>2, <1>4, ListChanged
<1> QED
  BY <1>1, <1>5, <1>6, KeptTwice

LEMMA removeSessionStartHookKeeps ==
    ASSUME NEW f, NEW c \in Contents
    PROVE  removeSessionStartHook(c) \in Contents /\ FileKept(f, c, removeSessionStartHook(c))
<1> DEFINE own == {p \in Hooks(c.start) : commandMatches(At(c.start, p), "regen")}
           a == Filtered(c.start, Hooks(c.start) \ own)
<1>1. "start" \in Events /\ c["start"] = c.start
  BY DEF Events
<1>2. c.start \in Seq(Entry)
  BY <1>1, ContentsLists
<1>3. \A p \in Hooks(c.start) : At(c.start, p).k = "other" => p \in Hooks(c.start) \ own
  BY DEF commandMatches
<1>4. \/ removeSessionStartHook(c) = c
      \/ removeSessionStartHook(c) = [c EXCEPT !["start"] = NonEmpty(a)]
  BY DEF removeSessionStartHook
<1> HIDE DEF own
<1>5. a \in Seq(Entry) /\ Theirs(a) = Theirs(c.start)
  BY <1>2, <1>3, FilteredKeeps
<1> HIDE DEF a
<1>6. NonEmpty(a) \in Seq(Entry) /\ Theirs(NonEmpty(a)) = Theirs(c.start)
  BY <1>5, NonEmptyKeeps
<1>7. FileKept(f, c, c)
  BY DEF FileKept
<1> DEFINE n == [c EXCEPT !["start"] = NonEmpty(a)]
<1>8. n \in Contents /\ FileKept(f, c, n)
  BY <1>1, <1>6, ListChanged
<1> HIDE DEF n
<1> QED
  BY <1>4, <1>7, <1>8 DEF n

LEMMA refreshHookFileKeeps ==
    ASSUME NEW f, NEW c \in Contents
    PROVE  refreshHookFile(c) \in Contents /\ FileKept(f, c, refreshHookFile(c))
<1> DEFINE M(es) == migrateAndDedupOwnedHooks(es)
<1>1. \A es \in Seq(Entry) : M(es) \in Seq(Entry) /\ Theirs(M(es)) = Theirs(es)
  BY migrateAndDedupKeeps
<1>2. refreshHookFile(c) = [c EXCEPT !["start"] = M(c["start"]), !["prompt"] = M(c["prompt"]),
                                     !["tool"] = M(c["tool"])]
  BY DEF refreshHookFile
<1> HIDE DEF M
<1>3. /\ "start" \in Events /\ "prompt" \in Events /\ "tool" \in Events
      /\ \A ev \in Events : ev \in {"start", "prompt", "tool"}
  BY DEF Events
<1>4. \A ev \in Events : c[ev] \in Seq(Entry) /\ M(c[ev]) \in Seq(Entry) /\ Theirs(M(c[ev])) = Theirs(c[ev])
  BY <1>1, ContentsLists
<1> DEFINE a == [c EXCEPT !["start"] = M(c["start"])]
           b == [a EXCEPT !["prompt"] = M(c["prompt"])]
           t == [b EXCEPT !["tool"] = M(c["tool"])]
<1>5. a \in Contents /\ FileKept(f, c, a)
  BY <1>3, <1>4, ListChanged
<1>6. a["prompt"] = c["prompt"] /\ b["tool"] = c["tool"]
  BY DEF Contents
<1> HIDE DEF a
<1>7. b \in Contents /\ FileKept(f, a, b)
  BY <1>3, <1>4, <1>5, <1>6, ListChanged
<1> HIDE DEF b
<1>8. t \in Contents /\ FileKept(f, b, t)
  BY <1>3, <1>4, <1>6, <1>7, ListChanged
<1>9. refreshHookFile(c) = t
  BY <1>2 DEF a, b, Contents
<1> HIDE DEF t
<1>10. FileKept(f, c, t)
  BY <1>5, <1>7, <1>8, KeptTwice
<1> QED
  BY <1>8, <1>9, <1>10

LEMMA refreshMcpKeeps ==
    ASSUME NEW f, NEW c \in Contents
    PROVE  refreshMcpCommand(f, c) \in Contents /\ FileKept(f, c, refreshMcpCommand(f, c))
<1> DEFINE e == [c.mcp EXCEPT !.command = "current"]
           n == [c EXCEPT !.mcp = e]
<1>1. c.mcp \in Registration
  BY DEF Contents
<1>2. e \in Registration /\ e.command = "current" /\ e.marks = c.mcp.marks /\ e.more = c.mcp.more
  BY <1>1 DEF Registration
<1>3. refreshMcpCommand(f, c) = c \/ (c.mcp.command = "stale" /\ refreshMcpCommand(f, c) = n)
  BY DEF refreshMcpCommand
<1> HIDE DEF e
<1>4. /\ n \in Contents /\ n.rest = c.rest /\ n.mcp = e /\ n["exact"] = c["exact"]
      /\ n["tree"] = c["tree"] /\ \A ev \in Events : n[ev] = c[ev]
  BY <1>2 DEF Contents, Events
<1>5. c.mcp.command = "stale" => McpKept(f, c.mcp, e)
  BY <1>2 DEF McpKept
<1> HIDE DEF n
<1>6. c.mcp.command = "stale" => FileKept(f, c, n)
  BY <1>4, <1>5 DEF FileKept
<1>7. FileKept(f, c, c)
  BY DEF FileKept
<1> QED
  BY <1>3, <1>4, <1>6, <1>7

LEMMA registerCommonKeeps ==
    ASSUME NEW c \in Contents
    PROVE  /\ registerCommonOpenCodeMcp(c) \in Contents
           /\ FileKept("opencode.json", c, registerCommonOpenCodeMcp(c))
<1> DEFINE e == [c.mcp EXCEPT !.command = "current", !.marks = Marks]
           n == [c EXCEPT !.mcp = e]
<1>1. c.mcp \in Registration
  BY DEF Contents
<1>2. /\ e \in Registration /\ e.command = "current" /\ e.marks = Marks /\ e.more = c.mcp.more
      /\ c.mcp.marks \subseteq Marks
  BY <1>1 DEF Registration
<1>3. registerCommonOpenCodeMcp(c) = n
  BY DEF registerCommonOpenCodeMcp
<1> HIDE DEF e
<1>4. /\ n \in Contents /\ n.rest = c.rest /\ n.mcp = e /\ n["exact"] = c["exact"]
      /\ n["tree"] = c["tree"] /\ \A ev \in Events : n[ev] = c[ev]
  BY <1>2 DEF Contents, Events
<1>5. McpKept("opencode.json", c.mcp, e)
  BY <1>2 DEF McpKept
<1> HIDE DEF n
<1>6. FileKept("opencode.json", c, n)
  BY <1>4, <1>5 DEF FileKept
<1> QED
  BY <1>3, <1>4, <1>6

LEMMA ChangedKeeps ==
    ASSUME NEW op \in KnownOps, op[2] \notin Registers \cup {"inspect"}, NEW c \in Contents
    PROVE  Changed(op, c) \in Contents /\ FileKept(op[1], c, Changed(op, c))
<1> DEFINE f == op[1]
<1> SUFFICES Changed(op, c) \in Contents /\ FileKept(f, c, Changed(op, c))
  OBVIOUS
<1>0. /\ op[2] \in {"session", "dirs", "unstart", "refresh", "remcp", "access", "common"} \cup Events
      /\ op[2] = "common" => f = "opencode.json"
  BY DEF KnownOps, Whats
<1> HIDE DEF f
<1>1. CASE op[2] = "session"
  BY <1>1, addSessionStartHookKeeps DEF Changed, Events
<1>2. CASE op[2] = "dirs"
  BY <1>2, addClaudeLaunchAccessKeeps DEF Changed, Events
<1>3. CASE op[2] = "unstart"
  BY <1>3, removeSessionStartHookKeeps DEF Changed, Events
<1>4. CASE op[2] \in Events
  <2>1. Changed(op, c) = addHook(c, op[2])
    BY <1>4 DEF Changed, Events
  <2> QED BY <1>4, <2>1, addHookKeeps
<1>5. CASE op[2] = "refresh"
  BY <1>5, refreshHookFileKeeps DEF Changed, Events
<1>6. CASE op[2] = "remcp"
  <2>1. Changed(op, c) = refreshMcpCommand(f, c)
    BY <1>6 DEF f, Changed, Events
  <2> QED BY <2>1, refreshMcpKeeps
<1>8. CASE op[2] = "common"
  <2>1. Changed(op, c) = registerCommonOpenCodeMcp(c)
    BY <1>8 DEF Changed, Events
  <2> QED BY <1>0, <1>8, <2>1, registerCommonKeeps
<1>7. CASE op[2] = "access"
  <2> DEFINE n == addOpenCodeLaunchAccess(c)
  <2>1. Changed(op, c) = n
    BY <1>7 DEF Changed, Events
  <2>2. /\ n \in Contents /\ n.rest = c.rest /\ n.mcp = c.mcp
        /\ n.start = c.start /\ n.prompt = c.prompt /\ n.tool = c.tool
        /\ n.exact = IF c.exact = "allow" THEN "none" ELSE c.exact
        /\ n.tree = IF c.tree = "none" /\ c.exact \in {"none", "allow"} THEN "allow" ELSE c.tree
    BY DEF addOpenCodeLaunchAccess, Contents, Rules
  <2>3. FileKept(f, c, n)
    BY <2>2, EntrySame DEF FileKept, Events
  <2> QED BY <2>1, <2>2, <2>3
<1> QED
  BY <1>0, <1>1, <1>2, <1>3, <1>4, <1>5, <1>6, <1>7, <1>8

-----------------------------------------------------------------------------
(* What commands and launches are going to do.                             *)

\* A list of known changes, with at least one.
Todo(ops) == ops \in Seq(KnownOps) /\ ops # <<>>

LEMMA KnownOp ==
    ASSUME NEW f \in Configs, NEW what \in Whats, what = "common" => f = "opencode.json"
    PROVE  <<f, what>> \in KnownOps
  BY DEF KnownOps

LEMMA KnownFiles ==
    /\ "project" \in Configs /\ "claude" \in Configs /\ "codex" \in Configs /\ "access" \in Configs
    /\ \A a \in Agents : Mcp[a] \in Configs
    /\ Mcp["opencode"] = "opencode.json"
    /\ \A what \in {"session", "dirs", "unstart", "refresh", "remcp", "access", "register", "try",
                    "target", "inspect", "start", "prompt", "tool"} :
          what \in Whats /\ what # "common"
    /\ "common" \in Whats
  BY DEF Configs, HookFiles, Whats, Events, Registers, Mcp

LEMMA OneMore ==
    ASSUME NEW op \in KnownOps, NEW ops \in Seq(KnownOps)
    PROVE  /\ Todo(<<op>>) /\ Todo(<<op>> \o ops)
           /\ \A more : Todo(more) => Todo(ops \o more) /\ Todo(more \o ops)
  BY DEF Todo

LEMMA McpPlanned ==
    ASSUME NEW a \in Agents, NEW major
    PROVE  ensureMcpConfigured(a, major) \in Seq(KnownOps) /\ ensureMcpConfigured(a, major) # <<>>
<1>1. <<Mcp[a], "register">> \in KnownOps
  BY KnownFiles, KnownOp
<1>2. a = "opencode" => <<Mcp[a], "common">> \in KnownOps
  BY KnownFiles, KnownOp
<1> HIDE DEF KnownOps
<1> QED
  BY <1>1, <1>2 DEF ensureMcpConfigured

LEMMA LaunchPlanned ==
    ASSUME NEW a \in Agents, NEW how, NEW major, LaunchOps(a, how, major) # <<>>
    PROVE  Todo(LaunchOps(a, how, major))
<1>1. /\ <<Mcp[a], "register">> \in KnownOps /\ <<Mcp[a], "try">> \in KnownOps
      /\ <<Mcp[a], "target">> \in KnownOps
  BY KnownFiles, KnownOp
<1>2. /\ <<"project", "session">> \in KnownOps /\ <<"claude", "unstart">> \in KnownOps
      /\ <<"claude", "prompt">> \in KnownOps /\ <<"codex", "start">> \in KnownOps
      /\ <<"codex", "prompt">> \in KnownOps /\ <<"project", "dirs">> \in KnownOps
      /\ <<"codex", "tool">> \in KnownOps /\ <<"access", "access">> \in KnownOps
  BY KnownFiles, KnownOp
<1> HIDE DEF KnownOps
<1>3. provisionLaunchAccess(a, major) \in Seq(KnownOps)
  <2>1. CASE a = "claude"
    BY <1>2, <2>1 DEF provisionLaunchAccess
  <2>2. CASE a = "codex"
    BY <1>2, <2>2 DEF provisionLaunchAccess
  <2>3. CASE a # "claude" /\ a # "codex" /\ a = "opencode" /\ major = 1
    BY <1>2, <2>3 DEF provisionLaunchAccess
  <2>4. CASE a # "claude" /\ a # "codex" /\ ~(a = "opencode" /\ major = 1)
    BY <2>4 DEF provisionLaunchAccess
  <2> QED BY <2>1, <2>2, <2>3, <2>4
<1>4. configureResolvedCli(a) \in Seq(KnownOps)
  <2>1. CASE a = "claude"
    BY <1>1, <1>2, <2>1 DEF configureResolvedCli
  <2>2. CASE a # "claude"
    BY <1>1, <1>2, <2>2 DEF configureResolvedCli
  <2> QED BY <2>1, <2>2
<1>5. CASE how = "assimilate"
  <2>1. LaunchOps(a, how, major) = (ensureMcpConfigured(a, major) \o provisionLaunchAccess(a, major))
                                   \o <<<<"project", "session">>>>
    BY <1>5 DEF LaunchOps
  <2>2. ensureMcpConfigured(a, major) \in Seq(KnownOps) /\ <<<<"project", "session">>>> \in Seq(KnownOps)
    BY <1>2, McpPlanned
  <2> QED BY <1>3, <2>1, <2>2 DEF Todo
<1>6. CASE how # "assimilate" /\ a # "opencode"
  <2>1. LaunchOps(a, how, major) = configureResolvedCli(a)
    BY <1>6 DEF LaunchOps
  <2> QED BY <1>4, <2>1 DEF Todo
<1>7. CASE how # "assimilate" /\ a = "opencode" /\ major = 1
  <2> DEFINE r == <<<<Mcp[a], IF how = "targeted" THEN "target" ELSE "try">>>>
  <2>1. LaunchOps(a, how, major) = r \o provisionLaunchAccess(a, major)
    BY <1>7 DEF LaunchOps
  <2>2. r \in Seq(KnownOps)
    BY <1>1
  <2> HIDE DEF r
  <2> QED BY <1>3, <2>1, <2>2 DEF Todo
<1>8. CASE how # "assimilate" /\ a = "opencode" /\ major # 1
  BY <1>8 DEF LaunchOps
<1> QED
  BY <1>5, <1>6, <1>7, <1>8

LEMMA SetupPlanned ==
    ASSUME NEW selected \in SUBSET Agents, selected # {}, NEW major
    PROVE  Todo(SetupOps(selected, major))
<1> DEFINE do(c, op) == IF c THEN <<op>> ELSE <<>>
           a == IF "claude" \in selected
                THEN <<<<Mcp["claude"], "register">>>>
                     \o do(Registered("claude", "start"), <<"claude", "unstart">>)
                     \o do(~Registered("claude", "prompt"), <<"claude", "prompt">>)
                ELSE <<>>
           b == IF "codex" \in selected
                THEN <<<<Mcp["codex"], "register">>>>
                     \o do(~Registered("codex", "start"), <<"codex", "start">>)
                     \o do(~Registered("codex", "prompt"), <<"codex", "prompt">>)
                ELSE <<>>
           c == IF "opencode" \in selected THEN ensureMcpConfigured("opencode", major) ELSE <<>>
<1>1. \A op \in KnownOps : \A x : do(x, op) \in Seq(KnownOps)
  OBVIOUS
<1>2. \A x \in selected : <<Mcp[x], "register">> \in KnownOps
  BY KnownFiles, KnownOp
<1>3. /\ <<"claude", "unstart">> \in KnownOps /\ <<"claude", "prompt">> \in KnownOps
      /\ <<"codex", "start">> \in KnownOps /\ <<"codex", "prompt">> \in KnownOps
  BY KnownFiles, KnownOp
<1>4. SetupOps(selected, major) = (a \o b) \o c
  BY DEF SetupOps
<1>5. "opencode" \in selected => c # <<>>
  BY McpPlanned
<1>6. c \in Seq(KnownOps)
  BY McpPlanned
<1> HIDE DEF c, do
<1>7. a \in Seq(KnownOps) /\ ("claude" \in selected => a # <<>>)
  <2>1. CASE "claude" \in selected
    <3> DEFINE d == do(Registered("claude", "start"), <<"claude", "unstart">>)
               e == do(~Registered("claude", "prompt"), <<"claude", "prompt">>)
    <3>1. d \in Seq(KnownOps) /\ e \in Seq(KnownOps)
      BY <1>1, <1>3
    <3>2. a = <<<<Mcp["claude"], "register">>>> \o d \o e
      BY <2>1
    <3> HIDE DEF a, d, e
    <3>3. Todo(<<<<Mcp["claude"], "register">>>> \o d)
      BY <1>2, <2>1, <3>1, OneMore
    <3> QED BY <1>2, <2>1, <3>1, <3>2, <3>3, OneMore DEF Todo
  <2>2. CASE "claude" \notin selected
    BY <2>2
  <2> QED BY <2>1, <2>2
<1>8. b \in Seq(KnownOps) /\ ("codex" \in selected => b # <<>>)
  <2>1. CASE "codex" \in selected
    <3> DEFINE d == do(~Registered("codex", "start"), <<"codex", "start">>)
               e == do(~Registered("codex", "prompt"), <<"codex", "prompt">>)
    <3>1. d \in Seq(KnownOps) /\ e \in Seq(KnownOps)
      BY <1>1, <1>3
    <3>2. b = <<<<Mcp["codex"], "register">>>> \o d \o e
      BY <2>1
    <3> HIDE DEF b, d, e
    <3>3. Todo(<<<<Mcp["codex"], "register">>>> \o d)
      BY <1>2, <2>1, <3>1, OneMore
    <3> QED BY <1>2, <2>1, <3>1, <3>2, <3>3, OneMore DEF Todo
  <2>2. CASE "codex" \notin selected
    BY <2>2
  <2> QED BY <2>1, <2>2
<1> HIDE DEF a, b
<1>9. a # <<>> \/ b # <<>> \/ c # <<>>
  <2>1. "claude" \in selected \/ "codex" \in selected \/ "opencode" \in selected
    BY HooksAssumption
  <2> QED BY <1>5, <1>7, <1>8, <2>1
<1>10. \A s, t \in Seq(KnownOps) : s \o t \in Seq(KnownOps) /\ (s # <<>> \/ t # <<>> => s \o t # <<>>)
  <2> TAKE s, t \in Seq(KnownOps)
  <2> HIDE DEF KnownOps
  <2>1. s \o t \in Seq(KnownOps) /\ Len(s \o t) = Len(s) + Len(t)
    OBVIOUS
  <2>2. (s # <<>> => Len(s) > 0) /\ (t # <<>> => Len(t) > 0) /\ Len(s) \in Nat /\ Len(t) \in Nat
    OBVIOUS
  <2> QED BY <2>1, <2>2
<1>11. a \o b \in Seq(KnownOps) /\ (a # <<>> \/ b # <<>> => a \o b # <<>>)
  BY <1>7, <1>8, <1>10
<1>12. (a \o b) \o c \in Seq(KnownOps) /\ (a \o b) \o c # <<>>
  BY <1>6, <1>9, <1>10, <1>11
<1> QED
  BY <1>4, <1>12 DEF Todo

LEMMA RefreshPlanned == Todo(RefreshOps)
<1> DEFINE all == <<"claude", "codex", "opencode">>
           K == {i \in DOMAIN all : all[i] \in Agents}
           mcps == Chosen(all, K)
           a == [i \in DOMAIN mcps |-> <<Mcp[mcps[i]], "remcp">>]
           b == <<<<"claude", "refresh">>, <<"codex", "refresh">>, <<"project", "refresh">>,
                  <<"project", "inspect">>>>
<1>1. all \in Seq({"claude", "codex", "opencode"}) /\ K \in SUBSET (DOMAIN all)
  OBVIOUS
<1>2. RefreshOps = a \o b
  BY DEF RefreshOps
<1>3. /\ <<"claude", "refresh">> \in KnownOps /\ <<"codex", "refresh">> \in KnownOps
      /\ <<"project", "refresh">> \in KnownOps /\ <<"project", "inspect">> \in KnownOps
  BY KnownFiles, KnownOp
<1>4. Todo(b)
  BY <1>3 DEF Todo
<1>k. \A i \in K : all[i] \in Agents
  OBVIOUS
<1>c. Cardinality(K) \in Nat
  <2>1. DOMAIN all = 1..3
    OBVIOUS
  <2>2. K \in SUBSET (1..3)
    BY <2>1
  <2> HIDE DEF K
  <2> QED BY <2>2, PlacesFinite
<1> HIDE DEF all, K, b
<1>5. /\ DOMAIN mcps = 1..Cardinality(K)
      /\ \A n \in 1..Cardinality(K) : mcps[n] \in Agents
  BY <1>1, <1>k, ChosenFrom
<1> HIDE DEF mcps
<1>6. \A n \in DOMAIN mcps : <<Mcp[mcps[n]], "remcp">> \in KnownOps
  BY <1>5, KnownFiles, KnownOp
<1>7. a \in [1..Cardinality(K) -> KnownOps]
  BY <1>5, <1>6
<1> HIDE DEF a
<1>8. a \in Seq(KnownOps)
  BY <1>7, <1>c
<1>9. \A op \in KnownOps : Todo(a \o b)
  BY <1>4, <1>8, OneMore
<1> QED
  BY <1>2, <1>3, <1>9

-----------------------------------------------------------------------------
(* The processes and the files.                                            *)

Changing == {"write", "fill", "replace", "rename"}
Adding == {"remove", "add"}
AtWork == {"read"} \cup Adding \cup Changing

ProcTyped(p) ==
    /\ DOMAIN p = {"task", "ops", "at", "old", "new", "failed"}
    /\ p.at \in {"idle", "done"} \cup AtWork
    /\ p.ops \in Seq(KnownOps)
    /\ p.at \in AtWork => p.ops # <<>>

\* What a process is about to write keeps the operator's part, unless the file it read
\* was lost already; and it registers Borg where no launch could use what was there.
Promised(p, lost) ==
    LET f == Head(p.ops)[1]
    IN  /\ p.at \in Changing =>
             /\ p.new \in Contents /\ orig[f] # Broken
             /\ f \in lost \/ FileKept(f, orig[f], p.new)
        /\ p.at \in Adding =>
             f \in lost \/ orig[f] = Broken \/ ~Recognized(f, orig[f].mcp, TRUE)

\* What does not parse is never written.
FilesTyped ==
    /\ file = [f \in Configs |-> file[f]]
    /\ \A f \in Configs : IF orig[f] = Broken THEN file[f] = Broken ELSE file[f] \in Contents

FilesInv ==
    /\ FilesTyped
    /\ proc = [s \in Slots |-> proc[s]]
    /\ \A s \in Slots : ProcTyped(proc[s]) /\ Promised(proc[s], torn)
    /\ ForeignKept

LEMMA HeadKnown ==
    ASSUME NEW p, ProcTyped(p), p.at \in AtWork
    PROVE  /\ Head(p.ops) \in KnownOps /\ Head(p.ops)[1] \in Configs
<1>1. p.ops \in Seq(KnownOps) /\ p.ops # <<>>
  BY DEF ProcTyped
<1>2. Head(p.ops) \in KnownOps
  <2> HIDE DEF KnownOps
  <2> QED BY <1>1
<1> QED
  BY <1>2 DEF KnownOps

\* A process goes on to its next change, or ends.
LEMMA NextChange ==
    ASSUME NEW p, ProcTyped(p), p.at \in AtWork
    PROVE  /\ ProcTyped(Popped1(p)) /\ Popped1(p).at \in {"read", "done"}
           /\ ProcTyped(Stops(p)) /\ Stops(p).at = "done"
           /\ ProcTyped(Fails(p)) /\ Fails(p).at = p.at
<1>1. p.ops \in Seq(KnownOps) /\ p.ops # <<>>
  BY DEF ProcTyped
<1>2. Tail(p.ops) \in Seq(KnownOps) /\ (Len(p.ops) # 1 => Tail(p.ops) # <<>>)
  <2> HIDE DEF KnownOps
  <2>1. PICK o \in Seq(KnownOps) : o = p.ops /\ o # <<>>
    BY <1>1
  <2>2. Tail(o) \in Seq(KnownOps) /\ Len(Tail(o)) = Len(o) - 1 /\ Len(o) \in Nat
    BY <2>1
  <2>3. Len(<<>>) = 0
    OBVIOUS
  <2>5. Tail(o) = <<>> => Len(Tail(o)) = Len(<<>>)
    BY Zenon
  <2>6. Tail(o) = <<>> => Len(Tail(o)) = 0
    BY <2>3, <2>5, Zenon
  <2>4. Tail(o) = <<>> => Len(o) = 1
    <3> DEFINE n == Len(Tail(o))
    <3>1. n = Len(o) - 1 /\ (Tail(o) = <<>> => n = 0) /\ Len(o) \in Nat
      BY <2>2, <2>6
    <3> HIDE DEF n
    <3> QED BY <3>1
  <2> QED BY <2>1, <2>2, <2>4
<1>3. <<>> \in Seq(KnownOps)
  OBVIOUS
<1>4. ASSUME NEW q, DOMAIN q = DOMAIN p, q.ops = p.ops
      PROVE  ProcTyped(Popped1(q)) /\ Popped1(q).at \in {"read", "done"}
  BY <1>2, <1>3, <1>4 DEF ProcTyped, Popped1, AtWork, Changing, Adding
<1>5. ProcTyped(Fails(p)) /\ Fails(p).at = p.at
  BY DEF ProcTyped, Fails
<1>6. ProcTyped(Stops(p)) /\ Stops(p).at = "done"
  BY <1>3, <1>5 DEF ProcTyped, Stops, AtWork, Changing, Adding
<1> QED
  BY <1>4, <1>5, <1>6

LEMMA NotChanging ==
    ASSUME NEW p, NEW lost, p.at \notin Changing \cup Adding
    PROVE  Promised(p, lost)
  BY DEF Promised

\* A step of one process: what it goes on with, and the file it was at.
LEMMA ProcessMoves ==
    ASSUME FilesInv, NEW s \in Slots, NEW q, proc' = [proc EXCEPT ![s] = q],
           ProcTyped(q), UNCHANGED orig, torn \subseteq torn', Promised(q, torn'),
           FilesTyped',
           \A f \in Configs : f \notin torn' /\ ~MidWrite(f)' => FileKept(f, orig[f], file'[f])
    PROVE  FilesInv'
<1>1. proc' = [t \in Slots |-> proc'[t]] /\ proc'[s] = q
      /\ \A t \in Slots : t # s => proc'[t] = proc[t]
  BY DEF FilesInv
<1>2. \A t \in Slots : ProcTyped(proc'[t]) /\ Promised(proc'[t], torn')
  <2> TAKE t \in Slots
  <2>1. CASE t = s
    BY <1>1, <2>1
  <2>2. CASE t # s
    BY <1>1, <2>2 DEF FilesInv, Promised
  <2> QED BY <2>1, <2>2
<1>3. ForeignKept'
  BY DEF ForeignKept
<1>4. \A t \in Slots : Promised(proc[t], torn)' <=> Promised(proc'[t], torn')
  BY DEF Promised
<1> QED
  BY <1>1, <1>2, <1>3, <1>4 DEF FilesInv, ProcTyped

\* No file changes, and the process had emptied none.
LEMMA FilesStay ==
    ASSUME FilesInv, NEW s \in Slots, NEW q, proc' = [proc EXCEPT ![s] = q],
           ProcTyped(q), UNCHANGED <<file, orig>>, torn \subseteq torn', Promised(q, torn'),
           proc[s].at = "fill" => Op(s)[1] \in torn', q.at # "fill"
    PROVE  FilesInv'
<1>1. proc'[s] = q /\ \A t \in Slots : t # s => proc'[t] = proc[t]
  BY DEF FilesInv
<1>2. \A f \in Configs : f \notin torn' /\ ~MidWrite(f)' => f \notin torn /\ ~MidWrite(f)
  <2> SUFFICES ASSUME NEW f \in Configs, f \notin torn', MidWrite(f)
               PROVE  MidWrite(f)'
    OBVIOUS
  <2>1. PICK t \in Slots : proc[t].at = "fill" /\ Op(t)[1] = f
    BY DEF MidWrite
  <2>2. t # s
    BY <2>1
  <2>3. proc'[t] = proc[t]
    BY <1>1, <2>2
  <2> QED BY <2>1, <2>3 DEF MidWrite, Op
<1>3. FilesTyped'
  BY DEF FilesInv, FilesTyped
<1>4. \A f \in Configs : f \notin torn' /\ ~MidWrite(f)' => FileKept(f, orig[f], file'[f])
  BY <1>2 DEF FilesInv, ForeignKept
<1> QED
  BY <1>3, <1>4, ProcessMoves

LEMMA ReadsFile ==
    ASSUME FilesInv, NEW s \in Slots, ReadFile(s)
    PROVE  FilesInv' /\ proc[s].at = "read" /\ \A t \in Slots : t # s => proc'[t] = proc[t]
<1> DEFINE p == proc[s]
           op == Op(s)
           f == op[1]
           c == file[f]
           v == Changed(op, c)
           at == IF f \in {"access", "opencode.json"} THEN "replace" ELSE "write"
           w == [p EXCEPT !.at = at, !.old = c, !.new = v]
<1>1. p.at = "read" /\ op[2] \notin Registers \cup {"inspect"} /\ UNCHANGED <<file, orig>>
      /\ torn' = IF MidWrite(f) THEN torn \cup {f} ELSE torn
  BY DEF ReadFile, Reads
<1>2. ProcTyped(p) /\ p.at \in AtWork /\ "read" \notin Changing \cup Adding
  BY <1>1 DEF FilesInv, AtWork, Changing, Adding
<1>3. op \in KnownOps /\ f \in Configs
  BY <1>2, HeadKnown DEF Op
<1>4. PICK q : proc' = [proc EXCEPT ![s] = q]
              /\ \/ q \in {Stops(p), Popped1(Fails(p)), Popped1(p)}
                 \/ c # Broken /\ q = w
  <2>1. CASE c = Broken /\ Unreadable(s)
    BY <2>1 DEF Unreadable
  <2>2. CASE proc' = [proc EXCEPT ![s] = Popped1(@)]
    BY <2>2
  <2>3. CASE c # Broken /\ proc' = [proc EXCEPT ![s].at = at, ![s].old = c, ![s].new = v]
    <3>1. proc' = [proc EXCEPT ![s] = w]
      BY <2>3 DEF FilesInv
    <3> QED BY <2>3, <3>1
  <2> QED BY <2>1, <2>2, <2>3 DEF ReadFile
<1>a. at \in {"replace", "write"}
  OBVIOUS
<1> HIDE DEF v, at
<1>5. ProcTyped(q) /\ Promised(q, torn') /\ q.at # "fill"
  <2>1. CASE q \in {Stops(p), Popped1(Fails(p)), Popped1(p)}
    <3>1. ProcTyped(q) /\ q.at \in {"read", "done"}
      BY <1>2, <2>1, NextChange
    <3> QED BY <3>1, NotChanging DEF Changing, Adding
  <2>2. CASE c # Broken /\ q = w
    <3>1. DOMAIN q = DOMAIN p /\ q.ops = p.ops /\ q.new = v /\ q.at = at
      BY <1>2, <2>2 DEF ProcTyped
    <3>b. c # Broken
      BY <2>2
    <3> HIDE <2>2
    <3>2. ProcTyped(q) /\ q.at # "fill" /\ q.at \notin Adding /\ q.new = v /\ Head(q.ops) = op
      BY <1>2, <1>3, <1>a, <3>1 DEF ProcTyped, AtWork, Changing, Adding, Op
    <3>3. c \in Contents /\ orig[f] # Broken
      BY <1>3, <3>b DEF FilesInv, FilesTyped
    <3>4. v \in Contents /\ FileKept(f, c, v)
      BY <1>1, <1>3, <3>3, ChangedKeeps DEF v
    <3>5. f \notin torn' => FileKept(f, orig[f], c)
      BY <1>1, <1>3 DEF FilesInv, ForeignKept
    <3>6. f \notin torn' => FileKept(f, orig[f], v)
      BY <3>4, <3>5, KeptTwice
    <3>7. UNCHANGED orig
      BY <1>1
    <3> QED BY <3>2, <3>3, <3>4, <3>6 DEF Promised
  <2> QED BY <1>4, <2>1, <2>2
<1>6. torn \subseteq torn'
  BY <1>1
<1>7. FilesInv'
  BY <1>1, <1>4, <1>5, <1>6, FilesStay
<1>8. \A t \in Slots : t # s => proc'[t] = proc[t]
  BY <1>4 DEF FilesInv
<1> QED
  BY <1>1, <1>7, <1>8

\* writeJsonFile opens the file, and then fills it.
LEMMA EmptiesFile ==
    ASSUME FilesInv, NEW s \in Slots, EmptyFile(s)
    PROVE  FilesInv' /\ proc[s].at = "write" /\ \A t \in Slots : t # s => proc'[t] = proc[t]
<1> DEFINE p == proc[s]
           f == Op(s)[1]
           q == [p EXCEPT !.at = "fill"]
<1>1. p.at = "write" /\ UNCHANGED <<torn, orig>> /\ file' = [file EXCEPT ![f] = Blank]
      /\ proc' = [proc EXCEPT ![s] = q]
  BY DEF EmptyFile, FilesInv
<1>2. ProcTyped(p) /\ Promised(p, torn) /\ p.at \in AtWork
  BY <1>1 DEF FilesInv, AtWork, Changing
<1>3. f \in Configs
  BY <1>2, HeadKnown DEF Op
<1>4. DOMAIN q = DOMAIN p /\ q.at = "fill" /\ q.ops = p.ops /\ q.new = p.new
  BY <1>2 DEF ProcTyped
<1>5. ProcTyped(q) /\ q.at = "fill" /\ Head(q.ops)[1] = f
  BY <1>2, <1>4 DEF ProcTyped, AtWork, Changing, Op
<1>6. Promised(q, torn') /\ orig[f] # Broken
  BY <1>1, <1>2, <1>4 DEF Promised, Changing, Adding, Op
<1>7. proc'[s] = q /\ \A t \in Slots : t # s => proc'[t] = proc[t]
  BY <1>1 DEF FilesInv
<1> HIDE DEF q
<1>8. \E t \in Slots : proc'[t].at = "fill" /\ Head(proc'[t].ops)[1] = f
  BY <1>5, <1>7
<1>9. FilesTyped'
  BY <1>1, <1>3, <1>6, BlankIsContents DEF FilesInv, FilesTyped
<1>10. ASSUME NEW g \in Configs, g \notin torn', ~MidWrite(g)'
       PROVE  FileKept(g, orig[g], file'[g])
  <2>1. g # f
    BY <1>8, <1>10 DEF MidWrite, Op
  <2>2. file'[g] = file[g]
    BY <1>1, <2>1 DEF FilesInv, FilesTyped
  <2>3. ~MidWrite(g)
    <3> SUFFICES ASSUME NEW t \in Slots, proc[t].at = "fill", Op(t)[1] = g
                 PROVE  FALSE
      BY DEF MidWrite
    <3>1. t # s
      BY <1>1
    <3> QED BY <1>7, <1>10, <3>1 DEF MidWrite, Op
  <2> QED BY <1>1, <1>10, <2>2, <2>3 DEF FilesInv, ForeignKept
<1>11. FilesInv'
  BY <1>1, <1>5, <1>6, <1>9, <1>10, ProcessMoves
<1> QED
  BY <1>1, <1>7, <1>11

\* What was promised is written, to the file that was read.
LEMMA WritesPromised ==
    ASSUME FilesInv, NEW s \in Slots, proc[s].at \in {"fill", "rename"},
           NEW q, proc' = [proc EXCEPT ![s] = q], ProcTyped(q), q.at \in {"read", "done"},
           file' = [file EXCEPT ![Op(s)[1]] = proc[s].new], UNCHANGED <<torn, orig>>
    PROVE  FilesInv'
<1> DEFINE f == Op(s)[1]
<1>1. ProcTyped(proc[s]) /\ Promised(proc[s], torn) /\ proc[s].at \in AtWork
      /\ proc[s].at \in Changing
  BY DEF FilesInv, AtWork, Changing
<1>2. f \in Configs
  BY <1>1, HeadKnown DEF Op
<1>3. proc[s].new \in Contents /\ orig[f] # Broken /\ (f \in torn \/ FileKept(f, orig[f], proc[s].new))
  BY <1>1 DEF Promised, Op
<1>4. FilesTyped' /\ file'[f] = proc[s].new /\ \A g \in Configs : g # f => file'[g] = file[g]
  BY <1>2, <1>3 DEF FilesInv, FilesTyped
<1>5. proc'[s] = q /\ \A t \in Slots : t # s => proc'[t] = proc[t]
  BY DEF FilesInv
<1>6. ASSUME NEW g \in Configs, g \notin torn', ~MidWrite(g)'
      PROVE  FileKept(g, orig[g], file'[g])
  <2>1. CASE g = f
    BY <1>3, <1>4, <1>6, <2>1
  <2>2. CASE g # f
    <3>1. ~MidWrite(g)
      <4> SUFFICES ASSUME NEW t \in Slots, proc[t].at = "fill", Op(t)[1] = g
                   PROVE  FALSE
        BY DEF MidWrite
      <4>1. t # s
        BY <2>2
      <4> QED BY <1>5, <1>6, <4>1 DEF MidWrite, Op
    <3> QED BY <1>4, <1>6, <2>2, <3>1 DEF FilesInv, ForeignKept
  <2> QED BY <2>1, <2>2
<1>7. Promised(q, torn')
  BY NotChanging DEF Changing, Adding
<1>8. torn \subseteq torn'
  OBVIOUS
<1> QED
  BY <1>4, <1>6, <1>7, <1>8, ProcessMoves

LEMMA FillsFile ==
    ASSUME FilesInv, NEW s \in Slots, FillFile(s)
    PROVE  FilesInv' /\ proc[s].at = "fill" /\ \A t \in Slots : t # s => proc'[t] = proc[t]
<1>1. proc[s].at = "fill" /\ file' = [file EXCEPT ![Op(s)[1]] = proc[s].new]
      /\ proc' = [proc EXCEPT ![s] = Popped1(proc[s])] /\ UNCHANGED <<torn, orig>>
  BY DEF FillFile
<1>2. ProcTyped(proc[s]) /\ proc[s].at \in AtWork
  BY <1>1 DEF FilesInv, AtWork, Changing
<1>3. ProcTyped(Popped1(proc[s])) /\ Popped1(proc[s]).at \in {"read", "done"}
  BY <1>2, NextChange
<1>4. FilesInv'
  BY <1>1, <1>3, WritesPromised
<1>5. \A t \in Slots : t # s => proc'[t] = proc[t]
  BY <1>1 DEF FilesInv
<1> QED
  BY <1>1, <1>4, <1>5

\* A file of OpenCode is looked at once more, and replaced.
LEMMA ChecksFile ==
    ASSUME FilesInv, NEW s \in Slots, stillUnchanged(s)
    PROVE  FilesInv' /\ proc[s].at = "replace" /\ \A t \in Slots : t # s => proc'[t] = proc[t]
<1> DEFINE p == proc[s]
           r == [p EXCEPT !.at = "rename"]
<1>1. p.at = "replace" /\ UNCHANGED <<file, torn, orig>>
  BY DEF stillUnchanged
<1>2. PICK q \in {r, Popped1(Fails(p)), Stops(p)} : proc' = [proc EXCEPT ![s] = q]
  BY DEF stillUnchanged
<1>3. ProcTyped(p) /\ Promised(p, torn) /\ p.at \in AtWork
  BY <1>1 DEF FilesInv, AtWork, Changing
<1>4. ProcTyped(q) /\ Promised(q, torn') /\ q.at # "fill"
  <2>1. CASE q = r
    <3>1. DOMAIN q = DOMAIN p /\ q.at = "rename" /\ q.ops = p.ops /\ q.new = p.new
      BY <1>3, <2>1 DEF ProcTyped
    <3>2. ProcTyped(q) /\ q.at # "fill"
      BY <1>1, <1>3, <3>1 DEF ProcTyped, AtWork, Changing
    <3>3. Promised(q, torn')
      BY <1>1, <1>3, <3>1 DEF Promised, Changing, Adding
    <3> QED BY <3>2, <3>3
  <2>2. CASE q \in {Popped1(Fails(p)), Stops(p)}
    <3>1. ProcTyped(q) /\ q.at \in {"read", "done"}
      BY <1>3, <2>2, NextChange
    <3> QED BY <3>1, NotChanging DEF Changing, Adding
  <2> QED BY <2>1, <2>2
<1> HIDE DEF r
<1>5. torn \subseteq torn'
  BY <1>1
<1>6. FilesInv'
  BY <1>1, <1>2, <1>4, <1>5, FilesStay
<1> QED
  BY <1>1, <1>2, <1>6 DEF FilesInv

LEMMA ReplacesFile ==
    ASSUME FilesInv, NEW s \in Slots, writeOpenCode(s)
    PROVE  FilesInv' /\ proc[s].at = "rename" /\ \A t \in Slots : t # s => proc'[t] = proc[t]
<1>1. proc[s].at = "rename" /\ file' = [file EXCEPT ![Op(s)[1]] = proc[s].new]
      /\ proc' = [proc EXCEPT ![s] = Popped1(proc[s])] /\ UNCHANGED <<torn, orig>>
  BY DEF writeOpenCode
<1>2. ProcTyped(proc[s]) /\ proc[s].at \in AtWork
  BY <1>1 DEF FilesInv, AtWork, Changing
<1>3. ProcTyped(Popped1(proc[s])) /\ Popped1(proc[s]).at \in {"read", "done"}
  BY <1>2, NextChange
<1>4. FilesInv'
  BY <1>1, <1>3, WritesPromised
<1>5. \A t \in Slots : t # s => proc'[t] = proc[t]
  BY <1>1 DEF FilesInv
<1> QED
  BY <1>1, <1>4, <1>5

\* Borg is registered only where the operator had nothing a launch could use.
LEMMA ChecksMcp ==
    ASSUME FilesInv, NEW s \in Slots, ensureCliMcpConfigured(s)
    PROVE  FilesInv' /\ proc[s].at = "read" /\ \A t \in Slots : t # s => proc'[t] = proc[t]
<1> DEFINE p == proc[s]
           f == Op(s)[1]
           at == IF f = "opencode.json" THEN "add" ELSE "remove"
           a == [p EXCEPT !.at = at]
           found == file[f] # Broken /\ Recognized(f, file[f].mcp, Op(s)[2] = "target")
<1>1. p.at = "read" /\ UNCHANGED <<file, orig>>
      /\ torn' = IF MidWrite(f) THEN torn \cup {f} ELSE torn
  BY DEF ensureCliMcpConfigured, Reads
<1>2. PICK q : /\ proc' = [proc EXCEPT ![s] = q]
               /\ q = Popped1(p) \/ (q = a /\ ~found)
  BY DEF ensureCliMcpConfigured, FilesInv
<1>3. ProcTyped(p) /\ p.at \in AtWork
  BY <1>1 DEF FilesInv, AtWork, Changing
<1>4. f \in Configs /\ torn \subseteq torn'
  BY <1>1, <1>3, HeadKnown DEF Op
<1>5. at \in Adding
  BY DEF Adding
<1> HIDE DEF at
<1>6. ProcTyped(q) /\ Promised(q, torn') /\ q.at # "fill"
  <2>1. CASE q = Popped1(p)
    <3>1. ProcTyped(q) /\ q.at \in {"read", "done"}
      BY <1>3, <2>1, NextChange
    <3> QED BY <3>1, NotChanging DEF Changing, Adding
  <2>2. CASE q = a /\ ~found
    <3>1. DOMAIN q = DOMAIN p /\ q.at = at /\ q.ops = p.ops
      BY <1>3, <2>2 DEF ProcTyped
    <3>2. ProcTyped(q) /\ q.at # "fill" /\ q.at \notin Changing /\ Head(q.ops)[1] = f
      BY <1>3, <1>5, <3>1 DEF ProcTyped, AtWork, Changing, Adding, Op
    <3>3. ASSUME f \notin torn', orig[f] # Broken, Recognized(f, orig[f].mcp, TRUE)
          PROVE  FALSE
      <4>1. FileKept(f, orig[f], file[f]) /\ file[f] # Broken
        BY <1>1, <1>4, <3>3, BrokenAssumption DEF FilesInv, FilesTyped, ForeignKept
      <4>2. Recognized(f, file[f].mcp, TRUE)
        BY <3>3, <4>1 DEF FileKept, McpKept, Recognized
      <4>3. Recognized(f, file[f].mcp, Op(s)[2] = "target")
        BY <4>2 DEF Recognized
      <4> QED BY <2>2, <4>1, <4>3
    <3> QED BY <1>1, <3>2, <3>3 DEF Promised
  <2> QED BY <1>2, <2>1, <2>2
<1>7. FilesInv'
  BY <1>1, <1>2, <1>4, <1>6, FilesStay
<1> QED
  BY <1>1, <1>2, <1>7 DEF FilesInv

\* What the agent's own program puts in the file.
LEMMA EntryPut ==
    ASSUME FilesInv, NEW f \in Configs, UNCHANGED orig, torn \subseteq torn',
           UNCHANGED file \/ \E e \in {NoEntry, Fresh(f)} : Puts(f, e),
           \/ f \in torn' \/ orig[f] = Broken
           \/ ~MidWrite(f) /\ ~Recognized(f, orig[f].mcp, TRUE)
    PROVE  /\ FilesTyped' /\ \A g \in Configs : g # f => file'[g] = file[g]
           /\ f \notin torn' /\ ~MidWrite(f) => FileKept(f, orig[f], file'[f])
<1>1. CASE UNCHANGED file
  BY <1>1 DEF FilesInv, FilesTyped, ForeignKept
<1>2. ASSUME NEW e \in {NoEntry, Fresh(f)}, Puts(f, e)
      PROVE  /\ FilesTyped' /\ \A g \in Configs : g # f => file'[g] = file[g]
             /\ f \notin torn' /\ ~MidWrite(f) => FileKept(f, orig[f], file'[f])
  <2> DEFINE c == file[f]
             n == [c EXCEPT !.mcp = e]
  <2>1. c \in Contents /\ orig[f] # Broken /\ file' = [file EXCEPT ![f] = n]
    BY <1>2 DEF Puts, FilesInv, FilesTyped
  <2>2. e \in Registration /\ e.more = "none" /\ e.command \in {"none", "current"}
    <3>1. e \in Registration
      BY Entries
    <3>2. /\ NoEntry.more = "none" /\ NoEntry.command = "none"
          /\ Fresh(f).more = "none" /\ Fresh(f).command = "current"
      BY DEF NoEntry, Fresh
    <3> QED BY <3>1, <3>2
  <2>3. /\ n \in Contents /\ n.rest = c.rest /\ n.mcp = e /\ n["exact"] = c["exact"]
        /\ n["tree"] = c["tree"] /\ \A ev \in Events : n[ev] = c[ev]
    BY <2>1, <2>2 DEF Contents, Events
  <2> HIDE DEF n
  <2>4. FilesTyped' /\ file'[f] = n /\ \A g \in Configs : g # f => file'[g] = file[g]
    BY <2>1, <2>3 DEF FilesInv, FilesTyped
  <2>5. ASSUME f \notin torn', ~MidWrite(f)
        PROVE  FileKept(f, orig[f], n)
    <3>1. McpKept(f, orig[f].mcp, n.mcp)
      BY <2>1, <2>2, <2>3, <2>5 DEF McpKept
    <3>2. FileKept(f, orig[f], c)
      BY <2>5 DEF FilesInv, ForeignKept
    <3> QED BY <2>3, <3>1, <3>2 DEF FileKept
  <2> QED BY <2>4, <2>5
<1> QED
  BY <1>1, <1>2

LEMMA AddsMcp ==
    ASSUME FilesInv, NEW s \in Slots, removeMcp(s) \/ addMcp(s)
    PROVE  FilesInv' /\ proc[s].at \in Adding /\ \A t \in Slots : t # s => proc'[t] = proc[t]
<1> DEFINE p == proc[s]
           f == Op(s)[1]
           a == [p EXCEPT !.at = "add"]
<1>1. /\ p.at \in Adding /\ UNCHANGED orig
      /\ torn' = IF MidWrite(f) THEN torn \cup {f} ELSE torn
      /\ UNCHANGED file \/ \E e \in {NoEntry, Fresh(f)} : Puts(f, e)
  BY DEF removeMcp, addMcp, Reads, Adding
<1>2. PICK q \in {a, Popped1(p), Popped1(Fails(p)), Stops(p)} : proc' = [proc EXCEPT ![s] = q]
  <2>1. CASE removeMcp(s)
    BY <2>1 DEF removeMcp, FilesInv
  <2>2. CASE addMcp(s)
    BY <2>2 DEF addMcp
  <2> QED BY <2>1, <2>2
<1>3. ProcTyped(p) /\ Promised(p, torn) /\ p.at \in AtWork
  BY <1>1 DEF FilesInv, AtWork
<1>4. f \in Configs /\ torn \subseteq torn'
  BY <1>1, <1>3, HeadKnown DEF Op
<1>5. f \in torn' \/ orig[f] = Broken \/ ~Recognized(f, orig[f].mcp, TRUE)
  BY <1>1, <1>3 DEF Promised, Op
<1>6. ProcTyped(q) /\ Promised(q, torn')
  <2>1. CASE q = a
    <3>1. DOMAIN q = DOMAIN p /\ q.at = "add" /\ q.ops = p.ops
      BY <1>3, <2>1 DEF ProcTyped
    <3>2. ProcTyped(q)
      BY <1>3, <3>1 DEF ProcTyped, AtWork, Adding
    <3>3. Promised(q, torn')
      BY <1>1, <1>5, <3>1 DEF Promised, Changing, Adding, Op
    <3> QED BY <3>2, <3>3
  <2>2. CASE q \in {Popped1(p), Popped1(Fails(p)), Stops(p)}
    <3>1. ProcTyped(q) /\ q.at \in {"read", "done"}
      BY <1>3, <2>2, NextChange
    <3> QED BY <3>1, NotChanging DEF Changing, Adding
  <2> QED BY <2>1, <2>2
<1>7. /\ FilesTyped' /\ \A g \in Configs : g # f => file'[g] = file[g]
      /\ f \notin torn' /\ ~MidWrite(f) => FileKept(f, orig[f], file'[f])
  <2>1. f \in torn' \/ orig[f] = Broken \/ (~MidWrite(f) /\ ~Recognized(f, orig[f].mcp, TRUE))
    BY <1>1, <1>5
  <2> QED BY <1>1, <1>4, <2>1, EntryPut
<1>8. proc'[s] = q /\ \A t \in Slots : t # s => proc'[t] = proc[t]
  BY <1>2 DEF FilesInv
<1>9. ASSUME NEW g \in Configs, g \notin torn', ~MidWrite(g)'
      PROVE  FileKept(g, orig[g], file'[g])
  <2>1. ~MidWrite(g)
    <3> SUFFICES ASSUME NEW t \in Slots, proc[t].at = "fill", Op(t)[1] = g
                 PROVE  FALSE
      BY DEF MidWrite
    <3>1. t # s
      BY <1>1 DEF Adding
    <3> QED BY <1>8, <1>9, <3>1 DEF MidWrite, Op
  <2>2. CASE g = f
    BY <1>7, <1>9, <2>1, <2>2
  <2>3. CASE g # f
    BY <1>1, <1>7, <1>9, <2>1, <2>3 DEF FilesInv, ForeignKept
  <2> QED BY <2>2, <2>3
<1>10. FilesInv'
  BY <1>1, <1>2, <1>4, <1>6, <1>7, <1>9, ProcessMoves
<1> QED
  BY <1>1, <1>8, <1>10

LEMMA InspectsHealth ==
    ASSUME FilesInv, NEW s \in Slots, inspectAgentIntegrationHealth(s)
    PROVE  FilesInv' /\ proc[s].at = "read" /\ \A t \in Slots : t # s => proc'[t] = proc[t]
<1>1. proc[s].at = "read" /\ UNCHANGED <<file, torn, orig>>
  BY DEF inspectAgentIntegrationHealth
<1>2. PICK q : q \in {Popped1(Fails(proc[s])), Popped1(proc[s])} /\ proc' = [proc EXCEPT ![s] = q]
  BY DEF inspectAgentIntegrationHealth
<1>3. ProcTyped(proc[s]) /\ proc[s].at \in AtWork
  BY <1>1 DEF FilesInv, AtWork, Changing
<1>4. ProcTyped(q) /\ q.at \in {"read", "done"}
  BY <1>2, <1>3, NextChange
<1>5. Promised(q, torn') /\ torn \subseteq torn'
  BY <1>1, <1>4, NotChanging DEF Changing, Adding
<1>6. FilesInv'
  BY <1>1, <1>2, <1>4, <1>5, FilesStay
<1> QED
  BY <1>1, <1>2, <1>6 DEF FilesInv

LEMMA NoProcTyped == ProcTyped(NoProc) /\ NoProc.at = "idle"
<1>1. <<>> \in Seq(KnownOps)
  OBVIOUS
<1> QED
  BY <1>1 DEF NoProc, ProcTyped, AtWork, Changing, Adding

LEMMA Dies ==
    ASSUME FilesInv, NEW s \in Slots, ProcessDies(s)
    PROVE  FilesInv' /\ proc'[s].at = "idle" /\ \A t \in Slots : t # s => proc'[t] = proc[t]
<1>1. /\ proc' = [proc EXCEPT ![s] = NoProc] /\ UNCHANGED <<file, orig>>
      /\ torn' = IF proc[s].at = "fill" THEN torn \cup {Op(s)[1]} ELSE torn
  BY DEF ProcessDies
<1>2. Promised(NoProc, torn') /\ torn \subseteq torn'
  BY <1>1, NoProcTyped, NotChanging DEF Changing, Adding
<1>3. proc[s].at = "fill" => Op(s)[1] \in torn'
  BY <1>1
<1>4. FilesInv'
  BY <1>1, <1>2, <1>3, NoProcTyped, FilesStay
<1>5. proc'[s] = NoProc /\ \A t \in Slots : t # s => proc'[t] = proc[t]
  BY <1>1 DEF FilesInv
<1> QED
  BY <1>4, <1>5, NoProcTyped

\* A process starts where none was busy.
LEMMA BeginsAt ==
    ASSUME FilesInv, NEW s \in Slots, ~Busy(s), NEW task, NEW ops, Todo(ops),
           Begins(s, task, ops), UNCHANGED <<file, torn, orig>>
    PROVE  FilesInv' /\ \A t \in Slots : t # s => proc'[t] = proc[t]
<1> DEFINE q == [NoProc EXCEPT !.task = task, !.ops = ops, !.at = "read"]
<1>1. proc' = [proc EXCEPT ![s] = q]
  BY DEF Begins
<1>2. DOMAIN q = DOMAIN NoProc /\ q.ops = ops /\ q.at = "read"
  BY NoProcTyped DEF ProcTyped
<1>3. ProcTyped(q) /\ q.at = "read"
  BY <1>2, NoProcTyped DEF ProcTyped, AtWork, Changing, Todo
<1> HIDE DEF q
<1>4. Promised(q, torn') /\ torn \subseteq torn'
  BY <1>3, NotChanging DEF Changing, Adding
<1>5. proc[s].at # "fill"
  BY DEF Busy
<1>6. FilesInv'
  BY <1>1, <1>3, <1>4, <1>5, FilesStay
<1> QED
  BY <1>1, <1>6 DEF FilesInv

LEMMA HookSteps ==
    ASSUME FilesInv, NEW s \in Slots, HookStep(s)
    PROVE  FilesInv' /\ Busy(s) /\ \A t \in Slots : t # s => proc'[t] = proc[t]
  BY ReadsFile, EmptiesFile, FillsFile, ChecksFile, ReplacesFile, ChecksMcp, AddsMcp, InspectsHealth
     DEF HookStep, Busy, Adding

LEMMA FilesUntouched ==
    ASSUME FilesInv, UNCHANGED <<file, proc, torn, orig>>
    PROVE  FilesInv'
  BY DEF FilesInv, FilesTyped, ForeignKept, MidWrite, Op, Promised, ProcTyped

-----------------------------------------------------------------------------
(* The commands around the processes.                                      *)

Configuring == {"refreshing", "configuring"}

\* A command's process is at work only while the command waits for it, and setup has
\* something to do.
OrderInv ==
    /\ cmd.kind = "setup" => Todo(plan.ops)
    /\ Busy("main") => cmd.at \in Configuring

HooksInv == FilesInv /\ OrderInv

LEMMA BothSlots == "main" \in Slots /\ "other" \in Slots
  BY DEF Slots

\* A command moves on while it has no process at work.
LEMMA CommandMoves ==
    ASSUME HooksInv, ~Busy("main") \/ (cmd'.kind = cmd.kind /\ cmd'.at = cmd.at),
           UNCHANGED kVars, cmd'.kind = "setup" => Todo(plan'.ops)
    PROVE  HooksInv'
<1>1. UNCHANGED <<file, proc, torn, orig>>
  BY DEF kVars
<1>2. FilesInv'
  BY <1>1, FilesUntouched DEF HooksInv
<1>3. (Busy("main"))' <=> Busy("main")
  BY <1>1 DEF Busy
<1>4. OrderInv'
  BY <1>3 DEF HooksInv, OrderInv
<1> QED
  BY <1>2, <1>4 DEF HooksInv

LEMMA ToPlace ==
    ASSUME CommandTyped(cmd), NEW l, To(l)
    PROVE  cmd'.kind = cmd.kind /\ cmd'.at = l
  BY DEF CommandTyped, To

LEMMA EndKind ==
    ASSUME End
    PROVE  cmd'.kind = "none"
  BY IdleFacts DEF End

\* A place of update or setup where no process is at work.
LEMMA NotWaiting ==
    ASSUME InstallInv, HooksInv, NEW l, At1(l), l \notin Configuring
    PROVE  ~Busy("main") /\ CommandTyped(cmd) /\ cmd.at = l
           /\ (l \in UpdatePlaces => cmd.kind = "update") /\ (cmd.kind = "setup" => Todo(plan.ops))
<1>1. CommandTyped(cmd)
  BY DEF InstallInv, Typed
<1>2. cmd.at = l /\ (l \in UpdatePlaces => cmd.kind = "update")
  BY <1>1, PlaceOf
<1> QED
  BY <1>1, <1>2 DEF HooksInv, OrderInv

LEMMA UpdateHooks ==
    ASSUME InstallInv, HooksInv,
           \/ runUpdate \/ publishedPackage \/ confirmUpdate \/ installClient \/ installServer
           \/ serverStatus \/ serverUpdate \/ serverRecheck \/ verifyUpdate
    PROVE  HooksInv'
<1>1. CASE runUpdate
  <2>1. cmd = Idle /\ cmd.at = "idle" /\ UNCHANGED kVars
    BY <1>1, IdleFacts DEF runUpdate
  <2>2. cmd'.kind = "update"
    BY <1>1 DEF runUpdate, Idle
  <2>3. ~Busy("main")
    BY <2>1 DEF HooksInv, OrderInv, Configuring
  <2> QED BY <2>1, <2>2, <2>3, CommandMoves
<1>2. ASSUME NEW l \in UpdatePlaces, l \notin Configuring, At1(l), UNCHANGED kVars,
             UNCHANGED cmd \/ End \/ \E m : To(m)
      PROVE  HooksInv'
  <2>1. ~Busy("main") /\ CommandTyped(cmd) /\ cmd.kind = "update"
    BY <1>2, NotWaiting
  <2>2. cmd'.kind # "setup"
    BY <1>2, <2>1, ToPlace, EndKind
  <2> QED BY <1>2, <2>1, <2>2, CommandMoves
<1>3. /\ \A l \in {"resolve", "client", "server", "status", "activate", "recheck", "verify"} :
            l \in UpdatePlaces /\ l \notin Configuring
  BY DEF UpdatePlaces, Configuring
<1>4. CASE publishedPackage
  <2>1. At1("resolve") /\ UNCHANGED kVars /\ UNCHANGED cmd
    BY <1>4 DEF publishedPackage, hVars
  <2> QED BY <1>2, <1>3, <2>1
<1>5. CASE confirmUpdate
  <2>1. At1("resolve") /\ UNCHANGED kVars /\ (End \/ \E m : To(m))
    BY <1>5 DEF confirmUpdate, Quits
  <2> QED BY <1>2, <1>3, <2>1
<1>6. CASE installClient
  <2>1. At1("client") /\ UNCHANGED kVars /\ (End \/ \E m : To(m))
    BY <1>6 DEF installClient, Quits
  <2> QED BY <1>2, <1>3, <2>1
<1>7. CASE installServer
  <2>1. At1("server") /\ UNCHANGED kVars /\ (End \/ \E m : To(m))
    BY <1>7 DEF installServer, Quits
  <2> QED BY <1>2, <1>3, <2>1
<1>8. CASE serverStatus
  <2>1. At1("status") /\ UNCHANGED kVars /\ (End \/ \E m : To(m))
    BY <1>8 DEF serverStatus, Quits
  <2> QED BY <1>2, <1>3, <2>1
<1>9. CASE serverUpdate
  <2>1. At1("activate") /\ UNCHANGED kVars /\ (End \/ \E m : To(m))
    BY <1>9 DEF serverUpdate, Quits
  <2> QED BY <1>2, <1>3, <2>1
<1>10. CASE serverRecheck
  <2>1. At1("recheck") /\ UNCHANGED kVars /\ (End \/ \E m : To(m))
    BY <1>10 DEF serverRecheck, Quits
  <2> QED BY <1>2, <1>3, <2>1
<1>11. CASE verifyUpdate
  <2>1. At1("verify") /\ UNCHANGED kVars /\ (End \/ \E m : To(m))
    BY <1>11 DEF verifyUpdate, Quits
  <2> QED BY <1>2, <1>3, <2>1
<1> QED
  BY <1>1, <1>4, <1>5, <1>6, <1>7, <1>8, <1>9, <1>10, <1>11

\* The command's process begins, and the command waits for it.
LEMMA ProcessBegins ==
    ASSUME InstallInv, HooksInv, NEW l, At1(l), l \notin Configuring,
           NEW m \in Configuring, To(m), NEW task, NEW ops, Todo(ops), Begins("main", task, ops),
           UNCHANGED <<file, torn, orig>>, UNCHANGED plan
    PROVE  HooksInv'
<1>1. ~Busy("main") /\ CommandTyped(cmd) /\ (cmd.kind = "setup" => Todo(plan.ops))
  BY NotWaiting
<1>2. FilesInv'
  BY <1>1, BothSlots, BeginsAt DEF HooksInv
<1>3. cmd'.kind = cmd.kind /\ cmd'.at = m
  BY <1>1, ToPlace
<1>4. OrderInv'
  BY <1>1, <1>3 DEF OrderInv
<1> QED
  BY <1>2, <1>4 DEF HooksInv

LEMMA RefreshHooks ==
    ASSUME InstallInv, HooksInv, refreshAgentIntegrations
    PROVE  HooksInv'
<1>1. /\ At1("refresh") /\ Begins("main", "refresh", RefreshOps) /\ To("refreshing")
      /\ UNCHANGED <<file, torn, orig>> /\ UNCHANGED plan
  BY DEF refreshAgentIntegrations, uVars
<1>2. "refresh" \notin Configuring /\ "refreshing" \in Configuring
  BY DEF Configuring
<1> HIDE DEF RefreshOps
<1> QED
  BY <1>1, <1>2, RefreshPlanned, ProcessBegins

\* The command goes on when its process is done.
LEMMA ProcessDone ==
    ASSUME InstallInv, HooksInv, proc["main"].at = "done", UNCHANGED kVars, cmd'.kind # "setup"
    PROVE  HooksInv'
<1>1. ~Busy("main")
  BY DEF Busy
<1> QED
  BY <1>1, CommandMoves

LEMMA ActivateKind ==
    ASSUME NEW kind, kind # "setup", NEW t, activate(kind, t)
    PROVE  cmd'.kind # "setup"
<1>1. CASE End
  BY <1>1, EndKind
<1>2. ASSUME NEW at, NEW d, NEW steps, Planned(kind, at, d, steps)
      PROVE  cmd'.kind # "setup"
  BY <1>2 DEF Planned, Idle
<1> QED
  BY <1>1, <1>2 DEF activate

LEMMA ActivateHooks ==
    ASSUME InstallInv, HooksInv, activateHermesPluginAfterUpdate
    PROVE  HooksInv'
<1>1. proc["main"].at = "done" /\ UNCHANGED kVars
  BY DEF activateHermesPluginAfterUpdate
<1>2. End \/ \E t : activate("activate", t)
  BY DEF activateHermesPluginAfterUpdate, activateHermesPlugin
<1>3. cmd'.kind # "setup"
  BY <1>2, EndKind, ActivateKind
<1> QED
  BY <1>1, <1>3, ProcessDone

LEMMA SetupHooks ==
    ASSUME InstallInv, HooksInv,
           setup \/ offerFirstRunServerInstall \/ installFirstServer \/ initializeServer \/ setupDone
    PROVE  HooksInv'
<1>0. \A l \in {"offer", "install", "hooks"} : l \notin Configuring
  BY DEF Configuring
<1>t. PlanTyped(plan)
  BY DEF InstallInv, Typed
<1>1. CASE setup
  <2>1. cmd = Idle /\ cmd.at = "idle" /\ UNCHANGED kVars
    BY <1>1, IdleFacts DEF setup
  <2>2. PICK selected \in SUBSET Agents, major \in {1, 2} :
             selected # {} /\ plan' = [NoPlan EXCEPT !.ops = SetupOps(selected, major)]
    BY <1>1 DEF setup
  <2>3. plan'.ops = SetupOps(selected, major)
    BY <2>2 DEF NoPlan
  <2>4. Todo(plan'.ops)
    <3>1. Todo(SetupOps(selected, major))
      BY <2>2, SetupPlanned
    <3> QED BY <2>3, <3>1
  <2>5. ~Busy("main")
    BY <2>1 DEF HooksInv, OrderInv, Configuring
  <2> QED BY <2>1, <2>4, <2>5, CommandMoves
<1>2. ASSUME NEW l, l \notin Configuring, At1(l), UNCHANGED kVars,
             End \/ (plan'.ops = plan.ops /\ \E m : To(m))
      PROVE  HooksInv'
  <2>1. ~Busy("main") /\ CommandTyped(cmd) /\ (cmd.kind = "setup" => Todo(plan.ops))
    BY <1>2, NotWaiting
  <2>2. cmd'.kind = "setup" => Todo(plan'.ops)
    BY <1>2, <2>1, ToPlace, EndKind
  <2> QED BY <1>2, <2>1, <2>2, CommandMoves
<1>3. CASE offerFirstRunServerInstall
  <2>1. At1("offer") /\ UNCHANGED kVars
    BY <1>3 DEF offerFirstRunServerInstall
  <2>2. \/ UNCHANGED plan /\ To("hooks")
        \/ (\E r : plan' = [plan EXCEPT !.server = r]) /\ To("install")
        \/ End
    BY <1>3 DEF offerFirstRunServerInstall, Quits
  <2>3. ASSUME NEW r, plan' = [plan EXCEPT !.server = r]
        PROVE  plan'.ops = plan.ops
    BY <1>t, <2>3 DEF PlanTyped
  <2> QED BY <1>0, <1>2, <2>1, <2>2, <2>3
<1>4. CASE installFirstServer
  <2>1. At1("install") /\ UNCHANGED kVars /\ (End \/ (UNCHANGED plan /\ \E m : To(m)))
    BY <1>4 DEF installFirstServer, Quits
  <2> QED BY <1>0, <1>2, <2>1
<1>5. CASE initializeServer
  <2>1. At1("hooks") /\ UNCHANGED <<file, tasks, torn, orig>>
    BY <1>5 DEF initializeServer
  <2>2. CASE Begins("main", "setup", plan.ops) /\ To("configuring") /\ UNCHANGED plan
    <3>1. Todo(plan.ops)
      <4>1. CommandTyped(cmd) /\ cmd.kind = "setup"
        <5>1. CommandTyped(cmd) /\ "hooks" \in SetupPlaces
          BY DEF InstallInv, Typed, SetupPlaces
        <5> QED BY <2>1, <5>1, PlaceOf
      <4> QED BY <4>1 DEF HooksInv, OrderInv
    <3>2. "configuring" \in Configuring
      BY DEF Configuring
    <3> QED BY <1>0, <2>1, <2>2, <3>1, <3>2, ProcessBegins
  <2>3. CASE End /\ UNCHANGED proc
    <3>1. UNCHANGED kVars
      BY <2>1, <2>3 DEF kVars
    <3> QED BY <1>0, <1>2, <2>1, <2>3, <3>1
  <2> QED BY <1>5, <2>2, <2>3 DEF initializeServer, Quits
<1>6. CASE setupDone
  <2>1. proc["main"].at = "done" /\ UNCHANGED kVars /\ End
    BY <1>6 DEF setupDone, Quits
  <2>2. cmd'.kind # "setup"
    BY <2>1, EndKind
  <2> QED BY <2>1, <2>2, ProcessDone
<1> QED
  BY <1>1, <1>3, <1>4, <1>5, <1>6

LEMMA AroundHooks ==
    ASSUME InstallInv, HooksInv,
           Publish \/ OperatorInstalls \/ ServerStartsOrStops \/ CommandDies \/ LaunchDies
    PROVE  HooksInv'
<1>1. CASE Publish \/ OperatorInstalls \/ ServerStartsOrStops
  <2>1. UNCHANGED kVars /\ UNCHANGED cmd /\ UNCHANGED plan
    BY <1>1 DEF Publish, OperatorInstalls, ServerStartsOrStops, hVars
  <2> QED BY <2>1, CommandMoves DEF HooksInv, OrderInv
<1>2. CASE CommandDies
  <2>1. cmd'.kind = "none"
    BY <1>2, EndKind DEF CommandDies, Quits
  <2>2. CASE Busy("main")
    <3>1. ProcessDies("main")
      BY <1>2, <2>2 DEF CommandDies
    <3>2. FilesInv' /\ proc'["main"].at = "idle"
      BY <3>1, BothSlots, Dies DEF HooksInv
    <3>3. ~Busy("main")'
      BY <3>2 DEF Busy
    <3> QED BY <2>1, <3>2, <3>3 DEF HooksInv, OrderInv
  <2>3. CASE ~Busy("main")
    <3>1. UNCHANGED kVars
      BY <1>2, <2>3 DEF CommandDies
    <3> QED BY <2>1, <2>3, <3>1, CommandMoves
  <2> QED BY <2>2, <2>3
<1>3. CASE LaunchDies
  <2>1. ProcessDies("other") /\ UNCHANGED cmd /\ UNCHANGED plan
    BY <1>3 DEF LaunchDies, hVars, uVars
  <2>2. FilesInv' /\ proc'["main"] = proc["main"]
    BY <2>1, BothSlots, Dies DEF HooksInv
  <2> QED BY <2>1, <2>2 DEF HooksInv, OrderInv, Busy
<1> QED
  BY <1>1, <1>2, <1>3

\* The plugin's commands have no process of this kind.
LEMMA HermesHooks ==
    ASSUME InstallInv, HooksInv, HermesCommand \/ HermesStep \/ HermesEnv,
           UNCHANGED <<kVars, uVars>>
    PROVE  HooksInv'
<1>0. CommandTyped(cmd) /\ UNCHANGED kVars /\ UNCHANGED plan
  BY DEF InstallInv, Typed, uVars
<1>1. CASE cmd'.kind = cmd.kind /\ cmd'.at = cmd.at
  BY <1>0, <1>1, CommandMoves DEF HooksInv, OrderInv
<1>2. CASE cmd.at \notin Configuring /\ cmd'.kind # "setup"
  <2>1. ~Busy("main")
    BY <1>2 DEF HooksInv, OrderInv
  <2> QED BY <1>0, <1>2, <2>1, CommandMoves
<1>3. CASE HermesCommand
  <2>1. cmd = Idle /\ cmd.at \notin Configuring
    BY <1>3, IdleFacts DEF HermesCommand, runHermesPluginInstall, runHermesPluginUninstall, Configuring
  <2>2. cmd'.kind # "setup"
    <3>1. ASSUME NEW at, NEW d, NEW steps, Planned("uninstall", at, d, steps)
          PROVE  cmd'.kind # "setup"
      BY <3>1 DEF Planned, Idle
    <3>2. CASE runHermesPluginInstall
      <4>1. \E t : activate("install", t)
        BY <3>2 DEF runHermesPluginInstall
      <4> QED BY <4>1, ActivateKind
    <3>3. CASE runHermesPluginUninstall
      <4>1. End \/ \E at, d, steps : Planned("uninstall", at, d, steps)
        BY <3>3 DEF runHermesPluginUninstall
      <4> QED BY <3>1, <4>1, EndKind
    <3> QED BY <1>3, <3>2, <3>3 DEF HermesCommand
  <2> QED BY <1>2, <2>1, <2>2
<1>4. ASSUME cmd.at \in PluginPlaces \/ cmd.kind \in PluginKinds, cmd' = Idle \/ cmd'.kind = cmd.kind
      PROVE  HooksInv'
  <2>1. cmd.kind \in PluginKinds /\ cmd.at \in PluginPlaces
    BY <1>0, <1>4, PlaceFacts
  <2>2. cmd.at \notin Configuring /\ cmd'.kind # "setup"
    BY <1>4, <2>1, IdleFacts DEF PluginKinds, PluginPlaces, Writing, Finishing, Configuring
  <2> QED BY <1>2, <2>2
<1>5. CASE HermesStep
  <2>1. cmd.at \in PluginPlaces
    BY <1>5 DEF HermesStep, beginGeneration, applyStep, applyFails, allApplied, rollback,
       reportFailure, finishGeneration, activateHosts, restartFails, restartConfirmed,
       PluginPlaces, Writing, Finishing
  <2>2. \A u : Popped(u).kind = cmd.kind /\ Left(u).kind = cmd.kind
    BY <1>0 DEF CommandTyped, Popped, Left
  <2>3. (\E l : To(l)) => cmd'.kind = cmd.kind
    BY <1>0, ToPlace
  <2>4. CASE beginGeneration \/ allApplied \/ reportFailure \/ finishGeneration \/ activateHosts
             \/ restartFails \/ restartConfirmed
    <3>1. End \/ \E l : To(l)
      BY <2>4 DEF beginGeneration, allApplied, reportFailure, finishGeneration, activateHosts,
         restartFails, restartConfirmed
    <3> QED BY <1>4, <2>1, <2>3, <3>1 DEF End
  <2>5. CASE applyStep \/ applyFails
    <3>1. cmd' = Idle \/ cmd'.kind = cmd.kind
      BY <1>0, <2>5 DEF applyStep, applyFails, Applied, CommandTyped
    <3> QED BY <1>4, <2>1, <3>1
  <2>6. CASE rollback
    <3>1. End \/ \E u : cmd' = Popped(u) \/ cmd' = Left(u)
      BY <2>6 DEF rollback, reverseKey, restoreFiles
    <3> QED BY <1>4, <2>1, <2>2, <3>1 DEF End
  <2> QED BY <1>5, <2>4, <2>5, <2>6 DEF HermesStep
<1>6. CASE HermesEnv
  <2>1. CASE Crash
    BY <1>4, <2>1 DEF Crash, End, PluginKinds
  <2>2. CASE OperatorEdits
    BY <1>0, <1>1, <2>2 DEF OperatorEdits, CommandTyped
  <2>3. CASE GatewayStarts \/ GatewayStops
    BY <1>1, <2>3 DEF GatewayStarts, GatewayStops
  <2> QED BY <1>6, <2>1, <2>2, <2>3 DEF HermesEnv
<1> QED
  BY <1>3, <1>5, <1>6

LEMMA LaunchHooks ==
    ASSUME InstallInv, HooksInv, LaunchAgent \/ \E s \in Slots : HookStep(s),
           UNCHANGED <<client, budget, hVars, uVars>>
    PROVE  HooksInv'
<1>0. UNCHANGED <<cmd, plan>>
  BY DEF hVars, uVars
<1>1. CASE LaunchAgent
  <2>1. PICK a \in Agents, how \in {"assimilate", "bare", "targeted"}, major \in {1, 2} :
             LaunchOps(a, how, major) # <<>> /\ Begins("other", a, LaunchOps(a, how, major))
    BY <1>1 DEF LaunchAgent
  <2>2. ~Busy("other") /\ UNCHANGED <<file, torn, orig>>
    BY <1>1 DEF LaunchAgent
  <2>3. Todo(LaunchOps(a, how, major))
    BY <2>1, LaunchPlanned
  <2> HIDE DEF LaunchOps
  <2>4. FilesInv' /\ \A t \in Slots : t # "other" => proc'[t] = proc[t]
    BY <2>1, <2>2, <2>3, BothSlots, BeginsAt DEF HooksInv
  <2>5. proc'["main"] = proc["main"]
    BY <2>4, BothSlots
  <2> QED BY <1>0, <2>4, <2>5 DEF HooksInv, OrderInv, Busy
<1>2. CASE \E s \in Slots : HookStep(s)
  <2>1. PICK s \in Slots : HookStep(s)
    BY <1>2
  <2>2. FilesInv' /\ Busy(s) /\ \A t \in Slots : t # s => proc'[t] = proc[t]
    BY <2>1, HookSteps DEF HooksInv
  <2>3. Busy("main")' => Busy("main")
    <3>1. CASE s = "main"
      BY <2>2, <3>1
    <3>2. CASE s # "main"
      BY <2>2, <3>2, BothSlots DEF Busy
    <3> QED BY <3>1, <3>2
  <2> QED BY <1>0, <2>2, <2>3 DEF HooksInv, OrderInv
<1> QED
  BY <1>1, <1>2

LEMMA HooksNext ==
    ASSUME InstallInv, HooksInv, [Next]_vars
    PROVE  HooksInv'
<1>1. CASE UpdateNext
  BY <1>1, UpdateHooks, RefreshHooks, ActivateHooks, SetupHooks, AroundHooks DEF UpdateNext
<1>2. CASE (HermesCommand \/ HermesStep \/ HermesEnv) /\ UNCHANGED <<kVars, uVars>>
  BY <1>2, HermesHooks
<1>3. CASE (LaunchAgent \/ \E s \in Slots : HookStep(s)) /\ UNCHANGED <<client, budget, hVars, uVars>>
  BY <1>3, LaunchHooks
<1>4. CASE UNCHANGED vars
  <2>1. UNCHANGED kVars /\ UNCHANGED cmd /\ UNCHANGED plan
    BY <1>4 DEF vars, hVars, uVars
  <2> QED BY <2>1, CommandMoves DEF HooksInv, OrderInv
<1> QED
  BY <1>1, <1>2, <1>3, <1>4 DEF Next

LEMMA HooksAtInit ==
    ASSUME HermesInit, HooksInit([Configs -> Contents \cup {Broken}])
    PROVE  HooksInv
<1>1. /\ file \in [Configs -> Contents \cup {Broken}] /\ orig = file
      /\ proc = [s \in Slots |-> NoProc] /\ torn = {}
  BY DEF HooksInit
<1>2. \A s \in Slots : ProcTyped(proc[s]) /\ Promised(proc[s], torn)
  BY <1>1, NoProcTyped, NotChanging DEF Changing, Adding
<1>3. ForeignKept
  BY <1>1 DEF ForeignKept, FileKept
<1>4. FilesInv
  BY <1>1, <1>2, <1>3 DEF FilesInv, FilesTyped
<1>5. ~Busy("main")
  BY <1>1, BothSlots, NoProcTyped DEF Busy
<1>6. cmd.kind = "none"
  BY IdleFacts DEF HermesInit
<1> QED
  BY <1>4, <1>5, <1>6 DEF HooksInv, OrderInv

\* Whatever the operator has in the agents' configuration files stays there, in its order:
\* his hooks in whatever entries, what else the file holds, a refusal of access, and what he
\* has in a registration that every launch can use; however launches, setup and the refresh
\* of an update overlap on a file, and at whatever step the agent's own program fails, for
\* every content of the files and every number of commands; except in a file lost between
\* emptying it and filling it (config-utils.ts, ensure-mcp-config.ts).
THEOREM OperatorsPartIsKept == UpdateSpec => []ForeignKept
<1>1. UpdateSpec => HooksInv /\ [][Next]_vars
  BY HooksAtInit DEF UpdateSpec
<1>2. InstallInv /\ HooksInv /\ [Next]_vars => HooksInv'
  BY HooksNext
<1>3. HooksInv => ForeignKept
  BY DEF HooksInv, FilesInv
<1> QED
  BY <1>1, <1>2, <1>3, InstallIsInductive, PTL

-----------------------------------------------------------------------------
(***************************************************************************)
(* The sockets of private app-servers.                                     *)
(***************************************************************************)
Resolving  == {"read", "verify", "inspect", "finalize"}
OverCodex  == {"scan", "prune", "spawn", "pid", "probe"}
UnderWay   == Resolving \cup OverCodex \cup {"agent", "bind", "running"}
Over       == {"idle", "done", "dead"}

\* A launch under way is a record with these fields.
LaunchRecord(l) ==
    l = [pc |-> l.pc, cli |-> l.cli, config |-> l.config, approval |-> l.approval,
         compat |-> l.compat, permission |-> l.permission, attempt |-> l.attempt,
         doomed |-> l.doomed, child |-> l.child]

LaunchTyped(l) ==
    /\ l.pc \in UnderWay \cup Over
    /\ l.pc \in UnderWay =>
         /\ LaunchRecord(l)
         /\ l.attempt \in Nat \ {0}
         /\ l.doomed \subseteq Servers
         /\ l.pc \in OverCodex \cup {"verify", "inspect", "finalize"} => l.cli = "codex"
         /\ l.pc = "bind" => l.cli = "opencode"
         /\ l.cli = "codex" => l.attempt <= LaunchAttempts
         /\ l.pc \in Resolving \cup {"scan", "prune"} => l.attempt = 1

ServerTyped(v) == v \in [alive : BOOLEAN, told : BOOLEAN, sock : BOOLEAN,
                         pid : {"none", "torn", "full"}]

\* The launch has not come to its nth app-server yet.
StillToCome(l, n) ==
    \/ l.pc \in {"idle", "scan", "prune"} \cup Resolving
    \/ l.pc \in OverCodex /\ l.attempt < n
    \/ l.pc = "spawn" /\ l.attempt = n

\* A server that is not there yet is on nobody's list of stale ones.
NotSpawned(s) == StillToCome(launch[s[1]], s[2])
Unborn(s) == NotSpawned(s) => ~appServer[s].alive /\ appServer[s].pid = "none"

\* Who is on a list has gone, or its pid file was read half written.
ListIsStale(p) ==
    launch[p].pc = "prune" =>
        \A s \in launch[p].doomed : ~NotSpawned(s) /\ (s \in misread \/ ~appServer[s].alive)

SocketKept(p) ==
    launch[p].pc \in {"agent", "running"} /\ launch[p].cli = "codex" /\ appServer[Own(p)].alive
        => appServer[Own(p)].sock \/ Own(p) \in misread

SocketInv ==
    /\ DOMAIN launch = Launchers /\ launch = [p \in Launchers |-> launch[p]]
    /\ DOMAIN appServer = Servers /\ appServer = [s \in Servers |-> appServer[s]]
    /\ \A p \in Launchers : LaunchTyped(launch[p])
    /\ \A s \in Servers : ServerTyped(appServer[s])
    /\ \A s \in Servers : Unborn(s)
    /\ \A p \in Launchers : ListIsStale(p)
    /\ \A p \in Launchers : SocketKept(p)

-----------------------------------------------------------------------------
LEMMA SocketAtInit ==
    ASSUME NEW about, LaunchInit(about)
    PROVE  SocketInv
<1>1. \A p \in Launchers : launch[p] = Waiting \/ launch[p] = Done
  BY DEF LaunchInit
<1>2. \A p \in Launchers : launch[p].pc \in {"idle", "done"}
  BY <1>1 DEF Waiting, Done
<1>3. \A s \in Servers : appServer[s] = NoServer
  BY DEF LaunchInit
<1>a. ServerTyped(NoServer) /\ ~NoServer.alive /\ NoServer.pid = "none"
  BY DEF ServerTyped, NoServer
<1>4. \A s \in Servers : ServerTyped(appServer[s]) /\ ~appServer[s].alive /\ appServer[s].pid = "none"
  BY <1>3, <1>a
<1>5. DOMAIN launch = Launchers /\ launch = [p \in Launchers |-> launch[p]]
      /\ DOMAIN appServer = Servers /\ appServer = [s \in Servers |-> appServer[s]]
  BY DEF LaunchInit
<1>6. \A p \in Launchers : LaunchTyped(launch[p]) /\ ListIsStale(p) /\ SocketKept(p)
  BY <1>2 DEF LaunchTyped, ListIsStale, SocketKept, UnderWay, Over, Resolving, OverCodex
<1> QED
  BY <1>4, <1>5, <1>6 DEF SocketInv, Unborn

\* An attempt of a launch names a server.
LEMMA OwnServer ==
    ASSUME SocketInv, NEW p \in Launchers, launch[p].pc \in UnderWay, launch[p].cli = "codex"
    PROVE  Own(p) \in Servers /\ Own(p)[1] = p /\ Own(p)[2] = launch[p].attempt
<1>1. launch[p].attempt \in 1..LaunchAttempts
  BY LaunchAssumption DEF SocketInv, LaunchTyped
<1> QED
  BY <1>1 DEF Own, Servers

\* A step of one launch that starts no server.
LEMMA LaunchSteps ==
    ASSUME SocketInv, NEW p \in Launchers, NEW r,
           launch' = [launch EXCEPT ![p] = r], LaunchTyped(r),
           DOMAIN appServer' = Servers, appServer' = [s \in Servers |-> appServer'[s]],
           \A s \in Servers : ServerTyped(appServer'[s])
               /\ (appServer'[s].alive => appServer[s].alive)
               /\ (appServer'[s].pid # "none" => appServer[s].pid # "none"),
           misread \subseteq misread',
           \A n \in Nat : StillToCome(r, n) => StillToCome(launch[p], n),
           r.pc = "prune" => \A s \in r.doomed :
               ~NotSpawned(s)' /\ (s \in misread' \/ ~appServer'[s].alive),
           \A q \in Launchers : SocketKept(q)'
    PROVE  SocketInv'
<1>1. launch'[p] = r /\ \A q \in Launchers \ {p} : launch'[q] = launch[q]
  BY DEF SocketInv
<1>2. \A s \in Servers : s[1] \in Launchers /\ s[2] \in Nat
  BY DEF Servers
<1>3. \A s \in Servers : NotSpawned(s)' => NotSpawned(s)
  BY <1>1, <1>2 DEF NotSpawned
<1>4. \A s \in Servers : Unborn(s)'
  <2> TAKE s \in Servers
  <2>1. Unborn(s)
    BY DEF SocketInv
  <2> QED
    BY <2>1, <1>3 DEF Unborn, ServerTyped
<1>5. \A q \in Launchers : ListIsStale(q)'
  <2> TAKE q \in Launchers
  <2>1. CASE q = p
    BY <1>1, <2>1 DEF ListIsStale
  <2>2. CASE q # p
    <3>1. ListIsStale(q) /\ LaunchTyped(launch[q])
      BY DEF SocketInv
    <3>2. launch'[q] = launch[q]
      BY <1>1, <2>2
    <3>3. launch[q].pc = "prune" => launch[q].doomed \subseteq Servers
      BY <3>1 DEF LaunchTyped, UnderWay, OverCodex
    <3> QED
      BY <3>1, <3>2, <3>3, <1>3 DEF ListIsStale
  <2> QED
    BY <2>1, <2>2
<1>6. DOMAIN launch' = Launchers /\ launch' = [q \in Launchers |-> launch'[q]]
  BY DEF SocketInv
<1>7. \A q \in Launchers : LaunchTyped(launch'[q])
  BY <1>1 DEF SocketInv
<1> QED
  BY <1>4, <1>5, <1>6, <1>7 DEF SocketInv
\* A step of one launch alone.
LEMMA OneLaunchSteps ==
    ASSUME SocketInv, NEW p \in Launchers, NEW r,
           launch' = [launch EXCEPT ![p] = r], LaunchTyped(r), UNCHANGED <<appServer, misread>>,
           \A n \in Nat : StillToCome(r, n) => StillToCome(launch[p], n), r.pc # "prune",
           r.pc \in {"agent", "running"} /\ r.cli = "codex" =>
               \/ /\ launch[p].pc \in {"agent", "running"}
                  /\ launch[p].cli = "codex" /\ r.attempt = launch[p].attempt
               \/ appServer[<<p, r.attempt>>].sock
    PROVE  SocketInv'
<1>1. launch'[p] = r /\ \A q \in Launchers \ {p} : launch'[q] = launch[q]
  BY DEF SocketInv
<1>2. \A q \in Launchers : SocketKept(q)'
  <2> TAKE q \in Launchers
  <2>1. SocketKept(q) /\ SocketKept(p)
    BY DEF SocketInv
  <2>2. CASE q = p
    BY <2>1, <2>2, <1>1 DEF SocketKept, Own
  <2>3. CASE q # p
    <3>1. launch'[q] = launch[q]
      BY <1>1, <2>3
    <3> QED
      BY <2>1, <3>1 DEF SocketKept, Own
  <2> QED
    BY <2>2, <2>3
<1>3. DOMAIN appServer' = Servers /\ appServer' = [s \in Servers |-> appServer'[s]]
      /\ \A s \in Servers : ServerTyped(appServer'[s])
  BY DEF SocketInv
<1> QED
  BY <1>2, <1>3, LaunchSteps

\* A launch that ends.
LEMMA EndedLaunch ==
    /\ LaunchTyped(Done) /\ LaunchTyped([pc |-> "dead"])
    /\ Done.pc = "done" /\ \A n \in Nat : ~StillToCome(Done, n) /\ ~StillToCome([pc |-> "dead"], n)
  BY DEF Done, LaunchTyped, StillToCome, UnderWay, Over, Resolving, OverCodex

LEMMA EndedSteps ==
    ASSUME SocketInv, NEW p \in Launchers, UNCHANGED <<appServer, misread>>,
           \/ launch' = [launch EXCEPT ![p] = Done]
           \/ launch' = [launch EXCEPT ![p] = [pc |-> "dead"]]
    PROVE  SocketInv'
<1>1. CASE launch' = [launch EXCEPT ![p] = Done]
  BY <1>1, EndedLaunch, OneLaunchSteps
<1>2. CASE launch' = [launch EXCEPT ![p] = [pc |-> "dead"]]
  BY <1>2, EndedLaunch, OneLaunchSteps
<1> QED
  BY <1>1, <1>2

\* The fields of a launch under way.
LEMMA LaunchFields ==
    ASSUME SocketInv, NEW p \in Launchers, launch[p].pc \in UnderWay
    PROVE  LaunchTyped(launch[p]) /\ LaunchRecord(launch[p])
           /\ launch[p].attempt \in Nat \ {0} /\ launch[p].doomed \subseteq Servers
  BY DEF SocketInv, LaunchTyped

\* A launch that moves on while its policy is being resolved.
LEMMA ResolvingStep ==
    ASSUME SocketInv, NEW p \in Launchers, UNCHANGED <<appServer, misread>>,
           launch[p].pc \in Resolving,
           NEW r, launch' = [launch EXCEPT ![p] = r], LaunchRecord(r),
           r.pc \in Resolving \cup {"scan"}, r.cli = "codex",
           r.attempt = launch[p].attempt, r.doomed = launch[p].doomed
    PROVE  SocketInv'
<1>1. LaunchTyped(launch[p]) /\ launch[p].attempt = 1 /\ launch[p].doomed \subseteq Servers
  BY LaunchFields DEF LaunchTyped, UnderWay
<1>2. LaunchTyped(r)
  BY <1>1, LaunchAssumption DEF LaunchTyped, UnderWay, Over, Resolving, OverCodex
<1>3. \A n \in Nat : StillToCome(launch[p], n)
  BY DEF StillToCome
<1>4. r.pc \notin {"prune", "agent", "running"}
  BY DEF Resolving
<1> QED
  BY <1>2, <1>3, <1>4, OneLaunchSteps

\* A launch that goes to another place with everything it has read.
LEMMA GoesTo ==
    ASSUME SocketInv, NEW p \in Launchers, NEW place, GoTo(p, place), launch[p].pc \in UnderWay
    PROVE  /\ launch' = [launch EXCEPT ![p] = [launch[p] EXCEPT !.pc = place]]
           /\ [launch[p] EXCEPT !.pc = place].pc = place
           /\ LaunchRecord([launch[p] EXCEPT !.pc = place])
           /\ [launch[p] EXCEPT !.pc = place].cli = launch[p].cli
           /\ [launch[p] EXCEPT !.pc = place].attempt = launch[p].attempt
           /\ [launch[p] EXCEPT !.pc = place].doomed = launch[p].doomed
<1>1. LaunchRecord(launch[p])
  BY LaunchFields
<1> QED
  BY <1>1 DEF GoTo, LaunchRecord

-----------------------------------------------------------------------------
LEMMA LaunchStarts ==
    ASSUME SocketInv, NEW p \in Launchers, NEW cli \in {"claude", "codex", "opencode"},
           LaunchCli(p, cli)
    PROVE  SocketInv'
<1>1. LaunchTyped(Launching(cli)) /\ Launching(cli).pc = "read"
  BY LaunchAssumption DEF LaunchTyped, Launching, LaunchRecord, UnderWay, Over, Resolving, OverCodex
<1>2. \A n \in Nat : StillToCome(launch[p], n)
  BY DEF StillToCome, LaunchCli
<1> QED
  BY <1>1, <1>2, OneLaunchSteps DEF LaunchCli, Config

LEMMA ClaudeReads ==
    ASSUME SocketInv, NEW p \in Launchers, ReadClaude(p)
    PROVE  SocketInv'
<1>1. CASE GoTo(p, "agent")
  <2> DEFINE r == [launch[p] EXCEPT !.pc = "agent"]
  <2>1. launch[p].pc \in UnderWay /\ launch[p].pc = "read" /\ launch[p].cli = "claude"
    BY DEF ReadClaude, UnderWay, Resolving
  <2>2. LaunchTyped(launch[p]) /\ launch[p].attempt \in Nat \ {0} /\ launch[p].doomed \subseteq Servers
    BY <2>1, LaunchFields
  <2>3. /\ launch' = [launch EXCEPT ![p] = r] /\ r.pc = "agent" /\ LaunchRecord(r)
        /\ r.cli = "claude" /\ r.attempt = launch[p].attempt /\ r.doomed = launch[p].doomed
    BY <1>1, <2>1, GoesTo
  <2> HIDE DEF r
  <2>4. LaunchTyped(r) /\ \A n \in Nat : ~StillToCome(r, n)
    BY <2>2, <2>3 DEF LaunchTyped, StillToCome, UnderWay, Over, Resolving, OverCodex
  <2> QED
    BY <2>3, <2>4, OneLaunchSteps DEF ReadClaude, Config
<1>2. CASE launch' = [launch EXCEPT ![p] = Done]
  BY <1>2, EndedSteps DEF ReadClaude, Config
<1> QED
  BY <1>1, <1>2 DEF ReadClaude

LEMMA CodexReads ==
    ASSUME SocketInv, NEW p \in Launchers, ReadCodex(p)
    PROVE  SocketInv'
<1>1. launch[p].pc \in Resolving /\ launch[p].cli = "codex" /\ UNCHANGED <<appServer, misread>>
  BY DEF ReadCodex, Resolving, Config
<1>2. LaunchRecord(launch[p])
  BY <1>1, LaunchFields DEF UnderWay
<1>3. CASE launch' = [launch EXCEPT ![p] = Done]
  BY <1>1, <1>3, EndedSteps
<1>4. CASE launch' # [launch EXCEPT ![p] = Done]
  <2>1. PICK f : f = TuiConfig(cfg, user, NoPolicy, NoPolicy)
    OBVIOUS
  <2>2. PICK place \in {"inspect", "verify"} :
          launch' = [launch EXCEPT ![p].config = Completed(f), ![p].compat = compatibilityArgs(f),
                                   ![p].pc = place]
    BY <1>4, <2>1 DEF ReadCodex
  <2>3. PICK r : r = [launch[p] EXCEPT !.config = Completed(f), !.compat = compatibilityArgs(f),
                                       !.pc = place]
    OBVIOUS
  <2>4. launch' = [launch EXCEPT ![p] = r]
    BY <2>2, <2>3
  <2>5. /\ LaunchRecord(r) /\ r.pc = place /\ r.cli = "codex" /\ r.attempt = launch[p].attempt
        /\ r.doomed = launch[p].doomed
    BY <2>3, <1>1, <1>2 DEF LaunchRecord
  <2>6. r.pc \in Resolving
    BY <2>5 DEF Resolving
  <2> QED
    BY <1>1, <2>4, <2>5, <2>6, ResolvingStep
<1> QED
  BY <1>3, <1>4

LEMMA CompatibleVerified ==
    ASSUME SocketInv, NEW p \in Launchers, VerifyCompatible(p)
    PROVE  SocketInv'
<1>1. launch[p].pc = "verify" /\ launch[p].pc \in Resolving /\ UNCHANGED <<appServer, misread>>
  BY DEF VerifyCompatible, Resolving, Config
<1>2. LaunchRecord(launch[p]) /\ launch[p].cli = "codex"
  BY <1>1, LaunchFields DEF UnderWay, LaunchTyped
<1>3. CASE launch' = [launch EXCEPT ![p] = Done]
  BY <1>1, <1>3, EndedSteps
<1>4. CASE launch' # [launch EXCEPT ![p] = Done]
  <2>1. PICK f : f = TuiConfig(cfg, user, NoPolicy, launch[p].compat)
    OBVIOUS
  <2>2. launch' = [launch EXCEPT ![p].config = f, ![p].pc = "inspect"]
    BY <1>4, <2>1 DEF VerifyCompatible
  <2>3. PICK r : r = [launch[p] EXCEPT !.config = f, !.pc = "inspect"]
    OBVIOUS
  <2>4. launch' = [launch EXCEPT ![p] = r]
    BY <2>2, <2>3
  <2>5. /\ LaunchRecord(r) /\ r.pc = "inspect" /\ r.cli = "codex" /\ r.attempt = launch[p].attempt
        /\ r.doomed = launch[p].doomed
    BY <2>3, <1>1, <1>2 DEF LaunchRecord
  <2>6. r.pc \in Resolving
    BY <2>5 DEF Resolving
  <2> QED
    BY <1>1, <2>4, <2>5, <2>6, ResolvingStep
<1> QED
  BY <1>3, <1>4

LEMMA CodexInspected ==
    ASSUME SocketInv, NEW p \in Launchers, NEW skip, InspectCodex(p, skip)
    PROVE  SocketInv'
<1>1. launch[p].pc = "inspect" /\ launch[p].pc \in Resolving /\ UNCHANGED <<appServer, misread>>
  BY DEF InspectCodex, Resolving, Config
<1>2. LaunchRecord(launch[p]) /\ launch[p].cli = "codex"
  BY <1>1, LaunchFields DEF UnderWay, LaunchTyped
<1>3. CASE GoTo(p, "finalize")
  <2> DEFINE r == [launch[p] EXCEPT !.pc = "finalize"]
  <2>1. /\ launch' = [launch EXCEPT ![p] = r] /\ LaunchRecord(r) /\ r.pc = "finalize"
        /\ r.cli = "codex" /\ r.attempt = launch[p].attempt /\ r.doomed = launch[p].doomed
    BY <1>1, <1>2, <1>3, GoesTo DEF UnderWay
  <2> HIDE DEF r
  <2>2. r.pc \in Resolving
    BY <2>1 DEF Resolving
  <2> QED
    BY <1>1, <2>1, <2>2, ResolvingStep
<1>4. CASE ~GoTo(p, "finalize")
  <2>1. PICK approval, lists, with :
          launch' = [launch EXCEPT ![p].pc = "finalize", ![p].config = with,
                                   ![p].approval = approval, ![p].compat = lists]
    BY <1>4 DEF InspectCodex
  <2>2. PICK r : r = [launch[p] EXCEPT !.pc = "finalize", !.config = with,
                                       !.approval = approval, !.compat = lists]
    OBVIOUS
  <2>3. launch' = [launch EXCEPT ![p] = r]
    BY <2>1, <2>2
  <2>4. /\ LaunchRecord(r) /\ r.pc = "finalize" /\ r.cli = "codex" /\ r.attempt = launch[p].attempt
        /\ r.doomed = launch[p].doomed
    BY <2>2, <1>1, <1>2 DEF LaunchRecord
  <2>5. r.pc \in Resolving
    BY <2>4 DEF Resolving
  <2> QED
    BY <1>1, <2>3, <2>4, <2>5, ResolvingStep
<1> QED
  BY <1>3, <1>4

LEMMA CodexFinalized ==
    ASSUME SocketInv, NEW p \in Launchers, FinalizeCodex(p)
    PROVE  SocketInv'
<1>1. launch[p].pc = "finalize" /\ launch[p].pc \in Resolving /\ UNCHANGED <<appServer, misread>>
  BY DEF FinalizeCodex, Resolving, Config
<1>2. LaunchRecord(launch[p]) /\ launch[p].cli = "codex"
  BY <1>1, LaunchFields DEF UnderWay, LaunchTyped
<1>3. CASE launch' = [launch EXCEPT ![p] = Done]
  BY <1>1, <1>3, EndedSteps
<1>4. CASE launch' # [launch EXCEPT ![p] = Done]
  <2>1. PICK policy : launch' = [launch EXCEPT ![p].pc = "scan", ![p].compat = policy]
    BY <1>4 DEF FinalizeCodex
  <2>2. PICK r : r = [launch[p] EXCEPT !.pc = "scan", !.compat = policy]
    OBVIOUS
  <2>3. launch' = [launch EXCEPT ![p] = r]
    BY <2>1, <2>2
  <2>4. /\ LaunchRecord(r) /\ r.pc = "scan" /\ r.cli = "codex" /\ r.attempt = launch[p].attempt
        /\ r.doomed = launch[p].doomed
    BY <2>2, <1>1, <1>2 DEF LaunchRecord
  <2> QED
    BY <1>1, <2>3, <2>4, ResolvingStep
<1> QED
  BY <1>3, <1>4

LEMMA OpenCodeReads ==
    ASSUME SocketInv, NEW p \in Launchers, NEW skip, ReadOpenCode(p, skip)
    PROVE  SocketInv'
<1>1. /\ launch[p].pc = "read" /\ launch[p].cli = "opencode" /\ launch[p].pc \in UnderWay
      /\ UNCHANGED <<appServer, misread>>
  BY DEF ReadOpenCode, UnderWay, Resolving, Config
<1>2. LaunchTyped(launch[p]) /\ LaunchRecord(launch[p])
      /\ launch[p].attempt \in Nat \ {0} /\ launch[p].doomed \subseteq Servers
  BY <1>1, LaunchFields
<1>3. CASE launch' = [launch EXCEPT ![p] = Done]
  BY <1>1, <1>3, EndedSteps
<1>4. ASSUME NEW r, launch' = [launch EXCEPT ![p] = r], LaunchRecord(r), r.pc = "agent",
             r.cli = "opencode", r.attempt = launch[p].attempt, r.doomed = launch[p].doomed
      PROVE  SocketInv'
  <2>1. LaunchTyped(r) /\ \A n \in Nat : ~StillToCome(r, n)
    BY <1>2, <1>4 DEF LaunchTyped, StillToCome, UnderWay, Over, Resolving, OverCodex
  <2> QED
    BY <1>1, <1>4, <2>1, OneLaunchSteps
<1>5. CASE GoTo(p, "agent")
  <2> DEFINE r == [launch[p] EXCEPT !.pc = "agent"]
  <2>1. /\ launch' = [launch EXCEPT ![p] = r] /\ LaunchRecord(r) /\ r.pc = "agent"
        /\ r.cli = "opencode" /\ r.attempt = launch[p].attempt /\ r.doomed = launch[p].doomed
    BY <1>1, <1>5, GoesTo
  <2> HIDE DEF r
  <2> QED
    BY <2>1, <1>4
<1>6. ASSUME NEW permission, launch' = [launch EXCEPT ![p].pc = "agent", ![p].permission = permission]
      PROVE  SocketInv'
  <2>1. PICK r : r = [launch[p] EXCEPT !.pc = "agent", !.permission = permission]
    OBVIOUS
  <2>2. launch' = [launch EXCEPT ![p] = r]
    BY <1>6, <2>1
  <2>3. LaunchRecord(r) /\ r.pc = "agent" /\ r.cli = "opencode" /\ r.attempt = launch[p].attempt
        /\ r.doomed = launch[p].doomed
    BY <2>1, <1>1, <1>2 DEF LaunchRecord
  <2> QED
    BY <2>2, <2>3, <1>4
<1> QED
  <2>1. \/ launch' = [launch EXCEPT ![p] = Done]
        \/ GoTo(p, "agent")
        \/ \E with : launch' = [launch EXCEPT ![p].pc = "agent",
              ![p].permission = IF AdjacentPairs(with) /\ Permission(with, "tool") = "allow"
                                THEN with ELSE <<>>]
    BY DEF ReadOpenCode
  <2> QED
    BY <2>1, <1>3, <1>5, <1>6

LEMMA QueryIsLost ==
    ASSUME SocketInv, NEW p \in Launchers, QueryFails(p)
    PROVE  SocketInv'
<1>1. UNCHANGED <<appServer, misread>>
  BY DEF QueryFails, Config
<1>2. CASE launch' = [launch EXCEPT ![p] = Done]
  BY <1>1, <1>2, EndedSteps
<1>3. CASE launch[p].pc = "inspect" /\ GoTo(p, "finalize")
  <2> DEFINE r == [launch[p] EXCEPT !.pc = "finalize"]
  <2>1. launch[p].pc \in Resolving /\ launch[p].pc \in UnderWay
    BY <1>3 DEF Resolving, UnderWay
  <2>2. launch[p].cli = "codex"
    BY <1>3, <2>1, LaunchFields DEF LaunchTyped
  <2>3. /\ launch' = [launch EXCEPT ![p] = r] /\ LaunchRecord(r) /\ r.pc = "finalize"
        /\ r.cli = "codex" /\ r.attempt = launch[p].attempt /\ r.doomed = launch[p].doomed
    BY <1>3, <2>1, <2>2, GoesTo
  <2> HIDE DEF r
  <2>4. r.pc \in Resolving
    BY <2>3 DEF Resolving
  <2> QED
    BY <1>1, <2>1, <2>3, <2>4, ResolvingStep
<1> QED
  BY <1>2, <1>3 DEF QueryFails

-----------------------------------------------------------------------------
LEMMA DirectoryScanned ==
    ASSUME SocketInv, NEW p \in Launchers, PruneScan(p)
    PROVE  SocketInv'
<1>1. launch[p].pc = "scan" /\ launch[p].pc \in UnderWay /\ UNCHANGED appServer
  BY DEF PruneScan, UnderWay, OverCodex
<1>2. LaunchTyped(launch[p]) /\ LaunchRecord(launch[p]) /\ launch[p].cli = "codex" /\ launch[p].attempt = 1
  BY <1>1, LaunchFields DEF LaunchTyped, OverCodex
<1>3. PICK gone : gone = {s \in Servers : StalePid(s)}
  OBVIOUS
<1>4. PICK r : r = [launch[p] EXCEPT !.pc = "prune", !.doomed = gone]
  OBVIOUS
<1>5. launch' = [launch EXCEPT ![p] = r]
  BY <1>3, <1>4 DEF PruneScan
<1>6. /\ LaunchRecord(r) /\ r.pc = "prune" /\ r.cli = "codex" /\ r.attempt = 1 /\ r.doomed = gone
  BY <1>2, <1>4 DEF LaunchRecord
<1>7. LaunchTyped(r)
  BY <1>3, <1>6, LaunchAssumption DEF LaunchTyped, UnderWay, Over, Resolving, OverCodex
<1>8. \A n \in Nat : StillToCome(launch[p], n)
  BY <1>1 DEF StillToCome
<1>9. launch'[p] = r /\ \A q \in Launchers \ {p} : launch'[q] = launch[q]
  BY <1>5 DEF SocketInv
<1>10. misread \subseteq misread'
  BY DEF PruneScan
<1>11. \A s \in r.doomed : ~NotSpawned(s)' /\ (s \in misread' \/ ~appServer'[s].alive)
  <2> SUFFICES ASSUME NEW s \in Servers, StalePid(s)
               PROVE  ~NotSpawned(s)' /\ (s \in misread' \/ ~appServer'[s].alive)
    BY <1>3, <1>6
  <2>1. appServer[s].pid = "torn" \/ (appServer[s].pid = "full" /\ ~appServer[s].alive)
    BY DEF StalePid
  <2>2. ~NotSpawned(s)
    BY <2>1 DEF SocketInv, Unborn
  <2>3. s[1] \in Launchers /\ s[2] \in Nat
    BY DEF Servers
  <2>4. s[1] # p
    BY <2>2, <2>3, <1>8 DEF NotSpawned
  <2>5. ~NotSpawned(s)'
    BY <2>2, <2>3, <2>4, <1>9 DEF NotSpawned
  <2>6. s \in misread' \/ ~appServer'[s].alive
    BY <2>1, <1>1 DEF PruneScan
  <2> QED
    BY <2>5, <2>6
<1>12. \A q \in Launchers : SocketKept(q)'
  <2> TAKE q \in Launchers
  <2>1. SocketKept(q)
    BY DEF SocketInv
  <2>2. CASE q = p
    BY <2>2, <1>6, <1>9 DEF SocketKept
  <2>3. CASE q # p
    <3>1. launch'[q] = launch[q]
      BY <1>9, <2>3
    <3> QED
      BY <2>1, <3>1, <1>1, <1>10 DEF SocketKept, Own
  <2> QED
    BY <2>2, <2>3
<1>13. DOMAIN appServer' = Servers /\ appServer' = [s \in Servers |-> appServer'[s]]
       /\ \A s \in Servers : ServerTyped(appServer'[s])
  BY <1>1 DEF SocketInv
<1> QED
  BY <1>1, <1>5, <1>7, <1>8, <1>10, <1>11, <1>12, <1>13, LaunchSteps

LEMMA DirectoryPruned ==
    ASSUME SocketInv, NEW p \in Launchers, PruneRemove(p)
    PROVE  SocketInv'
<1>1. launch[p].pc = "prune" /\ launch[p].pc \in UnderWay /\ UNCHANGED misread
  BY DEF PruneRemove, UnderWay, OverCodex, Config
<1>2. LaunchTyped(launch[p]) /\ LaunchRecord(launch[p]) /\ launch[p].cli = "codex" /\ launch[p].attempt = 1
  BY <1>1, LaunchFields DEF LaunchTyped, OverCodex
<1>3. PICK r : r = [launch[p] EXCEPT !.pc = "spawn", !.doomed = {}]
  OBVIOUS
<1>4. launch' = [launch EXCEPT ![p] = r]
  BY <1>3 DEF PruneRemove
<1>5. /\ LaunchRecord(r) /\ r.pc = "spawn" /\ r.cli = "codex" /\ r.attempt = 1 /\ r.doomed = {}
  BY <1>2, <1>3 DEF LaunchRecord
<1>6. LaunchTyped(r)
  BY <1>5, LaunchAssumption DEF LaunchTyped, UnderWay, Over, Resolving, OverCodex
<1>7. \A n \in Nat : StillToCome(launch[p], n)
  BY <1>1 DEF StillToCome
<1>8. launch'[p] = r /\ \A q \in Launchers \ {p} : launch'[q] = launch[q]
  BY <1>4 DEF SocketInv
<1>9. \A s \in Servers : appServer'[s] = IF s \in launch[p].doomed
                                      THEN [appServer[s] EXCEPT !.sock = FALSE, !.pid = "none"]
                                      ELSE appServer[s]
  BY DEF PruneRemove
<1>10. \A s \in Servers : ServerTyped(appServer'[s]) /\ appServer'[s].alive = appServer[s].alive
                         /\ (appServer'[s].pid # "none" => appServer[s].pid # "none")
  <2> TAKE s \in Servers
  <2>1. ServerTyped(appServer[s])
    BY DEF SocketInv
  <2>2. PICK v : v = appServer[s]
    OBVIOUS
  <2>3. ServerTyped([v EXCEPT !.sock = FALSE, !.pid = "none"])
        /\ [v EXCEPT !.sock = FALSE, !.pid = "none"].alive = v.alive
        /\ [v EXCEPT !.sock = FALSE, !.pid = "none"].pid = "none"
    BY <2>1, <2>2 DEF ServerTyped
  <2> QED
    BY <1>9, <2>1, <2>2, <2>3
<1>11. \A q \in Launchers : SocketKept(q)'
  <2> TAKE q \in Launchers
  <2>1. CASE q = p
    BY <2>1, <1>5, <1>8 DEF SocketKept
  <2>2. CASE q # p
    <3>1. launch'[q] = launch[q] /\ SocketKept(q) /\ ListIsStale(p)
      BY <1>8, <2>2 DEF SocketInv
    <3> SUFFICES ASSUME launch[q].pc \in {"agent", "running"}, launch[q].cli = "codex",
                        appServer'[Own(q)].alive
                 PROVE  appServer'[Own(q)].sock \/ Own(q) \in misread'
      BY <3>1 DEF SocketKept, Own
    <3>2. Own(q) \in Servers
      BY OwnServer DEF UnderWay
    <3>3. appServer[Own(q)].alive /\ (appServer[Own(q)].sock \/ Own(q) \in misread)
      BY <3>1, <3>2, <1>10 DEF SocketKept
    <3>4. CASE Own(q) \in launch[p].doomed
      BY <3>1, <3>3, <3>4, <1>1 DEF ListIsStale
    <3>5. CASE Own(q) \notin launch[p].doomed
      BY <3>2, <3>3, <3>5, <1>1, <1>9
    <3> QED
      BY <3>4, <3>5
  <2> QED
    BY <2>1, <2>2
<1>12. DOMAIN appServer' = Servers /\ appServer' = [s \in Servers |-> appServer'[s]]
  BY DEF PruneRemove
<1>13. misread \subseteq misread' /\ r.pc # "prune"
  BY <1>1, <1>5
<1> QED
  BY <1>4, <1>6, <1>7, <1>10, <1>11, <1>12, <1>13, LaunchSteps

\* A launch whose attempt is over goes on to the next one or ends.
LEMMA NextAttempts ==
    ASSUME SocketInv, NEW p \in Launchers, NextAttempt(p), launch[p].pc \in {"spawn", "probe"}
    PROVE  \E r : /\ launch' = [launch EXCEPT ![p] = r] /\ LaunchTyped(r)
                  /\ r.pc \notin {"prune", "agent", "running"}
                  /\ \A n \in Nat : StillToCome(r, n) => StillToCome(launch[p], n)
<1>1. LaunchTyped(launch[p]) /\ LaunchRecord(launch[p]) /\ launch[p].cli = "codex"
      /\ launch[p].attempt \in Nat \ {0}
  BY LaunchFields DEF LaunchTyped, UnderWay, OverCodex
<1>2. CASE launch[p].attempt < LaunchAttempts
  <2>1. PICK r : r = [launch[p] EXCEPT !.attempt = launch[p].attempt + 1, !.pc = "spawn"]
    OBVIOUS
  <2>2. launch' = [launch EXCEPT ![p] = r]
    BY <1>2, <2>1 DEF NextAttempt
  <2>3. /\ LaunchRecord(r) /\ r.pc = "spawn" /\ r.cli = "codex"
        /\ r.attempt = launch[p].attempt + 1 /\ r.doomed = launch[p].doomed
    BY <1>1, <2>1 DEF LaunchRecord
  <2>4. LaunchTyped(r)
    BY <1>1, <1>2, <2>3, LaunchAssumption DEF LaunchTyped, UnderWay, Over, Resolving, OverCodex
  <2>5. \A n \in Nat : StillToCome(r, n) => StillToCome(launch[p], n)
    BY <1>1, <2>3 DEF StillToCome, Resolving, OverCodex
  <2> QED
    BY <2>2, <2>3, <2>4, <2>5
<1>3. CASE ~(launch[p].attempt < LaunchAttempts)
  <2>1. launch' = [launch EXCEPT ![p] = Done]
    BY <1>3 DEF NextAttempt
  <2> QED
    BY <2>1, EndedLaunch
<1> QED
  BY <1>2, <1>3

LEMMA ServerSpawned ==
    ASSUME SocketInv, NEW p \in Launchers, SpawnServer(p)
    PROVE  SocketInv'
<1>1. launch[p].pc = "spawn" /\ launch[p].pc \in UnderWay /\ UNCHANGED misread
  BY DEF SpawnServer, UnderWay, OverCodex, Config
<1>2. LaunchTyped(launch[p]) /\ LaunchRecord(launch[p]) /\ launch[p].cli = "codex"
      /\ launch[p].attempt \in Nat \ {0} /\ launch[p].doomed \subseteq Servers
  BY <1>1, LaunchFields DEF LaunchTyped, OverCodex
<1>3. CASE NextAttempt(p) /\ UNCHANGED appServer
  <2>1. PICK r : /\ launch' = [launch EXCEPT ![p] = r] /\ LaunchTyped(r)
                 /\ r.pc \notin {"prune", "agent", "running"}
                 /\ \A n \in Nat : StillToCome(r, n) => StillToCome(launch[p], n)
    BY <1>1, <1>3, NextAttempts
  <2> QED
    BY <2>1, <1>1, <1>3, OneLaunchSteps
<1>4. CASE /\ appServer' = [appServer EXCEPT ![Own(p)] = [NoServer EXCEPT !.alive = TRUE, !.pid = "torn"]]
           /\ GoTo(p, "pid")
  <2>1. Own(p) \in Servers /\ Own(p)[1] = p /\ Own(p)[2] = launch[p].attempt
    BY <1>1, <1>2, OwnServer
  <2> DEFINE r == [launch[p] EXCEPT !.pc = "pid"]
             new == [NoServer EXCEPT !.alive = TRUE, !.pid = "torn"]
  <2>2. /\ launch' = [launch EXCEPT ![p] = r] /\ LaunchRecord(r) /\ r.pc = "pid"
        /\ r.cli = "codex" /\ r.attempt = launch[p].attempt /\ r.doomed = launch[p].doomed
    BY <1>1, <1>2, <1>4, GoesTo
  <2>3. ServerTyped(new)
    BY DEF ServerTyped, NoServer
  <2>4. appServer'[Own(p)] = new /\ \A s \in Servers \ {Own(p)} : appServer'[s] = appServer[s]
    BY <1>4, <2>1 DEF SocketInv
  <2> HIDE DEF r, new
  <2>5. launch'[p] = r /\ \A q \in Launchers \ {p} : launch'[q] = launch[q]
    BY <2>2 DEF SocketInv
  <2>6. LaunchTyped(r)
    BY <1>1, <1>2, <2>2, LaunchAssumption DEF LaunchTyped, UnderWay, Over, Resolving, OverCodex
  <2>7. \A n \in Nat : StillToCome(r, n) => StillToCome(launch[p], n) /\ n # launch[p].attempt
    BY <1>1, <1>2, <2>2 DEF StillToCome, Resolving, OverCodex
  <2>8. \A s \in Servers : s[1] \in Launchers /\ s[2] \in Nat
    BY DEF Servers
  <2>9. \A s \in Servers : NotSpawned(s)' => NotSpawned(s) /\ s # Own(p)
    BY <2>1, <2>5, <2>7, <2>8 DEF NotSpawned
  <2>10. NotSpawned(Own(p))
    BY <1>1, <2>1 DEF NotSpawned, StillToCome
  <2>11. DOMAIN launch' = Launchers /\ launch' = [q \in Launchers |-> launch'[q]]
         /\ DOMAIN appServer' = Servers /\ appServer' = [s \in Servers |-> appServer'[s]]
    BY <1>4, <2>2 DEF SocketInv
  <2>12. \A q \in Launchers : LaunchTyped(launch'[q])
    BY <2>5, <2>6 DEF SocketInv
  <2>13. \A s \in Servers : ServerTyped(appServer'[s])
    BY <2>3, <2>4 DEF SocketInv
  <2>14. \A s \in Servers : Unborn(s)'
    BY <2>4, <2>9 DEF Unborn, SocketInv
  <2>15. \A q \in Launchers : ListIsStale(q)'
    <3> TAKE q \in Launchers
    <3>1. CASE q = p
      BY <3>1, <2>2, <2>5 DEF ListIsStale
    <3>2. CASE q # p
      <4>1. launch'[q] = launch[q] /\ ListIsStale(q) /\ LaunchTyped(launch[q])
        BY <2>5, <3>2 DEF SocketInv
      <4>2. launch[q].pc = "prune" =>
              launch[q].doomed \subseteq Servers /\ Own(p) \notin launch[q].doomed
        BY <4>1, <2>10 DEF LaunchTyped, UnderWay, OverCodex, ListIsStale
      <4> QED
        BY <4>1, <4>2, <2>4, <2>9, <1>1 DEF ListIsStale
    <3> QED
      BY <3>1, <3>2
  <2>16. \A q \in Launchers : SocketKept(q)'
    <3> TAKE q \in Launchers
    <3>1. CASE q = p
      BY <3>1, <2>2, <2>5 DEF SocketKept
    <3>2. CASE q # p
      <4>1. launch'[q] = launch[q] /\ SocketKept(q)
        BY <2>5, <3>2 DEF SocketInv
      <4>2. launch[q].pc \in {"agent", "running"} /\ launch[q].cli = "codex"
              => Own(q) \in Servers /\ Own(q)[1] = q
        BY OwnServer DEF UnderWay
      <4> QED
        BY <4>1, <4>2, <3>2, <2>1, <2>4, <1>1 DEF SocketKept, Own
    <3> QED
      BY <3>1, <3>2
  <2> QED
    BY <2>11, <2>12, <2>13, <2>14, <2>15, <2>16 DEF SocketInv
<1> QED
  BY <1>3, <1>4 DEF SpawnServer

LEMMA PidFilled ==
    ASSUME SocketInv, NEW p \in Launchers, FillPid(p)
    PROVE  SocketInv'
<1>1. launch[p].pc = "pid" /\ launch[p].pc \in UnderWay /\ UNCHANGED misread
  BY DEF FillPid, UnderWay, OverCodex, Config
<1>2. LaunchTyped(launch[p]) /\ LaunchRecord(launch[p]) /\ launch[p].cli = "codex"
      /\ launch[p].attempt \in Nat \ {0} /\ launch[p].doomed \subseteq Servers
  BY <1>1, LaunchFields DEF LaunchTyped, OverCodex
<1>3. Own(p) \in Servers
  BY <1>1, <1>2, OwnServer
<1> DEFINE r == [launch[p] EXCEPT !.pc = "probe"]
<1>4. /\ launch' = [launch EXCEPT ![p] = r] /\ LaunchRecord(r) /\ r.pc = "probe"
      /\ r.cli = "codex" /\ r.attempt = launch[p].attempt /\ r.doomed = launch[p].doomed
  BY <1>1, <1>2, GoesTo DEF FillPid
<1> HIDE DEF r
<1>5. LaunchTyped(r)
  BY <1>1, <1>2, <1>4, LaunchAssumption DEF LaunchTyped, UnderWay, Over, Resolving, OverCodex
<1>6. \A n \in Nat : StillToCome(r, n) => StillToCome(launch[p], n)
  BY <1>1, <1>2, <1>4 DEF StillToCome, Resolving, OverCodex
<1>7. PICK pid : pid = IF appServer[Own(p)].pid = "torn" THEN "full" ELSE appServer[Own(p)].pid
  OBVIOUS
<1>8. appServer' = [appServer EXCEPT ![Own(p)] = [appServer[Own(p)] EXCEPT !.pid = pid]]
  BY <1>7 DEF FillPid
<1>9. PICK v : v = appServer[Own(p)]
  OBVIOUS
<1>10. ServerTyped(v)
  BY <1>3, <1>9 DEF SocketInv
<1>11. /\ ServerTyped([v EXCEPT !.pid = pid])
       /\ [v EXCEPT !.pid = pid].alive = v.alive /\ [v EXCEPT !.pid = pid].sock = v.sock
       /\ ([v EXCEPT !.pid = pid].pid # "none" => v.pid # "none")
  BY <1>7, <1>9, <1>10 DEF ServerTyped
<1>12. DOMAIN appServer' = Servers /\ appServer' = [s \in Servers |-> appServer'[s]]
       /\ \A s \in Servers : appServer'[s] = IF s = Own(p) THEN [v EXCEPT !.pid = pid] ELSE appServer[s]
  BY <1>3, <1>8, <1>9 DEF SocketInv
<1>13. \A s \in Servers : /\ ServerTyped(appServer'[s]) /\ appServer'[s].alive = appServer[s].alive
                         /\ appServer'[s].sock = appServer[s].sock
                         /\ (appServer'[s].pid # "none" => appServer[s].pid # "none")
  BY <1>9, <1>11, <1>12 DEF SocketInv
<1>14. launch'[p] = r /\ \A q \in Launchers \ {p} : launch'[q] = launch[q]
  BY <1>4 DEF SocketInv
<1>15. \A q \in Launchers : SocketKept(q)'
  <2> TAKE q \in Launchers
  <2>1. CASE q = p
    BY <2>1, <1>4, <1>14 DEF SocketKept
  <2>2. CASE q # p
    <3>1. launch'[q] = launch[q] /\ SocketKept(q)
      BY <1>14, <2>2 DEF SocketInv
    <3>2. launch[q].pc \in {"agent", "running"} /\ launch[q].cli = "codex" => Own(q) \in Servers
      BY OwnServer DEF UnderWay
    <3> QED
      BY <3>1, <3>2, <1>1, <1>13 DEF SocketKept, Own
  <2> QED
    BY <2>1, <2>2
<1> QED
  BY <1>1, <1>4, <1>5, <1>6, <1>12, <1>13, <1>15, LaunchSteps

\* A step of one server alone, which binds its socket or dies.
LEMMA ServerSteps ==
    ASSUME SocketInv, NEW s \in Servers, ServerListens(s) \/ ServerExits(s)
    PROVE  SocketInv'
<1>1. UNCHANGED <<launch, misread>>
  BY DEF ServerListens, ServerExits, Config
<1>2. PICK v : v = appServer[s]
  OBVIOUS
<1>3. ServerTyped(v) /\ v.alive = TRUE
  BY <1>2 DEF SocketInv, ServerListens, ServerExits, ServerTyped
<1>4. PICK w : /\ appServer' = [appServer EXCEPT ![s] = w]
               /\ w = [v EXCEPT !.sock = TRUE] \/ w = [v EXCEPT !.alive = FALSE]
  BY <1>2 DEF ServerListens, ServerExits
<1>5. ServerTyped(w) /\ w.pid = v.pid /\ (w.alive => v.alive) /\ (v.sock => w.sock)
  BY <1>3, <1>4 DEF ServerTyped
<1>6. DOMAIN appServer' = Servers /\ appServer' = [t \in Servers |-> appServer'[t]]
      /\ \A t \in Servers : appServer'[t] = IF t = s THEN w ELSE appServer[t]
  BY <1>4 DEF SocketInv
<1>7. \A t \in Servers : /\ ServerTyped(appServer'[t]) /\ (appServer'[t].alive => appServer[t].alive)
                        /\ (appServer[t].sock => appServer'[t].sock)
                        /\ appServer'[t].pid = appServer[t].pid
  BY <1>2, <1>5, <1>6 DEF SocketInv
<1>8. \A t \in Servers : Unborn(t)'
  BY <1>1, <1>7 DEF Unborn, NotSpawned, SocketInv
<1>9. \A q \in Launchers : ListIsStale(q)'
  <2> TAKE q \in Launchers
  <2>1. launch[q].pc = "prune" => launch[q].doomed \subseteq Servers
    BY LaunchFields DEF UnderWay, OverCodex
  <2>2. ListIsStale(q)
    BY DEF SocketInv
  <2> QED
    BY <2>1, <2>2, <1>1, <1>7 DEF ListIsStale, NotSpawned
<1>10. \A q \in Launchers : SocketKept(q)'
  <2> TAKE q \in Launchers
  <2>1. launch[q].pc \in {"agent", "running"} /\ launch[q].cli = "codex" => Own(q) \in Servers
    BY OwnServer DEF UnderWay
  <2>2. SocketKept(q)
    BY DEF SocketInv
  <2> QED
    BY <2>1, <2>2, <1>1, <1>7 DEF SocketKept, Own
<1> QED
  BY <1>1, <1>6, <1>7, <1>8, <1>9, <1>10 DEF SocketInv

LEMMA ServerAnswers ==
    ASSUME SocketInv, NEW p \in Launchers, ProbeReady(p)
    PROVE  SocketInv'
<1>1. /\ launch[p].pc = "probe" /\ launch[p].pc \in UnderWay /\ UNCHANGED <<appServer, misread>>
      /\ appServer[Own(p)].sock
  BY DEF ProbeReady, UnderWay, OverCodex, Config
<1>2. LaunchTyped(launch[p]) /\ launch[p].cli = "codex"
      /\ launch[p].attempt \in Nat \ {0} /\ launch[p].doomed \subseteq Servers
  BY <1>1, LaunchFields DEF LaunchTyped, OverCodex
<1> DEFINE r == [launch[p] EXCEPT !.pc = "agent"]
<1>3. /\ launch' = [launch EXCEPT ![p] = r] /\ LaunchRecord(r) /\ r.pc = "agent"
      /\ r.cli = "codex" /\ r.attempt = launch[p].attempt /\ r.doomed = launch[p].doomed
  BY <1>1, <1>2, GoesTo DEF ProbeReady
<1> HIDE DEF r
<1>4. LaunchTyped(r) /\ \A n \in Nat : ~StillToCome(r, n)
  BY <1>1, <1>2, <1>3, LaunchAssumption DEF LaunchTyped, StillToCome, UnderWay, Over, Resolving, OverCodex
<1>5. appServer[<<p, r.attempt>>].sock
  BY <1>1, <1>3 DEF Own
<1> QED
  BY <1>1, <1>3, <1>4, <1>5, OneLaunchSteps

\* A launch that cleans its server up on the way out or on to the next attempt.
LEMMA CleanedSteps ==
    ASSUME SocketInv, NEW p \in Launchers, launch[p].pc \in UnderWay, launch[p].cli = "codex",
           appServer' = Cleaned(Own(p)), UNCHANGED misread,
           NEW r, launch' = [launch EXCEPT ![p] = r], LaunchTyped(r),
           r.pc \notin {"prune", "agent", "running"},
           \A n \in Nat : StillToCome(r, n) => StillToCome(launch[p], n)
    PROVE  SocketInv'
<1>1. Own(p) \in Servers /\ Own(p)[1] = p
  BY OwnServer
<1>2. PICK v : v = appServer[Own(p)]
  OBVIOUS
<1>3. ServerTyped(v)
  BY <1>1, <1>2 DEF SocketInv
<1>4. PICK w : w = [appServer[Own(p)] EXCEPT !.told = @ \/ appServer[Own(p)].alive,
                                           !.sock = FALSE, !.pid = "none"]
  OBVIOUS
<1>5. ServerTyped(w) /\ w.alive = v.alive /\ w.pid = "none"
  BY <1>2, <1>3, <1>4 DEF ServerTyped
<1>6. appServer' = [appServer EXCEPT ![Own(p)] = w]
  BY <1>4 DEF Cleaned
<1>7. DOMAIN appServer' = Servers /\ appServer' = [s \in Servers |-> appServer'[s]]
      /\ \A s \in Servers : appServer'[s] = IF s = Own(p) THEN w ELSE appServer[s]
  BY <1>1, <1>6 DEF SocketInv
<1>8. \A s \in Servers : /\ ServerTyped(appServer'[s]) /\ appServer'[s].alive = appServer[s].alive
                        /\ (appServer'[s].pid # "none" => appServer[s].pid # "none")
  BY <1>2, <1>5, <1>7 DEF SocketInv
<1>9. launch'[p] = r /\ \A q \in Launchers \ {p} : launch'[q] = launch[q]
  BY DEF SocketInv
<1>10. \A q \in Launchers : SocketKept(q)'
  <2> TAKE q \in Launchers
  <2>1. CASE q = p
    BY <2>1, <1>9 DEF SocketKept
  <2>2. CASE q # p
    <3>1. launch'[q] = launch[q] /\ SocketKept(q)
      BY <1>9, <2>2 DEF SocketInv
    <3>2. launch[q].pc \in {"agent", "running"} /\ launch[q].cli = "codex"
            => Own(q) \in Servers /\ Own(q)[1] = q
      BY OwnServer DEF UnderWay
    <3> QED
      BY <3>1, <3>2, <2>2, <1>1, <1>7 DEF SocketKept, Own
  <2> QED
    BY <2>1, <2>2
<1> QED
  BY <1>7, <1>8, <1>10, LaunchSteps

LEMMA AttemptGivenUp ==
    ASSUME SocketInv, NEW p \in Launchers, GiveUp(p)
    PROVE  SocketInv'
<1>1. launch[p].pc = "probe" /\ launch[p].pc \in UnderWay /\ UNCHANGED misread
  BY DEF GiveUp, UnderWay, OverCodex, Config
<1>2. launch[p].cli = "codex"
  BY <1>1, LaunchFields DEF LaunchTyped, OverCodex
<1>3. PICK r : /\ launch' = [launch EXCEPT ![p] = r] /\ LaunchTyped(r)
               /\ r.pc \notin {"prune", "agent", "running"}
               /\ \A n \in Nat : StillToCome(r, n) => StillToCome(launch[p], n)
  BY <1>1, NextAttempts DEF GiveUp
<1> QED
  BY <1>1, <1>2, <1>3, CleanedSteps DEF GiveUp

LEMMA AgentOver ==
    ASSUME SocketInv, NEW p \in Launchers, AgentRefused(p) \/ AgentExits(p)
    PROVE  SocketInv'
<1>1. /\ launch[p].pc \in UnderWay /\ UNCHANGED misread /\ launch' = [launch EXCEPT ![p] = Done]
      /\ appServer' = IF launch[p].cli = "codex" THEN Cleaned(Own(p)) ELSE appServer
  BY DEF AgentRefused, AgentExits, UnderWay, Config
<1>2. CASE launch[p].cli = "codex"
  BY <1>1, <1>2, EndedLaunch, CleanedSteps
<1>3. CASE launch[p].cli # "codex"
  BY <1>1, <1>3, EndedSteps
<1> QED
  BY <1>2, <1>3

LEMMA AgentStarts ==
    ASSUME SocketInv, NEW p \in Launchers, StartAgent(p)
    PROVE  SocketInv'
<1>1. launch[p].pc = "agent" /\ launch[p].pc \in UnderWay /\ UNCHANGED <<appServer, misread>>
  BY DEF StartAgent, UnderWay, Config
<1>2. LaunchTyped(launch[p]) /\ LaunchRecord(launch[p])
      /\ launch[p].attempt \in Nat \ {0} /\ launch[p].doomed \subseteq Servers
  BY <1>1, LaunchFields
<1>3. PICK place : place = IF launch[p].cli = "opencode" THEN "bind" ELSE "running"
  OBVIOUS
<1>4. PICK r : r = [launch[p] EXCEPT !.child = TRUE, !.pc = place]
  OBVIOUS
<1>5. launch' = [launch EXCEPT ![p] = r]
  BY <1>3, <1>4 DEF StartAgent
<1>6. /\ LaunchRecord(r) /\ r.pc = place /\ r.cli = launch[p].cli /\ r.attempt = launch[p].attempt
      /\ r.doomed = launch[p].doomed
  BY <1>2, <1>4 DEF LaunchRecord
<1>7. LaunchTyped(r)
  BY <1>1, <1>2, <1>3, <1>6, LaunchAssumption DEF LaunchTyped, UnderWay, Over, Resolving, OverCodex
<1>8. \A n \in Nat : ~StillToCome(r, n)
  BY <1>3, <1>6 DEF StillToCome, Resolving, OverCodex
<1>9. r.pc # "prune"
  BY <1>3, <1>6
<1> QED
  BY <1>1, <1>5, <1>6, <1>7, <1>8, <1>9, OneLaunchSteps

LEMMA OpenCodeBinds ==
    ASSUME SocketInv, NEW p \in Launchers, BindOpenCode(p)
    PROVE  SocketInv'
<1>1. launch[p].pc = "bind" /\ launch[p].pc \in UnderWay /\ UNCHANGED <<appServer, misread>>
  BY DEF BindOpenCode, UnderWay, Config
<1>2. LaunchTyped(launch[p]) /\ LaunchRecord(launch[p]) /\ launch[p].cli = "opencode"
      /\ launch[p].attempt \in Nat \ {0} /\ launch[p].doomed \subseteq Servers
  BY <1>1, LaunchFields DEF LaunchTyped
<1>3. ASSUME NEW r, launch' = [launch EXCEPT ![p] = r], LaunchRecord(r),
             r.pc \in {"agent", "running"}, r.cli = "opencode",
             r.attempt \in Nat \ {0}, r.doomed = launch[p].doomed
      PROVE  SocketInv'
  <2>1. LaunchTyped(r) /\ \A n \in Nat : ~StillToCome(r, n)
    BY <1>2, <1>3 DEF LaunchTyped, StillToCome, UnderWay, Over, Resolving, OverCodex
  <2> QED
    BY <1>1, <1>3, <2>1, OneLaunchSteps
<1>4. CASE GoTo(p, "running")
  <2> DEFINE r == [launch[p] EXCEPT !.pc = "running"]
  <2>1. /\ launch' = [launch EXCEPT ![p] = r] /\ LaunchRecord(r) /\ r.pc = "running"
        /\ r.cli = "opencode" /\ r.attempt = launch[p].attempt /\ r.doomed = launch[p].doomed
    BY <1>1, <1>2, <1>4, GoesTo
  <2> HIDE DEF r
  <2> QED
    BY <2>1, <1>2, <1>3
<1>5. CASE launch' = [launch EXCEPT ![p] = Done]
  BY <1>1, <1>5, EndedSteps
<1>6. CASE launch' = [launch EXCEPT ![p].pc = "agent", ![p].child = FALSE, ![p].attempt = @ + 1]
  <2>1. PICK r : r = [launch[p] EXCEPT !.pc = "agent", !.child = FALSE,
                                       !.attempt = launch[p].attempt + 1]
    OBVIOUS
  <2>2. launch' = [launch EXCEPT ![p] = r]
    BY <1>6, <2>1
  <2>3. /\ LaunchRecord(r) /\ r.pc = "agent" /\ r.cli = "opencode"
        /\ r.attempt = launch[p].attempt + 1 /\ r.doomed = launch[p].doomed
    BY <1>2, <2>1 DEF LaunchRecord
  <2>4. r.attempt \in Nat \ {0} /\ r.pc \in {"agent", "running"}
    BY <1>2, <2>3
  <2> QED
    BY <1>3, <2>2, <2>3, <2>4
<1> QED
  BY <1>4, <1>5, <1>6 DEF BindOpenCode

-----------------------------------------------------------------------------
LEMMA SocketNext ==
    ASSUME SocketInv, NEW edit, [LaunchNext(edit)]_launchVars
    PROVE  SocketInv'
<1>1. ASSUME NEW p \in Launchers,
             \/ \E cli \in {"claude", "codex", "opencode"} : LaunchCli(p, cli)
             \/ ReadClaude(p) \/ ReadCodex(p) \/ VerifyCompatible(p) \/ FinalizeCodex(p)
             \/ \E skip \in BOOLEAN : InspectCodex(p, skip) \/ ReadOpenCode(p, skip)
             \/ QueryFails(p)
             \/ PruneScan(p) \/ PruneRemove(p) \/ SpawnServer(p) \/ FillPid(p)
             \/ ProbeReady(p) \/ GiveUp(p)
             \/ StartAgent(p) \/ AgentRefused(p) \/ BindOpenCode(p) \/ AgentExits(p)
             \/ LauncherDies(p)
      PROVE  SocketInv'
  <2>1. CASE LauncherDies(p)
    BY <2>1, EndedSteps DEF LauncherDies, Config
  <2> QED
    BY <1>1, <2>1, LaunchStarts, ClaudeReads, CodexReads, CompatibleVerified, CodexFinalized,
       CodexInspected, OpenCodeReads, QueryIsLost, DirectoryScanned, DirectoryPruned,
       ServerSpawned, PidFilled, ServerAnswers, AttemptGivenUp, AgentStarts, AgentOver,
       OpenCodeBinds
<1>2. CASE UNCHANGED <<launch, appServer, misread>>
  BY <1>2 DEF SocketInv, Unborn, NotSpawned, ListIsStale, SocketKept, Own
<1>3. CASE \E f \in edit : EditConfig(f)
  BY <1>2, <1>3 DEF EditConfig
<1>4. CASE UNCHANGED launchVars
  BY <1>2, <1>4 DEF launchVars
<1>5. CASE LaunchNext(edit)
  BY <1>1, <1>3, <1>5, ServerSteps DEF LaunchNext
<1> QED
  BY <1>4, <1>5

\* A running Codex session's server keeps its socket until its own launch cleans it up,
\* however many launches prune the shared runtime directory meanwhile, unless one of them
\* read its pid file half written: pruneStaleSockets decides on what it read and removes
\* later, but a server whose launch has not come to it has no pid file to be read, and a
\* process that is gone does not come back (codex-remote.ts:250-278).
THEOREM SocketsAreKept ==
    ASSUME NEW about, NEW edit
    PROVE  LaunchSpec(about, edit) => []RunningSocketKept
<1>1. LaunchInit(about) => SocketInv
  BY SocketAtInit
<1>2. SocketInv /\ [LaunchNext(edit)]_launchVars => SocketInv'
  BY SocketNext
<1>3. SocketInv => RunningSocketKept
  BY DEF SocketInv, SocketKept, RunningSocketKept
<1> QED
  BY <1>1, <1>2, <1>3, PTL DEF LaunchSpec

-----------------------------------------------------------------------------
(***************************************************************************)
(* The policy a launched agent runs with.                                  *)
(*                                                                         *)
(* A launch holds, from each query to the next, the operator's completed   *)
(* policy or one that differs from it in Borg's tools alone (PolicyKept);  *)
(* the private server is asked to resolve to exactly that.  For OpenCode,  *)
(* the rules that decide for other tools are neither removed nor moved     *)
(* (OverriddenRules), and rules that stand in pairs decide for a tool as   *)
(* for its alias (PairsAgree).                                             *)
(***************************************************************************)

(* Layers of Codex's configuration, field by field.                        *)

LEMMA PolicyTools ==
    ASSUME NEW f \in Fragments
    PROVE  /\ f.default \in ApprovalActions /\ f.tools \in [Names -> ApprovalActions]
           /\ \A n \in Names : f.tools[n] \in ApprovalActions
           /\ f.off = <<>> \/ (f.off # <<>> /\ f.off[1] \in SUBSET Names /\ f.off = <<f.off[1]>>)
<1>1. /\ f.default \in ApprovalActions /\ f.tools \in [Names -> ApprovalActions]
      /\ f.off = <<>> \/ \E names \in SUBSET Names : f.off = <<names>>
  BY DEF Fragments
<1>2. ASSUME NEW names \in SUBSET Names, f.off = <<names>>
      PROVE  f.off # <<>> /\ f.off[1] \in SUBSET Names /\ f.off = <<f.off[1]>>
  BY <1>2
<1> QED BY <1>1, <1>2

LEMMA SameFragment ==
    ASSUME NEW f \in Fragments, NEW g \in Fragments, f.default = g.default, f.off = g.off,
           \A n \in Names : f.tools[n] = g.tools[n]
    PROVE  f = g
<1>1. f.tools = g.tools
  BY DEF Fragments
<1> QED BY <1>1 DEF Fragments

LEMMA Merging ==
    ASSUME NEW a \in Fragments, NEW b \in Fragments
    PROVE  /\ Merge(a, b) \in Fragments
           /\ Merge(a, b).default = IF b.default # "none" THEN b.default ELSE a.default
           /\ Merge(a, b).off = IF b.off # <<>> THEN b.off ELSE a.off
           /\ \A n \in Names :
                 Merge(a, b).tools[n] = IF b.tools[n] # "none" THEN b.tools[n] ELSE a.tools[n]
  BY DEF Merge, Fragments

LEMMA NothingSet ==
    /\ NoPolicy \in Fragments /\ NoPolicy.default = "none" /\ NoPolicy.off = <<>>
    /\ \A n \in Names : NoPolicy.tools[n] = "none"
    /\ NoPolicy.tools \in [Names -> ApprovalActions]
  BY DEF NoPolicy, Fragments, ApprovalActions

LEMMA Following ==
    ASSUME NEW a \in Fragments, NEW b \in Fragments
    PROVE  /\ Then(a, b) \in Fragments
           /\ Then(a, b).default = IF b.default # "none" THEN b.default ELSE a.default
           /\ Then(a, b).off = IF b.off # <<>> THEN b.off ELSE a.off
           /\ (\A n \in Names : b.tools[n] = "none") =>
                  \A n \in Names : Then(a, b).tools[n] = a.tools[n]
           /\ (\E n \in Names : b.tools[n] # "none") =>
                  \A n \in Names : Then(a, b).tools[n] = b.tools[n]
<1>1. Merge(a, b) \in Fragments
  BY Merging
<1>2. (\A n \in Names : b.tools[n] = "none") <=> b.tools = NoPolicy.tools
  <2>1. b.tools \in [Names -> ApprovalActions]
    BY PolicyTools
  <2> QED BY <2>1, NothingSet
<1>3. a.tools \in [Names -> ApprovalActions] /\ b.tools \in [Names -> ApprovalActions]
  BY PolicyTools
<1>4. /\ Then(a, b).default = Merge(a, b).default /\ Then(a, b).off = Merge(a, b).off
      /\ Then(a, b).tools = IF b.tools = NoPolicy.tools THEN a.tools ELSE b.tools
      /\ Then(a, b) \in Fragments
  BY <1>1, <1>3 DEF Then, Fragments
<1> QED BY <1>2, <1>4, Merging

LEMMA Completing ==
    ASSUME NEW f \in Fragments
    PROVE  /\ Completed(f) \in Fragments /\ Completed(f).default = f.default
           /\ Completed(f).tools["other"] = f.tools["other"]
           /\ Completed(f).tools["tool"] =
                 IF f.tools["tool"] = "none" THEN f.tools["alias"] ELSE f.tools["tool"]
           /\ Completed(f).tools["alias"] =
                 IF f.tools["alias"] = "none" THEN f.tools["tool"] ELSE f.tools["alias"]
           /\ f.off = <<>> <=> Completed(f).off = <<>>
<1>1. /\ f = [default |-> f.default, tools |-> f.tools, off |-> f.off]
      /\ f.tools \in [Names -> ApprovalActions] /\ f.default \in ApprovalActions
  BY DEF Fragments
<1>2. f.off = <<>> \/ (f.off # <<>> /\ f.off[1] \in SUBSET Names)
  BY PolicyTools
<1> DEFINE ts == [n \in Names |-> IF n \in Coordination /\ f.tools[n] = "none"
                                   THEN f.tools[Twin(n)] ELSE f.tools[n]]
           x == IF f.off # <<>> /\ f.off[1] \cap Coordination # {}
                THEN <<f.off[1] \cup Coordination>> ELSE f.off
<1>3. ts \in [Names -> ApprovalActions]
  BY <1>1 DEF Names, Coordination, Twin
<1>4. x \in {<<>>} \cup {<<names>> : names \in SUBSET Names}
  <2>1. CASE f.off # <<>> /\ f.off[1] \cap Coordination # {}
    <3>1. f.off[1] \cup Coordination \in SUBSET Names
      BY <1>2, <2>1 DEF Names, Coordination
    <3> QED BY <2>1, <3>1
  <2>2. CASE ~(f.off # <<>> /\ f.off[1] \cap Coordination # {})
    BY <2>2 DEF Fragments
  <2> QED BY <2>1, <2>2
<1>5. f.off = <<>> <=> x = <<>>
  OBVIOUS
<1>6. /\ ts["other"] = f.tools["other"]
      /\ ts["tool"] = IF f.tools["tool"] = "none" THEN f.tools["alias"] ELSE f.tools["tool"]
      /\ ts["alias"] = IF f.tools["alias"] = "none" THEN f.tools["tool"] ELSE f.tools["alias"]
  BY DEF Names, Coordination, Twin
<1>7. Completed(f) = [f EXCEPT !.tools = ts, !.off = x]
  BY DEF Completed
<1> HIDE DEF ts, x
<1>8. Completed(f) = [default |-> f.default, tools |-> ts, off |-> x]
  BY <1>1, <1>7
<1> QED BY <1>1, <1>3, <1>4, <1>5, <1>6, <1>8 DEF Fragments

-----------------------------------------------------------------------------
(* What a launch decides on Codex's policy.                                *)

Layering == cfg.profile \in Fragments /\ cfg.flags \in Fragments /\ cfg.managed \in Fragments
            /\ user \in Fragments

\* The terminal client's policy before Borg adds anything, and completed.
Unaided == TuiConfig(cfg, user, NoPolicy, NoPolicy)
Owned == Completed(Unaided)

\* The layers under the options of the launch, and a policy under what is managed.
Under == Merge(user, cfg.profile)
Managed(f) == Merge(Merge(Under, f), cfg.managed)

\* What a launch may change of the operator's policy.
Respects(f) ==
    /\ f \in Fragments
    /\ ModeOf(f, "other") = ModeOf(Owned, "other")
    /\ ModeOf(f, "tool") \in {ModeOf(Owned, "tool"), "auto"}
    /\ Migrated(f)
    /\ f.off = Owned.off

LEMMA Layers ==
    ASSUME Layering, NEW a \in Fragments, NEW c \in Fragments
    PROVE  /\ TuiConfig(cfg, user, a, c) = Managed(Then(Then(a, cfg.flags), c))
           /\ Under \in Fragments /\ TuiConfig(cfg, user, a, c) \in Fragments
<1>1. Then(Then(a, cfg.flags), c) \in Fragments
  BY Following DEF Layering
<1>2. Under \in Fragments
  BY Merging DEF Layering, Under
<1>3. Managed(Then(Then(a, cfg.flags), c)) \in Fragments
  BY <1>1, <1>2, Merging DEF Layering, Managed
<1> QED
  BY <1>2, <1>3 DEF TuiConfig, Layered, Managed, Under

\* A policy with nothing but options over the layers, field by field.
LEMMA Client ==
    ASSUME Layering, NEW a \in Fragments, NEW c \in Fragments
    PROVE  LET f == TuiConfig(cfg, user, a, c)
               m == cfg.managed
               x == Then(Then(a, cfg.flags), c)
           IN  /\ f.default = IF m.default # "none" THEN m.default
                              ELSE IF x.default # "none" THEN x.default ELSE Under.default
               /\ f.off = IF m.off # <<>> THEN m.off ELSE IF x.off # <<>> THEN x.off ELSE Under.off
               /\ \A n \in Names : f.tools[n] =
                     IF m.tools[n] # "none" THEN m.tools[n]
                     ELSE IF x.tools[n] # "none" THEN x.tools[n] ELSE Under.tools[n]
<1> DEFINE x == Then(Then(a, cfg.flags), c)
<1>1. x \in Fragments
  BY Following DEF Layering
<1>2. Under \in Fragments /\ cfg.managed \in Fragments
  BY Layers DEF Layering
<1>3. TuiConfig(cfg, user, a, c) = Merge(Merge(Under, x), cfg.managed)
  BY Layers DEF Managed
<1> HIDE DEF x
<1>4. Merge(Under, x) \in Fragments
  BY <1>1, <1>2, Merging
<1>5. \A n \in Names : Merge(Under, x).tools[n] = IF x.tools[n] # "none" THEN x.tools[n] ELSE Under.tools[n]
  BY <1>1, <1>2, Merging
<1>6. /\ Merge(Under, x).default = IF x.default # "none" THEN x.default ELSE Under.default
      /\ Merge(Under, x).off = IF x.off # <<>> THEN x.off ELSE Under.off
  BY <1>1, <1>2, Merging
<1>7. \A n \in Names : TuiConfig(cfg, user, a, c).tools[n] =
         IF cfg.managed.tools[n] # "none" THEN cfg.managed.tools[n] ELSE Merge(Under, x).tools[n]
  BY <1>2, <1>3, <1>4, Merging
<1>8. /\ TuiConfig(cfg, user, a, c).default =
           IF cfg.managed.default # "none" THEN cfg.managed.default ELSE Merge(Under, x).default
      /\ TuiConfig(cfg, user, a, c).off =
           IF cfg.managed.off # <<>> THEN cfg.managed.off ELSE Merge(Under, x).off
  BY <1>2, <1>3, <1>4, Merging
<1> QED
  BY <1>5, <1>6, <1>7, <1>8 DEF x

LEMMA OwnedPolicy ==
    ASSUME Layering
    PROVE  Unaided \in Fragments /\ Owned \in Fragments
  BY Layers, Completing, NothingSet DEF Unaided, Owned

\* A policy the CLI reports with the fields of the completed one is that one.
LEMMA CompletionVerified ==
    ASSUME Layering, NEW c, c = compatibilityArgs(Unaided),
           NEW f, f = TuiConfig(cfg, user, NoPolicy, c), f.tools = Owned.tools, f.off = Owned.off
    PROVE  c \in Fragments /\ f = Owned
<1>1. Unaided \in Fragments /\ Owned \in Fragments /\ Owned.default = Unaided.default
  BY OwnedPolicy, Completing DEF Owned
<1>2. c \in Fragments /\ c.default = "none"
  BY <1>1, NothingSet DEF compatibilityArgs, Owned, Fragments, ApprovalActions
<1>3. f \in Fragments
  BY <1>2, Layers, NothingSet
<1>4. Then(NoPolicy, cfg.flags) \in Fragments
  BY Following, NothingSet DEF Layering
<1>5. Then(Then(NoPolicy, cfg.flags), c).default = Then(Then(NoPolicy, cfg.flags), NoPolicy).default
  BY <1>2, <1>4, Following, NothingSet
<1>6. f.default = Unaided.default
  BY <1>2, <1>5, Client, NothingSet DEF Unaided
<1> QED
  BY <1>1, <1>2, <1>3, <1>6, SameFragment

\* Nothing to complete.
LEMMA CompleteAlready ==
    ASSUME Layering, compatibilityArgs(Unaided) = NoPolicy
    PROVE  Unaided = Owned
<1>1. Unaided \in Fragments /\ Owned \in Fragments /\ Owned.default = Unaided.default
  BY OwnedPolicy, Completing DEF Owned
<1>2. CASE Owned = Unaided
  BY <1>2
<1>3. CASE Owned # Unaided
  <2>1. [Owned EXCEPT !.default = "none"] = NoPolicy
    BY <1>3 DEF compatibilityArgs, Owned
  <2>2. Owned.tools = NoPolicy.tools /\ Owned.off = NoPolicy.off
    BY <1>1, <2>1 DEF Fragments
  <2>3. \A n \in Names : Owned.tools[n] = "none"
    BY <2>2, NothingSet
  <2>4. \A n \in Names : Unaided.tools[n] = "none"
    BY <1>1, <2>3, Completing DEF Owned, Names
  <2>5. Unaided.off = <<>> /\ Owned.off = <<>>
    BY <1>1, <2>2, Completing, NothingSet DEF Owned
  <2> QED
    BY <1>1, <1>3, <2>3, <2>4, <2>5, SameFragment
<1> QED
  BY <1>2, <1>3

LEMMA OwnRespected ==
    ASSUME Layering, Migrated(Owned)
    PROVE  Respects(Owned)
  BY OwnedPolicy DEF Respects

\* The override, when the CLI reports one that treats a tool and its alias alike.
LEMMA OverrideRespects ==
    ASSUME Layering, Migrated(Owned), NEW c, c = compatibilityArgs(Unaided),
           TuiConfig(cfg, user, NoPolicy, c) = Owned, NEW l, l = [c EXCEPT !.tools = NoPolicy.tools],
           NEW a, a = codexBorgApprovalArgs(Owned), NEW w, w = TuiConfig(cfg, user, a, l), Migrated(w)
    PROVE  l \in Fragments /\ a \in Fragments /\ Respects(w)
<1>0. "tool" \in Names /\ "alias" \in Names /\ "other" \in Names
  BY DEF Names
<1>1. Unaided \in Fragments /\ Owned \in Fragments /\ NoPolicy \in Fragments
  BY OwnedPolicy, NothingSet
<1>2. /\ Owned.default = Unaided.default /\ Owned.tools["other"] = Unaided.tools["other"]
      /\ Owned.tools["tool"] = IF Unaided.tools["tool"] = "none" THEN Unaided.tools["alias"]
                               ELSE Unaided.tools["tool"]
      /\ Unaided.off = <<>> <=> Owned.off = <<>>
  BY <1>1, Completing DEF Owned
<1>3. /\ c \in Fragments /\ c.default = "none"
      /\ c = NoPolicy \/ (c.tools = Owned.tools /\ c.off = Owned.off)
  BY <1>1, NothingSet DEF compatibilityArgs, Owned, Fragments, ApprovalActions
<1>4. /\ l \in Fragments /\ l.default = "none" /\ l.off = c.off
      /\ \A n \in Names : l.tools[n] = "none"
  BY <1>3, NothingSet DEF Fragments
<1>5. /\ a \in Fragments /\ a.default = "none" /\ a.off = <<>>
      /\ a.tools["tool"] = "auto" /\ a.tools["alias"] = "auto"
      /\ a.tools["other"] = Owned.tools["other"]
  <2>1. Owned.tools \in [Names -> ApprovalActions]
    BY <1>1, PolicyTools
  <2> DEFINE ts == [n \in Names |-> IF n \in Coordination THEN "auto" ELSE Owned.tools[n]]
  <2>2. /\ ts \in [Names -> ApprovalActions] /\ ts["tool"] = "auto" /\ ts["alias"] = "auto"
        /\ ts["other"] = Owned.tools["other"]
    BY <2>1 DEF Names, Coordination, ApprovalActions
  <2>3. a = [NoPolicy EXCEPT !.tools = ts]
    BY DEF codexBorgApprovalArgs
  <2> HIDE DEF ts
  <2> QED BY <2>2, <2>3, NothingSet DEF Fragments
<1>6. /\ w \in Fragments /\ cfg.managed \in Fragments /\ cfg.flags \in Fragments
      /\ Under \in Fragments
  BY <1>4, <1>5, Layers DEF Layering
<1> DEFINE F == cfg.flags  M == cfg.managed
           x == Then(Then(a, F), l)  y == Then(Then(NoPolicy, F), NoPolicy)
           z == Then(Then(NoPolicy, F), c)
<1>a. Then(a, F) \in Fragments /\ Then(NoPolicy, F) \in Fragments
  BY <1>1, <1>5, <1>6, Following
<1>7. /\ x.default = y.default /\ y.default = F.default
      /\ x.off = IF c.off # <<>> THEN c.off ELSE F.off
      /\ y.off = F.off /\ z.off = IF c.off # <<>> THEN c.off ELSE F.off
  <2>1. /\ Then(a, F).default = F.default /\ Then(a, F).off = F.off
        /\ Then(NoPolicy, F).default = F.default /\ Then(NoPolicy, F).off = F.off
    BY <1>1, <1>5, <1>6, Following, NothingSet
  <2>2. x.default = Then(a, F).default /\ x.off = IF l.off # <<>> THEN l.off ELSE Then(a, F).off
    <3>1. PICK g \in Fragments : g = Then(a, F)
      BY <1>a
    <3>2. /\ Then(g, l).default = g.default
          /\ Then(g, l).off = IF l.off # <<>> THEN l.off ELSE g.off
      BY <1>4, Following
    <3> QED BY <3>1, <3>2
  <2>3. y.default = Then(NoPolicy, F).default /\ y.off = Then(NoPolicy, F).off
    BY <1>1, <1>a, Following, NothingSet
  <2>4. z.off = IF c.off # <<>> THEN c.off ELSE Then(NoPolicy, F).off
    BY <1>3, <1>a, Following
  <2> QED BY <1>4, <2>1, <2>2, <2>3, <2>4
<1>8. /\ \A n \in Names : x.tools[n] = Then(a, F).tools[n]
      /\ \A n \in Names : y.tools[n] = Then(NoPolicy, F).tools[n]
  <2>1. ASSUME NEW g \in Fragments PROVE \A n \in Names : Then(g, l).tools[n] = g.tools[n]
    BY <1>4, Following
  <2>2. ASSUME NEW g \in Fragments PROVE \A n \in Names : Then(g, NoPolicy).tools[n] = g.tools[n]
    BY Following, NothingSet
  <2> QED BY <1>a, <2>1, <2>2
<1>9. \/ \A n \in Names : x.tools[n] = a.tools[n] /\ y.tools[n] = "none" /\ F.tools[n] = "none"
      \/ \A n \in Names : x.tools[n] = F.tools[n] /\ y.tools[n] = F.tools[n]
  <2>1. CASE \A n \in Names : F.tools[n] = "none"
    <3>1. \A n \in Names : Then(a, F).tools[n] = a.tools[n] /\ Then(NoPolicy, F).tools[n] = "none"
      BY <1>1, <1>5, <1>6, <2>1, Following, NothingSet
    <3> QED BY <1>8, <2>1, <3>1
  <2>2. CASE \E n \in Names : F.tools[n] # "none"
    <3>1. \A n \in Names : Then(a, F).tools[n] = F.tools[n] /\ Then(NoPolicy, F).tools[n] = F.tools[n]
      BY <1>1, <1>5, <1>6, <2>2, Following
    <3> QED BY <1>8, <3>1
  <2> QED BY <2>1, <2>2
<1>10. /\ w.default = IF M.default # "none" THEN M.default
                      ELSE IF x.default # "none" THEN x.default ELSE Under.default
       /\ w.off = IF M.off # <<>> THEN M.off ELSE IF x.off # <<>> THEN x.off ELSE Under.off
       /\ \A n \in Names : w.tools[n] =
             IF M.tools[n] # "none" THEN M.tools[n]
             ELSE IF x.tools[n] # "none" THEN x.tools[n] ELSE Under.tools[n]
  BY <1>4, <1>5, Client
<1>11. /\ Unaided.default = IF M.default # "none" THEN M.default
                      ELSE IF y.default # "none" THEN y.default ELSE Under.default
       /\ Unaided.off = IF M.off # <<>> THEN M.off ELSE IF y.off # <<>> THEN y.off ELSE Under.off
       /\ \A n \in Names : Unaided.tools[n] =
             IF M.tools[n] # "none" THEN M.tools[n]
             ELSE IF y.tools[n] # "none" THEN y.tools[n] ELSE Under.tools[n]
  BY <1>1, Client DEF Unaided
<1>12. Owned.off = IF M.off # <<>> THEN M.off ELSE IF z.off # <<>> THEN z.off ELSE Under.off
  BY <1>1, <1>3, Client
<1> HIDE DEF x, y, z, F, M
<1>13. w.default = Owned.default
  BY <1>2, <1>7, <1>10, <1>11
<1>14. w.off = Owned.off
  BY <1>7, <1>10, <1>12
<1>15. w.tools["other"] = Owned.tools["other"]
  <2>1. CASE \A n \in Names : x.tools[n] = a.tools[n] /\ y.tools[n] = "none" /\ F.tools[n] = "none"
    <3>1. x.tools["other"] = Unaided.tools["other"] /\ y.tools["other"] = "none"
      BY <1>0, <1>2, <1>5, <2>1
    <3> QED BY <1>0, <1>2, <1>10, <1>11, <3>1
  <2>2. CASE \A n \in Names : x.tools[n] = F.tools[n] /\ y.tools[n] = F.tools[n]
    <3>1. x.tools["other"] = y.tools["other"]
      BY <1>0, <2>2
    <3> QED BY <1>0, <1>2, <1>10, <1>11, <3>1
  <2> QED BY <1>9, <2>1, <2>2
<1>16. w.tools["tool"] \in {Owned.tools["tool"], "auto"}
  <2>a. w.tools["tool"] = w.tools["alias"]
    BY DEF Migrated
  <2>1. CASE \A n \in Names : x.tools[n] = a.tools[n] /\ y.tools[n] = "none" /\ F.tools[n] = "none"
    <3>1. x.tools["tool"] = "auto" /\ y.tools["tool"] = "none"
      BY <1>0, <1>5, <2>1
    <3>2. w.tools["tool"] = IF M.tools["tool"] # "none" THEN M.tools["tool"] ELSE "auto"
      BY <1>0, <1>10, <3>1
    <3>3. M.tools["tool"] # "none" => Unaided.tools["tool"] = M.tools["tool"]
      BY <1>0, <1>11
    <3> QED BY <1>2, <3>2, <3>3
  <2>2. CASE \A n \in Names : x.tools[n] = F.tools[n] /\ y.tools[n] = F.tools[n]
    <3>1. w.tools["tool"] = Unaided.tools["tool"] /\ w.tools["alias"] = Unaided.tools["alias"]
      BY <1>0, <1>10, <1>11, <2>2
    <3> QED BY <1>2, <2>a, <3>1
  <2> QED BY <1>9, <2>1, <2>2
<1> QED
  BY <1>4, <1>5, <1>6, <1>13, <1>14, <1>15, <1>16 DEF Respects, ModeOf

-----------------------------------------------------------------------------
(* OpenCode's rules, of which the last that matches decides.               *)

\* Some places of a sequence have a last one.
LEMMA LastPlace ==
    ASSUME NEW m \in Nat, NEW K \in SUBSET (1..m), K # {}
    PROVE  Max(K) \in K /\ \A i \in K : i <= Max(K)
<1> DEFINE T == {m - i : i \in K}
<1>0. \A i \in K : i \in Nat /\ i <= m
  OBVIOUS
<1>1. T \subseteq Nat /\ T # {}
  <2>1. \A i \in K : m - i \in Nat
    BY <1>0
  <2> QED BY <2>1
<1>2. PICK x \in T : \A y \in T : ~ (<<y, x>> \in OpToRel(<, Nat))
  <2> HIDE DEF T
  <2> QED BY <1>1, WFMin, NatLessThanWellFounded, Zenon
<1>3. \A y \in T : ~ (y < x)
  BY <1>1, <1>2 DEF OpToRel
<1>4. PICK i \in K : x = m - i
  OBVIOUS
<1>5. ASSUME NEW j \in K PROVE i >= j
  <2>1. m - j \in T
    OBVIOUS
  <2>2. ~ (m - j < m - i)
    BY <1>3, <1>4, <2>1
  <2> HIDE DEF T
  <2> QED BY <2>2, <1>0
<1>6. Max(K) \in K /\ \A j \in K : Max(K) >= j
  BY <1>5 DEF Max
<1>7. Max(K) \in Nat
  BY <1>0, <1>6
<1> QED BY <1>0, <1>6, <1>7

LEMMA RuleList ==
    ASSUME NEW s \in Seq(OpenCodeRules), NEW n
    PROVE  /\ Len(s) \in Nat /\ DOMAIN s = 1..Len(s) /\ Matching(s, n) \in SUBSET (1..Len(s))
           /\ \A i \in Matching(s, n) : i \in Nat
           /\ Matching(s, n) # {} =>
                /\ Max(Matching(s, n)) \in Matching(s, n)
                /\ \A i \in Matching(s, n) : i <= Max(Matching(s, n))
                /\ Permission(s, n) = s[Max(Matching(s, n))][2]
<1>1. Len(s) \in Nat /\ DOMAIN s = 1..Len(s)
  OBVIOUS
<1>2. Matching(s, n) \in SUBSET (1..Len(s))
  BY <1>1 DEF Matching
<1>3. Matching(s, n) # {} =>
        /\ Max(Matching(s, n)) \in Matching(s, n)
        /\ \A i \in Matching(s, n) : i <= Max(Matching(s, n))
  BY <1>1, <1>2, LastPlace
<1> QED BY <1>1, <1>2, <1>3 DEF Permission

\* The last match, wherever it is found to be.
LEMMA LastMatch ==
    ASSUME NEW s \in Seq(OpenCodeRules), NEW n, NEW i \in Matching(s, n),
           \A j \in Matching(s, n) : j <= i
    PROVE  Permission(s, n) = s[i][2]
<1>1. /\ Max(Matching(s, n)) \in Matching(s, n) /\ i <= Max(Matching(s, n))
      /\ Permission(s, n) = s[Max(Matching(s, n))][2]
  BY RuleList
<1>2. Max(Matching(s, n)) <= i
  BY <1>1
<1>3. i \in Nat /\ Max(Matching(s, n)) \in Nat
  BY <1>1, RuleList
<1> QED BY <1>1, <1>2, <1>3

\* Rules that come later decide, if any of them matches.
LEMMA LaterRules ==
    ASSUME NEW s \in Seq(OpenCodeRules), NEW t \in Seq(OpenCodeRules), NEW n
    PROVE  Permission(s \o t, n) = IF Matching(t, n) = {} THEN Permission(s, n) ELSE Permission(t, n)
<1>0. PICK u : u = s \o t
  OBVIOUS
<1>1. /\ u \in Seq(OpenCodeRules) /\ Len(s) \in Nat /\ Len(t) \in Nat
      /\ Len(u) = Len(s) + Len(t)
      /\ DOMAIN s = 1..Len(s) /\ DOMAIN t = 1..Len(t) /\ DOMAIN u = 1..(Len(s) + Len(t))
      /\ \A i \in 1..Len(s) : u[i] = s[i] /\ \A j \in 1..Len(t) : u[j + Len(s)] = t[j]
  BY <1>0
<1>a. /\ \A i \in DOMAIN s : i \in DOMAIN u /\ u[i] = s[i]
      /\ \A j \in DOMAIN t : j + Len(s) \in DOMAIN u /\ u[j + Len(s)] = t[j]
  BY <1>0, <1>1
<1>2. ASSUME NEW i \in Matching(u, n)
      PROVE  \/ i \in Matching(s, n)
             \/ i - Len(s) \in Matching(t, n) /\ i > Len(s) /\ i \in Nat
  <2>1. i \in 1..(Len(s) + Len(t)) /\ u[i][1] \in {"*", n}
    BY <1>1 DEF Matching
  <2>2. CASE i <= Len(s)
    <3>1. i \in DOMAIN s /\ u[i] = s[i]
      BY <1>1, <1>a, <2>1, <2>2
    <3> QED BY <2>1, <3>1 DEF Matching
  <2>3. CASE i > Len(s)
    <3>1. i - Len(s) \in DOMAIN t /\ i = (i - Len(s)) + Len(s)
      BY <1>1, <2>1, <2>3
    <3>2. u[i] = t[i - Len(s)]
      BY <1>a, <3>1
    <3> QED BY <2>1, <2>3, <3>1, <3>2 DEF Matching
  <2> QED BY <1>1, <2>1, <2>2, <2>3
<1>3. \A i \in Matching(s, n) : i \in Matching(u, n)
  BY <1>a DEF Matching
<1>4. \A j \in Matching(t, n) : j + Len(s) \in Matching(u, n)
  BY <1>a DEF Matching
<1>5. CASE Matching(t, n) # {}
  <2>1. PICK l : l = Max(Matching(t, n))
    OBVIOUS
  <2>2. /\ l \in Matching(t, n) /\ l \in 1..Len(t) /\ Permission(t, n) = t[l][2]
        /\ \A j \in Matching(t, n) : j <= l
    BY <1>5, <2>1, RuleList
  <2>3. l + Len(s) \in Matching(u, n) /\ u[l + Len(s)] = t[l]
    BY <1>1, <1>4, <1>a, <2>2
  <2>4. \A i \in Matching(u, n) : i <= l + Len(s)
    <3> TAKE i \in Matching(u, n)
    <3>1. CASE i \in Matching(s, n)
      <4>1. i \in 1..Len(s)
        BY <3>1, RuleList
      <4> QED BY <1>1, <2>2, <4>1
    <3>2. CASE i - Len(s) \in Matching(t, n) /\ i > Len(s) /\ i \in Nat
      <4>1. i - Len(s) <= l
        BY <2>2, <3>2
      <4> QED BY <1>1, <2>2, <3>2, <4>1
    <3> QED BY <1>2, <3>1, <3>2
  <2>5. Permission(u, n) = u[l + Len(s)][2]
    BY <1>1, <2>3, <2>4, LastMatch
  <2> QED BY <1>0, <1>5, <2>2, <2>3, <2>5
<1>6. CASE Matching(t, n) = {}
  <2>1. Matching(u, n) = Matching(s, n)
    BY <1>2, <1>3, <1>6
  <2>2. CASE Matching(s, n) = {}
    BY <1>0, <1>6, <2>1, <2>2 DEF Permission
  <2>3. CASE Matching(s, n) # {}
    <3>1. PICK l : l = Max(Matching(s, n))
      OBVIOUS
    <3>2. l \in Matching(s, n) /\ Permission(s, n) = s[l][2] /\ Permission(u, n) = u[l][2]
      BY <1>1, <2>1, <2>3, <3>1, RuleList
    <3>3. u[l] = s[l]
      BY <1>a, <3>2 DEF Matching
    <3> QED BY <1>0, <1>6, <3>2, <3>3
  <2> QED BY <2>2, <2>3
<1> QED BY <1>5, <1>6

\* A tool and its alias stand together, so they are treated alike.
LEMMA PairsAgree ==
    ASSUME NEW s \in Seq(OpenCodeRules), AdjacentPairs(s)
    PROVE  Permission(s, "tool") = Permission(s, "alias")
<1>1. PICK m \in Nat : DOMAIN s = 1..m
  OBVIOUS
<1>2. ASSUME NEW a \in Coordination, NEW i \in Matching(s, a), \A j \in Matching(s, a) : j <= i
      PROVE  Permission(s, Twin(a)) = s[i][2]
  <2>0. Twin(a) \in Coordination /\ Twin(Twin(a)) = a /\ Twin(a) # a /\ a # "*" /\ Twin(a) # "*"
    BY DEF Coordination, Twin
  <2>1. PICK b : b = Twin(a)
    OBVIOUS
  <2>2. i \in 1..m /\ s[i][1] \in {"*", a}
    BY <1>1 DEF Matching
  <2>3. ASSUME NEW j \in 1..m, s[j][1] = b
        PROVE  /\ j <= i + 1
               /\ \E k \in {j - 1, j + 1} \cap (1..m) : s[k][1] = a /\ s[k][2] = s[j][2]
    <3>1. PICK k \in {j - 1, j + 1} \cap DOMAIN s : s[k] = <<Twin(s[j][1]), s[j][2]>>
      BY <1>1, <2>0, <2>1, <2>3 DEF AdjacentPairs
    <3>2. k \in 1..m /\ k \in {j - 1, j + 1} /\ s[k][1] = a /\ s[k][2] = s[j][2]
      BY <1>1, <2>0, <2>1, <2>3, <3>1
    <3>3. k \in Matching(s, a)
      BY <1>1, <3>2 DEF Matching
    <3>4. k <= i
      BY <1>2, <3>3
    <3> QED BY <2>2, <3>2, <3>4
  <2>4. CASE s[i][1] = "*"
    <3>1. i \in Matching(s, b)
      BY <1>1, <2>2, <2>4 DEF Matching
    <3>2. ASSUME NEW j \in Matching(s, b) PROVE j <= i
      <4>1. j \in 1..m /\ (s[j][1] = "*" \/ s[j][1] = b)
        BY <1>1 DEF Matching
      <4>2. CASE s[j][1] = "*"
        <5>1. j \in Matching(s, a)
          BY <1>1, <4>1, <4>2 DEF Matching
        <5> QED BY <1>2, <5>1
      <4>3. CASE s[j][1] = b
        <5>1. PICK k \in {j - 1, j + 1} \cap (1..m) : s[k][1] = a
          BY <2>3, <4>1, <4>3
        <5>2. k \in Matching(s, a)
          BY <1>1, <5>1 DEF Matching
        <5>3. k <= i /\ k # i
          BY <1>2, <2>0, <2>4, <5>1, <5>2
        <5> QED BY <2>2, <4>1, <5>1, <5>3
      <4> QED BY <4>1, <4>2, <4>3
    <3> QED BY <2>1, <3>1, <3>2, LastMatch
  <2>5. CASE s[i][1] = a
    <3>1. PICK k \in {i - 1, i + 1} \cap DOMAIN s : s[k] = <<Twin(s[i][1]), s[i][2]>>
      BY <1>1, <2>2, <2>5 DEF AdjacentPairs
    <3>2. k \in 1..m /\ k \in {i - 1, i + 1} /\ s[k][1] = b /\ s[k][2] = s[i][2] /\ k \in Matching(s, b)
      BY <1>1, <2>1, <2>5, <3>1 DEF Matching
    <3>3. ASSUME NEW j \in Matching(s, b) PROVE j <= i + 1 /\ j # i
      <4>1. j \in 1..m /\ (s[j][1] = "*" \/ s[j][1] = b)
        BY <1>1 DEF Matching
      <4>2. CASE s[j][1] = "*"
        <5>1. j \in Matching(s, a)
          BY <1>1, <4>1, <4>2 DEF Matching
        <5>2. j <= i /\ j # i
          BY <1>2, <2>0, <2>5, <4>2, <5>1
        <5> QED BY <2>2, <4>1, <5>2
      <4>3. CASE s[j][1] = b
        BY <2>0, <2>1, <2>3, <2>5, <4>1, <4>3
      <4> QED BY <4>1, <4>2, <4>3
    <3>4. CASE i + 1 \in Matching(s, b)
      <4>1. s[i + 1][1] = b /\ i + 1 \in 1..m
        <5>1. i + 1 \in 1..m /\ s[i + 1][1] \in {"*", b}
          BY <1>1, <3>4 DEF Matching
        <5>2. s[i + 1][1] # "*"
          <6>1. SUFFICES ASSUME s[i + 1][1] = "*" PROVE FALSE
            OBVIOUS
          <6>2. i + 1 \in Matching(s, a)
            BY <1>1, <5>1, <6>1 DEF Matching
          <6>3. i + 1 <= i
            BY <1>2, <6>2
          <6> QED BY <2>2, <6>3
        <5> QED BY <5>1, <5>2
      <4>2. PICK l \in {i, i + 2} \cap (1..m) : s[l][1] = a /\ s[l][2] = s[i + 1][2]
        <5>1. PICK l \in {(i + 1) - 1, (i + 1) + 1} \cap (1..m) :
                    s[l][1] = a /\ s[l][2] = s[i + 1][2]
          BY <2>3, <4>1
        <5>2. l \in {i, i + 2}
          BY <2>2, <5>1
        <5> QED BY <5>1, <5>2
      <4>3. l \in Matching(s, a)
        BY <1>1, <4>2 DEF Matching
      <4>4. l <= i
        BY <1>2, <4>3
      <4>5. l = i
        BY <2>2, <4>2, <4>4
      <4>6. \A j \in Matching(s, b) : j <= i + 1
        BY <3>3
      <4> QED BY <2>1, <3>4, <4>2, <4>5, <4>6, LastMatch
    <3>5. CASE i + 1 \notin Matching(s, b)
      <4>1. k = i - 1
        BY <2>2, <3>2, <3>5
      <4>2. ASSUME NEW j \in Matching(s, b) PROVE j <= k
        <5>1. j \in 1..m
          BY <1>1 DEF Matching
        <5> QED BY <2>2, <3>3, <3>5, <4>1, <5>1
      <4> QED BY <2>1, <3>2, <4>2, LastMatch
    <3> QED BY <3>4, <3>5
  <2> QED BY <2>2, <2>4, <2>5
<1>3. Twin("tool") = "alias" /\ Twin("alias") = "tool" /\ "tool" \in Coordination /\ "alias" \in Coordination
  BY DEF Twin, Coordination
<1>4. ASSUME NEW a \in Coordination, Matching(s, a) # {}
      PROVE  Permission(s, Twin(a)) = Permission(s, a)
  <2>1. PICK i : i = Max(Matching(s, a))
    OBVIOUS
  <2>2. i \in Matching(s, a) /\ Permission(s, a) = s[i][2] /\ \A j \in Matching(s, a) : j <= i
    BY <1>4, <2>1, RuleList
  <2> QED BY <1>2, <2>2
<1>5. CASE Matching(s, "tool") = {} /\ Matching(s, "alias") = {}
  BY <1>5 DEF Permission
<1> QED BY <1>3, <1>4, <1>5

-----------------------------------------------------------------------------
(* What a launch decides on OpenCode's rules.                              *)

\* A place of a concatenation is a place of one of its parts.
LEMMA JoinedPlace ==
    ASSUME NEW X, NEW s \in Seq(X), NEW t \in Seq(X), NEW j \in DOMAIN (s \o t)
    PROVE  \/ j \in DOMAIN s /\ (s \o t)[j] = s[j]
           \/ j - Len(s) \in DOMAIN t /\ (s \o t)[j] = t[j - Len(s)]
<1>1. /\ Len(s) \in Nat /\ Len(t) \in Nat /\ DOMAIN s = 1..Len(s) /\ DOMAIN t = 1..Len(t)
      /\ j \in 1..(Len(s) + Len(t))
  OBVIOUS
<1>2. CASE j <= Len(s)
  BY <1>1, <1>2
<1>3. CASE j > Len(s)
  <2>1. j - Len(s) \in 1..Len(t)
    BY <1>1, <1>3
  <2> QED BY <1>1, <1>3, <2>1
<1> QED BY <1>1, <1>2, <1>3

Respected(permission) ==
    /\ Permission(permission, "other") = Permission(rules \o cfg.managedRules, "other")
    /\ Permission(permission, "tool") = Permission(permission, "alias")

\* A selection that loses no match loses no decision.
LEMMA ChosenRules ==
    ASSUME NEW s \in Seq(OpenCodeRules), NEW n, NEW K \in SUBSET (DOMAIN s), Matching(s, n) \subseteq K
    PROVE  Permission(Chosen(s, K), n) = Permission(s, n)
<1> DEFINE t == Chosen(s, K)  c == Cardinality(K)
<1>1. /\ t \in Seq(OpenCodeRules) /\ DOMAIN t = 1..c
      /\ \A l \in 1..c : Nth(K, l) \in K /\ t[l] = s[Nth(K, l)]
  BY ChosenFrom
<1>2. PICK m \in Nat : DOMAIN s = 1..m
  OBVIOUS
<1>3. K \in SUBSET (1..m) /\ \A k \in K : k \in Nat
  BY <1>2
<1>4. c \in Nat
  BY <1>3, PlacesFinite
<1>5. \A i \in K : Cardinality(Upto(K, i)) \in 1..c /\ Nth(K, Cardinality(Upto(K, i))) = i
  BY <1>2, <1>3, NthPlace, RankInRange
<1>6. \A l \in 1..c, o \in 1..c : l < o <=> Nth(K, l) < Nth(K, o)
  BY <1>2, <1>3, NthGrows
<1>7. \A l \in 1..c : l \in Matching(t, n) <=> Nth(K, l) \in Matching(s, n)
  BY <1>1 DEF Matching
<1>8. \A l \in Matching(t, n) : l \in 1..c
  BY <1>1 DEF Matching
<1> HIDE DEF t, c
<1>9. CASE Matching(s, n) = {}
  <2>1. Matching(t, n) = {}
    BY <1>7, <1>8, <1>9
  <2> QED BY <1>9, <2>1 DEF Permission, t
<1>10. CASE Matching(s, n) # {}
  <2>1. PICK i : i = Max(Matching(s, n))
    OBVIOUS
  <2>2. i \in Matching(s, n) /\ Permission(s, n) = s[i][2] /\ \A j \in Matching(s, n) : j <= i
    BY <1>10, <2>1, RuleList
  <2>3. PICK l \in 1..c : Nth(K, l) = i
    BY <1>5, <2>2
  <2>4. l \in Matching(t, n) /\ t[l] = s[i]
    BY <1>1, <1>7, <2>2, <2>3
  <2>5. ASSUME NEW o \in Matching(t, n) PROVE o <= l
    <3>1. o \in 1..c /\ Nth(K, o) \in Matching(s, n)
      BY <1>7, <1>8
    <3>2. Nth(K, o) <= i /\ Nth(K, o) \in Nat /\ i \in Nat
      BY <1>3, <2>2, <3>1
    <3>3. ~ (l < o)
      BY <1>6, <2>3, <3>1, <3>2
    <3> QED BY <1>4, <2>3, <3>1, <3>3
  <2>6. Permission(t, n) = t[l][2]
    BY <1>1, <2>4, <2>5, LastMatch
  <2> QED BY <2>2, <2>4, <2>6 DEF t
<1> QED BY <1>9, <1>10

\* Taking the rules for Borg's tools out and putting allows in last.
LEMMA MergedRules ==
    ASSUME NEW s \in Seq(OpenCodeRules)
    PROVE  /\ Merged(s) \in Seq(OpenCodeRules)
           /\ Permission(Merged(s), "other") = Permission(s, "other")
           /\ \A j \in DOMAIN Merged(s) :
                 \/ Merged(s)[j][1] \in Coordination
                 \/ \E i \in DOMAIN s : Merged(s)[j] = s[i]
<1> DEFINE K == {i \in DOMAIN s : s[i][1] \notin Coordination}
           t == Chosen(s, K)
           u == <<<<"tool", "allow">>, <<"alias", "allow">>>>
<1>1. K \in SUBSET (DOMAIN s) /\ Matching(s, "other") \subseteq K
  BY DEF Matching, Coordination
<1>2. /\ t \in Seq(OpenCodeRules) /\ DOMAIN t = 1..Cardinality(K)
      /\ \A l \in 1..Cardinality(K) : Nth(K, l) \in K /\ t[l] = s[Nth(K, l)]
  BY <1>1, ChosenFrom
<1>3. Permission(t, "other") = Permission(s, "other")
  BY <1>1, ChosenRules
<1>4. <<"tool", "allow">> \in OpenCodeRules /\ <<"alias", "allow">> \in OpenCodeRules
  BY DEF OpenCodeRules, Names
<1>5. u \in Seq(OpenCodeRules) /\ DOMAIN u = {1, 2} /\ \A j \in DOMAIN u : u[j][1] \in Coordination
  BY <1>4 DEF Coordination
<1>6. Matching(u, "other") = {}
  BY <1>5 DEF Matching, Coordination
<1>7. \A l \in DOMAIN t : \E i \in DOMAIN s : t[l] = s[i]
  BY <1>1, <1>2
<1>8. Merged(s) = t \o u
  BY DEF Merged
<1> HIDE DEF K, t, u
<1>9. Merged(s) \in Seq(OpenCodeRules)
  BY <1>2, <1>5, <1>8
<1>10. Permission(Merged(s), "other") = Permission(s, "other")
  BY <1>2, <1>3, <1>5, <1>6, <1>8, LaterRules
<1>11. ASSUME NEW j \in DOMAIN (t \o u)
       PROVE  \/ j \in DOMAIN t /\ (t \o u)[j] = t[j]
              \/ j - Len(t) \in DOMAIN u /\ (t \o u)[j] = u[j - Len(t)]
  BY <1>2, <1>5, <1>11, JoinedPlace
<1>12. \A j \in DOMAIN Merged(s) :
          \/ Merged(s)[j][1] \in Coordination
          \/ \E i \in DOMAIN s : Merged(s)[j] = s[i]
  BY <1>5, <1>7, <1>8, <1>11
<1> QED BY <1>9, <1>10, <1>12

\* The override replaces the rules or is merged into them: it says nothing new of a tool
\* that is not Borg's.
LEMMA OverriddenRules ==
    ASSUME NEW s \in Seq(OpenCodeRules), Distinct(s), NEW m \in Seq(OpenCodeRules),
           NEW w \in Overridden(s, Merged(s), m)
    PROVE  w \in Seq(OpenCodeRules) /\ Permission(w, "other") = Permission(s \o m, "other")
<1>0. PICK o : o = Merged(s)
  OBVIOUS
<1>1. /\ o \in Seq(OpenCodeRules) /\ Permission(o, "other") = Permission(s, "other")
      /\ \A j \in DOMAIN o : o[j][1] \in Coordination \/ \E i \in DOMAIN s : o[j] = s[i]
  BY <1>0, MergedRules
<1>2. Permission(s \o m, "other") =
         IF Matching(m, "other") = {} THEN Permission(s, "other") ELSE Permission(m, "other")
  BY LaterRules
<1>3. CASE w = o \o m
  <2>1. Permission(w, "other") =
           IF Matching(m, "other") = {} THEN Permission(o, "other") ELSE Permission(m, "other")
    BY <1>1, <1>3, LaterRules
  <2>2. w \in Seq(OpenCodeRules)
    BY <1>1, <1>3
  <2> QED BY <1>1, <1>2, <2>1, <2>2
<1> DEFINE P(i, j) == o[j][1] = s[i][1]
           r == [i \in DOMAIN s |-> IF \E j \in DOMAIN o : P(i, j)
                                    THEN o[CHOOSE j \in DOMAIN o : P(i, j)] ELSE s[i]]
           K == {j \in DOMAIN o : \A i \in DOMAIN s : s[i][1] # o[j][1]}
           q == Chosen(o, K)
<1>4. CASE w = r \o q \o m
  <2>1. /\ q \in Seq(OpenCodeRules) /\ DOMAIN q = 1..Cardinality(K)
        /\ \A l \in 1..Cardinality(K) : Nth(K, l) \in K /\ q[l] = o[Nth(K, l)]
    <3>1. K \in SUBSET (DOMAIN o)
      OBVIOUS
    <3>2. q = Chosen(o, K)
      OBVIOUS
    <3> HIDE DEF K, q
    <3> QED BY <1>1, <3>1, <3>2, ChosenFrom
  <2>2. \A j \in K : o[j][1] \in Coordination
    BY <1>1
  <2>3. \A l \in DOMAIN q : q[l][1] \in Coordination
    BY <2>1, <2>2
  <2>4. Matching(q, "other") = {}
    BY <2>3 DEF Matching, Coordination
  <2>5. ASSUME NEW i \in DOMAIN s
        PROVE  /\ r[i] \in OpenCodeRules /\ r[i][1] = s[i][1]
               /\ s[i][1] \notin Coordination => r[i] = s[i]
    <3>1. CASE \E j \in DOMAIN o : P(i, j)
      <4>1. PICK j \in DOMAIN o : P(i, j) /\ r[i] = o[j]
        BY <3>1
      <4>2. o[j] \in OpenCodeRules /\ o[j][1] = s[i][1]
        BY <1>1, <4>1
      <4>3. ASSUME s[i][1] \notin Coordination PROVE o[j] = s[i]
        <5>1. PICK k \in DOMAIN s : o[j] = s[k]
          BY <1>1, <4>2, <4>3
        <5>2. k = i
          BY <4>2, <5>1 DEF Distinct
        <5> QED BY <5>1, <5>2
      <4> QED BY <4>1, <4>2, <4>3
    <3>2. CASE ~ \E j \in DOMAIN o : P(i, j)
      <4>1. r[i] = s[i]
        BY <3>2
      <4>2. s[i] \in OpenCodeRules
        OBVIOUS
      <4> QED BY <4>1, <4>2
    <3> QED BY <3>1, <3>2
  <2>6. DOMAIN r = DOMAIN s
    OBVIOUS
  <2> HIDE DEF r, q, K, P
  <2>7. r \in Seq(OpenCodeRules)
    <3>1. PICK n \in Nat : DOMAIN s = 1..n
      OBVIOUS
    <3>2. r \in [1..n -> OpenCodeRules]
      <4>1. r = [i \in DOMAIN s |-> r[i]]
        BY DEF r
      <4> QED BY <2>5, <3>1, <4>1
    <3> QED BY <3>1, <3>2
  <2>8. Matching(r, "other") = Matching(s, "other")
    BY <2>5, <2>6 DEF Matching
  <2>9. Permission(r, "other") = Permission(s, "other")
    <3>1. CASE Matching(s, "other") = {}
      BY <2>8, <3>1 DEF Permission
    <3>2. CASE Matching(s, "other") # {}
      <4>1. PICK i : i = Max(Matching(s, "other"))
        OBVIOUS
      <4>2. /\ i \in Matching(s, "other") /\ Permission(s, "other") = s[i][2]
            /\ Permission(r, "other") = r[i][2]
        BY <2>7, <2>8, <3>2, <4>1, RuleList
      <4>3. i \in DOMAIN s /\ s[i][1] \notin Coordination
        BY <4>2 DEF Matching, Coordination
      <4> QED BY <2>5, <4>2, <4>3
    <3> QED BY <3>1, <3>2
  <2>10. r \o q \in Seq(OpenCodeRules)
    BY <2>1, <2>7
  <2>11. Permission(r \o q, "other") = Permission(r, "other")
    BY <2>1, <2>4, <2>7, LaterRules
  <2>12. Permission(w, "other") =
            IF Matching(m, "other") = {} THEN Permission(r \o q, "other") ELSE Permission(m, "other")
    BY <1>4, <2>10, LaterRules
  <2>13. w \in Seq(OpenCodeRules)
    BY <1>4, <2>10
  <2> QED BY <1>2, <2>9, <2>11, <2>12, <2>13
<1> QED
  BY <1>0, <1>3, <1>4 DEF Overridden

-----------------------------------------------------------------------------
(* A launch from its first query to its end.                               *)

Decided == OverCodex \cup {"agent", "bind", "running"}

\* What a launch whose configuration nobody has edited holds at each place.
PolicyKept(l) ==
    /\ l.cli = "codex" =>
         /\ l.pc \in {"read", "verify", "inspect"} => l.approval = NoPolicy
         /\ l.pc \in {"verify", "inspect"} =>
              l.config = Owned /\ Migrated(Owned) /\ l.compat = compatibilityArgs(Unaided)
         /\ l.pc = "inspect" => TuiConfig(cfg, user, NoPolicy, l.compat) = Owned
         /\ l.pc = "finalize" => Respects(l.config)
         /\ l.pc \in Decided =>
              Respects(l.compat) /\ ServerConfig(cfg, user, Then(l.approval, l.compat)) = l.compat
    /\ l.cli = "opencode" => l.permission = <<>> \/ Respected(l.permission)

PolicyInv ==
    /\ Configured
    /\ \A p \in Launchers \ overtaken : launch[p].pc \in UnderWay => PolicyKept(launch[p])

LEMMA LayersConfigured ==
    ASSUME Configured
    PROVE  Layering /\ rules \in Seq(OpenCodeRules) /\ Distinct(rules)
           /\ cfg.managedRules \in Seq(OpenCodeRules)
  BY DEF Configured, Layering

\* A step of one launch.
LEMMA PolicySteps ==
    ASSUME SocketInv, PolicyInv, NEW p \in Launchers, NEW r,
           launch' = [launch EXCEPT ![p] = r], UNCHANGED <<cfg, user, rules, overtaken>>,
           p \notin overtaken /\ r.pc \in UnderWay => PolicyKept(r)
    PROVE  PolicyInv'
<1>1. launch'[p] = r /\ \A q \in Launchers \ {p} : launch'[q] = launch[q]
  BY DEF SocketInv
<1>2. \A l : PolicyKept(l) => PolicyKept(l)'
  BY DEF PolicyKept, Respects, Respected, Owned, Unaided
<1>3. Configured'
  BY DEF PolicyInv, Configured
<1>4. ASSUME NEW q \in Launchers, q \notin overtaken, launch'[q].pc \in UnderWay
      PROVE  PolicyKept(launch'[q])
  <2>1. CASE q = p
    BY <1>1, <1>4, <2>1
  <2>2. CASE q # p
    BY <1>1, <1>4, <2>2 DEF PolicyInv
  <2> QED BY <2>1, <2>2
<1>5. \A q \in Launchers \ overtaken' : launch'[q].pc \in UnderWay => PolicyKept(launch[q])'
  <2> SUFFICES ASSUME NEW q \in Launchers, q \notin overtaken, launch'[q].pc \in UnderWay
               PROVE  PolicyKept(launch[q])'
    OBVIOUS
  <2>1. PolicyKept(launch'[q])
    BY <1>4
  <2> QED BY <2>1 DEF PolicyKept, Respects, Respected, Owned, Unaided
<1> QED BY <1>3, <1>5 DEF PolicyInv

\* A launch keeps what it has decided.
SameDecision(l, r) ==
    /\ r.cli = l.cli /\ r.config = l.config /\ r.approval = l.approval
    /\ r.compat = l.compat /\ r.permission = l.permission

LEMMA LaunchMovesOn ==
    ASSUME SocketInv, PolicyInv, NEW p \in Launchers, launch[p].pc \in Decided,
           UNCHANGED <<cfg, user, rules, overtaken>>,
           NEW r, launch' = [launch EXCEPT ![p] = r], SameDecision(launch[p], r), r.pc \in Decided
    PROVE  PolicyInv'
<1>1. p \notin overtaken => PolicyKept(launch[p])
  BY DEF PolicyInv, Decided, UnderWay
<1>2. PolicyKept(launch[p]) => PolicyKept(r)
  BY DEF PolicyKept, SameDecision, Decided, OverCodex
<1> QED BY <1>1, <1>2, PolicySteps

LEMMA LaunchEnds ==
    ASSUME SocketInv, PolicyInv, NEW p \in Launchers, UNCHANGED <<cfg, user, rules, overtaken>>,
           \/ launch' = [launch EXCEPT ![p] = Done]
           \/ launch' = [launch EXCEPT ![p] = [pc |-> "dead"]]
    PROVE  PolicyInv'
<1>1. Done.pc \notin UnderWay /\ [pc |-> "dead"].pc \notin UnderWay
  BY DEF Done, UnderWay, Resolving, OverCodex
<1>2. CASE launch' = [launch EXCEPT ![p] = Done]
  BY <1>1, <1>2, PolicySteps
<1>3. CASE launch' = [launch EXCEPT ![p] = [pc |-> "dead"]]
  BY <1>1, <1>3, PolicySteps
<1> QED BY <1>2, <1>3

\* The fields of a launch that goes to another place, or starts over.
LEMMA Goes ==
    ASSUME SocketInv, NEW p \in Launchers, launch[p].pc \in UnderWay, NEW place, GoTo(p, place)
    PROVE  \E r : launch' = [launch EXCEPT ![p] = r] /\ SameDecision(launch[p], r) /\ r.pc = place
<1>1. LaunchRecord(launch[p])
  BY LaunchFields
<1>2. PICK r : r = [launch[p] EXCEPT !.pc = place]
  OBVIOUS
<1>3. launch' = [launch EXCEPT ![p] = r]
  BY <1>2 DEF GoTo
<1>4. SameDecision(launch[p], r) /\ r.pc = place
  BY <1>1, <1>2 DEF LaunchRecord, SameDecision
<1> QED BY <1>3, <1>4

LEMMA GoesOn ==
    ASSUME SocketInv, PolicyInv, NEW p \in Launchers, launch[p].pc \in Decided,
           UNCHANGED <<cfg, user, rules, overtaken>>, NEW place \in Decided, GoTo(p, place)
    PROVE  PolicyInv'
<1>1. launch[p].pc \in UnderWay
  BY DEF Decided, UnderWay
<1>2. PICK r : launch' = [launch EXCEPT ![p] = r] /\ SameDecision(launch[p], r) /\ r.pc = place
  BY <1>1, Goes
<1> QED BY <1>2, LaunchMovesOn

LEMMA TriesAgain ==
    ASSUME SocketInv, PolicyInv, NEW p \in Launchers, launch[p].pc \in Decided,
           UNCHANGED <<cfg, user, rules, overtaken>>, NextAttempt(p)
    PROVE  PolicyInv'
<1>1. LaunchRecord(launch[p])
  BY LaunchFields DEF Decided, UnderWay
<1>2. CASE launch' = [launch EXCEPT ![p].attempt = @ + 1, ![p].pc = "spawn"]
  <2>1. PICK r : r = [launch[p] EXCEPT !.attempt = @ + 1, !.pc = "spawn"]
    OBVIOUS
  <2>2. launch' = [launch EXCEPT ![p] = r]
    BY <1>2, <2>1
  <2>3. SameDecision(launch[p], r) /\ r.pc = "spawn"
    BY <1>1, <2>1 DEF LaunchRecord, SameDecision
  <2> QED BY <2>2, <2>3, LaunchMovesOn DEF Decided, OverCodex
<1> QED BY <1>2, LaunchEnds DEF NextAttempt

\* After the decision.
LEMMA DecisionStands ==
    ASSUME SocketInv, PolicyInv, NEW p \in Launchers,
           \/ PruneScan(p) \/ PruneRemove(p) \/ SpawnServer(p) \/ FillPid(p)
           \/ ProbeReady(p) \/ GiveUp(p)
           \/ StartAgent(p) \/ AgentRefused(p) \/ BindOpenCode(p) \/ AgentExits(p)
    PROVE  PolicyInv'
<1>0. {"scan", "prune", "spawn", "pid", "probe", "agent", "bind", "running"} \subseteq Decided
  BY DEF Decided, OverCodex
<1>1. launch[p].pc \in Decided
  BY <1>0 DEF PruneScan, PruneRemove, SpawnServer, FillPid, ProbeReady, GiveUp, StartAgent,
              AgentRefused, BindOpenCode, AgentExits
<1>2. UNCHANGED <<cfg, user, rules, overtaken>>
  BY DEF Config, PruneScan, PruneRemove, SpawnServer, FillPid, ProbeReady, GiveUp, StartAgent,
         AgentRefused, BindOpenCode, AgentExits
<1>3. LaunchRecord(launch[p])
  BY <1>1, LaunchFields DEF Decided, UnderWay
<1>4. CASE PruneScan(p)
  <2>1. PICK r : r = [launch[p] EXCEPT !.pc = "prune", !.doomed = {s \in Servers : StalePid(s)}]
    OBVIOUS
  <2>2. launch' = [launch EXCEPT ![p] = r]
    BY <1>4, <2>1 DEF PruneScan
  <2>3. SameDecision(launch[p], r) /\ r.pc = "prune"
    BY <1>3, <2>1 DEF LaunchRecord, SameDecision
  <2> QED BY <1>0, <1>1, <1>2, <2>2, <2>3, LaunchMovesOn
<1>5. CASE PruneRemove(p)
  <2>1. PICK r : r = [launch[p] EXCEPT !.pc = "spawn", !.doomed = {}]
    OBVIOUS
  <2>2. launch' = [launch EXCEPT ![p] = r]
    BY <1>5, <2>1 DEF PruneRemove
  <2>3. SameDecision(launch[p], r) /\ r.pc = "spawn"
    BY <1>3, <2>1 DEF LaunchRecord, SameDecision
  <2> QED BY <1>0, <1>1, <1>2, <2>2, <2>3, LaunchMovesOn
<1>6. CASE SpawnServer(p)
  <2>1. GoTo(p, "pid") \/ NextAttempt(p)
    BY <1>6 DEF SpawnServer
  <2> QED BY <1>0, <1>1, <1>2, <2>1, GoesOn, TriesAgain
<1>7. CASE FillPid(p)
  <2>1. GoTo(p, "probe")
    BY <1>7 DEF FillPid
  <2> QED BY <1>0, <1>1, <1>2, <2>1, GoesOn
<1>8. CASE ProbeReady(p)
  <2>1. GoTo(p, "agent")
    BY <1>8 DEF ProbeReady
  <2> QED BY <1>0, <1>1, <1>2, <2>1, GoesOn
<1>9. CASE GiveUp(p)
  BY <1>1, <1>2, <1>9, TriesAgain DEF GiveUp
<1>10. CASE StartAgent(p)
  <2>1. PICK place \in Decided :
            place = IF launch[p].cli = "opencode" THEN "bind" ELSE "running"
    BY <1>0
  <2>2. PICK r : r = [launch[p] EXCEPT !.child = TRUE, !.pc = place]
    OBVIOUS
  <2>3. launch' = [launch EXCEPT ![p] = r]
    BY <1>10, <2>1, <2>2 DEF StartAgent
  <2>4. SameDecision(launch[p], r) /\ r.pc = place
    BY <1>3, <2>2 DEF LaunchRecord, SameDecision
  <2> QED BY <1>1, <1>2, <2>3, <2>4, LaunchMovesOn
<1>11. CASE AgentRefused(p)
  BY <1>2, <1>11, LaunchEnds DEF AgentRefused
<1>12. CASE BindOpenCode(p)
  <2>1. CASE GoTo(p, "running")
    BY <1>0, <1>1, <1>2, <2>1, GoesOn
  <2>2. CASE launch' = [launch EXCEPT ![p].pc = "agent", ![p].child = FALSE, ![p].attempt = @ + 1]
    <3>1. PICK r : r = [launch[p] EXCEPT !.pc = "agent", !.child = FALSE, !.attempt = @ + 1]
      OBVIOUS
    <3>2. launch' = [launch EXCEPT ![p] = r]
      BY <2>2, <3>1
    <3>3. SameDecision(launch[p], r) /\ r.pc = "agent"
      BY <1>3, <3>1 DEF LaunchRecord, SameDecision
    <3> QED BY <1>0, <1>1, <1>2, <3>2, <3>3, LaunchMovesOn
  <2> QED BY <1>2, <1>12, <2>1, <2>2, LaunchEnds DEF BindOpenCode
<1>13. CASE AgentExits(p)
  BY <1>2, <1>13, LaunchEnds DEF AgentExits
<1> QED
  BY <1>4, <1>5, <1>6, <1>7, <1>8, <1>9, <1>10, <1>11, <1>12, <1>13

\* The queries of Codex: read, then verified when something was completed.
LEMMA PolicyIsRead ==
    ASSUME SocketInv, PolicyInv, NEW p \in Launchers, ReadCodex(p)
    PROVE  PolicyInv'
<1>1. launch[p].pc = "read" /\ launch[p].cli = "codex" /\ UNCHANGED <<cfg, user, rules, overtaken>>
  BY DEF ReadCodex, Config
<1>2. LaunchRecord(launch[p]) /\ (p \notin overtaken => PolicyKept(launch[p])) /\ Layering
  <2>1. launch[p].pc \in UnderWay
    BY <1>1 DEF UnderWay, Resolving
  <2> QED BY <2>1, LaunchFields, LayersConfigured DEF PolicyInv
<1>3. CASE launch' = [launch EXCEPT ![p] = Done]
  BY <1>1, <1>3, LaunchEnds
<1>4. CASE LayersMigrated(cfg, user, cfg.flags) /\ Migrated(Owned)
           /\ launch' = [launch EXCEPT ![p].config = Owned, ![p].compat = compatibilityArgs(Unaided),
                                       ![p].pc = IF compatibilityArgs(Unaided) = NoPolicy
                                                 THEN "inspect" ELSE "verify"]
  <2>1. PICK c : c = compatibilityArgs(Unaided)
    OBVIOUS
  <2>2. PICK place : place = IF c = NoPolicy THEN "inspect" ELSE "verify"
    OBVIOUS
  <2>3. PICK r : r = [launch[p] EXCEPT !.config = Owned, !.compat = c, !.pc = place]
    OBVIOUS
  <2>4. launch' = [launch EXCEPT ![p] = r]
    BY <1>4, <2>1, <2>2, <2>3
  <2>5. /\ r.cli = "codex" /\ r.pc = place /\ r.config = Owned /\ r.compat = c
        /\ r.approval = launch[p].approval
    BY <1>1, <1>2, <2>3 DEF LaunchRecord
  <2>6. place \in {"inspect", "verify"}
    BY <2>2
  <2>7. place = "inspect" => TuiConfig(cfg, user, NoPolicy, c) = Owned
    <3>1. ASSUME place = "inspect" PROVE c = NoPolicy
      BY <2>2, <3>1
    <3>2. c = NoPolicy => Unaided = Owned
      BY <1>2, <2>1, CompleteAlready
    <3> QED BY <3>1, <3>2 DEF Unaided
  <2>8. p \notin overtaken => PolicyKept(r)
    BY <1>1, <1>2, <1>4, <2>1, <2>5, <2>6, <2>7 DEF PolicyKept, Decided, OverCodex
  <2> QED BY <1>1, <2>4, <2>8, PolicySteps
<1> QED
  BY <1>3, <1>4 DEF ReadCodex, Owned, Unaided

LEMMA PolicyIsVerified ==
    ASSUME SocketInv, PolicyInv, NEW p \in Launchers, VerifyCompatible(p)
    PROVE  PolicyInv'
<1>1. launch[p].pc = "verify" /\ UNCHANGED <<cfg, user, rules, overtaken>>
  BY DEF VerifyCompatible, Config
<1>2. LaunchRecord(launch[p]) /\ (p \notin overtaken => PolicyKept(launch[p])) /\ Layering
      /\ launch[p].cli = "codex"
  <2>1. launch[p].pc \in UnderWay
    BY <1>1 DEF UnderWay, Resolving
  <2>2. launch[p].cli = "codex"
    BY <1>1, <2>1, LaunchFields DEF LaunchTyped
  <2> QED BY <2>1, <2>2, LaunchFields, LayersConfigured DEF PolicyInv
<1>3. CASE launch' = [launch EXCEPT ![p] = Done]
  BY <1>1, <1>3, LaunchEnds
<1>4. PICK f : f = TuiConfig(cfg, user, NoPolicy, launch[p].compat)
  OBVIOUS
<1>5. CASE /\ f.tools = launch[p].config.tools /\ f.off = launch[p].config.off
           /\ launch' = [launch EXCEPT ![p].config = f, ![p].pc = "inspect"]
  <2>1. PICK r : r = [launch[p] EXCEPT !.config = f, !.pc = "inspect"]
    OBVIOUS
  <2>2. launch' = [launch EXCEPT ![p] = r]
    BY <1>5, <2>1
  <2>3. /\ r.cli = "codex" /\ r.pc = "inspect" /\ r.config = f
        /\ r.approval = launch[p].approval /\ r.compat = launch[p].compat
    BY <1>2, <2>1 DEF LaunchRecord
  <2>4. ASSUME p \notin overtaken PROVE PolicyKept(r)
    <3>1. /\ launch[p].config = Owned /\ Migrated(Owned) /\ launch[p].approval = NoPolicy
          /\ launch[p].compat = compatibilityArgs(Unaided)
      BY <1>1, <1>2, <2>4 DEF PolicyKept
    <3>2. f = Owned
      BY <1>2, <1>4, <1>5, <3>1, CompletionVerified
    <3> QED BY <1>4, <2>3, <3>1, <3>2 DEF PolicyKept, Decided, OverCodex
  <2> QED BY <1>1, <2>2, <2>4, PolicySteps
<1> QED
  BY <1>3, <1>4, <1>5 DEF VerifyCompatible

\* The override, or the operator's own policy.
LEMMA OwnPolicyIsTaken ==
    ASSUME SocketInv, PolicyInv, NEW p \in Launchers, launch[p].pc = "inspect",
           UNCHANGED <<cfg, user, rules, overtaken>>, GoTo(p, "finalize")
    PROVE  PolicyInv'
<1>1. launch[p].pc \in UnderWay
  BY DEF UnderWay, Resolving
<1>2. launch[p].cli = "codex" /\ (p \notin overtaken => PolicyKept(launch[p])) /\ Layering
  BY <1>1, LaunchFields, LayersConfigured DEF PolicyInv, LaunchTyped
<1>3. PICK r : launch' = [launch EXCEPT ![p] = r] /\ SameDecision(launch[p], r) /\ r.pc = "finalize"
  BY <1>1, Goes
<1>4. ASSUME p \notin overtaken PROVE PolicyKept(r)
  <2>1. launch[p].config = Owned /\ Migrated(Owned)
    BY <1>2, <1>4 DEF PolicyKept
  <2>2. Respects(Owned)
    BY <1>2, <2>1, OwnRespected
  <2> QED BY <1>2, <1>3, <2>1, <2>2 DEF PolicyKept, SameDecision, Decided, OverCodex
<1> QED BY <1>3, <1>4, PolicySteps

LEMMA PolicyIsInspected ==
    ASSUME SocketInv, PolicyInv, NEW p \in Launchers, NEW skip, InspectCodex(p, skip)
    PROVE  PolicyInv'
<1>1. launch[p].pc = "inspect" /\ UNCHANGED <<cfg, user, rules, overtaken>>
  BY DEF InspectCodex, Config
<1>2. LaunchRecord(launch[p]) /\ (p \notin overtaken => PolicyKept(launch[p])) /\ Layering
      /\ launch[p].cli = "codex"
  <2>1. launch[p].pc \in UnderWay
    BY <1>1 DEF UnderWay, Resolving
  <2>2. launch[p].cli = "codex"
    BY <1>1, <2>1, LaunchFields DEF LaunchTyped
  <2> QED BY <2>1, <2>2, LaunchFields, LayersConfigured DEF PolicyInv
<1>3. CASE GoTo(p, "finalize")
  BY <1>1, <1>3, OwnPolicyIsTaken
<1>4. PICK a, l, w : /\ a = codexBorgApprovalArgs(launch[p].config)
                     /\ l = [launch[p].compat EXCEPT !.tools = NoPolicy.tools]
                     /\ w = TuiConfig(cfg, user, a, l)
  OBVIOUS
<1>5. CASE /\ Migrated(w)
           /\ launch' = [launch EXCEPT ![p].pc = "finalize", ![p].config = w,
                                       ![p].approval = a, ![p].compat = l]
  <2>1. PICK r : r = [launch[p] EXCEPT !.pc = "finalize", !.config = w, !.approval = a, !.compat = l]
    OBVIOUS
  <2>2. launch' = [launch EXCEPT ![p] = r]
    BY <1>5, <2>1
  <2>3. r.cli = "codex" /\ r.pc = "finalize" /\ r.config = w
    BY <1>2, <2>1 DEF LaunchRecord
  <2>4. ASSUME p \notin overtaken PROVE PolicyKept(r)
    <3>1. /\ launch[p].config = Owned /\ Migrated(Owned)
          /\ launch[p].compat = compatibilityArgs(Unaided)
          /\ TuiConfig(cfg, user, NoPolicy, launch[p].compat) = Owned
      BY <1>1, <1>2, <2>4 DEF PolicyKept
    <3>2. Respects(w)
      BY <1>2, <1>4, <1>5, <3>1, OverrideRespects
    <3> QED BY <2>3, <3>2 DEF PolicyKept, Decided, OverCodex
  <2> QED BY <1>1, <2>2, <2>4, PolicySteps
<1> QED
  BY <1>3, <1>4, <1>5 DEF InspectCodex

\* The server resolves to exactly the policy it is given.
LEMMA PolicyIsPassed ==
    ASSUME SocketInv, PolicyInv, NEW p \in Launchers, FinalizeCodex(p)
    PROVE  PolicyInv'
<1>1. launch[p].pc = "finalize" /\ UNCHANGED <<cfg, user, rules, overtaken>>
  BY DEF FinalizeCodex, Config
<1>2. LaunchRecord(launch[p]) /\ (p \notin overtaken => PolicyKept(launch[p]))
      /\ launch[p].cli = "codex"
  <2>1. launch[p].pc \in UnderWay
    BY <1>1 DEF UnderWay, Resolving
  <2>2. launch[p].cli = "codex"
    BY <1>1, <2>1, LaunchFields DEF LaunchTyped
  <2> QED BY <2>1, <2>2, LaunchFields DEF PolicyInv
<1>3. CASE launch' = [launch EXCEPT ![p] = Done]
  BY <1>1, <1>3, LaunchEnds
<1>4. PICK f : f = launch[p].config
  OBVIOUS
<1>5. CASE /\ ServerConfig(cfg, user, Then(launch[p].approval, f)) = f
           /\ launch' = [launch EXCEPT ![p].pc = "scan", ![p].compat = f]
  <2>1. PICK r : r = [launch[p] EXCEPT !.pc = "scan", !.compat = f]
    OBVIOUS
  <2>2. launch' = [launch EXCEPT ![p] = r]
    BY <1>5, <2>1
  <2>3. r.cli = "codex" /\ r.pc = "scan" /\ r.compat = f /\ r.approval = launch[p].approval
    BY <1>2, <2>1 DEF LaunchRecord
  <2>4. ASSUME p \notin overtaken PROVE PolicyKept(r)
    <3>1. Respects(f)
      BY <1>1, <1>2, <1>4, <2>4 DEF PolicyKept
    <3> QED BY <1>5, <2>3, <3>1 DEF PolicyKept
  <2> QED BY <1>1, <2>2, <2>4, PolicySteps
<1> QED
  BY <1>3, <1>4, <1>5 DEF FinalizeCodex

LEMMA RulesAreRead ==
    ASSUME SocketInv, PolicyInv, NEW p \in Launchers, NEW skip, ReadOpenCode(p, skip)
    PROVE  PolicyInv'
<1>1. launch[p].pc = "read" /\ launch[p].cli = "opencode" /\ UNCHANGED <<cfg, user, rules, overtaken>>
  BY DEF ReadOpenCode, Config
<1>2. launch[p].pc \in UnderWay
  BY <1>1 DEF UnderWay, Resolving
<1>3. LaunchRecord(launch[p]) /\ (p \notin overtaken => PolicyKept(launch[p]))
      /\ rules \in Seq(OpenCodeRules) /\ Distinct(rules) /\ cfg.managedRules \in Seq(OpenCodeRules)
  BY <1>2, LaunchFields, LayersConfigured DEF PolicyInv
<1>4. CASE launch' = [launch EXCEPT ![p] = Done]
  BY <1>1, <1>4, LaunchEnds
<1>5. CASE GoTo(p, "agent")
  <2>1. PICK r : launch' = [launch EXCEPT ![p] = r] /\ SameDecision(launch[p], r) /\ r.pc = "agent"
    BY <1>2, <1>5, Goes
  <2>2. p \notin overtaken => PolicyKept(r)
    BY <1>1, <1>3, <2>1 DEF PolicyKept, SameDecision
  <2> QED BY <1>1, <2>1, <2>2, PolicySteps
<1>6. ASSUME NEW with \in Overridden(rules, Merged(rules), cfg.managedRules), NEW kept,
             kept = IF AdjacentPairs(with) /\ Permission(with, "tool") = "allow" THEN with ELSE <<>>,
             launch' = [launch EXCEPT ![p].pc = "agent", ![p].permission = kept]
      PROVE  PolicyInv'
  <2>1. PICK r : r = [launch[p] EXCEPT !.pc = "agent", !.permission = kept]
    OBVIOUS
  <2>2. launch' = [launch EXCEPT ![p] = r]
    BY <1>6, <2>1
  <2>3. r.cli = "opencode" /\ r.pc = "agent" /\ r.permission = kept
    BY <1>1, <1>3, <2>1 DEF LaunchRecord
  <2>4. kept = <<>> \/ Respected(kept)
    <3>1. CASE kept = <<>>
      BY <3>1
    <3>2. CASE kept = with /\ AdjacentPairs(with)
      <4>1. /\ with \in Seq(OpenCodeRules)
            /\ Permission(with, "other") = Permission(rules \o cfg.managedRules, "other")
        BY <1>3, <1>6, OverriddenRules
      <4>2. Permission(with, "tool") = Permission(with, "alias")
        BY <3>2, <4>1, PairsAgree
      <4> QED BY <3>2, <4>1, <4>2 DEF Respected
    <3> QED BY <1>6, <3>1, <3>2
  <2>5. PolicyKept(r)
    BY <2>3, <2>4 DEF PolicyKept
  <2> QED BY <1>1, <2>2, <2>5, PolicySteps
<1> QED
  BY <1>4, <1>5, <1>6 DEF ReadOpenCode

LEMMA ResolvingSteps ==
    ASSUME SocketInv, PolicyInv, NEW p \in Launchers,
           \/ \E cli \in {"claude", "codex", "opencode"} : LaunchCli(p, cli)
           \/ ReadClaude(p) \/ ReadCodex(p) \/ VerifyCompatible(p) \/ FinalizeCodex(p)
           \/ \E skip \in BOOLEAN : InspectCodex(p, skip) \/ ReadOpenCode(p, skip)
           \/ QueryFails(p) \/ LauncherDies(p)
    PROVE  PolicyInv'
<1>1. ASSUME NEW cli \in {"claude", "codex", "opencode"}, LaunchCli(p, cli) PROVE PolicyInv'
  <2>1. launch' = [launch EXCEPT ![p] = Launching(cli)] /\ UNCHANGED <<cfg, user, rules, overtaken>>
    BY <1>1 DEF LaunchCli, Config
  <2>2. PolicyKept(Launching(cli))
    BY DEF PolicyKept, Launching, Decided, OverCodex
  <2> QED BY <2>1, <2>2, PolicySteps
<1>2. CASE ReadClaude(p)
  <2>1. /\ launch[p].pc = "read" /\ launch[p].cli = "claude" /\ launch[p].pc \in UnderWay
        /\ UNCHANGED <<cfg, user, rules, overtaken>>
        /\ GoTo(p, "agent") \/ launch' = [launch EXCEPT ![p] = Done]
    BY <1>2 DEF ReadClaude, Config, UnderWay, Resolving
  <2>2. CASE GoTo(p, "agent")
    <3>1. PICK r : launch' = [launch EXCEPT ![p] = r] /\ SameDecision(launch[p], r) /\ r.pc = "agent"
      BY <2>1, <2>2, Goes
    <3>2. PolicyKept(r)
      BY <2>1, <3>1 DEF PolicyKept, SameDecision
    <3> QED BY <2>1, <3>1, <3>2, PolicySteps
  <2> QED BY <2>1, <2>2, LaunchEnds
<1>3. CASE QueryFails(p)
  <2>1. /\ UNCHANGED <<cfg, user, rules, overtaken>>
        /\ \/ launch' = [launch EXCEPT ![p] = Done]
           \/ launch[p].pc = "inspect" /\ GoTo(p, "finalize")
    BY <1>3 DEF QueryFails, Config
  <2> QED BY <2>1, LaunchEnds, OwnPolicyIsTaken
<1>4. CASE LauncherDies(p)
  BY <1>4, LaunchEnds DEF LauncherDies, Config
<1> QED
  BY <1>1, <1>2, <1>3, <1>4, PolicyIsRead, PolicyIsVerified, PolicyIsPassed, PolicyIsInspected,
     RulesAreRead

LEMMA PolicyNext ==
    ASSUME SocketInv, PolicyInv, NEW edit \in SUBSET Fragments, [LaunchNext(edit)]_launchVars
    PROVE  PolicyInv'
<1>1. ASSUME UNCHANGED <<launch, cfg, rules>>, user' \in Fragments, overtaken \subseteq overtaken',
             user' = user \/ \A p \in Launchers \ overtaken' : launch[p].pc \notin UnderWay
      PROVE  PolicyInv'
  <2>1. Configured'
    BY <1>1 DEF PolicyInv, Configured
  <2>2. CASE user' = user
    <3> SUFFICES ASSUME NEW p \in Launchers, p \notin overtaken', launch[p].pc \in UnderWay
                 PROVE  PolicyKept(launch[p])'
      BY <1>1, <2>1 DEF PolicyInv
    <3>1. PolicyKept(launch[p])
      BY <1>1 DEF PolicyInv
    <3> QED BY <1>1, <2>2, <3>1 DEF PolicyKept, Respects, Respected, Owned, Unaided
  <2>3. CASE \A p \in Launchers \ overtaken' : launch[p].pc \notin UnderWay
    BY <1>1, <2>1, <2>3 DEF PolicyInv
  <2> QED BY <1>1, <2>2, <2>3
<1>2. user \in Fragments
  BY DEF PolicyInv, Configured
<1>3. CASE UNCHANGED <<launch, cfg, rules, user, overtaken>>
  BY <1>1, <1>2, <1>3
<1>4. ASSUME NEW f \in edit, EditConfig(f) PROVE PolicyInv'
  <2>1. /\ UNCHANGED <<launch, cfg, rules>> /\ user' \in Fragments
        /\ overtaken' = {p \in Launchers : launch[p].pc \notin {"idle", "done"}} \cup overtaken
    BY <1>4 DEF EditConfig, Fixed
  <2>2. \A p \in Launchers \ overtaken' : launch[p].pc \notin UnderWay
    BY <2>1 DEF UnderWay, Resolving, OverCodex
  <2> QED BY <1>1, <2>1, <2>2
<1>5. ASSUME NEW s \in Servers, ServerListens(s) \/ ServerExits(s) PROVE PolicyInv'
  BY <1>3, <1>5 DEF ServerListens, ServerExits, Config
<1>6. CASE UNCHANGED launchVars
  BY <1>3, <1>6 DEF launchVars
<1>7. CASE LaunchNext(edit)
  BY <1>4, <1>5, <1>7, ResolvingSteps, DecisionStands DEF LaunchNext
<1> QED BY <1>6, <1>7

\* What the server of a launch runs with is what the launch decided, and managed policy is
\* over everything else.
LEMMA PolicyHolds ==
    ASSUME SocketInv, PolicyInv
    PROVE  PolicyPreserved
<1> SUFFICES ASSUME NEW p \in Launchers, p \notin overtaken, launch[p].pc = "running"
             PROVE  /\ launch[p].cli = "codex" =>
                         LET run == ServerConfig(cfg, user, Then(launch[p].approval, launch[p].compat))
                             own == Completed(TuiConfig(cfg, user, NoPolicy, NoPolicy))
                         IN  /\ ModeOf(run, "other") = OwnMode("other")
                             /\ ModeOf(run, "tool") \in {OwnMode("tool"), "auto"}
                             /\ cfg.managed.tools["tool"] # "none" =>
                                   ModeOf(run, "tool") = cfg.managed.tools["tool"]
                             /\ ModeOf(run, "tool") = ModeOf(run, "alias")
                             /\ \A n \in Names : Disabled(run, n) <=> Disabled(own, n)
                    /\ launch[p].cli = "opencode" /\ launch[p].permission # <<>> =>
                         /\ Permission(launch[p].permission, "other")
                              = Permission(rules \o cfg.managedRules, "other")
                         /\ Permission(launch[p].permission, "tool")
                              = Permission(launch[p].permission, "alias")
  BY DEF PolicyPreserved
<1>1. launch[p].pc \in UnderWay /\ launch[p].pc \in Decided
  BY DEF UnderWay, Decided
<1>2. PolicyKept(launch[p]) /\ Layering
  BY <1>1, LayersConfigured DEF PolicyInv
<1>3. CASE launch[p].cli = "codex"
  <2>1. PICK f : f = launch[p].compat
    OBVIOUS
  <2>2. PICK a : a = launch[p].approval
    OBVIOUS
  <2>3. Respects(f) /\ ServerConfig(cfg, user, Then(a, f)) = f
    BY <1>1, <1>2, <1>3, <2>1, <2>2 DEF PolicyKept
  <2>4. \A n : OwnMode(n) = ModeOf(Owned, n)
    BY DEF OwnMode, Owned, Unaided
  <2>5. f.tools["tool"] = f.tools["alias"] /\ ModeOf(f, "tool") = ModeOf(f, "alias")
    BY <2>3 DEF Respects, Migrated, ModeOf
  <2>6. \A n \in Names : Disabled(f, n) <=> Disabled(Owned, n)
    BY <2>3 DEF Respects, Disabled
  <2>7. cfg.managed.tools["tool"] # "none" => ModeOf(f, "tool") = cfg.managed.tools["tool"]
    <3>1. f = Merge(Merge(Merge(user, NoPolicy), Then(a, f)), cfg.managed)
      BY <2>3 DEF ServerConfig, Layered
    <3>2. PICK g : f = Merge(g, cfg.managed)
      BY <3>1
    <3>3. f.tools["tool"] = IF cfg.managed.tools["tool"] # "none" THEN cfg.managed.tools["tool"]
                            ELSE g.tools["tool"]
      BY <3>2 DEF Merge, Names
    <3> QED BY <3>3 DEF ModeOf
  <2> QED
    BY <1>3, <2>1, <2>2, <2>3, <2>4, <2>5, <2>6, <2>7 DEF Respects, Owned, Unaided
<1>4. CASE launch[p].cli = "opencode"
  BY <1>2, <1>4 DEF PolicyKept, Respected
<1> QED BY <1>3, <1>4

\* A launched agent runs with what the operator's configuration says of every tool but
\* Borg's, in Codex's private server as in the rules OpenCode gets: for all layers,
\* options, rules and edits, any number of launches, whatever fails on the way
\* (cli-tool-approval.ts:393-413, 443-448, 776-808).
THEOREM PoliciesArePreserved ==
    ASSUME NEW about, NEW edit \in SUBSET Fragments
    PROVE  LaunchSpec(about, edit) => []PolicyPreserved
<1>1. LaunchInit(about) => SocketInv /\ PolicyInv
  <2> SUFFICES ASSUME LaunchInit(about) PROVE SocketInv /\ PolicyInv
    OBVIOUS
  <2>1. SocketInv
    BY SocketAtInit
  <2>2. \A p \in Launchers : launch[p] = Waiting \/ launch[p] = Done
    BY DEF LaunchInit
  <2>3. \A p \in Launchers : launch[p].pc \notin UnderWay
    BY <2>2 DEF Waiting, Done, UnderWay, Resolving, OverCodex
  <2> QED BY <2>1, <2>3 DEF PolicyInv, LaunchInit
<1>2. SocketInv /\ PolicyInv /\ [LaunchNext(edit)]_launchVars => (SocketInv /\ PolicyInv)'
  BY SocketNext, PolicyNext
<1>3. SocketInv /\ PolicyInv => PolicyPreserved
  BY PolicyHolds
<1> QED
  BY <1>1, <1>2, <1>3, PTL DEF LaunchSpec
=============================================================================
