---------------------------- MODULE OpenCodeProofs ----------------------------
(***************************************************************************)
(* Proofs about the three machines that wake an OpenCode agent: the launch *)
(* of OpenCode 2 (OpenCodeHost), its broker (OpenCodeBroker), and the      *)
(* deliveries of OpenCode 1 (OpenCodeDelivery).  They share no state, so   *)
(* each has its own inductive invariant.                                   *)
(***************************************************************************)
EXTENDS OpenCodeDelivery, OpenCodeBroker, OpenCodeHost, TLAPS

(***************************************************************************)
(* OpenCodeHost: two bootstraps exclude each other.                        *)
(***************************************************************************)

\* A launch that has not begun has no supervisor and no server.
NotBegun ==
    \A l \in Launches : boot[l].pc = "idle" => sup[l].pc = "none" /\ server2[l] = "none"

\* The mutex is held while the supervisor serves the bootstrap, and after that only by
\* one that still has to reap.
HoldsMutex ==
    \A l \in Launches : /\ sup[l].pc = "holding" => mutex2 = l
                        /\ sup[l].pc = "released" => sup[l].released

\* A server that bootstraps has a supervisor that holds the mutex for it.
ServerUnderMutex ==
    \A l \in Launches : Bootstrapping(l) => mutex2 = l /\ sup[l].pc \in {"holding", "reaping"}

\* The types, as far as a step depends on them.
Commands == {"start", "close", "release"}
Replies2 == {"none", "started", "refused", "changed", "closed", "released"}
Supervisors ==
    [pc : {"none", "waiting", "holding", "released", "reaping", "gone"}, queue : Seq(Commands),
     reply : Replies2, linked : BOOLEAN, released : BOOLEAN]
LaunchPhases ==
    {"idle", "waiting", "starting", "preparing", "attached", "cleanup", "closing",
     "finally", "releasing", "running", "failed", "ended", "dead"}
Launchers ==
    [pc : LaunchPhases, try : Nat, hosting : BOOLEAN, completed : BOOLEAN, changed : BOOLEAN]

HostTypeOK ==
    /\ mutex2 \in Launches \cup {NoLaunch}
    /\ sup \in [Launches -> Supervisors]
    /\ server2 \in [Launches -> {"none", "booting", "up", "orphan"}]
    /\ boot \in [Launches -> Launchers]

HostInv == HostTypeOK /\ NotBegun /\ HoldsMutex /\ ServerUnderMutex

LEMMA HostInitInv == HostInit => HostInv
<1> SUFFICES ASSUME HostInit PROVE HostInv
  OBVIOUS
<1> USE DEF HostInit, NoSup, AtRest
<1>1. HostTypeOK
  BY DEF HostTypeOK, Supervisors, Launchers, LaunchPhases, Replies2, Commands
<1>2. NotBegun /\ HoldsMutex /\ ServerUnderMutex
  BY DEF NotBegun, HoldsMutex, ServerUnderMutex, Bootstrapping
<1> QED BY <1>1, <1>2 DEF HostInv

\* The queue stays a queue of commands.
LEMMA QueueType ==
    ASSUME NEW q \in Seq(Commands)
    PROVE  /\ <<>> \in Seq(Commands)
           /\ q # <<>> => Tail(q) \in Seq(Commands)
           /\ q \o <<"start">> \in Seq(Commands)
           /\ q \o <<"close">> \in Seq(Commands)
           /\ q \o <<"release">> \in Seq(Commands)
           /\ q \o <<"close", "release">> \in Seq(Commands)
BY DEF Commands

\* What a record update yields.
LEMMA SupervisorType ==
    ASSUME NEW s \in Supervisors, NEW q \in Seq(Commands), NEW r \in Replies2, NEW b \in BOOLEAN,
           NEW c \in {"none", "waiting", "holding", "released", "reaping", "gone"}
    PROVE  /\ [s EXCEPT !.queue = q, !.reply = r] \in Supervisors
           /\ [s EXCEPT !.linked = b] \in Supervisors
           /\ [s EXCEPT !.pc = c] \in Supervisors
           /\ [s EXCEPT !.pc = c, !.linked = b] \in Supervisors
           /\ [s EXCEPT !.pc = c, !.queue = q] \in Supervisors
           /\ [s EXCEPT !.pc = c, !.linked = b, !.queue = q] \in Supervisors
           /\ [s EXCEPT !.queue = q, !.reply = r, !.pc = c, !.released = b] \in Supervisors
BY DEF Supervisors

\* A step of the launcher alone changes nothing the mutex depends on ...
LEMMA LauncherAlone ==
    ASSUME HostInv, NEW l \in Launches, NEW b \in Launchers, b.pc # "idle",
           boot' = [boot EXCEPT ![l] = b], UNCHANGED <<mutex2, sup, server2>>
    PROVE  HostInv'
<1> USE DEF HostInv, HostTypeOK
<1>1. HostTypeOK' /\ NotBegun'
  BY DEF NotBegun
<1>2. HoldsMutex' /\ ServerUnderMutex'
  BY DEF HoldsMutex, ServerUnderMutex, Bootstrapping
<1> QED BY <1>1, <1>2

\* ... nor does one that sends commands.
LEMMA LauncherSends ==
    ASSUME HostInv, NEW l \in Launches, NEW b \in Launchers, b.pc # "idle",
           boot' = [boot EXCEPT ![l] = b], NEW c \in {<<"start">>, <<"close">>, <<"release">>, <<"close", "release">>},
           Send(l, c), UNCHANGED <<mutex2, server2>>
    PROVE  HostInv'
<1> USE DEF HostInv, HostTypeOK, Send, SupIs
<1>1. sup[l] \in Supervisors /\ sup[l].queue \in Seq(Commands)
  BY DEF Supervisors
<1>2. sup' \in [Launches -> Supervisors]
  BY <1>1, QueueType, SupervisorType DEF Replies2
<1>3. \A k \in Launches : sup'[k].pc = sup[k].pc /\ sup'[k].released = sup[k].released
  BY DEF Supervisors
<1>4. HostTypeOK' /\ NotBegun'
  BY <1>2, <1>3 DEF NotBegun
<1>5. HoldsMutex' /\ ServerUnderMutex'
  BY <1>3 DEF HoldsMutex, ServerUnderMutex, Bootstrapping
<1> QED BY <1>4, <1>5

LEMMA LaunchV2Inv ==
    ASSUME HostInv, NEW l \in Launches, LaunchV2(l)
    PROVE  HostInv'
<1> USE DEF HostInv, HostTypeOK, LaunchV2, BootTo, SupIs
<1>1. [NoSup EXCEPT !.pc = "waiting", !.linked = TRUE] \in Supervisors
  <2>1. NoSup \in Supervisors
    BY DEF NoSup, Supervisors, Replies2
  <2> QED BY <2>1 DEF Supervisors
<1>2. boot' \in [Launches -> Launchers]
  BY DEF Launchers, LaunchPhases
<1>3. HostTypeOK'
  BY <1>1, <1>2
<1>4. NotBegun'
  BY DEF NotBegun, Launchers
<1>5. HoldsMutex'
  BY DEF HoldsMutex, NoSup
<1>6. ServerUnderMutex'
  BY DEF ServerUnderMutex, NotBegun, Bootstrapping, NoSup
<1> QED BY <1>3, <1>4, <1>5, <1>6

LEMMA AttemptInv ==
    ASSUME HostInv, NEW l \in Launches, Attempt(l)
    PROVE  HostInv'
<1>0. boot[l] \in Launchers
  BY DEF HostInv, HostTypeOK
<1> DEFINE b == [boot[l] EXCEPT !.pc = "starting", !.try = @ + 1, !.changed = FALSE]
<1>1. b \in Launchers /\ b.pc # "idle"
  <2>1. boot[l].try \in Nat /\ boot[l].try + 1 \in Nat
    BY <1>0 DEF Launchers
  <2> QED BY <1>0, <2>1 DEF Launchers, LaunchPhases
<1>2. boot' = [boot EXCEPT ![l] = b] /\ Send(l, <<"start">>) /\ UNCHANGED <<mutex2, server2>>
  BY <1>0 DEF HostInv, HostTypeOK, Attempt
<1> QED BY <1>1, <1>2, LauncherSends

LEMMA OverlayThrowsInv ==
    ASSUME HostInv, NEW l \in Launches, OverlayThrows(l)
    PROVE  HostInv'
<1>0. boot[l] \in Launchers
  BY DEF HostInv, HostTypeOK
<1>1. [boot[l] EXCEPT !.pc = "finally"] \in Launchers /\ [boot[l] EXCEPT !.pc = "finally"].pc # "idle"
  BY <1>0 DEF Launchers, LaunchPhases
<1>2. boot' = [boot EXCEPT ![l] = [boot[l] EXCEPT !.pc = "finally"]] /\ UNCHANGED <<mutex2, sup, server2>>
  BY DEF HostInv, HostTypeOK, OverlayThrows, BootTo
<1> QED BY <1>1, <1>2, LauncherAlone

LEMMA NotAcquiredInv ==
    ASSUME HostInv, NEW l \in Launches, NotAcquired(l)
    PROVE  HostInv'
<1>0. boot[l] \in Launchers
  BY DEF HostInv, HostTypeOK
<1>1. [boot[l] EXCEPT !.pc = "failed"] \in Launchers /\ [boot[l] EXCEPT !.pc = "failed"].pc # "idle"
  BY <1>0 DEF Launchers, LaunchPhases
<1>2. boot' = [boot EXCEPT ![l] = [boot[l] EXCEPT !.pc = "failed"]] /\ UNCHANGED <<mutex2, sup, server2>>
  BY DEF HostInv, HostTypeOK, NotAcquired, BootTo
<1> QED BY <1>1, <1>2, LauncherAlone

LEMMA TuiExitsInv ==
    ASSUME HostInv, NEW l \in Launches, TuiExits(l)
    PROVE  HostInv'
<1>0. boot[l] \in Launchers
  BY DEF HostInv, HostTypeOK
<1>1. [boot[l] EXCEPT !.pc = "cleanup"] \in Launchers /\ [boot[l] EXCEPT !.pc = "cleanup"].pc # "idle"
  BY <1>0 DEF Launchers, LaunchPhases
<1>2. boot' = [boot EXCEPT ![l] = [boot[l] EXCEPT !.pc = "cleanup"]] /\ UNCHANGED <<mutex2, sup, server2>>
  BY DEF HostInv, HostTypeOK, TuiExits, BootTo
<1> QED BY <1>1, <1>2, LauncherAlone

LEMMA StartedInv ==
    ASSUME HostInv, NEW l \in Launches, Started(l)
    PROVE  HostInv'
<1>0. boot[l] \in Launchers
  BY DEF HostInv, HostTypeOK
<1>1. PICK b \in { [boot[l] EXCEPT !.pc = "preparing", !.hosting = TRUE],
                 [boot[l] EXCEPT !.pc = "cleanup", !.changed = (sup[l].reply = "changed")],
                 [boot[l] EXCEPT !.pc = "cleanup"] } : boot' = [boot EXCEPT ![l] = b]
  BY DEF HostInv, HostTypeOK, Started, BootTo
<1>2. b \in Launchers /\ b.pc # "idle"
  BY <1>0 DEF Launchers, LaunchPhases
<1> QED BY <1>1, <1>2, LauncherAlone DEF Started

LEMMA PreparedInv ==
    ASSUME HostInv, NEW l \in Launches, Prepared(l)
    PROVE  HostInv'
<1>0. boot[l] \in Launchers
  BY DEF HostInv, HostTypeOK
<1>1. PICK b : /\ boot' = [boot EXCEPT ![l] = b]
               /\ \/ b = [boot[l] EXCEPT !.pc = "attached"]
                  \/ \E changed \in BOOLEAN : b = [boot[l] EXCEPT !.pc = "cleanup", !.changed = changed]
  BY DEF HostInv, HostTypeOK, Prepared, BootTo
<1>2. b \in Launchers /\ b.pc # "idle"
  BY <1>0, <1>1 DEF Launchers, LaunchPhases
<1> QED BY <1>1, <1>2, LauncherAlone DEF Prepared

LEMMA KickoffInv ==
    ASSUME HostInv, NEW l \in Launches, Kickoff(l)
    PROVE  HostInv'
<1>0. boot[l] \in Launchers
  BY DEF HostInv, HostTypeOK
<1>1. PICK b \in { [boot[l] EXCEPT !.pc = "finally", !.completed = TRUE],
                 [boot[l] EXCEPT !.pc = "cleanup"] } : boot' = [boot EXCEPT ![l] = b]
  BY DEF HostInv, HostTypeOK, Kickoff, BootTo
<1>2. b \in Launchers /\ b.pc # "idle"
  BY <1>0 DEF Launchers, LaunchPhases
<1> QED BY <1>1, <1>2, LauncherAlone DEF Kickoff

LEMMA CleanupStartsInv ==
    ASSUME HostInv, NEW l \in Launches, CleanupStarts(l)
    PROVE  HostInv'
<1>0. boot[l] \in Launchers
  BY DEF HostInv, HostTypeOK
<1>1. [boot[l] EXCEPT !.pc = "closing"] \in Launchers /\ [boot[l] EXCEPT !.pc = "closing"].pc # "idle"
  BY <1>0 DEF Launchers, LaunchPhases
<1>2. boot' = [boot EXCEPT ![l] = [boot[l] EXCEPT !.pc = "closing"]] /\ UNCHANGED <<mutex2, server2>>
  BY DEF HostInv, HostTypeOK, CleanupStarts, BootTo
<1>3. Send(l, <<"close">>) \/ UNCHANGED sup
  BY DEF CleanupStarts
<1> QED BY <1>1, <1>2, <1>3, LauncherSends, LauncherAlone

LEMMA CleanupEndsInv ==
    ASSUME HostInv, NEW l \in Launches, CleanupEnds(l)
    PROVE  HostInv'
<1>0. boot[l] \in Launchers
  BY DEF HostInv, HostTypeOK
<1> DEFINE ph == CASE boot[l].completed -> "ended"
                   [] ~ boot[l].completed /\ boot[l].changed /\ boot[l].try < LaunchTries
                        /\ ~ Stopped2(l) -> "waiting"
                   [] OTHER -> "finally"
            b == [boot[l] EXCEPT !.hosting = FALSE, !.pc = ph]
<1>1. b \in Launchers /\ b.pc # "idle"
  BY <1>0 DEF Launchers, LaunchPhases
<1>2. boot' = [boot EXCEPT ![l] = b] /\ UNCHANGED <<mutex2, sup, server2>>
  BY DEF HostInv, HostTypeOK, CleanupEnds
<1> QED BY <1>1, <1>2, LauncherAlone

LEMMA FinallyInv ==
    ASSUME HostInv, NEW l \in Launches, Finally(l)
    PROVE  HostInv'
<1>0. boot[l] \in Launchers
  BY DEF HostInv, HostTypeOK
<1>1. [boot[l] EXCEPT !.pc = "releasing"] \in Launchers /\ [boot[l] EXCEPT !.pc = "releasing"].pc # "idle"
  BY <1>0 DEF Launchers, LaunchPhases
<1>2. boot' = [boot EXCEPT ![l] = [boot[l] EXCEPT !.pc = "releasing"]] /\ UNCHANGED <<mutex2, server2>>
  BY DEF HostInv, HostTypeOK, Finally, BootTo
<1>3. Send(l, <<"release">>) \/ Send(l, <<"close", "release">>) \/ UNCHANGED sup
  BY DEF Finally
<1> QED BY <1>1, <1>2, <1>3, LauncherSends, LauncherAlone

LEMMA Released2Inv ==
    ASSUME HostInv, NEW l \in Launches, Released2(l)
    PROVE  HostInv'
<1> USE HostAssumption DEF HostInv, HostTypeOK, Released2, BootTo, SupIs
<1>1. sup[l] \in Supervisors /\ sup[l].queue \in Seq(Commands) /\ sup[l].linked \in BOOLEAN
  BY DEF Supervisors
<1>2. sup' \in [Launches -> Supervisors]
  BY <1>1, QueueType, SupervisorType DEF Replies2
<1>3. boot' \in [Launches -> Launchers]
  BY DEF Launchers, LaunchPhases
<1>4. HostTypeOK'
  BY <1>2, <1>3
<1>5. NotBegun'
  BY DEF NotBegun, Supervisors, Launchers
<1>6. HoldsMutex'
  BY DEF HoldsMutex, NotBegun, Supervisors
<1>7. ServerUnderMutex'
  BY DEF ServerUnderMutex, HoldsMutex, NotBegun, Bootstrapping, Supervisors
<1> QED BY <1>4, <1>5, <1>6, <1>7

LEMMA LauncherDiesInv ==
    ASSUME HostInv, NEW l \in Launches, LauncherDies(l)
    PROVE  HostInv'
<1> USE HostAssumption DEF HostInv, HostTypeOK, LauncherDies, BootTo, SupIs
<1>1. sup[l] \in Supervisors /\ sup[l].queue \in Seq(Commands) /\ sup[l].linked \in BOOLEAN
  BY DEF Supervisors
<1>2. sup' \in [Launches -> Supervisors]
  BY <1>1, QueueType, SupervisorType DEF Replies2
<1>3. boot' \in [Launches -> Launchers]
  BY DEF Launchers, LaunchPhases
<1>4. HostTypeOK'
  BY <1>2, <1>3
<1>5. NotBegun'
  BY DEF NotBegun, Supervisors, Launchers
<1>6. HoldsMutex'
  BY DEF HoldsMutex, NotBegun, Supervisors
<1>7. ServerUnderMutex'
  BY DEF ServerUnderMutex, HoldsMutex, NotBegun, Bootstrapping, Supervisors
<1> QED BY <1>4, <1>5, <1>6, <1>7

LEMMA Acquire2Inv ==
    ASSUME HostInv, NEW l \in Launches, Acquire2(l)
    PROVE  HostInv'
<1> USE HostAssumption DEF HostInv, HostTypeOK, Acquire2, SupIs
<1>1. sup[l] \in Supervisors /\ sup[l].queue \in Seq(Commands) /\ sup[l].linked \in BOOLEAN
  BY DEF Supervisors
<1>2. sup' \in [Launches -> Supervisors]
  BY <1>1, QueueType, SupervisorType DEF Replies2
<1>4. HostTypeOK'
  BY <1>2
<1>5. NotBegun'
  BY DEF NotBegun, Supervisors, Launchers
<1>6. HoldsMutex'
  BY DEF HoldsMutex, NotBegun, Supervisors
<1>7. ServerUnderMutex'
  BY DEF ServerUnderMutex, HoldsMutex, NotBegun, Bootstrapping, Supervisors
<1> QED BY <1>4, <1>5, <1>6, <1>7

LEMMA QueueTimesOutInv ==
    ASSUME HostInv, NEW l \in Launches, QueueTimesOut(l)
    PROVE  HostInv'
<1> USE HostAssumption DEF HostInv, HostTypeOK, QueueTimesOut, SupIs
<1>1. sup[l] \in Supervisors /\ sup[l].queue \in Seq(Commands) /\ sup[l].linked \in BOOLEAN
  BY DEF Supervisors
<1>2. sup' \in [Launches -> Supervisors]
  BY <1>1, QueueType, SupervisorType DEF Replies2
<1>4. HostTypeOK'
  BY <1>2
<1>5. NotBegun'
  BY DEF NotBegun, Supervisors, Launchers
<1>6. HoldsMutex'
  BY DEF HoldsMutex, NotBegun, Supervisors
<1>7. ServerUnderMutex'
  BY DEF ServerUnderMutex, HoldsMutex, NotBegun, Bootstrapping, Supervisors
<1> QED BY <1>4, <1>5, <1>6, <1>7

LEMMA StartServerInv ==
    ASSUME HostInv, NEW l \in Launches, StartServer(l)
    PROVE  HostInv'
<1> USE HostAssumption DEF HostInv, HostTypeOK, StartServer, Heads, Serves
<1>4. HostTypeOK'
  OBVIOUS
<1>5. NotBegun'
  BY DEF NotBegun, Supervisors, Launchers
<1>6. HoldsMutex'
  BY DEF HoldsMutex, NotBegun, Supervisors
<1>7. ServerUnderMutex'
  BY DEF ServerUnderMutex, HoldsMutex, NotBegun, Bootstrapping, Supervisors
<1> QED BY <1>4, <1>5, <1>6, <1>7

LEMMA CloseServerInv ==
    ASSUME HostInv, NEW l \in Launches, CloseServer(l)
    PROVE  HostInv'
<1> USE HostAssumption DEF HostInv, HostTypeOK, CloseServer, Heads, Serves, Replies, SupIs
<1>1. sup[l] \in Supervisors /\ sup[l].queue \in Seq(Commands) /\ sup[l].linked \in BOOLEAN
  BY DEF Supervisors
<1>2. sup' \in [Launches -> Supervisors]
  BY <1>1, QueueType, SupervisorType DEF Replies2
<1>4. HostTypeOK'
  BY <1>2
<1>5. NotBegun'
  BY DEF NotBegun, Supervisors, Launchers
<1>6. HoldsMutex'
  BY DEF HoldsMutex, NotBegun, Supervisors
<1>7. ServerUnderMutex'
  BY DEF ServerUnderMutex, HoldsMutex, NotBegun, Bootstrapping, Supervisors
<1> QED BY <1>4, <1>5, <1>6, <1>7

LEMMA Release2Inv ==
    ASSUME HostInv, NEW l \in Launches, Release2(l)
    PROVE  HostInv'
<1> USE HostAssumption DEF HostInv, HostTypeOK, Release2, Heads, Serves, SupIs
<1>1. sup[l] \in Supervisors /\ sup[l].queue \in Seq(Commands) /\ sup[l].linked \in BOOLEAN
  BY DEF Supervisors
<1>2. sup' \in [Launches -> Supervisors]
  BY <1>1, QueueType, SupervisorType DEF Replies2
<1>4. HostTypeOK'
  BY <1>2
<1>5. NotBegun'
  BY DEF NotBegun, Supervisors, Launchers
<1>6. HoldsMutex'
  BY DEF HoldsMutex, NotBegun, Supervisors
<1>7. ServerUnderMutex'
  BY DEF ServerUnderMutex, HoldsMutex, NotBegun, Bootstrapping, Supervisors
<1> QED BY <1>4, <1>5, <1>6, <1>7

LEMMA RetiresInv ==
    ASSUME HostInv, NEW l \in Launches, Retires(l)
    PROVE  HostInv'
<1> USE HostAssumption DEF HostInv, HostTypeOK, Retires, SupIs
<1>1. sup[l] \in Supervisors /\ sup[l].queue \in Seq(Commands) /\ sup[l].linked \in BOOLEAN
  BY DEF Supervisors
<1>2. sup' \in [Launches -> Supervisors]
  BY <1>1, QueueType, SupervisorType DEF Replies2
<1>4. HostTypeOK'
  BY <1>2
<1>5. NotBegun'
  BY DEF NotBegun, Supervisors, Launchers
<1>6. HoldsMutex'
  BY DEF HoldsMutex, NotBegun, Supervisors
<1>7. ServerUnderMutex'
  BY DEF ServerUnderMutex, HoldsMutex, NotBegun, Bootstrapping, Supervisors
<1> QED BY <1>4, <1>5, <1>6, <1>7

LEMMA ShutdownBeginsInv ==
    ASSUME HostInv, NEW l \in Launches, ShutdownBegins(l)
    PROVE  HostInv'
<1> USE HostAssumption DEF HostInv, HostTypeOK, ShutdownBegins, SupIs, KeepsMutex
<1>1. sup[l] \in Supervisors /\ sup[l].queue \in Seq(Commands) /\ sup[l].linked \in BOOLEAN
  BY DEF Supervisors
<1>2. sup' \in [Launches -> Supervisors]
  BY <1>1, QueueType, SupervisorType DEF Replies2
<1>4. HostTypeOK'
  BY <1>2
<1>5. NotBegun'
  BY DEF NotBegun, Supervisors, Launchers
<1>6. HoldsMutex'
  BY DEF HoldsMutex, NotBegun, Supervisors
<1>7. ServerUnderMutex'
  BY DEF ServerUnderMutex, HoldsMutex, NotBegun, Bootstrapping, Supervisors
<1> QED BY <1>4, <1>5, <1>6, <1>7

LEMMA ShutdownReapsInv ==
    ASSUME HostInv, NEW l \in Launches, ShutdownReaps(l)
    PROVE  HostInv'
<1> USE HostAssumption DEF HostInv, HostTypeOK, ShutdownReaps
<1>4. HostTypeOK'
  OBVIOUS
<1>5. NotBegun'
  BY DEF NotBegun, Supervisors, Launchers
<1>6. HoldsMutex'
  BY DEF HoldsMutex, NotBegun, Supervisors
<1>7. ServerUnderMutex'
  BY DEF ServerUnderMutex, HoldsMutex, NotBegun, Bootstrapping, Supervisors
<1> QED BY <1>4, <1>5, <1>6, <1>7

LEMMA ShutdownEndsInv ==
    ASSUME HostInv, NEW l \in Launches, ShutdownEnds(l)
    PROVE  HostInv'
<1> USE HostAssumption DEF HostInv, HostTypeOK, ShutdownEnds, SupIs
<1>1. sup[l] \in Supervisors /\ sup[l].queue \in Seq(Commands) /\ sup[l].linked \in BOOLEAN
  BY DEF Supervisors
<1>2. sup' \in [Launches -> Supervisors]
  BY <1>1, QueueType, SupervisorType DEF Replies2
<1>4. HostTypeOK'
  BY <1>2
<1>5. NotBegun'
  BY DEF NotBegun, Supervisors, Launchers
<1>6. HoldsMutex'
  BY DEF HoldsMutex, NotBegun, Supervisors
<1>7. ServerUnderMutex'
  BY DEF ServerUnderMutex, HoldsMutex, NotBegun, Bootstrapping, Supervisors
<1> QED BY <1>4, <1>5, <1>6, <1>7

LEMMA SupervisorKilledInv ==
    ASSUME HostInv, NEW l \in Launches, SupervisorKilled(l)
    PROVE  HostInv'
<1> USE HostAssumption DEF HostInv, HostTypeOK, SupervisorKilled, SupIs
<1>1. sup[l] \in Supervisors /\ sup[l].queue \in Seq(Commands) /\ sup[l].linked \in BOOLEAN
  BY DEF Supervisors
<1>2. sup' \in [Launches -> Supervisors]
  BY <1>1, QueueType, SupervisorType DEF Replies2
<1>4. HostTypeOK'
  BY <1>2
<1>5. NotBegun'
  BY DEF NotBegun, Supervisors, Launchers
<1>6. HoldsMutex'
  BY DEF HoldsMutex, NotBegun, Supervisors
<1>7. ServerUnderMutex'
  BY DEF ServerUnderMutex, HoldsMutex, NotBegun, Bootstrapping, Supervisors
<1> QED BY <1>4, <1>5, <1>6, <1>7

LEMMA ServerEndsInv ==
    ASSUME HostInv, NEW l \in Launches, ServerEnds(l)
    PROVE  HostInv'
<1> USE HostAssumption DEF HostInv, HostTypeOK, ServerEnds
<1>4. HostTypeOK'
  OBVIOUS
<1>5. NotBegun'
  BY DEF NotBegun, Supervisors, Launchers
<1>6. HoldsMutex'
  BY DEF HoldsMutex, NotBegun, Supervisors
<1>7. ServerUnderMutex'
  BY DEF ServerUnderMutex, HoldsMutex, NotBegun, Bootstrapping, Supervisors
<1> QED BY <1>4, <1>5, <1>6, <1>7

LEMMA ServerReadyInv ==
    ASSUME HostInv, NEW l \in Launches, ServerReady(l)
    PROVE  HostInv'
<1> USE DEF HostInv, HostTypeOK, ServerReady, Heads, Serves
<1>1. PICK r \in {"started", "refused", "changed"} : Replies(l, r)
  OBVIOUS
<1>2. sup[l] \in Supervisors /\ sup[l].queue \in Seq(Commands)
  BY DEF Supervisors
<1>3. sup' \in [Launches -> Supervisors]
  BY <1>1, <1>2, QueueType, SupervisorType DEF Replies, SupIs, Replies2
<1>4. \A k \in Launches : sup'[k].pc = sup[k].pc /\ sup'[k].released = sup[k].released
  BY <1>1 DEF Replies, SupIs, Supervisors
<1>5. HostTypeOK'
  BY <1>3
<1>6. NotBegun' /\ HoldsMutex'
  BY <1>4 DEF NotBegun, HoldsMutex
<1>7. ServerUnderMutex'
  BY <1>4 DEF ServerUnderMutex, Bootstrapping
<1> QED BY <1>5, <1>6, <1>7

LEMMA HostStepInv == HostInv /\ [HostNext]_hostLaunchVars => HostInv'
<1> SUFFICES ASSUME HostInv, [HostNext]_hostLaunchVars PROVE HostInv'
  OBVIOUS
<1>1. CASE UNCHANGED hostLaunchVars
  BY <1>1 DEF hostLaunchVars, HostInv, HostTypeOK, NotBegun, HoldsMutex, ServerUnderMutex, Bootstrapping
<1>2. CASE HostNext
  BY <1>2, LaunchV2Inv, AttemptInv, OverlayThrowsInv, NotAcquiredInv, StartedInv, PreparedInv,
     KickoffInv, CleanupStartsInv, CleanupEndsInv, FinallyInv, Released2Inv, TuiExitsInv,
     LauncherDiesInv, Acquire2Inv, QueueTimesOutInv, StartServerInv, ServerReadyInv,
     CloseServerInv, Release2Inv, RetiresInv, ShutdownBeginsInv, ShutdownReapsInv,
     ShutdownEndsInv, SupervisorKilledInv, ServerEndsInv DEF HostNext
<1> QED BY <1>1, <1>2

\* Wherever a launcher fails or dies, and however its supervisor ends, two private servers
\* never bootstrap on the shared native database at once.
THEOREM BootstrapsExclude == HostSpec => []BootstrapExclusive
<1>1. HostInit => HostInv
  BY HostInitInv
<1>2. HostInv /\ [HostNext]_hostLaunchVars => HostInv'
  BY HostStepInv
<1>3. HostInv => BootstrapExclusive
  BY HostAssumption DEF HostInv, ServerUnderMutex, BootstrapExclusive
<1> QED BY <1>1, <1>2, <1>3, PTL DEF HostSpec

(***************************************************************************)
(* OpenCodeBroker: one session per source, and the newest human prompt     *)
(* binds.                                                                  *)
(***************************************************************************)

Reports == [n : 0 .. MaxHumans, session : V2Sessions]
Known2 == [session : V2Sessions \cup {Nobody2}, admitted : BOOLEAN, delivered : BOOLEAN,
           settled : BOOLEAN]
HostItems == [source : V2Sources, session : V2Sessions, place : {"inbox", "message"}]
OpPhases == {"rest", "queued", "resolve", "confirm", "adopt", "verify", "message", "inbox", "prompt"}
Ops == [pc : OpPhases, source : V2Sources \cup {Nobody2}, submit : BOOLEAN, again : BOOLEAN,
        took : Reports \cup {Nobody2}]

BrokerTypeOK ==
    /\ sessionID \in V2Sessions /\ humans \in 0 .. MaxHumans
    /\ humanHandoff \in [n : 1 .. MaxHumans, session : V2Sessions] \cup {Nobody2}
    /\ adopted \in Reports
    /\ deliveries \in [V2Sources -> Known2]
    /\ native \subseteq HostItems /\ late \subseteq HostItems
    /\ op \in [Requests -> Ops]

\* A delivery without a session is one the broker does not know.
UnknownHasNone == \A s \in V2Sources : deliveries[s].session = Nobody2 => deliveries[s] = Unknown

\* A request works for a source once it has one, reconciles and prompts only for a
\* delivery the broker knows, and confirms only a prompt it took.
OpOk(p) ==
    /\ op[p].pc = "rest" \/ p = Hook \/ op[p].source \in V2Sources
    /\ op[p].pc \in {"message", "inbox", "prompt"} =>
          p \in Wakers /\ deliveries[op[p].source].session # Nobody2
    /\ op[p].pc \in {"confirm", "adopt"} => op[p].took \in [n : 1 .. MaxHumans, session : V2Sessions]

OpsOk == \A p \in Requests : OpOk(p)

\* What the host was given for a source went to the session its delivery was made for.
GivenInItsSession == \A x \in native \cup late : x.session = deliveries[x.source].session

\* A report that waits is newer than the one adopted.
WaitingIsNewer == humanHandoff # Nobody2 => humanHandoff.n > adopted.n

BrokerInv == BrokerTypeOK /\ UnknownHasNone /\ OpsOk /\ GivenInItsSession /\ WaitingIsNewer /\ SessionIsNewest

LEMMA BrokerInitInv == BrokerInit => BrokerInv
<1> SUFFICES ASSUME BrokerInit PROVE BrokerInv
  OBVIOUS
<1> USE BrokerAssumption DEF BrokerInit
<1>1. Unknown \in Known2 /\ Rest \in Ops
  BY DEF Unknown, Known2, Rest, Ops, OpPhases
<1>2. adopted \in Reports /\ adopted.n = 0 /\ adopted.session = sessionID
  BY DEF Reports
<1>3. BrokerTypeOK
  BY <1>1, <1>2 DEF BrokerTypeOK
<1>4. UnknownHasNone /\ GivenInItsSession
  BY DEF UnknownHasNone, GivenInItsSession
<1>5. OpsOk
  BY DEF OpsOk, OpOk, Rest
<1>6. WaitingIsNewer /\ SessionIsNewest
  BY <1>2 DEF WaitingIsNewer, SessionIsNewest
<1> QED BY <1>3, <1>4, <1>5, <1>6 DEF BrokerInv

\* What a step that only moves request p from one phase to another has to show.
LEMMA Moved ==
    ASSUME BrokerInv, NEW p \in Requests, NEW o \in Ops, op' = [op EXCEPT ![p] = o],
           deliveries' \in [V2Sources -> Known2],
           \A s \in V2Sources : deliveries[s].session # Nobody2 => deliveries'[s].session = deliveries[s].session,
           o.pc = "rest" \/ p = Hook \/ o.source \in V2Sources,
           o.pc \in {"message", "inbox", "prompt"} => p \in Wakers /\ deliveries'[o.source].session # Nobody2,
           o.pc \in {"confirm", "adopt"} => o.took \in [n : 1 .. MaxHumans, session : V2Sessions]
    PROVE  op' \in [Requests -> Ops] /\ OpsOk'
<1> USE DEF BrokerInv, BrokerTypeOK
<1>1. op' \in [Requests -> Ops]
  OBVIOUS
<1>2. OpOk(p)'
  BY DEF OpOk
<1>3. ASSUME NEW q \in Requests, q # p PROVE OpOk(q)'
  <2>1. op'[q] = op[q] /\ OpOk(q)
    BY <1>3 DEF OpsOk
  <2>2. CASE op[q].pc \in {"message", "inbox", "prompt"}
    <3>1. q \in Wakers /\ q # Hook /\ op[q].pc # "rest"
      BY <2>1, <2>2, BrokerAssumption DEF OpOk
    <3>2. op[q].source \in V2Sources /\ deliveries[op[q].source].session # Nobody2
      BY <2>1, <2>2, <3>1 DEF OpOk
    <3> QED BY <2>1, <2>2, <3>1, <3>2 DEF OpOk
  <2>3. CASE op[q].pc \notin {"message", "inbox", "prompt"}
    BY <2>1, <2>3 DEF OpOk
  <2> QED BY <2>2, <2>3
<1> QED BY <1>1, <1>2, <1>3 DEF OpsOk

\* Answering a request is always in order.
LEMMA Answers ==
    ASSUME BrokerInv, NEW p \in Requests, Answered(p),
           deliveries' \in [V2Sources -> Known2],
           \A s \in V2Sources : deliveries[s].session # Nobody2 => deliveries'[s].session = deliveries[s].session
    PROVE  op' \in [Requests -> Ops] /\ OpsOk'
<1>1. Rest \in Ops /\ Rest.pc = "rest"
  BY DEF Rest, Ops, OpPhases
<1> QED BY <1>1, Moved DEF Answered

\* So is going on, where the next phase asks for nothing new.
LEMMA Goes ==
    ASSUME BrokerInv, NEW p \in Requests, NEW l \in OpPhases, Go2(p, l), op[p].pc # "rest",
           deliveries' \in [V2Sources -> Known2],
           \A s \in V2Sources : deliveries[s].session # Nobody2 => deliveries'[s].session = deliveries[s].session,
           l \in {"message", "inbox", "prompt"} => p \in Wakers /\ deliveries'[op[p].source].session # Nobody2,
           l \in {"confirm", "adopt"} => op[p].pc \in {"confirm", "adopt"}
    PROVE  op' \in [Requests -> Ops] /\ OpsOk'
<1> DEFINE o == [op[p] EXCEPT !.pc = l]
<1>1. op[p] \in Ops /\ OpOk(p)
  BY DEF BrokerInv, BrokerTypeOK, OpsOk
<1>2. o \in Ops /\ o.pc = l /\ o.source = op[p].source /\ o.took = op[p].took
  BY <1>1 DEF Ops
<1>3. op' = [op EXCEPT ![p] = o]
  BY DEF Go2, BrokerInv, BrokerTypeOK
<1>4. o.pc = "rest" \/ p = Hook \/ o.source \in V2Sources
  BY <1>1, <1>2 DEF OpOk
<1>5. o.pc \in {"confirm", "adopt"} => o.took \in [n : 1 .. MaxHumans, session : V2Sessions]
  BY <1>1, <1>2 DEF OpOk
<1>6. o.pc \in {"message", "inbox", "prompt"} => p \in Wakers /\ deliveries'[o.source].session # Nobody2
  BY <1>2
<1> HIDE DEF o
<1> QED BY <1>2, <1>3, <1>4, <1>5, <1>6, Moved

\* What is left when the host is given nothing and no human prompt is handled.
LEMMA NothingGiven ==
    ASSUME BrokerInv, UNCHANGED <<bindVars, native, late>>, op' \in [Requests -> Ops], OpsOk',
           deliveries' \in [V2Sources -> Known2], UnknownHasNone',
           \A s \in V2Sources : deliveries[s].session # Nobody2 => deliveries'[s].session = deliveries[s].session
    PROVE  BrokerInv'
<1> USE DEF BrokerInv, bindVars
<1>1. BrokerTypeOK'
  BY DEF BrokerTypeOK
<1>2. GivenInItsSession'
  <2> SUFFICES ASSUME NEW x \in native \cup late PROVE x.session = deliveries'[x.source].session
    BY DEF GivenInItsSession
  <2>1. x \in HostItems
    BY DEF BrokerTypeOK
  <2>2. x.source \in V2Sources /\ x.session # Nobody2
    BY <2>1, BrokerAssumption DEF HostItems
  <2> QED BY <2>2 DEF GivenInItsSession
<1>3. WaitingIsNewer' /\ SessionIsNewest'
  BY DEF WaitingIsNewer, SessionIsNewest
<1> QED BY <1>1, <1>2, <1>3

\* Deliveries that do not change.
LEMMA SameDeliveries ==
    ASSUME BrokerInv, UNCHANGED deliveries
    PROVE  /\ deliveries' \in [V2Sources -> Known2] /\ UnknownHasNone'
           /\ \A s \in V2Sources : deliveries[s].session # Nobody2 => deliveries'[s].session = deliveries[s].session
BY DEF BrokerInv, BrokerTypeOK, UnknownHasNone

\* A delivery of which more becomes known.
LEMMA MoreKnown ==
    ASSUME BrokerInv, NEW s \in V2Sources, NEW d \in Known2, d.session = deliveries[s].session,
           d.session # Nobody2, deliveries' = [deliveries EXCEPT ![s] = d]
    PROVE  /\ deliveries' \in [V2Sources -> Known2] /\ UnknownHasNone'
           /\ \A t \in V2Sources : deliveries[t].session # Nobody2 => deliveries'[t].session = deliveries[t].session
BY DEF BrokerInv, BrokerTypeOK, UnknownHasNone

LEMMA WakeInv ==
    ASSUME BrokerInv, NEW p \in Wakers, NEW s \in V2Sources, NEW submit \in BOOLEAN, Wake(p, s, submit)
    PROVE  BrokerInv'
<1> DEFINE o == [Rest EXCEPT !.pc = "queued", !.source = s, !.submit = submit]
<1>1. o \in Ops /\ o.pc = "queued" /\ o.source = s
  BY DEF Rest, Ops, OpPhases
<1>2. op' = [op EXCEPT ![p] = o] /\ UNCHANGED <<bindVars, deliveries, native, late>>
  BY DEF Wake, hostVars
<1> HIDE DEF o
<1> QED BY <1>1, <1>2, Moved, SameDeliveries, NothingGiven DEF Requests

LEMMA DequeueInv ==
    ASSUME BrokerInv, NEW p \in Wakers, Dequeue(p)
    PROVE  BrokerInv'
BY Goes, SameDeliveries, NothingGiven DEF Dequeue, hostVars, Requests, OpPhases

LEMMA RoundInv ==
    ASSUME BrokerInv, NEW p \in Wakers, NEW s \in V2Sources, Round(p, s)
    PROVE  BrokerInv'
<1> DEFINE o == [Rest EXCEPT !.pc = "message", !.source = s]
<1>1. o \in Ops /\ o.pc = "message" /\ o.source = s
  BY DEF Rest, Ops, OpPhases
<1>2. op' = [op EXCEPT ![p] = o] /\ UNCHANGED <<bindVars, deliveries, native, late>>
  BY DEF Round, hostVars
<1>3. deliveries[s].session # Nobody2
  BY DEF Round, BrokerInv, UnknownHasNone
<1> HIDE DEF o
<1> QED BY <1>1, <1>2, <1>3, Moved, SameDeliveries, NothingGiven DEF Requests

LEMMA ContextInv ==
    ASSUME BrokerInv, Context
    PROVE  BrokerInv'
<1> DEFINE o == [op[Hook] EXCEPT !.pc = "resolve"]
<1>1. op[Hook] \in Ops /\ op' = [op EXCEPT ![Hook] = o] /\ UNCHANGED <<bindVars, deliveries, native, late>>
  BY DEF Context, hostVars, Go2, BrokerInv, BrokerTypeOK, Requests
<1>2. o \in Ops /\ o.pc = "resolve"
  BY <1>1 DEF Ops, OpPhases
<1> HIDE DEF o
<1> QED BY <1>1, <1>2, Moved, SameDeliveries, NothingGiven DEF Requests

LEMMA HumanInv ==
    ASSUME BrokerInv, NEW session \in V2Sessions, Human(session)
    PROVE  BrokerInv'
<1> USE BrokerAssumption DEF BrokerInv, Human, hostVars
<1>1. humans \in 0 .. MaxHumans /\ adopted.n \in 0 .. MaxHumans
  BY DEF BrokerTypeOK, Reports
<1>2. humanHandoff' \in [n : 1 .. MaxHumans, session : V2Sessions] /\ humanHandoff'.n = humans + 1
  BY <1>1
<1>3. BrokerTypeOK'
  BY <1>1, <1>2 DEF BrokerTypeOK
<1>4. UnknownHasNone' /\ OpsOk' /\ GivenInItsSession'
  BY DEF UnknownHasNone, OpsOk, OpOk, GivenInItsSession
<1>5. humans >= adopted.n
  BY <1>1 DEF SessionIsNewest, WaitingIsNewer, BrokerTypeOK
<1>6. WaitingIsNewer' /\ SessionIsNewest'
  BY <1>1, <1>2, <1>5 DEF SessionIsNewest, WaitingIsNewer
<1> QED BY <1>3, <1>4, <1>6

LEMMA SettleInv ==
    ASSUME BrokerInv, NEW s \in V2Sources, Settle(s)
    PROVE  BrokerInv'
<1> DEFINE d == [deliveries[s] EXCEPT !.settled = TRUE]
<1>1. deliveries[s] \in Known2 /\ deliveries[s].session # Nobody2
  BY DEF Settle, BrokerInv, BrokerTypeOK, UnknownHasNone
<1>2. d \in Known2 /\ d.session = deliveries[s].session
  BY <1>1 DEF Known2
<1>3. deliveries' = [deliveries EXCEPT ![s] = d] /\ UNCHANGED <<bindVars, native, late, op>>
  BY DEF Settle, hostVars, BrokerInv, BrokerTypeOK
<1> HIDE DEF d
<1>4. OpsOk' /\ op' \in [Requests -> Ops]
  <2>1. ASSUME NEW q \in Requests PROVE OpOk(q)'
    <3>1. OpOk(q)
      BY DEF BrokerInv, OpsOk
    <3> QED BY <3>1, <1>1, <1>2, <1>3 DEF OpOk, BrokerInv, BrokerTypeOK
  <2> QED BY <2>1, <1>3 DEF OpsOk, BrokerInv, BrokerTypeOK
<1> QED BY <1>1, <1>2, <1>3, <1>4, MoreKnown, NothingGiven

LEMMA ResolveInv ==
    ASSUME BrokerInv, NEW p \in Requests, Resolve(p)
    PROVE  BrokerInv'
<1> DEFINE o == [op[p] EXCEPT !.took = humanHandoff,
                              !.pc = IF humanHandoff = Nobody2 THEN "verify" ELSE "confirm"]
<1>1. op[p] \in Ops /\ OpOk(p) /\ op[p].pc = "resolve"
  BY DEF Resolve, BrokerInv, BrokerTypeOK, OpsOk
<1>2. humanHandoff \in Reports \cup {Nobody2}
  BY BrokerAssumption DEF BrokerInv, BrokerTypeOK, Reports
<1>3. o \in Ops /\ o.source = op[p].source /\ o.took = humanHandoff
      /\ o.pc \in {"verify", "confirm"} /\ (o.pc = "confirm" => humanHandoff # Nobody2)
  BY <1>1, <1>2 DEF Ops, OpPhases
<1>4. op' = [op EXCEPT ![p] = o] /\ UNCHANGED <<bindVars, deliveries, native, late>>
  BY DEF Resolve, hostVars, BrokerInv, BrokerTypeOK
<1>5. o.pc = "confirm" => o.took \in [n : 1 .. MaxHumans, session : V2Sessions]
  BY <1>3 DEF BrokerInv, BrokerTypeOK
<1>6. p = Hook \/ o.source \in V2Sources
  BY <1>1, <1>3 DEF OpOk
<1> HIDE DEF o
<1> QED BY <1>3, <1>4, <1>5, <1>6, Moved, SameDeliveries, NothingGiven

LEMMA ConfirmedInv ==
    ASSUME BrokerInv, NEW p \in Requests, Confirmed(p)
    PROVE  BrokerInv'
<1>1. UNCHANGED <<bindVars, deliveries, native, late>> /\ op[p].pc = "confirm"
  BY DEF Confirmed, Throws, hostVars
<1>2. CASE \E l \in {"verify", "adopt"} : Go2(p, l)
  BY <1>1, <1>2, Goes, SameDeliveries, NothingGiven DEF OpPhases
<1>3. CASE Answered(p)
  BY <1>1, <1>3, Answers, SameDeliveries, NothingGiven
<1> QED BY <1>2, <1>3 DEF Confirmed, Throws

LEMMA AdoptInv ==
    ASSUME BrokerInv, NEW p \in Requests, Adopt(p)
    PROVE  BrokerInv'
<1> USE BrokerAssumption
<1>1. UNCHANGED <<humans, deliveries, native, late>> /\ op[p].pc = "adopt"
  BY DEF Adopt, Throws, hostVars
<1>2. op[p].took \in [n : 1 .. MaxHumans, session : V2Sessions]
  BY <1>1 DEF BrokerInv, OpsOk, OpOk
<1>3. CASE ~ StillNewest(p)
  <2>1. Go2(p, "resolve") /\ UNCHANGED bindVars
    BY <1>3 DEF Adopt, bindVars
  <2> QED BY <1>1, <2>1, Goes, SameDeliveries, NothingGiven DEF OpPhases
<1>4. CASE StillNewest(p)
  <2>1. /\ humanHandoff = op[p].took /\ sessionID' = op[p].took.session /\ humanHandoff' = Nobody2
        /\ adopted' = IF op[p].took.n > adopted.n THEN op[p].took ELSE adopted
        /\ Go2(p, "verify") \/ Answered(p)
    BY <1>4 DEF Adopt, StillNewest, Throws
  <2>2. op' \in [Requests -> Ops] /\ OpsOk'
    BY <1>1, <2>1, Goes, Answers, SameDeliveries DEF OpPhases
  <2>3. humanHandoff # Nobody2 /\ humanHandoff.n > adopted.n
    BY <1>2, <2>1 DEF BrokerInv, WaitingIsNewer
  <2>4. adopted' = op[p].took /\ op[p].took \in Reports /\ op[p].took.session \in V2Sessions
    BY <1>2, <2>1, <2>3 DEF Reports
  <2>5. BrokerTypeOK'
    BY <1>1, <2>1, <2>2, <2>4 DEF BrokerInv, BrokerTypeOK
  <2>6. UnknownHasNone' /\ GivenInItsSession' /\ WaitingIsNewer'
    BY <1>1, <2>1 DEF BrokerInv, UnknownHasNone, GivenInItsSession, WaitingIsNewer
  <2>7. SessionIsNewest'
    BY <1>1, <2>1, <2>3, <2>4 DEF BrokerInv, SessionIsNewest
  <2> QED BY <2>2, <2>5, <2>6, <2>7 DEF BrokerInv
<1> QED BY <1>3, <1>4

LEMMA VerifiedInv ==
    ASSUME BrokerInv, NEW p \in Requests, Verified(p)
    PROVE  BrokerInv'
<1> DEFINE s == op[p].source
<1>1. UNCHANGED <<bindVars, native, late>> /\ op[p].pc = "verify" /\ OpOk(p)
  BY DEF Verified, hostVars, BrokerInv, OpsOk
<1>2. CASE Answered(p) /\ UNCHANGED deliveries
  BY <1>1, <1>2, Answers, SameDeliveries, NothingGiven
<1>3. CASE /\ p # Hook /\ (Go2(p, "message") \/ Answered(p))
           /\ deliveries' = IF deliveries[s] # Unknown THEN deliveries
                            ELSE [deliveries EXCEPT ![s] = [Unknown EXCEPT !.session = sessionID]]
  <2>1. p \in Wakers /\ s \in V2Sources
    BY <1>1, <1>3 DEF OpOk, Requests
  <2>2. /\ deliveries' \in [V2Sources -> Known2] /\ UnknownHasNone' /\ deliveries'[s].session # Nobody2
        /\ \A t \in V2Sources : deliveries[t].session # Nobody2 => deliveries'[t].session = deliveries[t].session
    <3>1. CASE deliveries[s] # Unknown
      BY <1>3, <2>1, <3>1, SameDeliveries DEF BrokerInv, UnknownHasNone
    <3>2. CASE deliveries[s] = Unknown
      <4> DEFINE d == [Unknown EXCEPT !.session = sessionID]
      <4>1. d \in Known2 /\ d.session = sessionID /\ sessionID \in V2Sessions
        BY DEF BrokerInv, BrokerTypeOK, Unknown, Known2
      <4>2. deliveries' = [deliveries EXCEPT ![s] = d] /\ deliveries[s].session = Nobody2
        BY <1>3, <3>2 DEF Unknown
      <4> HIDE DEF d
      <4> QED BY <2>1, <4>1, <4>2, BrokerAssumption DEF BrokerInv, BrokerTypeOK, UnknownHasNone
    <3> QED BY <3>1, <3>2
  <2>3. op' \in [Requests -> Ops] /\ OpsOk'
    BY <1>1, <1>3, <2>1, <2>2, Goes, Answers DEF OpPhases
  <2> QED BY <1>1, <2>2, <2>3, NothingGiven
<1> QED BY <1>2, <1>3 DEF Verified

\* A request that has found out what there is to know goes on to the prompt, or ends.
LEMMA Reconciles ==
    ASSUME BrokerInv, NEW p \in Wakers, NEW d, Reconciled2(p, d) \/ Answered(p),
           op[p].pc \in {"message", "inbox"},
           deliveries' \in [V2Sources -> Known2], deliveries[op[p].source].session # Nobody2,
           \A s \in V2Sources : deliveries[s].session # Nobody2 => deliveries'[s].session = deliveries[s].session
    PROVE  op' \in [Requests -> Ops] /\ OpsOk'
<1>1. p \in Requests /\ p # Hook /\ op[p].source \in V2Sources
  BY BrokerAssumption DEF Requests, BrokerInv, OpsOk, OpOk
<1>2. CASE Go2(p, "prompt")
  BY <1>1, <1>2, Goes DEF OpPhases
<1>3. CASE Answered(p)
  BY <1>1, <1>3, Answers
<1> QED BY <1>2, <1>3 DEF Reconciled2

\* A request at reconcile or at the prompt has a delivery with a session.
LEMMA HasSession ==
    ASSUME BrokerInv, NEW p \in Wakers, op[p].pc \in {"message", "inbox", "prompt"}
    PROVE  /\ p \in Requests /\ op[p].source \in V2Sources
           /\ deliveries[op[p].source] \in Known2 /\ deliveries[op[p].source].session # Nobody2
<1>1. p \in Requests /\ p # Hook /\ OpOk(p)
  BY BrokerAssumption DEF Requests, BrokerInv, OpsOk
<1> QED BY <1>1 DEF OpOk, BrokerInv, BrokerTypeOK

LEMMA FindMessageInv ==
    ASSUME BrokerInv, NEW p \in Wakers, FindMessage(p)
    PROVE  BrokerInv'
<1> DEFINE s == op[p].source
           d == deliveries[s]
           found == [d EXCEPT !.admitted = TRUE, !.delivered = TRUE]
<1>1. UNCHANGED <<bindVars, native, late>> /\ op[p].pc = "message"
  BY DEF FindMessage, hostVars
<1>2. p \in Requests /\ s \in V2Sources /\ d \in Known2 /\ d.session # Nobody2
  BY <1>1, HasSession
<1>3. found \in Known2 /\ found.session = d.session
  BY <1>2 DEF Known2
<1>4. CASE Reconciled2(p, d) /\ UNCHANGED deliveries
  BY <1>1, <1>2, <1>4, Reconciles, SameDeliveries, NothingGiven
<1>5. CASE deliveries' = [deliveries EXCEPT ![s] = found] /\ (Reconciled2(p, found) \/ Answered(p))
  <2> HIDE DEF found, d
  <2> QED BY <1>1, <1>2, <1>3, <1>5, MoreKnown, Reconciles, NothingGiven DEF d
<1>6. CASE Go2(p, "inbox") /\ UNCHANGED deliveries
  <2>1. op' \in [Requests -> Ops] /\ OpsOk'
    BY <1>1, <1>2, <1>6, Goes, SameDeliveries DEF OpPhases
  <2> QED BY <1>1, <1>6, <2>1, SameDeliveries, NothingGiven
<1> QED BY <1>4, <1>5, <1>6 DEF FindMessage

LEMMA FindInboxInv ==
    ASSUME BrokerInv, NEW p \in Wakers, FindInbox(p)
    PROVE  BrokerInv'
<1> DEFINE s == op[p].source
           d == deliveries[s]
           found == [d EXCEPT !.admitted = d.admitted \/ Held(d, s, "inbox")]
<1>1. UNCHANGED <<bindVars, native, late>> /\ op[p].pc = "inbox"
  BY DEF FindInbox, hostVars
<1>2. p \in Requests /\ s \in V2Sources /\ d \in Known2 /\ d.session # Nobody2
  BY <1>1, HasSession
<1>3. found \in Known2 /\ found.session = d.session
  BY <1>2 DEF Known2
<1>4. CASE deliveries' = [deliveries EXCEPT ![s] = found] /\ (Reconciled2(p, found) \/ Answered(p))
  <2> HIDE DEF found, d
  <2> QED BY <1>1, <1>2, <1>3, <1>4, MoreKnown, Reconciles, NothingGiven DEF d
<1>5. CASE Answered(p) /\ UNCHANGED deliveries
  BY <1>1, <1>2, <1>5, Answers, SameDeliveries, NothingGiven
<1> QED BY <1>4, <1>5 DEF FindInbox

\* An item for the session of its delivery may be given to the host, now or later.
LEMMA Gives ==
    ASSUME BrokerInv, UNCHANGED bindVars, op' \in [Requests -> Ops], OpsOk',
           deliveries' \in [V2Sources -> Known2], UnknownHasNone',
           \A s \in V2Sources : deliveries[s].session # Nobody2 => deliveries'[s].session = deliveries[s].session,
           NEW x \in HostItems, x.session = deliveries[x.source].session,
           native' \subseteq native \cup {x}, late' \subseteq late \cup {x}
    PROVE  BrokerInv'
<1> USE DEF BrokerInv, bindVars
<1>1. BrokerTypeOK'
  BY DEF BrokerTypeOK
<1>2. GivenInItsSession'
  <2> SUFFICES ASSUME NEW y \in native' \cup late' PROVE y.session = deliveries'[y.source].session
    BY DEF GivenInItsSession
  <2>1. y \in HostItems /\ y.session = deliveries[y.source].session
    BY DEF BrokerTypeOK, GivenInItsSession
  <2>2. y.source \in V2Sources /\ y.session # Nobody2
    BY <2>1, BrokerAssumption DEF HostItems
  <2> QED BY <2>1, <2>2
<1>3. WaitingIsNewer' /\ SessionIsNewest'
  BY DEF WaitingIsNewer, SessionIsNewest
<1> QED BY <1>1, <1>2, <1>3

LEMMA PromptInv ==
    ASSUME BrokerInv, NEW p \in Wakers, Prompt(p)
    PROVE  BrokerInv'
<1> DEFINE s == op[p].source
           d == deliveries[s]
           x == [source |-> s, session |-> d.session, place |-> "inbox"]
<1>1. UNCHANGED bindVars /\ op[p].pc = "prompt" /\ native' \subseteq native \cup {x} /\ late' \subseteq late \cup {x}
  BY DEF Prompt, PromptSession
<1>2. p \in Requests /\ s \in V2Sources /\ d \in Known2 /\ d.session # Nobody2
  BY <1>1, HasSession
<1>3. x \in HostItems /\ x.source = s /\ x.session = d.session
  BY <1>2 DEF HostItems, Known2
<1>4. CASE deliveries' = [deliveries EXCEPT ![s].admitted = TRUE] /\ Answered(p)
  <2> DEFINE e == [d EXCEPT !.admitted = TRUE]
  <2>1. e \in Known2 /\ e.session = d.session /\ deliveries' = [deliveries EXCEPT ![s] = e]
    BY <1>2, <1>4 DEF Known2, BrokerInv, BrokerTypeOK
  <2> HIDE DEF e, x
  <2> QED BY <1>1, <1>2, <1>3, <1>4, <2>1, MoreKnown, Answers, Gives
<1>5. CASE Unanswered(p)
  <2> DEFINE o == [op[p] EXCEPT !.pc = "message", !.again = TRUE]
  <2>1. op[p] \in Ops
    BY <1>2 DEF BrokerInv, BrokerTypeOK
  <2>2. o \in Ops /\ o.pc = "message" /\ o.source = s
    BY <2>1 DEF Ops, OpPhases
  <2>3. op' = [op EXCEPT ![p] = o] /\ UNCHANGED deliveries
    BY <1>5 DEF Unanswered, BrokerInv, BrokerTypeOK
  <2>4. op' \in [Requests -> Ops] /\ OpsOk'
    <3> HIDE DEF o
    <3> QED BY <1>2, <2>2, <2>3, Moved, SameDeliveries
  <2> HIDE DEF x
  <2> QED BY <1>1, <1>2, <1>3, <2>3, <2>4, SameDeliveries, Gives
<1> QED BY <1>4, <1>5 DEF Prompt

LEMMA LandsLateInv ==
    ASSUME BrokerInv, NEW x \in late, LandsLate(x)
    PROVE  BrokerInv'
<1>1. x \in HostItems /\ x.session = deliveries[x.source].session
  BY DEF BrokerInv, BrokerTypeOK, GivenInItsSession
<1>2. op' \in [Requests -> Ops] /\ OpsOk'
  BY DEF LandsLate, BrokerInv, BrokerTypeOK, OpsOk, OpOk
<1> QED BY <1>1, <1>2, SameDeliveries, Gives DEF LandsLate

LEMMA TurnStartsInv ==
    ASSUME BrokerInv, NEW x \in native, TurnStarts(x)
    PROVE  BrokerInv'
<1> DEFINE y == [x EXCEPT !.place = "message"]
<1>1. x \in HostItems /\ x.session = deliveries[x.source].session
  BY DEF BrokerInv, BrokerTypeOK, GivenInItsSession
<1>2. y \in HostItems /\ y.session = deliveries[y.source].session
  BY <1>1 DEF HostItems
<1>3. op' \in [Requests -> Ops] /\ OpsOk'
  BY DEF TurnStarts, BrokerInv, BrokerTypeOK, OpsOk, OpOk
<1>4. native' \subseteq native \cup {y} /\ late' = late
  BY DEF TurnStarts
<1> HIDE DEF y
<1> QED BY <1>2, <1>3, <1>4, SameDeliveries, Gives DEF TurnStarts

LEMMA BrokerStepInv == BrokerInv /\ [BrokerNext]_brokerVars => BrokerInv'
<1> SUFFICES ASSUME BrokerInv, [BrokerNext]_brokerVars PROVE BrokerInv'
  OBVIOUS
<1>1. CASE UNCHANGED brokerVars \/ PluginReports
  <2>1. UNCHANGED <<bindVars, deliveries, native, late, op>>
    BY <1>1 DEF brokerVars, bindVars, hostVars, PluginReports
  <2>2. op' \in [Requests -> Ops] /\ OpsOk'
    BY <2>1 DEF BrokerInv, BrokerTypeOK, OpsOk, OpOk
  <2> QED BY <2>1, <2>2, SameDeliveries, NothingGiven
<1>2. CASE \E p \in Wakers :
              \/ \E s \in V2Sources, submit \in BOOLEAN : Wake(p, s, submit)
              \/ \E s \in V2Sources : Round(p, s)
              \/ Dequeue(p) \/ FindMessage(p) \/ FindInbox(p) \/ Prompt(p)
  BY <1>2, WakeInv, RoundInv, DequeueInv, FindMessageInv, FindInboxInv, PromptInv
<1>3. CASE \E p \in Requests : Resolve(p) \/ Confirmed(p) \/ Adopt(p) \/ Verified(p)
  BY <1>3, ResolveInv, ConfirmedInv, AdoptInv, VerifiedInv
<1>4. CASE \/ Context \/ \E session \in V2Sessions : Human(session)
           \/ \E s \in V2Sources : Settle(s)
           \/ \E x \in late : LandsLate(x)
           \/ \E x \in native : TurnStarts(x)
  BY <1>4, ContextInv, HumanInv, SettleInv, LandsLateInv, TurnStartsInv
<1> QED BY <1>1, <1>2, <1>3, <1>4 DEF BrokerNext

\* However often an entry is retried, over lost answers, late prompts and human session
\* switches in between, the native host is given it in one session only.
THEOREM OneSession == BrokerSpec => []OneSessionPerSource
<1>1. BrokerInit => BrokerInv
  BY BrokerInitInv
<1>2. BrokerInv /\ [BrokerNext]_brokerVars => BrokerInv'
  BY BrokerStepInv
<1>3. BrokerInv => OneSessionPerSource
  BY DEF BrokerInv, GivenInItsSession, OneSessionPerSource
<1> QED BY <1>1, <1>2, <1>3, PTL DEF BrokerSpec

\* Of the human prompts reported, however many requests resolve them at once, the newest
\* one binds the session or is still to bind it.
THEOREM NewestPromptBinds == BrokerSpec => []SessionIsNewest
<1>1. BrokerInit => BrokerInv
  BY BrokerInitInv
<1>2. BrokerInv /\ [BrokerNext]_brokerVars => BrokerInv'
  BY BrokerStepInv
<1>3. BrokerInv => SessionIsNewest
  BY DEF BrokerInv
<1> QED BY <1>1, <1>2, <1>3, PTL DEF BrokerSpec

(***************************************************************************)
(* OpenCodeDelivery: the intent of a submission is durable, and nothing is *)
(* submitted blindly.                                                      *)
(***************************************************************************)

\* A submission whose outcome is unknown and whose entry is unread, and its marker.
Open == {x \in Unresolved : x.id.src \in unread}
Marker(x) == [id |-> x.id, sess |-> x.sess]

\* A binding that holds the markers of the submissions X: the file does, and so does the
\* memory, once the file is in it.  pendingSubmissions is a map, so an identity has one
\* marker; what the launcher leaves holds none.
Holds(b, X, loaded) ==
    /\ b \in [mem : Memories, file : Files \cup {None}]
    /\ \A x \in X : b.file # None /\ Marker(x) \in b.file.pend
    /\ loaded \/ b.mem.sess # None => \A x \in X : Marker(x) \in b.mem.pend
    /\ \A p, q \in b.mem.pend : p.id = q.id => p = q
    /\ b.file # None => /\ \A p, q \in b.file.pend : p.id = q.id => p = q
                        /\ b.file.claimed \/ b.file.pend = {}

\* The delivery under way has looked at the file.
Resolved == pc \notin {"idle", "ask", "resolve"} \/ (work # None /\ work.target # None)

BindingHolds == Holds(Binding, Open, Resolved)

\* The launcher binds a session once, and nothing is written before that.
Unbound(b) == b.file = None /\ b.mem.sess = None
NotLaunched == launched \/ (Unbound(Binding) /\ ~ Resolved)

\* Only entries that arrived are worked on.
HaveArrived ==
    /\ unread \subseteq arrived
    /\ \A x \in subs : x.id.src \in arrived
    /\ \A i \in 1 .. Len(queue) : queue[i].id.src \in arrived
    /\ work # None => work.id.src \in arrived

\* A source has at most one delivery under way, and that is not unconfirmed.
OnePerSource ==
    /\ \A i, j \in 1 .. Len(queue) : queue[i].id.src = queue[j].id.src => i = j
    /\ \A i \in 1 .. Len(queue) : work # None => queue[i].id.src # work.id.src
    /\ \A i \in 1 .. Len(queue) : queue[i].id \notin Remembered(unconfirmed)
    /\ work # None => work.id \notin Remembered(unconfirmed)

\* A delivery that may submit stands for no other identity's submission; it has not
\* submitted yet while it is queued.
Alone(d) == d.allow => \A x \in Open : x.id.src = d.id.src => x.id = d.id
Fresh(d) == ~ d.accepted /\ d.target = None
QueueOk == \A i \in 1 .. Len(queue) : Alone(queue[i]) /\ Fresh(queue[i])

\* Where the delivery d under way at step s stands.  From the look on a submission of its
\* identity is confirmed where it was made; once the look has found nothing there is
\* nothing: no submission of the source whose outcome is unknown, and none of it that has
\* appeared in the target.
Looked == {"find", "askAgain", "submit", "post", "confirm"}
NothingThere(d) ==
    /\ \A x \in Unresolved : x.id.src # d.id.src
    /\ \A x \in subs : x.st = "shown" /\ x.sess = d.target => x.id # d.id /\ x.id # Own(d.id.src)

WorkOk(d, s) ==
    /\ Alone(d)
    /\ s \in {"get", "switch"} => d.bound \in Ids
    /\ s \in Looked => /\ d.target \in Ids /\ d.conf \in Ids
                       /\ \A x \in Open : x.id = d.id => d.conf = x.sess
    /\ s = "find" => /\ \A x \in Open : x.id = d.id => d.before
                     /\ d.before \/ d.conf = d.target
    /\ s \in {"askAgain", "submit", "post"} => d.conf = d.target /\ d.allow
    /\ s = "submit" \/ (s = "askAgain" /\ d.id.src \in unread) => NothingThere(d)
    /\ d.accepted => s = "confirm"

\* A reconciliation looks where the submission was made.
LoopsLook == \A r \in rec : r.id \in Remembered(unconfirmed) =>
                \A x \in Open : x.id = r.id => r.sess = x.sess

\* The open submission of a source is the only one of it, and stands for its identity.
OpenIsAlone ==
    \A x \in Open, y \in subs :
        /\ y \in Unresolved /\ y.id.src = x.id.src => y = x
        /\ y.st = "shown" /\ y.sess = x.sess => y.id # x.id /\ y.id # Own(x.id.src)
        /\ y.st \in {"refused", "gone"} => y.id # x.id

Steps == {"idle", "ask", "resolve", "get", "switch", "replace"} \cup Looked

Shapes ==
    /\ sessions \subseteq Ids /\ created \in Ids /\ subs \subseteq Submissions
    /\ queue \in Seq(Deliveries) /\ work \in Deliveries \cup {None}
    /\ pc \in Steps /\ ((work = None) <=> (pc = "idle"))
    /\ rec \subseteq Pending

DeliveryInv ==
    /\ Shapes /\ BindingHolds /\ NotLaunched /\ HaveArrived /\ OnePerSource /\ QueueOk
    /\ work # None => WorkOk(work, pc)
    /\ LoopsLook /\ OpenIsAlone

-----------------------------------------------------------------------------
(* The binding.                                                            *)

Bindings == [mem : Memories, file : Files \cup {None}]

LEMMA BindingType ==
    ASSUME NEW b \in Bindings
    PROVE  /\ b.mem \in Memories /\ b.file \in Files \cup {None}
           /\ b.mem.sess \in Ids \cup {None} /\ b.mem.known \subseteq Ids /\ b.mem.pend \subseteq Pending
           /\ b.file # None => b.file \in Files /\ b.file.sess \in Ids /\ b.file.known \subseteq Ids
                               /\ b.file.pend \subseteq Pending /\ b.file.claimed \in BOOLEAN
BY NoneAssumption DEF Bindings, Memories, Files

LEMMA FileType ==
    ASSUME NEW s \in Ids, NEW known \in SUBSET Ids, NEW pend \in SUBSET Pending
    PROVE  LET w == [sess |-> s, known |-> known, pend |-> pend, claimed |-> TRUE]
           IN  w \in Files /\ w # None /\ w.pend = pend /\ w.claimed
<1> DEFINE w == [sess |-> s, known |-> known, pend |-> pend, claimed |-> TRUE]
<1>1. w \in Files /\ w.pend = pend /\ w.claimed
  BY DEF Files
<1> QED BY <1>1, NoneAssumption

\* What a write leaves.
LEMMA WriteHolds ==
    ASSUME NEW b, NEW X, Holds(b, X, TRUE), NEW s \in Ids, NEW known \in SUBSET Ids, NEW f
    PROVE  Holds(writeBinding(b, s, known, f), X, TRUE)
<1>1. CASE f = "write"
  BY <1>1 DEF writeBinding
<1>2. CASE f # "write"
  <2> DEFINE m == [b.mem EXCEPT !.sess = s, !.known = known]
             w == [sess |-> s, known |-> known, pend |-> b.mem.pend, claimed |-> TRUE]
  <2>1. b \in Bindings
    BY DEF Holds, Bindings
  <2>2. m \in Memories /\ m.pend = b.mem.pend
    BY <2>1, BindingType DEF Memories
  <2>3. w \in Files /\ w # None /\ w.pend = b.mem.pend /\ w.claimed
    BY <2>1, BindingType, FileType
  <2>4. writeBinding(b, s, known, f) = [mem |-> m, file |-> w]
    BY <1>2 DEF writeBinding
  <2> HIDE DEF m, w
  <2> QED BY <2>2, <2>3, <2>4 DEF Holds
<1> QED BY <1>1, <1>2

\* Dropping markers from memory, ...
Dropped(b, ids) == [b EXCEPT !.mem.pend = @ \ PendingOf(b, ids)]

LEMMA DropHolds ==
    ASSUME NEW b, NEW X, Holds(b, X, FALSE), NEW ids, \A x \in X : x.id \notin ids
    PROVE  /\ Holds(Dropped(b, ids), X, FALSE)
           /\ Holds(b, X, TRUE) => Holds(Dropped(b, ids), X, TRUE)
           /\ Unbound(b) <=> Unbound(Dropped(b, ids))
<1> DEFINE c == Dropped(b, ids)
<1>1. b \in Bindings
  BY DEF Holds, Bindings
<1>2. c \in Bindings /\ c.mem.pend = b.mem.pend \ PendingOf(b, ids) /\ c.file = b.file
      /\ c.mem.sess = b.mem.sess
  BY <1>1, BindingType DEF Bindings, Memories, Dropped
<1>3. \A x \in X : Marker(x) \in b.mem.pend => Marker(x) \in c.mem.pend
  BY <1>2 DEF PendingOf, Marker
<1> HIDE DEF c
<1>4. Holds(c, X, FALSE) /\ (Holds(b, X, TRUE) => Holds(c, X, TRUE))
  BY <1>2, <1>3 DEF Holds, Bindings
<1> QED BY <1>2, <1>4 DEF c, Unbound

\* ... and writing the file if there were any.
LEMMA ClearHolds ==
    ASSUME NEW b, NEW X, Holds(b, X, FALSE), NEW ids, \A x \in X : x.id \notin ids, NEW f
    PROVE  /\ Holds(clearPendingSubmission(b, ids, f), X, FALSE)
           /\ Holds(b, X, TRUE) => Holds(clearPendingSubmission(b, ids, f), X, TRUE)
           /\ Unbound(b) => Unbound(clearPendingSubmission(b, ids, f))
<1> DEFINE c == Dropped(b, ids)
<1>1. Holds(c, X, FALSE) /\ (Holds(b, X, TRUE) => Holds(c, X, TRUE)) /\ (Unbound(b) <=> Unbound(c))
  BY DropHolds
<1>2. CASE PendingOf(b, ids) = {}
  BY <1>2 DEF clearPendingSubmission
<1>3. CASE PendingOf(b, ids) # {}
  <2>1. clearPendingSubmission(b, ids, f) = persistCurrentBinding(c, f)
    BY <1>3 DEF clearPendingSubmission, Dropped
  <2> HIDE DEF c
  <2>2. CASE c.mem.sess = None
    BY <1>1, <2>1, <2>2 DEF persistCurrentBinding
  <2>3. CASE c.mem.sess # None
    <3>1. c \in Bindings
      BY <1>1 DEF Holds, Bindings
    <3>2. Holds(c, X, TRUE) /\ c.mem.sess \in Ids /\ c.mem.known \in SUBSET Ids
      BY <1>1, <2>3, <3>1, BindingType DEF Holds
    <3>3. clearPendingSubmission(b, ids, f) = writeBinding(c, c.mem.sess, c.mem.known, f)
      BY <2>1, <2>3 DEF persistCurrentBinding
    <3>4. Holds(writeBinding(c, c.mem.sess, c.mem.known, f), X, TRUE)
      BY <3>2, WriteHolds
    <3>5. Holds(writeBinding(c, c.mem.sess, c.mem.known, f), X, FALSE)
      BY <3>4 DEF Holds
    <3>6. ~ Unbound(b)
      BY <1>1, <2>3 DEF Unbound
    <3> QED BY <3>3, <3>4, <3>5, <3>6
  <2> QED BY <2>2, <2>3
<1> QED BY <1>2, <1>3

\* Reading the file: afterwards the memory holds what the file does.
LEMMA RestoreHolds ==
    ASSUME NEW b, NEW X, Holds(b, X, FALSE), NEW f
    PROVE  /\ Holds(restoreBinding(b, f), X, TRUE)
           /\ restoreBinding(b, f).mem.sess # None => restoreBinding(b, f).file # None
           /\ Unbound(b) => restoreBinding(b, f) = b
<1> DEFINE r == restoreBinding(b, f)
<1>1. b \in Bindings
  BY DEF Holds, Bindings
<1>2. CASE b.mem.sess # None /\ b.file # None
  BY <1>2 DEF restoreBinding, Holds, Unbound
<1>3. CASE b.mem.sess # None /\ b.file = None
  <2>1. r = [b EXCEPT !.mem.sess = None, !.mem.known = {}]
    BY <1>3 DEF restoreBinding
  <2>2. r \in Bindings /\ r.mem.pend = b.mem.pend /\ r.file = None /\ r.mem.sess = None
    <3> DEFINE m == [b.mem EXCEPT !.sess = None, !.known = {}]
    <3>1. r = [mem |-> m, file |-> b.file]
      BY <1>1, <2>1 DEF Bindings, Memories
    <3>2. m \in Memories /\ m.pend = b.mem.pend /\ m.sess = None
      BY <1>1, BindingType DEF Memories
    <3> HIDE DEF m, r
    <3> QED BY <1>3, <3>1, <3>2 DEF Bindings
  <2>3. X = {}
    BY <1>3 DEF Holds
  <2> HIDE DEF r
  <2>4. Holds(r, X, TRUE)
    BY <2>2, <2>3 DEF Holds, Bindings
  <2> QED BY <1>3, <2>2, <2>4 DEF r, Unbound
<1>4. CASE b.mem.sess = None /\ ~ claimPlaceholderBinding(b, f)
  <2>1. r = b
    BY <1>4 DEF restoreBinding
  <2>2. b.file = None \/ ~ b.file.claimed
    BY <1>4 DEF claimPlaceholderBinding
  <2>3. X = {}
    BY <2>2 DEF Holds
  <2> QED BY <1>4, <2>1, <2>3 DEF Holds
<1>5. CASE b.mem.sess = None /\ claimPlaceholderBinding(b, f)
  <2> DEFINE m == [sess |-> b.file.sess, known |-> b.file.known, pend |-> b.file.pend]
             w == [b.file EXCEPT !.claimed = TRUE]
  <2>1. r = [mem |-> m, file |-> w]
    BY <1>5 DEF restoreBinding
  <2>2. b.file # None
    BY <1>5 DEF claimPlaceholderBinding
  <2>3. m \in Memories /\ m.pend = b.file.pend
    BY <1>1, <2>2, BindingType DEF Memories
  <2>4. w \in Files /\ w.pend = b.file.pend /\ w.claimed /\ w # None
    BY <1>1, <2>2, BindingType, NoneAssumption DEF Files
  <2> HIDE DEF r, m, w
  <2>5. Holds(r, X, TRUE) /\ r.file # None
    BY <2>1, <2>2, <2>3, <2>4 DEF Holds
  <2> QED BY <2>2, <2>5 DEF r, Unbound
<1> QED BY <1>2, <1>3, <1>4, <1>5

LEMMA ClearBindingHolds ==
    ASSUME NEW b, NEW X, Holds(b, X, TRUE)
    PROVE  Holds(clearBinding(b), X, TRUE)
<1> DEFINE m == [b.mem EXCEPT !.sess = None, !.known = {}]
<1>1. b \in Bindings
  BY DEF Holds, Bindings
<1>2. m \in Memories /\ m.pend = b.mem.pend
  BY <1>1, BindingType DEF Memories
<1>3. CASE b.mem.pend # {}
  <2>1. clearBinding(b) = [mem |-> m, file |-> b.file]
    BY <1>3 DEF clearBinding
  <2> HIDE DEF m
  <2> QED BY <1>1, <1>2, <2>1, BindingType DEF Holds
<1>4. CASE b.mem.pend = {}
  <2>1. clearBinding(b) = [mem |-> m, file |-> None] /\ X = {}
    BY <1>4 DEF clearBinding, Holds
  <2> HIDE DEF m
  <2> QED BY <1>1, <1>2, <1>4, <2>1, BindingType DEF Holds
<1> QED BY <1>3, <1>4

\* The marker of a new submission is added, and the file written.
LEMMA MarkHolds ==
    ASSUME NEW b, NEW X, Holds(b, X, TRUE), b.mem.sess # None, NEW y \in Submissions,
           NEW f, f # "write", \A x \in X : x.id # y.id
    PROVE  LET c == [b EXCEPT !.mem.pend = @ \ PendingOf(b, {y.id})]
               d == [c EXCEPT !.mem.pend = @ \cup {[id |-> y.id, sess |-> y.sess]}]
           IN  Holds(persistCurrentBinding(d, f), X \cup {y}, TRUE)
<1> DEFINE c == [b EXCEPT !.mem.pend = @ \ PendingOf(b, {y.id})]
           d == [c EXCEPT !.mem.pend = @ \cup {[id |-> y.id, sess |-> y.sess]}]
           w == [sess |-> d.mem.sess, known |-> d.mem.known, pend |-> d.mem.pend, claimed |-> TRUE]
<1>1. b \in Bindings
  BY DEF Holds, Bindings
<1>2. c \in Bindings /\ c.mem.pend = b.mem.pend \ PendingOf(b, {y.id})
      /\ c.mem.sess = b.mem.sess
  BY <1>1, BindingType DEF Bindings, Memories
<1>3. [id |-> y.id, sess |-> y.sess] \in Pending /\ Marker(y) = [id |-> y.id, sess |-> y.sess]
  BY DEF Submissions, Pending, Marker
<1>4. d \in Bindings /\ d.mem.pend = c.mem.pend \cup {Marker(y)} /\ d.mem.sess = b.mem.sess
  <2> HIDE DEF c
  <2> QED BY <1>2, <1>3, BindingType DEF Bindings, Memories
<1>5. \A x \in X \cup {y} : Marker(x) \in d.mem.pend
  BY <1>2, <1>4 DEF Holds, PendingOf, Marker
<1>6. \A p, q \in d.mem.pend : p.id = q.id => p = q
  <2>1. \A q \in c.mem.pend : q.id # y.id /\ q \in b.mem.pend
    BY <1>2 DEF PendingOf
  <2>2. Marker(y).id = y.id
    BY DEF Marker
  <2>3. \A p, q \in b.mem.pend : p.id = q.id => p = q
    BY DEF Holds
  <2> HIDE DEF c, d
  <2> QED BY <1>4, <2>1, <2>2, <2>3
<1> HIDE DEF c, d
<1>7. d.mem.sess \in Ids /\ d.mem.known \in SUBSET Ids /\ d.mem \in Memories /\ d.mem.pend \subseteq Pending
  BY <1>4, BindingType
<1>8. w \in Files /\ w # None /\ w.pend = d.mem.pend /\ w.claimed
  BY <1>7, FileType
<1>9. persistCurrentBinding(d, f) = [mem |-> [d.mem EXCEPT !.sess = d.mem.sess, !.known = d.mem.known], file |-> w]
  BY <1>4 DEF persistCurrentBinding, writeBinding
<1>10. [d.mem EXCEPT !.sess = d.mem.sess, !.known = d.mem.known] = d.mem
  BY <1>7 DEF Memories
<1> HIDE DEF w
<1>11. Holds(persistCurrentBinding(d, f), X \cup {y}, TRUE)
  BY <1>5, <1>6, <1>7, <1>8, <1>9, <1>10 DEF Holds
<1> QED BY <1>11 DEF c, d

LEMMA HoldsLess ==
    ASSUME NEW b, NEW X, NEW Y \in SUBSET X
    PROVE  /\ Holds(b, X, TRUE) => Holds(b, Y, TRUE) /\ Holds(b, Y, FALSE)
           /\ Holds(b, X, FALSE) => Holds(b, Y, FALSE)
BY DEF Holds

-----------------------------------------------------------------------------
(* Steps of the delivery under way.                                        *)

LEMMA HistoryShrinks ==
    ASSUME NEW h, NEW S, NEW id
    PROVE  /\ Remembered(Without(h, S)) \subseteq Remembered(h)
           /\ Remembered(rememberBounded(h, id)) \subseteq Remembered(h) \cup {id}
<1>1. \A T : Remembered(Without(h, T)) \subseteq Remembered(h)
  BY DEF Remembered, Without
<1>2. \A i \in Identities : i # id /\ rememberBounded(h, id)[i] # 0 => Without(h, {id})[i] # 0
  BY DEF rememberBounded
<1>3. Remembered(rememberBounded(h, id)) \subseteq Remembered(Without(h, {id})) \cup {id}
  BY <1>2 DEF Remembered
<1> QED BY <1>1, <1>3

LEMMA BindingIsType == DeliveryInv => Binding \in Bindings /\ Binding.mem = mem /\ Binding.file = file
BY DEF DeliveryInv, BindingHolds, Holds, Binding, Bindings

\* A binding that is left is the next one.
LEMMA Bound ==
    ASSUME NEW b, b \in Bindings, Bind(b)
    PROVE  Binding' = b
BY DEF Bind, Binding, Bindings

\* While nothing happens to submissions and to what is unread.
LEMMA SameOpen ==
    ASSUME UNCHANGED <<subs, unread>>
    PROVE  /\ Open' = Open /\ Unresolved' = Unresolved
           /\ \A d, s : WorkOk(d, s) => WorkOk(d, s)'
           /\ \A d : Alone(d) => Alone(d)'
<1>1. Open' = Open /\ Unresolved' = Unresolved
  BY DEF Open, Unresolved
<1>2. \A d : Alone(d) => Alone(d)'
  BY <1>1 DEF Alone
<1>3. \A d : NothingThere(d) => NothingThere(d)'
  BY <1>1 DEF NothingThere
<1> QED BY <1>1, <1>2, <1>3 DEF WorkOk

\* The delivery goes on.
LEMMA GoInv ==
    ASSUME DeliveryInv, work # None, UNCHANGED subs,
           NEW s \in Steps \ {"idle"}, NEW d \in Deliveries, d.id = work.id, WorkOk(d, s),
           NEW b, Holds(b, Open, FALSE),
           s \notin {"ask", "resolve"} \/ d.target # None => Holds(b, Open, TRUE),
           launched \/ (Unbound(b) /\ s \in {"ask", "resolve"} /\ d.target = None),
           NEW f, Go(s, d, b, f)
    PROVE  DeliveryInv'
<1> USE DEF DeliveryInv
<1>1. /\ work' = d /\ pc' = s /\ work' # None /\ Bind(b)
      /\ UNCHANGED <<arrived, unread, sessions, created, launched, delivered, unconfirmed, rec, queue, subs>>
  BY NoneAssumption DEF Go, world, history
<1>2. b \in Bindings /\ Binding' = b /\ mem' = b.mem /\ file' = b.file
  BY <1>1, Bound DEF Holds, Bindings, Bind
<1>3. Shapes'
  BY <1>1 DEF Shapes
<1>4. BindingHolds'
  <2>1. Resolved' => Holds(b, Open, TRUE)
    BY <1>1 DEF Resolved
  <2> QED BY <1>1, <1>2, <2>1, SameOpen DEF BindingHolds, Holds
<1>5. NotLaunched'
  BY <1>1, <1>2 DEF NotLaunched, Resolved
<1>6. HaveArrived' /\ OnePerSource'
  BY <1>1 DEF HaveArrived, OnePerSource
<1>7. QueueOk' /\ WorkOk(work, pc)'
  BY <1>1, SameOpen DEF QueueOk
<1>8. LoopsLook' /\ OpenIsAlone'
  BY <1>1, SameOpen DEF LoopsLook, OpenIsAlone
<1> QED BY <1>3, <1>4, <1>5, <1>6, <1>7, <1>8

\* The delivery ends: what it leaves in the binding, in the histories and in the loops.
LEMMA IdleInv ==
    ASSUME DeliveryInv, work # None, UNCHANGED <<subs, world, queue>>, Idle,
           NEW b, Holds(b, Open, FALSE), launched \/ Unbound(b), Bind(b),
           Remembered(unconfirmed)' \subseteq Remembered(unconfirmed) \cup {work.id},
           rec' \subseteq Pending, LoopsLook'
    PROVE  DeliveryInv'
<1> USE DEF DeliveryInv
<1>1. /\ work' = None /\ pc' = "idle"
      /\ UNCHANGED <<arrived, unread, sessions, created, launched, queue, subs>>
  BY DEF Idle, world
<1>2. b \in Bindings /\ Binding' = b /\ mem' = b.mem /\ file' = b.file
  BY Bound DEF Holds, Bindings, Bind
<1>3. Shapes'
  BY <1>1 DEF Shapes, Steps
<1>4. BindingHolds'
  <2>1. Resolved' <=> FALSE
    BY <1>1 DEF Resolved
  <2> QED BY <1>1, <1>2, <2>1, SameOpen DEF BindingHolds, Holds
<1>5. NotLaunched'
  BY <1>1, <1>2 DEF NotLaunched, Resolved
<1>6. HaveArrived'
  BY <1>1 DEF HaveArrived
<1>7. OnePerSource'
  BY <1>1 DEF OnePerSource
<1>8. QueueOk' /\ OpenIsAlone'
  BY <1>1, SameOpen DEF QueueOk, OpenIsAlone
<1> QED BY <1>1, <1>3, <1>4, <1>5, <1>6, <1>7, <1>8

LEMMA FinishInv ==
    ASSUME DeliveryInv, work # None, UNCHANGED subs,
           NEW outcome \in {"delivered", "unconfirmed", "failed"},
           NEW d \in Deliveries, d.id = work.id,
           NEW b, Holds(b, Open, FALSE), launched \/ Unbound(b),
           outcome = "delivered" /\ ~ d.settled => \A x \in Open : x.id # d.id,
           d.accepted => d.conf \in Ids /\ \A x \in Open : x.id = d.id => d.conf = x.sess,
           NEW f, Finish(outcome, d, b, f)
    PROVE  DeliveryInv'
<1>1. Idle /\ UNCHANGED <<subs, world, queue>> /\ Open' = Open
  BY SameOpen DEF Finish, world
<1>2. CASE d.settled \/ outcome = "failed"
  <2>1. Bind(b) /\ UNCHANGED rec /\ Remembered(unconfirmed)' \subseteq Remembered(unconfirmed)
    <3>1. CASE d.settled
      BY <3>1 DEF Finish, history, Remembered
    <3>2. CASE ~ d.settled
      <4>1. Bind(b) /\ UNCHANGED rec /\ unconfirmed' = Without(unconfirmed, {d.id})
        BY <1>2, <3>2 DEF Finish
      <4>2. Remembered(unconfirmed') \subseteq Remembered(unconfirmed)
        BY <4>1, HistoryShrinks
      <4> QED BY <4>1, <4>2 DEF Remembered
    <3> QED BY <3>1, <3>2
  <2>2. LoopsLook'
    BY <1>1, <2>1 DEF DeliveryInv, LoopsLook
  <2> QED BY <1>1, <2>1, <2>2, IdleInv DEF DeliveryInv, Shapes
<1>3. CASE ~ d.settled /\ outcome = "delivered"
  <2> DEFINE c == clearPendingSubmission(b, {d.id}, f)
  <2>1. Bind(c) /\ UNCHANGED rec /\ Remembered(unconfirmed)' \subseteq Remembered(unconfirmed)
    BY <1>3, HistoryShrinks DEF Finish, confirmOpenCodeDelivery, Remembered
  <2>2. Holds(c, Open, FALSE) /\ (Unbound(b) => Unbound(c))
    <3> DEFINE ids == {d.id}
    <3>1. \A x \in Open : x.id \notin ids
      BY <1>3
    <3>2. c = clearPendingSubmission(b, ids, f)
      OBVIOUS
    <3> HIDE DEF ids, c
    <3> QED BY <3>1, <3>2, ClearHolds
  <2>3. LoopsLook'
    BY <1>1, <2>1 DEF DeliveryInv, LoopsLook
  <2> HIDE DEF c
  <2> QED BY <1>1, <2>1, <2>2, <2>3, IdleInv DEF DeliveryInv, Shapes
<1>4. CASE ~ d.settled /\ outcome = "unconfirmed"
  <2>1. /\ Bind(b) /\ EarlierLoopEnded(d.id) /\ unconfirmed' = rememberBounded(unconfirmed, d.id)
        /\ rec' = IF d.accepted THEN scheduleOpenCodeReconciliation(d.id, d.conf) ELSE rec
    BY <1>4 DEF Finish
  <2>2. Remembered(unconfirmed)' \subseteq Remembered(unconfirmed) \cup {work.id}
    BY <2>1, HistoryShrinks DEF Remembered
  <2>3. \A r \in rec' : r \in rec \/ (r = [id |-> d.id, sess |-> d.conf] /\ d.accepted)
    BY <2>1 DEF scheduleOpenCodeReconciliation
  <2>4. rec' \subseteq Pending
    BY <2>3 DEF DeliveryInv, Shapes, Pending, Deliveries
  <2>5. LoopsLook'
    <3> SUFFICES ASSUME NEW r \in rec', r.id \in Remembered(unconfirmed)', NEW x \in Open, x.id = r.id
                 PROVE  r.sess = x.sess
      BY <1>1 DEF LoopsLook
    <3>1. CASE r \in rec
      <4>1. r.id # d.id
        BY <2>1, <3>1 DEF EarlierLoopEnded
      <4> QED BY <2>2, <3>1, <4>1 DEF DeliveryInv, LoopsLook
    <3>2. CASE r = [id |-> d.id, sess |-> d.conf] /\ d.accepted
      BY <3>2
    <3> QED BY <2>3, <3>1, <3>2
  <2> QED BY <1>1, <2>1, <2>2, <2>4, <2>5, IdleInv
<1> QED BY <1>2, <1>3, <1>4

\* What a step of the delivery starts from.
LEMMA AtWork ==
    ASSUME DeliveryInv, pc # "idle"
    PROVE  /\ work # None /\ work \in Deliveries /\ WorkOk(work, pc)
           /\ Holds(Binding, Open, FALSE) /\ (Resolved => launched /\ Holds(Binding, Open, TRUE))
           /\ launched \/ (Unbound(Binding) /\ ~ Resolved)
<1>1. work # None /\ work \in Deliveries /\ WorkOk(work, pc)
  BY DEF DeliveryInv, Shapes
<1>2. Holds(Binding, Open, FALSE) /\ (Resolved => Holds(Binding, Open, TRUE))
  BY DEF DeliveryInv, BindingHolds, Holds
<1>3. launched \/ (Unbound(Binding) /\ ~ Resolved)
  BY DEF DeliveryInv, NotLaunched
<1> QED BY <1>1, <1>2, <1>3

LEMMA NextAttemptInv ==
    ASSUME DeliveryInv, pc \notin {"idle", "confirm"}, UNCHANGED subs, launched,
           NEW b, Holds(b, Open, TRUE), NEW f, NextAttempt(work, b, f)
    PROVE  DeliveryInv'
<1> DEFINE d == [work EXCEPT !.attempt = @ + 1]
<1>1. work # None /\ work \in Deliveries /\ WorkOk(work, pc) /\ Holds(b, Open, FALSE)
  BY AtWork DEF Holds
<1>2. work.id = work.id /\ ~ work.accepted
  BY <1>1 DEF WorkOk
<1>3. CASE work.attempt < Attempts
  <2>1. d \in Deliveries /\ d.id = work.id /\ d.allow = work.allow /\ ~ d.accepted
    <3>1. work.attempt + 1 \in 1 .. Attempts
      BY <1>1, <1>3, OpenCodeAssumption DEF Deliveries
    <3> QED BY <1>1, <1>2, <3>1 DEF Deliveries
  <2>2. WorkOk(d, "ask")
    BY <1>1, <2>1 DEF WorkOk, Alone, Looked
  <2>3. Go("ask", d, b, f)
    BY <1>3 DEF NextAttempt
  <2> HIDE DEF d
  <2> QED BY <1>1, <2>1, <2>2, <2>3, GoInv DEF Steps
<1>4. CASE ~ (work.attempt < Attempts)
  <2>1. Finish("failed", work, b, f) \/ Finish("unconfirmed", work, b, f)
    BY <1>4 DEF NextAttempt
  <2> QED BY <1>1, <1>2, <2>1, FinishInv
<1> QED BY <1>3, <1>4

\* A marker of the identity says where its open submission was made.
LEMMA MarkerTells ==
    ASSUME NEW b, NEW X, Holds(b, X, TRUE)
    PROVE  \A x \in X : /\ \E p \in b.mem.pend : p.id = x.id
                        /\ \A p \in b.mem.pend : p.id = x.id => p.sess = x.sess
<1> SUFFICES ASSUME NEW x \in X
             PROVE  /\ \E p \in b.mem.pend : p.id = x.id
                    /\ \A p \in b.mem.pend : p.id = x.id => p.sess = x.sess
  OBVIOUS
<1>1. Marker(x) \in b.mem.pend /\ Marker(x).sess = x.sess /\ Marker(x).id = x.id
  BY DEF Holds, Marker
<1> QED BY <1>1 DEF Holds

LEMMA ToFindInv ==
    ASSUME DeliveryInv, pc \notin {"idle", "confirm"}, UNCHANGED subs, launched,
           NEW s \in Ids, NEW b, Holds(b, Open, TRUE), NEW f, ToFind(work, s, b, f)
    PROVE  DeliveryInv'
<1> DEFINE p == PendingOf(b, {work.id})
           c == IF p = {} THEN s ELSE (CHOOSE x \in p : TRUE).sess
           d == [work EXCEPT !.target = s, !.bound = None, !.known = {}, !.before = p # {}, !.conf = c]
<1>1. work # None /\ work \in Deliveries /\ WorkOk(work, pc) /\ Holds(b, Open, FALSE)
  BY AtWork DEF Holds
<1>2. c \in Ids
  <2>1. p \subseteq Pending
    BY BindingType DEF Holds, Bindings, PendingOf
  <2>2. p # {} => (CHOOSE x \in p : TRUE) \in Pending
    BY <2>1
  <2> QED BY <2>2 DEF Pending
<1>3. \A x \in Open : x.id = work.id => p # {} /\ c = x.sess
  <2> SUFFICES ASSUME NEW x \in Open, x.id = work.id
               PROVE  p # {} /\ c = x.sess
    OBVIOUS
  <2>0. \A y \in Open : /\ \E q \in b.mem.pend : q.id = y.id
                       /\ \A q \in b.mem.pend : q.id = y.id => q.sess = y.sess
    BY MarkerTells
  <2>1. /\ \E q \in b.mem.pend : q.id = x.id
        /\ \A q \in b.mem.pend : q.id = x.id => q.sess = x.sess
    BY <2>0
  <2>3. p # {} /\ \A q \in p : q.sess = x.sess
    BY <2>1 DEF PendingOf
  <2> HIDE DEF p
  <2>4. (CHOOSE q \in p : TRUE) \in p
    BY <2>3
  <2> QED BY <2>3, <2>4
<1>4. p = {} => c = s
  OBVIOUS
<1> HIDE DEF c
<1>5. /\ d \in Deliveries /\ d.id = work.id /\ d.allow = work.allow /\ d.accepted = work.accepted
      /\ d.target = s /\ d.conf = c /\ (d.before <=> p # {})
  BY <1>1, <1>2 DEF Deliveries
<1>6. Go("find", d, b, f)
  BY DEF ToFind, c
<1> HIDE DEF d, p
<1>7. WorkOk(d, "find")
  BY <1>1, <1>2, <1>3, <1>4, <1>5 DEF WorkOk, Alone, Looked
<1> QED BY <1>1, <1>5, <1>6, <1>7, GoInv DEF Steps, Looked

LEMMA ResolveSessionInv ==
    ASSUME DeliveryInv, resolveInjectionSession
    PROVE  DeliveryInv'
<1>1. pc = "resolve" /\ UNCHANGED subs
  BY DEF resolveInjectionSession
<1>2. PICK f : LET b == restoreBinding(Binding, f) IN
              IF work.attempt > 1 /\ work.settled THEN Finish("delivered", work, Binding, f)
              ELSE IF work.target # None THEN ToFind(work, work.target, Binding, f)
              ELSE IF b.mem.sess = None THEN Finish("failed", work, b, f)
              ELSE Go("get", [work EXCEPT !.bound = b.file.sess, !.known = b.file.known], b, f)
  BY DEF resolveInjectionSession
<1> DEFINE b == restoreBinding(Binding, f)
           d == [work EXCEPT !.bound = b.file.sess, !.known = b.file.known]
<1>3. /\ work # None /\ work \in Deliveries /\ WorkOk(work, pc) /\ ~ work.accepted
      /\ Holds(Binding, Open, FALSE) /\ (Resolved => launched /\ Holds(Binding, Open, TRUE))
      /\ launched \/ (Unbound(Binding) /\ ~ Resolved)
  BY <1>1, AtWork DEF WorkOk
<1>4. /\ Holds(b, Open, TRUE) /\ (b.mem.sess # None => b.file # None)
      /\ Unbound(Binding) => b = Binding
  BY <1>3, RestoreHolds
<1>5. CASE work.settled /\ Finish("delivered", work, Binding, f)
  BY <1>1, <1>3, <1>5, FinishInv
<1>6. CASE work.target # None /\ ToFind(work, work.target, Binding, f)
  <2>1. work.target \in Ids /\ Resolved
    BY <1>3, <1>6 DEF Deliveries, Resolved
  <2> QED BY <1>1, <1>3, <1>6, <2>1, ToFindInv
<1>7. CASE b.mem.sess = None /\ Finish("failed", work, b, f)
  <2>1. Holds(b, Open, FALSE) /\ (launched \/ Unbound(b))
    BY <1>3, <1>4 DEF Holds
  <2> HIDE DEF b
  <2> QED BY <1>1, <1>3, <1>7, <2>1, FinishInv
<1>8. CASE b.mem.sess # None /\ Go("get", d, b, f)
  <2>1. launched
    BY <1>3, <1>4, <1>8 DEF Unbound
  <2>2. Holds(b, Open, FALSE) /\ b.file \in Files /\ b.file.sess \in Ids /\ b.file.known \subseteq Ids
    BY <1>4, <1>8, BindingType DEF Holds, Bindings
  <2> HIDE DEF b
  <2>3. d \in Deliveries /\ d.id = work.id /\ d.allow = work.allow /\ ~ d.accepted /\ d.bound \in Ids
    BY <1>3, <2>2 DEF Deliveries
  <2>4. WorkOk(d, "get")
    BY <1>3, <2>3 DEF WorkOk, Alone, Looked
  <2> HIDE DEF d
  <2> QED BY <1>1, <1>3, <1>4, <1>8, <2>1, <2>2, <2>3, <2>4, GoInv DEF Steps
<1> QED BY <1>2, <1>5, <1>6, <1>7, <1>8

LEMMA GetSessionInv ==
    ASSUME DeliveryInv, getSession
    PROVE  DeliveryInv'
<1>1. pc = "get" /\ UNCHANGED subs /\ Resolved
  BY DEF getSession, Resolved
<1>2. PICK f : \/ NextAttempt(work, Binding, f)
               \/ Go("switch", work, Binding, f)
               \/ Go("replace", work, clearBinding(Binding), f)
  BY DEF getSession
<1>3. /\ work # None /\ work \in Deliveries /\ WorkOk(work, pc) /\ launched
      /\ Holds(Binding, Open, TRUE) /\ Holds(Binding, Open, FALSE)
  BY <1>1, AtWork
<1>4. Holds(clearBinding(Binding), Open, TRUE) /\ Holds(clearBinding(Binding), Open, FALSE)
  BY <1>3, ClearBindingHolds DEF Holds
<1>5. WorkOk(work, "switch") /\ WorkOk(work, "replace")
  BY <1>1, <1>3 DEF WorkOk, Looked
<1>6. CASE NextAttempt(work, Binding, f)
  BY <1>1, <1>3, <1>6, NextAttemptInv
<1>7. CASE Go("switch", work, Binding, f) \/ Go("replace", work, clearBinding(Binding), f)
  BY <1>1, <1>3, <1>4, <1>5, <1>7, GoInv DEF Steps
<1> QED BY <1>2, <1>6, <1>7

LEMMA FindUnseenInv ==
    ASSUME DeliveryInv, findUnseenTopLevelSession
    PROVE  DeliveryInv'
<1>1. pc \in {"replace", "switch"} /\ UNCHANGED subs /\ Resolved
  BY DEF findUnseenTopLevelSession, Resolved
<1>2. PICK f : \/ \E s \in sessions : ToFind(work, s, writeBinding(Binding, s, sessions, f), f)
               \/ pc = "switch" /\ ToFind(work, work.bound, Binding, f)
               \/ NextAttempt(work, Binding, f)
               \/ Finish("failed", work, Binding, f)
  BY DEF findUnseenTopLevelSession, Newest
<1>3. /\ work # None /\ work \in Deliveries /\ WorkOk(work, pc) /\ launched
      /\ Holds(Binding, Open, TRUE) /\ Holds(Binding, Open, FALSE)
  BY <1>1, AtWork
<1>4. sessions \in SUBSET Ids
  BY DEF DeliveryInv, Shapes
<1>5. CASE \E s \in sessions : ToFind(work, s, writeBinding(Binding, s, sessions, f), f)
  <2>1. PICK s \in sessions : ToFind(work, s, writeBinding(Binding, s, sessions, f), f)
    BY <1>5
  <2>2. Holds(writeBinding(Binding, s, sessions, f), Open, TRUE) /\ s \in Ids
    BY <1>3, <1>4, WriteHolds
  <2> QED BY <1>1, <1>3, <2>1, <2>2, ToFindInv
<1>6. CASE pc = "switch" /\ ToFind(work, work.bound, Binding, f)
  <2>1. work.bound \in Ids
    BY <1>3, <1>6 DEF WorkOk
  <2> QED BY <1>1, <1>3, <1>6, <2>1, ToFindInv
<1>7. CASE NextAttempt(work, Binding, f)
  BY <1>1, <1>3, <1>7, NextAttemptInv
<1>8. CASE Finish("failed", work, Binding, f)
  <2>1. ~ work.accepted
    BY <1>1, <1>3 DEF WorkOk
  <2> QED BY <1>1, <1>3, <1>8, <2>1, FinishInv
<1> QED BY <1>2, <1>5, <1>6, <1>7, <1>8

\* A submission that has appeared is not the open one.
LEMMA ShownIsNotOpen ==
    ASSUME DeliveryInv, NEW id, NEW s, \A x \in Open : x.id = id => s = x.sess,
           Shown(id, s) \/ Shown(Own(id.src), s)
    PROVE  \A x \in Open : x.id # id
<1> SUFFICES ASSUME NEW x \in Open, x.id = id PROVE FALSE
  OBVIOUS
<1>1. CASE Shown(id, s)
  <2> DEFINE y == [id |-> id, sess |-> s, st |-> "shown"]
  <2>1. y \in subs /\ y.st = "shown" /\ y.sess = x.sess /\ y.id = x.id
    BY <1>1 DEF Shown
  <2> QED BY <2>1 DEF DeliveryInv, OpenIsAlone
<1>2. CASE Shown(Own(id.src), s)
  <2> DEFINE y == [id |-> Own(id.src), sess |-> s, st |-> "shown"]
  <2>1. y \in subs /\ y.st = "shown" /\ y.sess = x.sess /\ y.id = Own(x.id.src)
    BY <1>2 DEF Shown
  <2> QED BY <2>1 DEF DeliveryInv, OpenIsAlone
<1> QED BY <1>1, <1>2

\* The source of the delivery is asked for before it goes on and before it submits.
LEMMA ConsumedInv ==
    ASSUME DeliveryInv, pc # "idle", work.id.src \notin unread, UNCHANGED subs, NEW f, Consumed(f)
    PROVE  DeliveryInv'
<1> DEFINE ids == SettledIds(work.id.src)
           c == clearPendingSubmission(Binding, ids, f)
<1>1. /\ work # None /\ Holds(Binding, Open, FALSE)
      /\ launched \/ Unbound(Binding)
  BY AtWork
<1>2. \A x \in Open : x.id \notin ids
  BY DEF SettledIds, Open
<1>3. Bind(c) /\ Idle /\ UNCHANGED <<world, rec>> /\ unconfirmed' = Without(unconfirmed, ids)
  BY DEF Consumed
<1> HIDE DEF ids
<1>4. Holds(c, Open, FALSE) /\ (launched \/ Unbound(c))
  BY <1>1, <1>2, ClearHolds
<1>5. Remembered(unconfirmed)' \subseteq Remembered(unconfirmed)
  BY <1>3, HistoryShrinks DEF Remembered
<1>6. queue' = queue
  <2>1. queue \in Seq(Deliveries) /\ \A j \in 1 .. Len(queue) : queue[j].id.src # work.id.src
    BY <1>1 DEF DeliveryInv, Shapes, OnePerSource
  <2>2. \A j \in 1 .. Len(queue) : Settled(queue[j], work.id.src) = queue[j]
    BY <2>1 DEF Settled
  <2>3. queue' = [j \in 1 .. Len(queue) |-> queue[j]]
    BY <2>2 DEF Consumed
  <2> QED BY <2>1, <2>3
<1>7. LoopsLook' /\ rec' \subseteq Pending
  <2>1. Open' = Open /\ rec' = rec
    BY <1>3, SameOpen DEF world
  <2> QED BY <1>5, <2>1 DEF DeliveryInv, LoopsLook, Shapes
<1> HIDE DEF c
<1> QED BY <1>1, <1>3, <1>4, <1>5, <1>6, <1>7, IdleInv DEF world

LEMMA AskInv ==
    ASSUME DeliveryInv, NEW s, NEW next, Ask(s, next),
           (s = "ask" /\ next = "resolve") \/ (s = "askAgain" /\ next = "submit")
    PROVE  DeliveryInv'
<1>1. pc = s /\ pc \notin {"idle", "confirm"} /\ UNCHANGED subs
  BY DEF Ask
<1>2. PICK f : \/ work.settled /\ Finish("delivered", work, Binding, f)
               \/ Finish("failed", work, Binding, f)
               \/ work.id.src \notin unread /\ Consumed(f)
               \/ work.id.src \in unread /\ Go(next, work, Binding, f)
  BY DEF Ask
<1>3. /\ work # None /\ work \in Deliveries /\ WorkOk(work, pc) /\ ~ work.accepted
      /\ Holds(Binding, Open, FALSE) /\ (Resolved => launched /\ Holds(Binding, Open, TRUE))
      /\ launched \/ (Unbound(Binding) /\ ~ Resolved)
  BY <1>1, AtWork DEF WorkOk
<1>4. CASE work.settled /\ Finish("delivered", work, Binding, f)
  BY <1>1, <1>3, <1>4, FinishInv
<1>5. CASE Finish("failed", work, Binding, f)
  BY <1>1, <1>3, <1>5, FinishInv
<1>6. CASE work.id.src \notin unread /\ Consumed(f)
  BY <1>1, <1>6, ConsumedInv
<1>7. CASE work.id.src \in unread /\ Go(next, work, Binding, f)
  <2>1. CASE s = "ask"
    <3>1. WorkOk(work, "resolve")
      BY <1>1, <1>3, <2>1 DEF WorkOk, Looked
    <3>2. work.target # None <=> Resolved
      BY <1>1, <1>3, <2>1 DEF Resolved
    <3> QED BY <1>1, <1>3, <1>7, <2>1, <3>1, <3>2, GoInv DEF Steps
  <2>2. CASE s = "askAgain"
    <3>1. WorkOk(work, "submit")
      BY <1>1, <1>3, <1>7, <2>2 DEF WorkOk, Looked
    <3>2. Resolved
      BY <1>1, <2>2 DEF Resolved
    <3> QED BY <1>1, <1>3, <1>7, <2>2, <3>1, <3>2, GoInv DEF Steps, Looked
  <2> QED BY <2>1, <2>2
<1> QED BY <1>2, <1>4, <1>5, <1>6, <1>7

\* The delivery turns to confirming what was submitted.
LEMMA ToConfirmInv ==
    ASSUME DeliveryInv, pc \in Looked, UNCHANGED subs, NEW n \in 1 .. Attempts,
           NEW f, Go("confirm", [work EXCEPT !.accepted = TRUE, !.attempt = n], Binding, f)
    PROVE  DeliveryInv'
<1> DEFINE d == [work EXCEPT !.accepted = TRUE, !.attempt = n]
<1>1. /\ work # None /\ work \in Deliveries /\ WorkOk(work, pc) /\ launched
      /\ Holds(Binding, Open, FALSE) /\ Holds(Binding, Open, TRUE)
  BY AtWork DEF Resolved, Looked
<1>2. /\ d \in Deliveries /\ d.id = work.id /\ d.allow = work.allow /\ d.target = work.target
      /\ d.conf = work.conf
  BY <1>1 DEF Deliveries
<1> HIDE DEF d
<1>3. WorkOk(d, "confirm")
  BY <1>1, <1>2 DEF WorkOk, Alone, Looked
<1>4. Go("confirm", d, Binding, f)
  BY DEF d
<1> QED BY <1>1, <1>2, <1>3, <1>4, GoInv DEF Steps, Looked

\* The delivery ends because the message has appeared.
LEMMA SeenInv ==
    ASSUME DeliveryInv, pc \in Looked, UNCHANGED subs, NEW f,
           Shown(work.id, work.conf) \/ Shown(Own(work.id.src), work.conf),
           Finish("delivered", work, clearPendingSubmission(Binding, {work.id}, f), f)
    PROVE  DeliveryInv'
<1> DEFINE ids == {work.id}
           c == clearPendingSubmission(Binding, ids, f)
<1>1. /\ work # None /\ work \in Deliveries /\ WorkOk(work, pc) /\ launched
      /\ Holds(Binding, Open, FALSE)
  BY AtWork DEF Resolved, Looked
<1>2. \A x \in Open : x.id = work.id => work.conf = x.sess
  BY <1>1 DEF WorkOk
<1>3. work.conf \in Ids
  BY <1>1 DEF WorkOk
<1>4. \A x \in Open : x.id # work.id
  BY <1>2, ShownIsNotOpen
<1>5. \A x \in Open : x.id \notin ids
  BY <1>4
<1>6. Finish("delivered", work, c, f)
  OBVIOUS
<1> HIDE DEF ids, c
<1>7. Holds(c, Open, FALSE)
  BY <1>1, <1>5, ClearHolds DEF c
<1> QED BY <1>1, <1>2, <1>3, <1>4, <1>6, <1>7, FinishInv

LEMMA findInjectedMessageInv ==
    ASSUME DeliveryInv, findInjectedMessage
    PROVE  DeliveryInv'
<1>1. pc = "find" /\ UNCHANGED subs
  BY DEF findInjectedMessage
<1>2. PICK f :
        \/ NextAttempt(work, Binding, f)
        \/ /\ Shown(work.id, work.conf) \/ Shown(Own(work.id.src), work.conf)
           /\ Finish("delivered", work, clearPendingSubmission(Binding, {work.id}, f), f)
        \/ Go("confirm", [work EXCEPT !.accepted = TRUE, !.attempt = 1], Binding, f)
        \/ work.settled /\ Finish("delivered", work, Binding, f)
        \/ /\ ~ Shown(work.id, work.conf) /\ ~ Shown(Own(work.id.src), work.conf)
           /\ work.conf \in sessions /\ ~ work.before /\ work.allow
           /\ Go("askAgain", work, Binding, f)
  BY DEF findInjectedMessage
<1>3. /\ work # None /\ work \in Deliveries /\ WorkOk(work, pc) /\ ~ work.accepted /\ launched
      /\ Holds(Binding, Open, FALSE) /\ Holds(Binding, Open, TRUE)
  BY <1>1, AtWork DEF WorkOk, Resolved
<1>4. CASE NextAttempt(work, Binding, f)
  BY <1>1, <1>3, <1>4, NextAttemptInv
<1>5. CASE /\ Shown(work.id, work.conf) \/ Shown(Own(work.id.src), work.conf)
           /\ Finish("delivered", work, clearPendingSubmission(Binding, {work.id}, f), f)
  BY <1>1, <1>5, SeenInv DEF Looked
<1>6. CASE Go("confirm", [work EXCEPT !.accepted = TRUE, !.attempt = 1], Binding, f)
  <2>1. 1 \in 1 .. Attempts
    BY OpenCodeAssumption
  <2> QED BY <1>1, <1>6, <2>1, ToConfirmInv DEF Looked
<1>7. CASE work.settled /\ Finish("delivered", work, Binding, f)
  BY <1>1, <1>3, <1>7, FinishInv
<1>8. CASE /\ ~ Shown(work.id, work.conf) /\ ~ Shown(Own(work.id.src), work.conf)
           /\ work.conf \in sessions /\ ~ work.before /\ work.allow
           /\ Go("askAgain", work, Binding, f)
  <2>1. work.conf = work.target /\ \A x \in Open : x.id.src # work.id.src
    BY <1>1, <1>3, <1>8 DEF WorkOk, Alone
  <2>2. work.id.src \in unread => NothingThere(work)
    <3> SUFFICES ASSUME work.id.src \in unread PROVE NothingThere(work)
      OBVIOUS
    <3>1. \A x \in Unresolved : x.id.src # work.id.src
      BY <2>1 DEF Open
    <3>2. \A x \in subs : x.st = "shown" /\ x.sess = work.target
                => x.id # work.id /\ x.id # Own(work.id.src)
      <4> SUFFICES ASSUME NEW x \in subs, x.st = "shown", x.sess = work.target
                   PROVE  x.id # work.id /\ x.id # Own(work.id.src)
        OBVIOUS
      <4>1. x = [id |-> x.id, sess |-> work.conf, st |-> "shown"]
        BY <2>1 DEF DeliveryInv, Shapes, Submissions
      <4> QED BY <1>8, <4>1 DEF Shown
    <3> QED BY <3>1, <3>2 DEF NothingThere
  <2>3. WorkOk(work, "askAgain")
    BY <1>1, <1>3, <1>8, <2>1, <2>2 DEF WorkOk, Looked
  <2> QED BY <1>1, <1>3, <1>8, <2>3, GoInv DEF Steps, Looked
<1> QED BY <1>2, <1>4, <1>5, <1>6, <1>7, <1>8

LEMMA ConfirmInv ==
    ASSUME DeliveryInv, Confirm
    PROVE  DeliveryInv'
<1>1. pc = "confirm" /\ UNCHANGED subs
  BY DEF Confirm
<1>2. PICK f :
        \/ work.settled /\ Finish("delivered", work, Binding, f)
        \/ /\ Shown(work.id, work.conf)
           /\ Finish("delivered", work, clearPendingSubmission(Binding, {work.id}, f), f)
        \/ work.attempt < Attempts /\ Go("confirm", [work EXCEPT !.attempt = @ + 1], Binding, f)
        \/ Finish("unconfirmed", work, Binding, f)
  BY DEF Confirm
<1>3. /\ work # None /\ work \in Deliveries /\ WorkOk(work, pc) /\ launched
      /\ Holds(Binding, Open, FALSE) /\ Holds(Binding, Open, TRUE)
  BY <1>1, AtWork DEF Resolved
<1>4. work.conf \in Ids /\ \A x \in Open : x.id = work.id => work.conf = x.sess
  BY <1>1, <1>3 DEF WorkOk, Looked
<1>5. CASE work.settled /\ Finish("delivered", work, Binding, f)
  BY <1>1, <1>3, <1>4, <1>5, FinishInv
<1>6. CASE /\ Shown(work.id, work.conf)
           /\ Finish("delivered", work, clearPendingSubmission(Binding, {work.id}, f), f)
  BY <1>1, <1>6, SeenInv DEF Looked
<1>7. CASE work.attempt < Attempts /\ Go("confirm", [work EXCEPT !.attempt = @ + 1], Binding, f)
  <2> DEFINE d == [work EXCEPT !.attempt = @ + 1]
  <2>1. work.attempt + 1 \in 1 .. Attempts
    BY <1>3, <1>7, OpenCodeAssumption DEF Deliveries
  <2>2. /\ d \in Deliveries /\ d.id = work.id /\ d.allow = work.allow /\ d.target = work.target
        /\ d.conf = work.conf
    BY <1>3, <2>1 DEF Deliveries
  <2>3. Go("confirm", d, Binding, f)
    BY <1>7
  <2> HIDE DEF d
  <2>4. WorkOk(d, "confirm")
    BY <1>1, <1>3, <2>2 DEF WorkOk, Alone, Looked
  <2> QED BY <1>1, <1>3, <2>2, <2>3, <2>4, GoInv DEF Steps, Looked
<1>8. CASE Finish("unconfirmed", work, Binding, f)
  BY <1>1, <1>3, <1>4, <1>8, FinishInv
<1> QED BY <1>2, <1>5, <1>6, <1>7, <1>8

LEMMA SubmitFailsInv ==
    ASSUME DeliveryInv, pc = "submit", UNCHANGED subs, NEW f,
           Finish("failed", work, Dropped(Binding, {work.id}), f)
    PROVE  DeliveryInv'
<1> DEFINE ids == {work.id}
           c == Dropped(Binding, ids)
<1>1. /\ work # None /\ work \in Deliveries /\ WorkOk(work, pc) /\ launched
      /\ Holds(Binding, Open, FALSE)
  BY AtWork DEF Resolved
<1>2. ~ work.accepted /\ \A x \in Open : x.id # work.id
  BY <1>1 DEF WorkOk, NothingThere, Open
<1>3. \A x \in Open : x.id \notin ids
  BY <1>2
<1>4. Finish("failed", work, c, f)
  OBVIOUS
<1> HIDE DEF ids, c
<1>5. Holds(c, Open, FALSE)
  BY <1>1, <1>3, DropHolds DEF c
<1> QED BY <1>1, <1>2, <1>4, <1>5, FinishInv

\* The one POST.
LEMMA SubmitGoesInv ==
    ASSUME DeliveryInv, pc = "submit", mem.sess # None, NEW f, f # "write", NEW b,
           Holds(b, Open \cup {[id |-> work.id, sess |-> work.target, st |-> "flying"]}, TRUE),
           Go("post", work, b, f),
           subs' = {x \in subs : ~ (x.id = work.id /\ x.st \in {"refused", "gone"})}
                   \cup {[id |-> work.id, sess |-> work.target, st |-> "flying"]}
    PROVE  DeliveryInv'
<1> DEFINE y == [id |-> work.id, sess |-> work.target, st |-> "flying"]
<1> USE DEF DeliveryInv
<1>1. work # None /\ work \in Deliveries /\ WorkOk(work, pc) /\ launched
  BY AtWork DEF Resolved
<1>2. /\ work' = work /\ pc' = "post" /\ Bind(b)
      /\ UNCHANGED <<arrived, unread, sessions, created, launched, delivered, unconfirmed, rec, queue>>
  BY DEF Go, world, history
<1>3. NothingThere(work) /\ work.target \in Ids /\ work.conf = work.target /\ work.allow /\ ~ work.accepted
  BY <1>1 DEF WorkOk, Looked
<1>4. y \in Submissions /\ y.id = work.id /\ y.sess = work.target /\ y.st = "flying"
  BY <1>1, <1>3 DEF Submissions, Deliveries, Outcomes
<1>5. subs' \subseteq subs \cup {y} /\ \A x \in subs' : x # y /\ x.id = work.id => x.st \notin {"refused", "gone"}
  OBVIOUS
<1> HIDE DEF y
<1>6. Unresolved' \subseteq Unresolved \cup {y} /\ Open' \subseteq Open \cup {y}
  BY <1>2, <1>5 DEF Unresolved, Open
<1>7. b \in Bindings /\ Binding' = b /\ mem' = b.mem /\ file' = b.file
  BY <1>2, Bound DEF Holds, Bindings, Bind
<1>8. Shapes'
  <2>1. subs' \subseteq Submissions
    BY <1>4, <1>5 DEF Shapes
  <2> QED BY <1>1, <1>2, <2>1 DEF Shapes, Steps, Looked
<1>9. BindingHolds'
  <2>1. Holds(b, Open \cup {y}, TRUE)
    BY DEF y
  <2>2. Holds(b, Open', TRUE)
    BY <1>6, <2>1, HoldsLess
  <2> QED BY <1>7, <2>2 DEF BindingHolds, Holds
<1>10. NotLaunched'
  BY <1>1, <1>2 DEF NotLaunched
<1>11. HaveArrived' /\ OnePerSource'
  BY <1>1, <1>2, <1>4, <1>5 DEF HaveArrived, OnePerSource
<1>12. QueueOk'
  <2>1. \A i \in 1 .. Len(queue) : queue[i].id.src # y.id.src
    BY <1>1, <1>4 DEF OnePerSource
  <2>2. \A i \in 1 .. Len(queue) : Alone(queue[i])'
    BY <1>2, <1>6, <2>1 DEF QueueOk, Alone
  <2> QED BY <1>2, <2>2 DEF QueueOk, Fresh
<1>13. WorkOk(work, pc)'
  <2>1. \A x \in Open' : x.id.src = work.id.src => x = y
    BY <1>3, <1>6 DEF NothingThere, Open
  <2>2. Alone(work)'
    BY <1>2, <1>4, <2>1 DEF Alone
  <2>3. \A x \in Open' : x.id = work.id => work.conf = x.sess
    BY <1>3, <1>4, <2>1
  <2> QED BY <1>2, <1>3, <2>2, <2>3 DEF WorkOk, Looked
<1>14. LoopsLook'
  <2>1. \A r \in rec : r.id \in Remembered(unconfirmed) => r.id # y.id
    BY <1>1, <1>4 DEF OnePerSource
  <2>2. Remembered(unconfirmed)' = Remembered(unconfirmed)
    BY <1>2 DEF Remembered
  <2> QED BY <1>2, <1>6, <2>1, <2>2 DEF LoopsLook
<1>15. OpenIsAlone'
  <2> SUFFICES ASSUME NEW x \in Open', NEW z \in subs'
               PROVE  /\ z \in Unresolved' /\ z.id.src = x.id.src => z = x
                      /\ z.st = "shown" /\ z.sess = x.sess => z.id # x.id /\ z.id # Own(x.id.src)
                      /\ z.st \in {"refused", "gone"} => z.id # x.id
    BY DEF OpenIsAlone
  <2>1. CASE x = y
    <3>1. z \in Unresolved' /\ z.id.src = x.id.src => z = x
      BY <1>3, <1>4, <1>6, <2>1 DEF NothingThere
    <3>2. z.st = "shown" /\ z.sess = x.sess => z.id # x.id /\ z.id # Own(x.id.src)
      BY <1>3, <1>4, <1>5, <2>1 DEF NothingThere
    <3>3. z.st \in {"refused", "gone"} => z.id # x.id
      BY <1>4, <1>5, <2>1
    <3> QED BY <3>1, <3>2, <3>3
  <2>2. CASE x \in Open /\ z = y
    <3>1. x.id.src # y.id.src
      BY <1>3, <1>4, <2>2 DEF NothingThere, Open
    <3> QED BY <1>4, <2>2, <3>1
  <2>3. CASE x \in Open /\ z # y
    <3>1. z \in subs /\ (z \in Unresolved' => z \in Unresolved)
      BY <1>5, <1>6, <2>3
    <3> QED BY <2>3, <3>1 DEF OpenIsAlone
  <2> QED BY <1>6, <2>1, <2>2, <2>3
<1> QED BY <1>2, <1>8, <1>9, <1>10, <1>11, <1>12, <1>13, <1>14, <1>15

LEMMA SubmitInv ==
    ASSUME DeliveryInv, Submit
    PROVE  DeliveryInv'
<1> DEFINE y == [id |-> work.id, sess |-> work.target, st |-> "flying"]
           without == [Binding EXCEPT !.mem.pend = @ \ PendingOf(Binding, {work.id})]
           with == [without EXCEPT !.mem.pend = @ \cup {[id |-> work.id, sess |-> work.target]}]
<1>1. pc = "submit"
  BY DEF Submit
<1>2. PICK f : IF mem.sess = None \/ f = "write"
               THEN Finish("failed", work, without, f) /\ UNCHANGED subs
               ELSE /\ Go("post", work, persistCurrentBinding(with, f), f)
                    /\ subs' = {x \in subs : ~ (x.id = work.id /\ x.st \in {"refused", "gone"})} \cup {y}
  BY DEF Submit
<1>3. CASE mem.sess = None \/ f = "write"
  <2>1. Finish("failed", work, Dropped(Binding, {work.id}), f) /\ UNCHANGED subs
    BY <1>2, <1>3 DEF Dropped
  <2> QED BY <1>1, <2>1, SubmitFailsInv
<1>4. CASE mem.sess # None /\ f # "write"
  <2>1. /\ work # None /\ work \in Deliveries /\ WorkOk(work, pc) /\ Holds(Binding, Open, TRUE)
        /\ Binding.mem = mem
    BY <1>1, AtWork, BindingIsType DEF Resolved
  <2>2. y \in Submissions /\ y.id = work.id /\ y.sess = work.target
    BY <1>1, <2>1 DEF Submissions, Deliveries, Outcomes, WorkOk, Looked
  <2>3. \A x \in Open : x.id # work.id
    BY <1>1, <2>1 DEF WorkOk, NothingThere, Open
  <2>4. Holds(persistCurrentBinding(with, f), Open \cup {y}, TRUE)
    <3> DEFINE c(i) == [Binding EXCEPT !.mem.pend = @ \ PendingOf(Binding, {i})]
               d(i, s) == [c(i) EXCEPT !.mem.pend = @ \cup {[id |-> i, sess |-> s]}]
    <3>1. \A z \in Submissions : z.id = work.id => Holds(persistCurrentBinding(d(z.id, z.sess), f), Open \cup {z}, TRUE)
      BY <1>4, <2>1, <2>3, MarkHolds
    <3>2. with = d(y.id, y.sess)
      BY <2>2
    <3> HIDE DEF d, c, with, y
    <3> QED BY <2>2, <3>1, <3>2
  <2> QED BY <1>1, <1>2, <1>4, <2>4, SubmitGoesInv
<1> QED BY <1>3, <1>4

LEMMA promptSessionInv ==
    ASSUME DeliveryInv, promptSession
    PROVE  DeliveryInv'
<1>1. pc = "post" /\ UNCHANGED subs
  BY DEF promptSession
<1> DEFINE ids == {work.id}
<1>2. PICK f : \/ Go("confirm", [work EXCEPT !.accepted = TRUE, !.attempt = 1], Binding, f)
               \/ /\ Was("refused") \/ Was("gone")
                  /\ LET b == clearPendingSubmission(Binding, ids, f)
                     IN  Finish("failed", work, IF Was("gone") THEN clearBinding(b) ELSE b, f)
  BY DEF promptSession
<1>3. CASE Go("confirm", [work EXCEPT !.accepted = TRUE, !.attempt = 1], Binding, f)
  <2>1. 1 \in 1 .. Attempts
    BY OpenCodeAssumption
  <2> QED BY <1>1, <1>3, <2>1, ToConfirmInv DEF Looked
<1>4. CASE /\ Was("refused") \/ Was("gone")
           /\ LET b == clearPendingSubmission(Binding, ids, f)
              IN  Finish("failed", work, IF Was("gone") THEN clearBinding(b) ELSE b, f)
  <2> DEFINE b == clearPendingSubmission(Binding, ids, f)
             c == clearBinding(b)
  <2>1. /\ work # None /\ work \in Deliveries /\ WorkOk(work, pc) /\ launched /\ ~ work.accepted
        /\ Holds(Binding, Open, FALSE) /\ Holds(Binding, Open, TRUE)
    BY <1>1, AtWork DEF Resolved, WorkOk
  <2>2. \A x \in Open : x.id # work.id
    <3>1. PICK y \in subs : y.st \in {"refused", "gone"} /\ y.id = work.id
      BY <1>4 DEF Was
    <3> QED BY <3>1 DEF DeliveryInv, OpenIsAlone
  <2>3. \A x \in Open : x.id \notin ids
    BY <2>2
  <2> HIDE DEF ids
  <2>4. Holds(b, Open, TRUE)
    BY <2>1, <2>3, ClearHolds
  <2> HIDE DEF b
  <2>5. Holds(c, Open, TRUE)
    BY <2>4, ClearBindingHolds
  <2> HIDE DEF c
  <2>6. Holds(b, Open, FALSE) /\ Holds(c, Open, FALSE)
    BY <2>4, <2>5 DEF Holds
  <2>7. Finish("failed", work, b, f) \/ Finish("failed", work, c, f)
    BY <1>4 DEF b, c
  <2> QED BY <1>1, <2>1, <2>6, <2>7, FinishInv
<1> QED BY <1>2, <1>3, <1>4

-----------------------------------------------------------------------------
(* Steps beside the delivery under way.                                    *)

LEMMA ElsewhereInv ==
    ASSUME DeliveryInv,
           UNCHANGED <<subs, unread, arrived, sessions, created, launched, queue, work, pc>>,
           NEW b, Holds(b, Open, FALSE), Holds(Binding, Open, TRUE) => Holds(b, Open, TRUE),
           Unbound(Binding) => Unbound(b), Bind(b),
           Remembered(unconfirmed)' \subseteq Remembered(unconfirmed), rec' \subseteq Pending, LoopsLook'
    PROVE  DeliveryInv'
<1> USE DEF DeliveryInv
<1>1. b \in Bindings /\ Binding' = b /\ mem' = b.mem /\ file' = b.file
  BY Bound DEF Holds, Bindings, Bind
<1>2. Shapes'
  BY DEF Shapes
<1>3. BindingHolds'
  <2>1. (Resolved' <=> Resolved) /\ Open' = Open
    BY SameOpen DEF Resolved
  <2>2. Resolved => Holds(b, Open, TRUE)
    BY DEF BindingHolds, Holds
  <2> QED BY <1>1, <2>1, <2>2 DEF BindingHolds, Holds
<1>4. NotLaunched'
  BY <1>1 DEF NotLaunched, Resolved
<1>5. HaveArrived' /\ OnePerSource'
  BY DEF HaveArrived, OnePerSource
<1>6. QueueOk' /\ OpenIsAlone' /\ (work' # None => WorkOk(work, pc)')
  BY SameOpen DEF QueueOk, OpenIsAlone
<1> QED BY <1>2, <1>3, <1>4, <1>5, <1>6

LEMMA ReconciledInv ==
    ASSUME DeliveryInv, NEW r \in rec, Reconciled(r)
    PROVE  DeliveryInv'
<1>1. PICK f : Bind(clearPendingSubmission(Binding, {r.id}, f))
  BY DEF Reconciled, confirmOpenCodeDelivery
<1>2. /\ UNCHANGED <<subs, unread, arrived, sessions, created, launched, queue, work, pc>>
      /\ rec' = rec \ {r} /\ unconfirmed' = Without(unconfirmed, {r.id})
      /\ r.id \in Remembered(unconfirmed) /\ Shown(r.id, r.sess)
  BY DEF Reconciled, confirmOpenCodeDelivery, world
<1>3. \A x \in Open : x.id = r.id => r.sess = x.sess
  BY <1>2 DEF DeliveryInv, LoopsLook
<1>4. \A x \in Open : x.id # r.id
  BY <1>2, <1>3, ShownIsNotOpen
<1>5. Remembered(unconfirmed)' \subseteq Remembered(unconfirmed)
  BY <1>2, HistoryShrinks DEF Remembered
<1>6. rec' \subseteq Pending /\ LoopsLook'
  BY <1>2, <1>5, SameOpen DEF DeliveryInv, LoopsLook, Shapes
<1> DEFINE ids == {r.id}
           c == clearPendingSubmission(Binding, ids, f)
<1>7. Bind(c) /\ \A x \in Open : x.id \notin ids
  BY <1>1, <1>4
<1> HIDE DEF ids
<1>8. Holds(Binding, Open, FALSE)
  BY DEF DeliveryInv, BindingHolds, Holds
<1>9. Holds(c, Open, FALSE) /\ (Holds(Binding, Open, TRUE) => Holds(c, Open, TRUE)) /\ (Unbound(Binding) => Unbound(c))
  BY <1>7, <1>8, ClearHolds
<1> HIDE DEF c
<1> QED BY <1>2, <1>5, <1>6, <1>7, <1>9, ElsewhereInv

LEMMA ReconciliationEndsInv ==
    ASSUME DeliveryInv, NEW r \in rec, ReconciliationEnds(r)
    PROVE  DeliveryInv'
<1>1. /\ UNCHANGED <<subs, unread, arrived, sessions, created, launched, queue, work, pc, mem, file>>
      /\ rec' = rec \ {r} /\ unconfirmed' = unconfirmed
  BY DEF ReconciliationEnds, world
<1>2. Remembered(unconfirmed)' = Remembered(unconfirmed)
  BY <1>1 DEF Remembered
<1>3. rec' \subseteq Pending /\ LoopsLook'
  BY <1>1, <1>2, SameOpen DEF DeliveryInv, LoopsLook, Shapes
<1>4. Holds(Binding, Open, FALSE)
  BY DEF DeliveryInv, BindingHolds, Holds
<1>5. Bind(Binding)
  BY <1>1 DEF Bind, Binding
<1> QED BY <1>1, <1>2, <1>3, <1>4, <1>5, ElsewhereInv

\* A queue with one more delivery.
LEMMA QueuedInv ==
    ASSUME DeliveryInv,
           UNCHANGED <<subs, unread, arrived, sessions, created, launched, work, pc, unconfirmed, rec>>,
           NEW d \in Deliveries, Fresh(d), Alone(d), d.id.src \in arrived,
           d.id \notin Remembered(unconfirmed), \A i \in Active : i.src # d.id.src,
           NEW b, Holds(b, Open, TRUE), Unbound(Binding) => Unbound(b), Bind(b),
           queue' = Append(queue, d)
    PROVE  DeliveryInv'
<1> USE DEF DeliveryInv
<1>1. b \in Bindings /\ Binding' = b /\ mem' = b.mem /\ file' = b.file /\ Open' = Open
  BY Bound, SameOpen DEF Holds, Bindings, Bind
<1>2. /\ queue' \in Seq(Deliveries) /\ Len(queue') = Len(queue) + 1 /\ Len(queue) \in Nat
      /\ \A i \in 1 .. Len(queue) : queue'[i] = queue[i]
      /\ queue'[Len(queue) + 1] = d
  BY DEF Shapes
<1>3. \A i \in 1 .. Len(queue) + 1 : i \in 1 .. Len(queue) \/ i = Len(queue) + 1
  BY <1>2
<1>4. /\ \A i \in 1 .. Len(queue) : queue[i].id.src # d.id.src
      /\ work # None => work.id.src # d.id.src
  BY DEF Active, InSeq
<1>5. Shapes'
  BY <1>2 DEF Shapes
<1>6. BindingHolds'
  BY <1>1 DEF BindingHolds, Holds
<1>7. NotLaunched'
  BY <1>1 DEF NotLaunched, Resolved
<1>8. HaveArrived'
  BY <1>2, <1>3 DEF HaveArrived
<1>9. OnePerSource'
  <2>1. Remembered(unconfirmed)' = Remembered(unconfirmed)
    BY DEF Remembered
  <2> QED BY <1>2, <1>3, <1>4, <2>1 DEF OnePerSource
<1>10. QueueOk'
  <2>1. \A e : Alone(e) => Alone(e)'
    BY SameOpen
  <2>2. \A i \in 1 .. Len(queue') : Alone(queue'[i]) /\ Fresh(queue'[i])
    BY <1>2, <1>3 DEF QueueOk
  <2> QED BY <1>1, <2>2 DEF QueueOk, Alone, Fresh
<1>11. OpenIsAlone' /\ (work' # None => WorkOk(work, pc)') /\ LoopsLook'
  BY SameOpen DEF OpenIsAlone, LoopsLook, Remembered
<1> QED BY <1>5, <1>6, <1>7, <1>8, <1>9, <1>10, <1>11

LEMMA EnqueueInv ==
    ASSUME DeliveryInv, NEW i \in Identities, i.src \in arrived, NEW allow \in BOOLEAN,
           allow => \A x \in Open : x.id.src = i.src => x.id = i,
           NEW b, Holds(b, Open, TRUE), Unbound(Binding) => Unbound(b), Bind(b),
           UNCHANGED <<subs, unread, arrived, sessions, created, launched, work, pc, unconfirmed>>,
           Enqueue(i, allow, b)
    PROVE  DeliveryInv'
<1>1. Holds(b, Open, FALSE) /\ b \in Bindings /\ Open' = Open
  BY SameOpen DEF Holds, Bindings
<1>2. Remembered(unconfirmed)' = Remembered(unconfirmed)
  BY DEF Remembered
<1>3. CASE UNCHANGED <<queue, rec>>
  <2>1. rec' \subseteq Pending /\ LoopsLook'
    BY <1>1, <1>2, <1>3 DEF DeliveryInv, Shapes, LoopsLook
  <2> QED BY <1>1, <1>2, <1>3, <2>1, ElsewhereInv
<1>4. CASE UNCHANGED queue /\ rec' # rec
  <2> DEFINE P == PendingOf(b, {i})
             p == CHOOSE q \in P : TRUE
  <2>1. P # {} /\ rec' = scheduleOpenCodeReconciliation(i, p.sess)
    BY <1>4 DEF Enqueue
  <2>2. p \in P
    BY <2>1
  <2> HIDE DEF p
  <2>3. p \in b.mem.pend /\ p.id = i /\ p \in Pending
    BY <1>1, <2>2, BindingType DEF PendingOf
  <2>4. \A r \in rec' : r \in rec \/ r = [id |-> i, sess |-> p.sess]
    BY <2>1 DEF scheduleOpenCodeReconciliation
  <2>5. rec' \subseteq Pending
    BY <2>3, <2>4 DEF DeliveryInv, Shapes, Pending
  <2>6. \A x \in Open : x.id = i => p.sess = x.sess
    <3>1. \A x \in Open : \A q \in b.mem.pend : q.id = x.id => q.sess = x.sess
      BY MarkerTells
    <3> QED BY <2>3, <3>1
  <2>7. LoopsLook'
    BY <1>1, <1>2, <2>4, <2>6 DEF DeliveryInv, LoopsLook
  <2> QED BY <1>1, <1>2, <1>4, <2>5, <2>7, ElsewhereInv
<1>5. CASE queue' # queue
  <2> DEFINE d == [id |-> i, allow |-> allow, settled |-> FALSE, accepted |-> FALSE,
                   bound |-> None, known |-> {}, target |-> None, conf |-> None,
                   before |-> FALSE, attempt |-> 1]
  <2>1. /\ queue' = Append(queue, d) /\ rec' = rec /\ ~ Deduplicated(i)
        /\ i \notin Active /\ i \notin Remembered(unconfirmed)
    BY <1>5 DEF Enqueue
  <2>2. d \in Deliveries /\ d.id = i /\ d.allow = allow /\ Fresh(d)
    BY OpenCodeAssumption DEF Deliveries, Fresh
  <2> HIDE DEF d
  <2>3. Alone(d)
    BY <2>2 DEF Alone
  <2>4. \A j \in Active : j.src # i.src
    BY <2>1 DEF Deduplicated, SameSource
  <2> QED BY <2>1, <2>2, <2>3, <2>4, QueuedInv
<1> QED BY <1>3, <1>4, <1>5

LEMMA injectOpenCodeEntryInv ==
    ASSUME DeliveryInv, NEW i \in Identities, injectOpenCodeEntry(i)
    PROVE  DeliveryInv'
<1>1. /\ i.src \in arrived
      /\ UNCHANGED <<subs, unread, arrived, sessions, created, launched, work, pc, unconfirmed>>
  BY DEF injectOpenCodeEntry
<1>2. PICK f : LET b == Rehydrated(f)
                   other == {p \in b.mem.pend : p.id \in SameSource(Identities, i)}
               IN  /\ Bind(b)
                   /\ \/ other = {} /\ Enqueue(i, TRUE, b)
                      \/ UNCHANGED <<queue, rec>>
                      \/ \E p \in other : Enqueue(p.id, FALSE, b)
  BY DEF injectOpenCodeEntry
<1> DEFINE b == restoreBinding(Binding, f)
           other == {p \in b.mem.pend : p.id \in SameSource(Identities, i)}
<1>3. Holds(Binding, Open, FALSE)
  BY DEF DeliveryInv, BindingHolds, Holds
<1>4. Holds(b, Open, TRUE) /\ (Unbound(Binding) => Unbound(b)) /\ Bind(b)
  BY <1>2, <1>3, RestoreHolds DEF Rehydrated
<1>5. b \in Bindings /\ Holds(b, Open, FALSE)
  BY <1>4 DEF Holds, Bindings
<1>6. \/ other = {} /\ Enqueue(i, TRUE, b)
      \/ UNCHANGED <<queue, rec>>
      \/ \E p \in other : Enqueue(p.id, FALSE, b)
  BY <1>2 DEF Rehydrated
<1> HIDE DEF b
<1>7. CASE other = {} /\ Enqueue(i, TRUE, b)
  <2>1. \A x \in Open : x.id.src = i.src => x.id = i
    <3> SUFFICES ASSUME NEW x \in Open, x.id.src = i.src, x.id # i PROVE FALSE
      OBVIOUS
    <3>1. PICK p \in b.mem.pend : p.id = x.id
      BY <1>4, MarkerTells
    <3>2. p.id \in Identities
      BY <1>5, BindingType DEF Pending
    <3> QED BY <1>7, <3>1, <3>2 DEF SameSource
  <2> QED BY <1>1, <1>4, <1>7, <2>1, EnqueueInv
<1>8. CASE UNCHANGED <<queue, rec>>
  <2>1. rec' \subseteq Pending /\ LoopsLook' /\ Remembered(unconfirmed)' \subseteq Remembered(unconfirmed)
    BY <1>1, <1>8, SameOpen DEF DeliveryInv, Shapes, LoopsLook, Remembered
  <2> QED BY <1>1, <1>4, <1>5, <1>8, <2>1, ElsewhereInv
<1>9. CASE \E p \in other : Enqueue(p.id, FALSE, b)
  <2>1. PICK p \in other : Enqueue(p.id, FALSE, b)
    BY <1>9
  <2>2. p.id \in Identities /\ p.id.src \in arrived
    BY <1>1 DEF SameSource
  <2> QED BY <1>1, <1>4, <2>1, <2>2, EnqueueInv
<1> QED BY <1>6, <1>7, <1>8, <1>9

LEMMA SettledType ==
    ASSUME NEW d \in Deliveries, NEW s
    PROVE  /\ Settled(d, s) \in Deliveries /\ Settled(d, s) # None /\ Settled(d, s).id = d.id
           /\ Settled(d, s).allow = d.allow /\ Settled(d, s).accepted = d.accepted
           /\ Settled(d, s).target = d.target /\ Settled(d, s).conf = d.conf
           /\ Settled(d, s).bound = d.bound /\ Settled(d, s).before = d.before
<1> DEFINE e == [d EXCEPT !.settled = TRUE]
<1>1. /\ e \in Deliveries /\ e.id = d.id /\ e.allow = d.allow /\ e.accepted = d.accepted
      /\ e.target = d.target /\ e.conf = d.conf /\ e.bound = d.bound /\ e.before = d.before
  BY DEF Deliveries
<1>2. Settled(d, s) = d \/ Settled(d, s) = e
  BY DEF Settled
<1>3. d # None /\ e # None
  BY <1>1, NoneAssumption
<1> HIDE DEF e
<1> QED BY <1>1, <1>2, <1>3

LEMMA settleOpenCodeEntryInv ==
    ASSUME DeliveryInv, NEW s \in Sources, settleOpenCodeEntry(s)
    PROVE  DeliveryInv'
<1> USE DEF DeliveryInv
<1> DEFINE ids == SettledIds(s)
<1>1. PICK f : Bind(clearPendingSubmission(Binding, ids, f))
  BY DEF settleOpenCodeEntry
<1> DEFINE b == clearPendingSubmission(Binding, ids, f)
<1>2. /\ UNCHANGED <<subs, unread, arrived, sessions, created, launched, pc, rec>>
      /\ s \notin unread /\ unconfirmed' = Without(unconfirmed, ids)
      /\ queue' = [j \in 1 .. Len(queue) |-> Settled(queue[j], s)] /\ work' = Settled(work, s)
  BY DEF settleOpenCodeEntry, world
<1>3. Holds(Binding, Open, FALSE) /\ \A x \in Open : x.id \notin ids
  BY <1>2 DEF BindingHolds, Holds, SettledIds, Open
<1>4. Remembered(unconfirmed)' \subseteq Remembered(unconfirmed)
  BY <1>2, HistoryShrinks DEF Remembered
<1> HIDE DEF ids
<1>5. Holds(b, Open, FALSE) /\ (Holds(Binding, Open, TRUE) => Holds(b, Open, TRUE)) /\ (Unbound(Binding) => Unbound(b))
  BY <1>3, ClearHolds
<1> HIDE DEF b
<1>6. b \in Bindings /\ Binding' = b /\ mem' = b.mem /\ file' = b.file /\ Open' = Open
  BY <1>1, <1>2, <1>5, Bound, SameOpen DEF Holds, Bindings, Bind, b
<1>7. /\ (work = None => work' = None)
      /\ work # None => /\ work' \in Deliveries /\ work' # None /\ work'.id = work.id
                        /\ work'.allow = work.allow /\ work'.accepted = work.accepted
                        /\ work'.target = work.target /\ work'.conf = work.conf
                        /\ work'.bound = work.bound /\ work'.before = work.before
  <2>1. work = None => work' = None
    BY <1>2 DEF Settled
  <2>2. CASE work # None
    <3>1. work \in Deliveries /\ work' = Settled(work, s)
      BY <1>2, <2>2 DEF Shapes
    <3> QED BY <2>2, <3>1, SettledType
  <2> QED BY <2>1, <2>2
<1>8. /\ queue' \in Seq(Deliveries) /\ Len(queue') = Len(queue)
      /\ \A j \in 1 .. Len(queue) : /\ queue'[j].id = queue[j].id /\ queue'[j].allow = queue[j].allow
                                    /\ queue'[j].accepted = queue[j].accepted
                                    /\ queue'[j].target = queue[j].target
  <2>1. queue \in Seq(Deliveries) /\ Len(queue) \in Nat /\ \A j \in 1 .. Len(queue) : queue[j] \in Deliveries
    BY DEF Shapes
  <2>2. \A j \in 1 .. Len(queue) : Settled(queue[j], s) \in Deliveries
    BY <2>1, SettledType
  <2>3. queue' \in Seq(Deliveries) /\ Len(queue') = Len(queue)
    BY <1>2, <2>1, <2>2
  <2> QED BY <1>2, <2>1, <2>3, SettledType
<1>9. Shapes'
  BY <1>2, <1>7, <1>8 DEF Shapes
<1>10. Resolved' <=> Resolved
  BY <1>2, <1>7 DEF Resolved
<1>11. BindingHolds'
  <2>1. Resolved => Holds(b, Open, TRUE)
    BY <1>5 DEF BindingHolds, Holds
  <2> QED BY <1>5, <1>6, <1>10, <2>1 DEF BindingHolds, Holds
<1>12. NotLaunched'
  BY <1>2, <1>5, <1>6, <1>10 DEF NotLaunched
<1>13. HaveArrived'
  BY <1>2, <1>7, <1>8 DEF HaveArrived
<1>14. OnePerSource'
  BY <1>4, <1>7, <1>8 DEF OnePerSource
<1>15. QueueOk'
  BY <1>6, <1>8 DEF QueueOk, Alone, Fresh
<1>16. work' # None => WorkOk(work, pc)'
  <2> SUFFICES ASSUME work # None PROVE WorkOk(work, pc)'
    BY <1>7
  <2>1. Alone(work)'
    BY <1>6, <1>7 DEF WorkOk, Alone
  <2>2. NothingThere(work) => NothingThere(work)'
    BY <1>2, <1>7, SameOpen DEF NothingThere
  <2> QED BY <1>2, <1>6, <1>7, <2>1, <2>2 DEF WorkOk
<1>17. LoopsLook' /\ OpenIsAlone'
  BY <1>2, <1>4, <1>6, SameOpen DEF LoopsLook, OpenIsAlone
<1> QED BY <1>9, <1>11, <1>12, <1>13, <1>14, <1>15, <1>16, <1>17

LEMMA ShiftInv ==
    ASSUME DeliveryInv, Shift
    PROVE  DeliveryInv'
<1> USE DEF DeliveryInv
<1>1. /\ UNCHANGED <<subs, unread, arrived, sessions, created, launched, mem, file, unconfirmed, rec>>
      /\ work = None /\ queue # <<>> /\ work' = Head(queue) /\ queue' = Tail(queue) /\ pc' = "ask"
      /\ Open' = Open
  BY SameOpen DEF Shift, world, history
<1>2. queue \in Seq(Deliveries) /\ Len(queue) \in Nat \ {0}
  BY <1>1 DEF Shapes
<1>3. /\ work' = queue[1] /\ 1 \in 1 .. Len(queue) /\ work' \in Deliveries /\ work' # None
      /\ queue' \in Seq(Deliveries) /\ Len(queue') = Len(queue) - 1
      /\ \A i \in 1 .. Len(queue') : queue'[i] = queue[i + 1] /\ i + 1 \in 1 .. Len(queue) /\ i + 1 # 1
  BY <1>1, <1>2, NoneAssumption
<1>4. Shapes'
  BY <1>1, <1>3 DEF Shapes, Steps
<1>5. Alone(work') /\ Fresh(work')
  BY <1>3 DEF QueueOk
<1>6. ~ Resolved /\ ~ Resolved'
  <2>1. pc = "idle"
    BY <1>1 DEF Shapes
  <2> QED BY <1>1, <1>5, <2>1 DEF Resolved, Fresh
<1>7. BindingHolds' /\ NotLaunched'
  BY <1>1, <1>6 DEF BindingHolds, NotLaunched, Binding, Holds, Unbound
<1>8. HaveArrived'
  BY <1>1, <1>3 DEF HaveArrived
<1>9. OnePerSource'
  <2>1. Remembered(unconfirmed)' = Remembered(unconfirmed)
    BY <1>1 DEF Remembered
  <2>2. \A i, j \in 1 .. Len(queue') : queue'[i].id.src = queue'[j].id.src => i + 1 = j + 1
    BY <1>3 DEF OnePerSource
  <2>3. \A i \in 1 .. Len(queue') : queue'[i].id.src # work'.id.src
    BY <1>3 DEF OnePerSource
  <2>4. \A i \in 1 .. Len(queue') : queue'[i].id \notin Remembered(unconfirmed)
    BY <1>3 DEF OnePerSource
  <2>5. \A i, j \in 1 .. Len(queue') : i + 1 = j + 1 => i = j
    OBVIOUS
  <2>6. work'.id \notin Remembered(unconfirmed)
    BY <1>3 DEF OnePerSource
  <2> QED BY <2>1, <2>2, <2>3, <2>4, <2>5, <2>6 DEF OnePerSource
<1>10. QueueOk'
  BY <1>1, <1>3 DEF QueueOk, Alone, Fresh
<1>11. WorkOk(work, pc)'
  BY <1>1, <1>5 DEF WorkOk, Alone, Fresh, Looked
<1>12. LoopsLook' /\ OpenIsAlone'
  BY <1>1, SameOpen DEF LoopsLook, OpenIsAlone, Remembered
<1> QED BY <1>4, <1>7, <1>8, <1>9, <1>10, <1>11, <1>12

LEMMA injectInitialKickoffInv ==
    ASSUME DeliveryInv, injectInitialKickoff
    PROVE  DeliveryInv'
<1> USE DEF DeliveryInv
<1> DEFINE w == [sess |-> 1, known |-> sessions, pend |-> {}, claimed |-> FALSE]
<1>1. /\ UNCHANGED <<subs, unread, arrived, sessions, created, mem, unconfirmed, rec, queue, work, pc>>
      /\ ~ launched /\ launched' /\ file' = w /\ Open' = Open
  BY SameOpen DEF injectInitialKickoff, history
<1>2. Unbound(Binding) /\ ~ Resolved /\ Binding \in Bindings /\ Binding.file = file /\ Binding.mem = mem
  BY <1>1, BindingIsType DEF NotLaunched
<1>3. w \in Files /\ w.pend = {}
  BY OpenCodeAssumption DEF Files, Shapes, Ids
<1>4. Open = {} /\ mem.sess = None
  BY <1>2 DEF BindingHolds, Holds, Unbound
<1> HIDE DEF w
<1>5. Binding' = [mem |-> mem, file |-> w] /\ ~ Resolved'
  BY <1>1, <1>2 DEF Binding, Resolved
<1>6. BindingHolds'
  <2>1. mem \in Memories /\ \A p, q \in mem.pend : p.id = q.id => p = q
    BY <1>2 DEF BindingHolds, Holds
  <2> QED BY <1>1, <1>3, <1>4, <1>5, <2>1 DEF BindingHolds, Holds
<1>7. NotLaunched' /\ Shapes'
  BY <1>1 DEF NotLaunched, Shapes
<1>8. HaveArrived' /\ OnePerSource'
  BY <1>1 DEF HaveArrived, OnePerSource, Remembered
<1>9. QueueOk' /\ LoopsLook' /\ OpenIsAlone' /\ (work' # None => WorkOk(work, pc)')
  BY <1>1, SameOpen DEF QueueOk, LoopsLook, OpenIsAlone, Remembered
<1> QED BY <1>6, <1>7, <1>8, <1>9

LEMMA connectOpenCodeDroneInv ==
    ASSUME DeliveryInv, connectOpenCodeDrone
    PROVE  DeliveryInv'
<1> USE DEF DeliveryInv
<1>1. /\ UNCHANGED <<subs, unread, arrived, sessions, created, launched, file>>
      /\ mem' = Blank /\ rec' = {} /\ unconfirmed' = Forgotten /\ queue' = <<>> /\ work' = None
      /\ pc' = "idle" /\ Open' = Open
  BY SameOpen DEF connectOpenCodeDrone, Idle
<1>2. Blank \in Memories /\ Blank.sess = None /\ Blank.pend = {}
  BY DEF Blank, Memories
<1>3. Binding' = [mem |-> Blank, file |-> file] /\ ~ Resolved'
  BY <1>1 DEF Binding, Resolved
<1>4. Binding \in Bindings /\ Binding.file = file
  BY BindingIsType
<1>5. BindingHolds'
  <2>1. /\ file \in Files \cup {None}
        /\ \A x \in Open : file # None /\ Marker(x) \in file.pend
        /\ file # None => /\ \A p, q \in file.pend : p.id = q.id => p = q
                          /\ file.claimed \/ file.pend = {}
    BY <1>4 DEF BindingHolds, Holds
  <2> QED BY <1>1, <1>2, <1>3, <2>1 DEF BindingHolds, Holds
<1>6. NotLaunched'
  BY <1>1, <1>2, <1>3, <1>4 DEF NotLaunched, Unbound
<1>7. Shapes' /\ HaveArrived' /\ OnePerSource'
  BY <1>1 DEF Shapes, HaveArrived, OnePerSource, Steps
<1>8. QueueOk' /\ LoopsLook' /\ OpenIsAlone'
  BY <1>1, SameOpen DEF QueueOk, LoopsLook, OpenIsAlone
<1> QED BY <1>1, <1>5, <1>6, <1>7, <1>8

\* What happens outside leaves fewer submissions open.
LEMMA OutsideInv ==
    ASSUME DeliveryInv,
           UNCHANGED <<subs, launched, mem, file, unconfirmed, rec, queue, work, pc>>,
           sessions' \subseteq Ids, created' \in Ids, arrived \subseteq arrived', unread' \subseteq arrived',
           unread' \cap arrived \subseteq unread
    PROVE  DeliveryInv'
<1> USE DEF DeliveryInv
<1>1. Open' \subseteq Open /\ Unresolved' = Unresolved
  BY DEF Open, Unresolved, HaveArrived
<1>2. BindingHolds' /\ NotLaunched'
  <2>1. Binding' = Binding /\ (Resolved' <=> Resolved)
    BY DEF Binding, Resolved
  <2>2. Holds(Binding, Open', Resolved)
    BY <1>1 DEF BindingHolds, Holds
  <2> QED BY <2>1, <2>2 DEF BindingHolds, Holds, NotLaunched
<1>3. Shapes' /\ HaveArrived' /\ OnePerSource'
  BY DEF Shapes, HaveArrived, OnePerSource, Remembered
<1>4. \A d : Alone(d) => Alone(d)'
  BY <1>1 DEF Alone
<1>5. QueueOk'
  BY <1>4 DEF QueueOk
<1>6. work' # None => WorkOk(work, pc)'
  <2> SUFFICES ASSUME work # None PROVE WorkOk(work, pc)'
    OBVIOUS
  <2>1. NothingThere(work) => NothingThere(work)'
    BY <1>1 DEF NothingThere
  <2>2. work.id.src \in unread' => work.id.src \in unread
    BY DEF HaveArrived
  <2> QED BY <1>1, <1>4, <2>1, <2>2 DEF WorkOk
<1>7. LoopsLook' /\ OpenIsAlone'
  BY <1>1 DEF LoopsLook, OpenIsAlone, Remembered
<1> QED BY <1>2, <1>3, <1>5, <1>6, <1>7

LEMMA WorldInv ==
    ASSUME DeliveryInv,
           \/ \E s \in Sources : Arrives(s)
           \/ Reads \/ NewSession
           \/ \E s \in sessions : DeleteSession(s)
           \/ UNCHANGED vars
    PROVE  DeliveryInv'
<1> USE DEF DeliveryInv
<1>1. unread \subseteq arrived /\ sessions \subseteq Ids /\ created \in Ids /\ created \in Nat
  BY DEF HaveArrived, Shapes, Ids
<1>2. CASE \E s \in Sources : Arrives(s)
  <2>1. UNCHANGED <<sessions, created, subs, launched, mem, file, unconfirmed, rec, queue, work, pc>>
    BY <1>2 DEF Arrives, history
  <2>2. arrived \subseteq arrived' /\ unread' \subseteq arrived' /\ unread' \cap arrived \subseteq unread
    BY <1>1, <1>2 DEF Arrives
  <2> QED BY <1>1, <2>1, <2>2, OutsideInv
<1>3. CASE Reads
  BY <1>1, <1>3, OutsideInv DEF Reads, history
<1>4. CASE NewSession
  <2>1. created + 1 \in Ids
    BY <1>1, <1>4, OpenCodeAssumption DEF NewSession, Ids
  <2> QED BY <1>1, <1>4, <2>1, OutsideInv DEF NewSession, history
<1>5. CASE \E s \in sessions : DeleteSession(s)
  BY <1>1, <1>5, OutsideInv DEF DeleteSession, history
<1>6. CASE UNCHANGED vars
  BY <1>1, <1>6, OutsideInv DEF vars
<1> QED BY <1>2, <1>3, <1>4, <1>5, <1>6

\* The server decides what becomes of a POST; its marker and its source stay.
LEMMA ServerHandlesInv ==
    ASSUME DeliveryInv, NEW x \in subs, ServerHandles(x)
    PROVE  DeliveryInv'
<1> USE DEF DeliveryInv
<1>1. UNCHANGED <<arrived, unread, sessions, created, launched, mem, file, unconfirmed, rec, queue, work, pc>>
  BY DEF ServerHandles, world, history
<1>2. PICK st \in {"stored", "gone", "refused", "lost", "shown"} :
           x.st \in {"flying", "stored"} /\ Becomes(x, st)
  BY DEF ServerHandles
<1> DEFINE y == [x EXCEPT !.st = st]
<1>3. x \in Submissions /\ x \in Unresolved
  BY <1>2 DEF Shapes, Unresolved
<1>4. y \in Submissions /\ y.id = x.id /\ y.sess = x.sess /\ y.st = st
  BY <1>2, <1>3 DEF Submissions, Outcomes
<1>5. subs' = (subs \ {x}) \cup {y}
  BY <1>2 DEF Becomes
<1> HIDE DEF y
<1>6. /\ \A o \in Unresolved' : (o \in Unresolved /\ o # x) \/ (o = y /\ st \in {"stored", "lost"})
      /\ \A o \in Open' : (o \in Open /\ o # x) \/ (o = y /\ x \in Open /\ st \in {"stored", "lost"})
  BY <1>1, <1>3, <1>4, <1>5 DEF Unresolved, Open
<1>7. \A o \in Open' : \E p \in Open : p.id = o.id /\ p.sess = o.sess /\ Marker(p) = Marker(o)
  BY <1>4, <1>6 DEF Marker
<1>8. BindingHolds' /\ NotLaunched'
  <2>1. Binding' = Binding /\ (Resolved' <=> Resolved)
    BY <1>1 DEF Binding, Resolved
  <2>2. Holds(Binding, Open', Resolved)
    BY <1>7 DEF BindingHolds, Holds
  <2> QED BY <1>1, <2>1, <2>2 DEF BindingHolds, Holds, NotLaunched
<1>9. Shapes' /\ HaveArrived' /\ OnePerSource'
  BY <1>1, <1>3, <1>4, <1>5 DEF Shapes, HaveArrived, OnePerSource, Remembered
<1>10. \A d : Alone(d) => Alone(d)'
  BY <1>7 DEF Alone
<1>11. QueueOk'
  BY <1>1, <1>10 DEF QueueOk
<1>12. work' # None => WorkOk(work, pc)'
  <2> SUFFICES ASSUME work # None PROVE WorkOk(work, pc)'
    BY <1>1
  <2>1. NothingThere(work) => NothingThere(work)'
    <3> SUFFICES ASSUME NothingThere(work) PROVE NothingThere(work)'
      OBVIOUS
    <3>1. x.id.src # work.id.src
      BY <1>3 DEF NothingThere
    <3>2. y.id # work.id /\ y.id # Own(work.id.src)
      BY <1>4, <3>1 DEF Own
    <3>3. \A o \in Unresolved' : o.id.src # work.id.src
      BY <1>4, <1>6, <3>1 DEF NothingThere
    <3>4. \A o \in subs' : o.st = "shown" /\ o.sess = work.target => o.id # work.id /\ o.id # Own(work.id.src)
      BY <1>5, <3>2 DEF NothingThere
    <3> QED BY <1>1, <3>3, <3>4 DEF NothingThere
  <2>2. WorkOk(work, pc)
    BY <1>1
  <2> QED BY <1>1, <1>7, <1>10, <2>1, <2>2 DEF WorkOk
<1>13. LoopsLook'
  BY <1>1, <1>7 DEF LoopsLook, Remembered
<1>14. OpenIsAlone'
  <2> SUFFICES ASSUME NEW o \in Open', NEW z \in subs'
               PROVE  /\ z \in Unresolved' /\ z.id.src = o.id.src => z = o
                      /\ z.st = "shown" /\ z.sess = o.sess => z.id # o.id /\ z.id # Own(o.id.src)
                      /\ z.st \in {"refused", "gone"} => z.id # o.id
    BY DEF OpenIsAlone
  <2>1. CASE o \in Open /\ o # x /\ z = y
    <3>1. y.id.src # o.id.src
      BY <1>3, <1>4, <2>1 DEF OpenIsAlone
    <3> QED BY <2>1, <3>1 DEF Own
  <2>2. CASE o \in Open /\ o # x /\ z # y
    BY <1>5, <1>6, <2>2 DEF OpenIsAlone
  <2>3. CASE o = y /\ x \in Open /\ st \in {"stored", "lost"} /\ z = y
    BY <1>4, <2>3
  <2>4. CASE o = y /\ x \in Open /\ z # y
    <3>1. z \in subs /\ z # x
      BY <1>5, <2>4
    <3> QED BY <1>4, <1>6, <2>4, <3>1 DEF OpenIsAlone
  <2> QED BY <1>6, <2>1, <2>2, <2>3, <2>4
<1> QED BY <1>8, <1>9, <1>11, <1>12, <1>13, <1>14

LEMMA DeliveryInvInit == Init => DeliveryInv
<1> SUFFICES ASSUME Init PROVE DeliveryInv
  OBVIOUS
<1> USE DEF Init
<1>1. Open = {} /\ Unresolved = {} /\ ~ Resolved
  BY DEF Open, Unresolved, Resolved
<1>2. Blank \in Memories /\ Blank.sess = None /\ Blank.pend = {}
  BY DEF Blank, Memories
<1>3. Binding = [mem |-> Blank, file |-> None]
  BY DEF Binding
<1>4. BindingHolds /\ NotLaunched
  BY <1>1, <1>2, <1>3 DEF BindingHolds, Holds, NotLaunched, Unbound
<1>5. Shapes
  BY OpenCodeAssumption DEF Shapes, Steps, Ids
<1>6. HaveArrived /\ OnePerSource /\ QueueOk /\ LoopsLook /\ OpenIsAlone
  BY <1>1 DEF HaveArrived, OnePerSource, QueueOk, LoopsLook, OpenIsAlone
<1> QED BY <1>4, <1>5, <1>6 DEF DeliveryInv

LEMMA DeliveryInvStep == DeliveryInv /\ [Next]_vars => DeliveryInv'
<1> SUFFICES ASSUME DeliveryInv, [Next]_vars PROVE DeliveryInv'
  OBVIOUS
<1>1. CASE \E i \in Identities : injectOpenCodeEntry(i)
  BY <1>1, injectOpenCodeEntryInv
<1>2. CASE \E s \in Sources : settleOpenCodeEntry(s)
  BY <1>2, settleOpenCodeEntryInv
<1>3. CASE deliverOpenCodeEntry
  BY <1>3, ShiftInv, AskInv, ResolveSessionInv, GetSessionInv, FindUnseenInv,
     findInjectedMessageInv, SubmitInv, promptSessionInv, ConfirmInv DEF deliverOpenCodeEntry
<1>4. CASE \E r \in rec : Reconciled(r) \/ ReconciliationEnds(r)
  BY <1>4, ReconciledInv, ReconciliationEndsInv
<1>5. CASE injectInitialKickoff \/ connectOpenCodeDrone
  BY <1>5, injectInitialKickoffInv, connectOpenCodeDroneInv
<1>6. CASE \E x \in subs : ServerHandles(x)
  BY <1>6, ServerHandlesInv
<1>7. CASE \/ \E s \in Sources : Arrives(s)
           \/ Reads \/ NewSession
           \/ \E s \in sessions : DeleteSession(s)
           \/ UNCHANGED vars
  BY <1>7, WorldInv
<1> QED BY <1>1, <1>2, <1>3, <1>4, <1>5, <1>6, <1>7 DEF Next

\* Whatever the child, its memory or the bound session go through, the binding file names
\* every submission whose outcome is unknown, as long as its entry is unread
\* (opencode-drone.ts, the write before promptSession and every path that drops a marker).
THEOREM IntentStays == Spec => []IntentIsDurable
<1>1. DeliveryInv => IntentIsDurable
  BY BindingIsType DEF DeliveryInv, BindingHolds, Holds, IntentIsDurable, Open, Marker
<1> QED BY <1>1, DeliveryInvInit, DeliveryInvStep, PTL DEF Spec

\* No POST goes out for an entry that has one whose outcome is unknown: recovery only
\* confirms (deliverOpenCodeEntry, the look before the POST).
THEOREM NothingIsResubmitted == Spec => NoBlindResubmit
<1> DEFINE A == \A x \in subs' \ subs : x.st = "flying" => ~ \E y \in Unresolved : y.id.src = x.id.src
<1>1. DeliveryInv /\ [Next]_vars => [A]_vars
  <2> SUFFICES ASSUME DeliveryInv, Next, NEW x \in subs' \ subs, x.st = "flying",
                      NEW y \in Unresolved, y.id.src = x.id.src
               PROVE  FALSE
    OBVIOUS
  <2>1. CASE UNCHANGED subs
    BY <2>1
  <2>2. CASE Submit
    <3>1. pc = "submit" /\ x = [id |-> work.id, sess |-> work.target, st |-> "flying"]
      BY <2>2 DEF Submit
    <3>2. NothingThere(work)
      BY <3>1, AtWork DEF WorkOk
    <3> QED BY <3>1, <3>2 DEF NothingThere
  <2>3. CASE \E z \in subs : ServerHandles(z)
    <3>1. PICK z \in subs : ServerHandles(z)
      BY <2>3
    <3>2. PICK st \in {"stored", "gone", "refused", "lost", "shown"} : x = [z EXCEPT !.st = st]
      BY <3>1 DEF ServerHandles, Becomes
    <3>3. z \in Submissions
      BY DEF DeliveryInv, Shapes
    <3> QED BY <3>2, <3>3 DEF Submissions
  <2> QED BY <2>1, <2>2, <2>3 DEF Next, deliverOpenCodeEntry, injectOpenCodeEntry, settleOpenCodeEntry,
        Arrives, Shift, Ask, resolveInjectionSession, getSession, findUnseenTopLevelSession,
        findInjectedMessage, promptSession, Confirm, Reconciled, ReconciliationEnds,
        injectInitialKickoff, connectOpenCodeDrone, Reads, NewSession, DeleteSession
<1> QED BY <1>1, DeliveryInvInit, DeliveryInvStep, PTL DEF Spec, NoBlindResubmit

=============================================================================
