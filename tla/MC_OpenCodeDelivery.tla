------------------------ MODULE MC_OpenCodeDelivery ------------------------
(***************************************************************************)
(* The wakes of an OpenCode seat for TLC: those of OpenCode 1, and for     *)
(* OpenCode 2 the launch's broker and the host it is launched with.  A     *)
(* seat runs one of the two versions, and the broker starts when the host  *)
(* is up, so the three are explored one at a time: `scene` says which.     *)
(***************************************************************************)
EXTENDS OpenCodeDelivery, OpenCodeBroker, OpenCodeHost, TLC

VARIABLE scene

MCInit ==
    /\ Init /\ BrokerInit /\ HostInit
    /\ scene \in {"first", "broker", "host"}
    /\ scene # "broker" => sessionID = CHOOSE s \in V2Sessions : TRUE

MCNext ==
    \/ scene = "first" /\ Next /\ UNCHANGED <<brokerVars, hostLaunchVars, scene>>
    \/ scene = "broker" /\ BrokerNext /\ UNCHANGED <<vars, hostLaunchVars, scene>>
    \/ scene = "host" /\ HostNext /\ UNCHANGED <<vars, brokerVars, scene>>

MCSpec == MCInit /\ [][MCNext]_<<vars, brokerVars, hostLaunchVars, scene>>

\* Launches and Wakers are the same two values, and so are Sources and V2Sessions:
\* only one of each is alive in a scene.
Symmetry == Permutations(Sources) \cup Permutations(Wakers)

=============================================================================
