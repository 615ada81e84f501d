-------------------------- MODULE MC_SeatLifecycle --------------------------
(***************************************************************************)
(* Seats: two processes that run three commands between them, over two      *)
(* paths for sibling worktrees, from an empty store or an old one in which  *)
(* two or three seats share a path, in each kind of order.  Launches: two   *)
(* launchers with a plain configuration and every failure, or one launcher  *)
(* over many configurations.  The two parts share no state and are explored *)
(* one at a time: `scene` says which.                                       *)
(***************************************************************************)
EXTENDS SeatLifecycle, AgentLaunch, Sequences, TLC

CONSTANTS w1, w2   \* the paths of Worktrees, by name

VARIABLE scene

Modes == {"none", "auto", "prompt"}
UserLayers ==
  {[default |-> d, off |-> x,
    tools |-> [n \in Names |-> CASE n = "tool" -> t [] n = "alias" -> a [] OTHER -> o]] :
     d \in {"none", "prompt"}, t \in Modes, a \in Modes, o \in {"none", "prompt"},
     x \in {<<>>, <<{"tool"}>>, <<{"other"}>>}}
OtherLayers == {NoPolicy, [NoPolicy EXCEPT !.tools["tool"] = "prompt"],
                [NoPolicy EXCEPT !.tools["other"] = "auto"],
                [NoPolicy EXCEPT !.default = "auto"], [NoPolicy EXCEPT !.off = <<{}>>]}
ManagedLayers == {NoPolicy, [NoPolicy EXCEPT !.tools["tool"] = "prompt",
                                             !.tools["alias"] = "prompt"]}
Edits == {NoPolicy, [NoPolicy EXCEPT !.tools["other"] = "prompt", !.off = <<{"tool"}>>]}
PermissionRules ==
  {s \in UNION {[1..n -> {"*", "tool", "alias", "other"} \X {"allow", "ask"}] : n \in 0..4} :
     Distinct(s)}
ManagedRules == {<<>>, <<<<"tool", "ask">>, <<"alias", "ask">>>>}

Plain == [profile |-> NoPolicy, flags |-> NoPolicy, managed |-> NoPolicy, managedRules |-> <<>>]

\* Two launches and every failure; one launch over Codex layers; one over OpenCode rules.
Configurations ==
  \/ /\ quiet = FALSE /\ edits = 0 /\ cfg = Plain
     /\ user = NoPolicy /\ rules = <<>>
     /\ LaunchInit(Launchers)
  \/ /\ quiet = FALSE /\ edits = 0 /\ cfg = Plain
     /\ user = [NoPolicy EXCEPT !.default = "prompt"] /\ rules = <<>>
     /\ \E p \in Launchers : LaunchInit({p})
  \/ /\ quiet = TRUE
     /\ \/ /\ edits = 1
           /\ cfg \in [profile : OtherLayers, flags : OtherLayers, managed : ManagedLayers,
                       managedRules : {<<>>}]
           /\ user \in UserLayers /\ rules = <<>>
        \/ /\ edits = 0
           /\ \E m \in ManagedRules : cfg = [Plain EXCEPT !.managedRules = m]
           /\ user = NoPolicy /\ rules \in PermissionRules
     /\ \E p \in Launchers : LaunchInit({p})

\* The old seats have their bearers in the order of their roots.  Of a sibling's
\* path there are two, without an order.
Rank(r) == CHOOSE i \in 1..3 : <<Home, w1, w2>>[i] = r.root
OldOrders ==
  LET order == {<<Rank(r), seats[r].bindingOrder>> : r \in DOMAIN seats}
      Among(ns) == order = {<<i, ns[i]>> : i \in DOMAIN ns}
  IN  /\ \A r \in DOMAIN seats : seats[r].bearer = Rank(r)
      /\ \/ \E ns \in {<<>>, <<0, 0>>, <<1, 1>>, <<2, 1>>, <<0, 1, 1>>, <<0, 2, 1>>} :
               Among(ns) /\ \A r \in DOMAIN seats : seats[r].worktree = Home
         \/ Among(<<0, 0>>) /\ \A r \in DOMAIN seats : seats[r].worktree = w1

MCInit ==
  /\ SeatInit /\ OldOrders
  /\ \/ /\ scene = "launches" /\ Configurations
        /\ seats = [r \in {} |-> Nil] /\ trees = {Home}
     \/ /\ scene = "seats" /\ quiet = TRUE /\ edits = 0 /\ cfg = Plain
        /\ user = NoPolicy /\ rules = <<>>
        /\ LaunchInit({})

MCNext ==
  \/ scene = "seats" /\ SeatNext /\ UNCHANGED <<launchVars, scene>>
  \/ scene = "launches" /\ LaunchNext(Edits) /\ UNCHANGED <<seatVars, scene>>

MCSpec == MCInit /\ [][MCNext]_<<seatVars, launchVars, scene>>

Symmetry == Permutations(Runners) \cup Permutations(Launchers)
=============================================================================
