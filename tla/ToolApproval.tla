---------------------------- MODULE ToolApproval ----------------------------
(***************************************************************************)
(* The tool policy a launched agent runs with: what cli-tool-approval.ts    *)
(* reads from the agent CLI's effective configuration, the launch-only      *)
(* approval override it may add for Borg's coordination tools, and the      *)
(* verification of the result, as operators and one action per query.       *)
(*                                                                         *)
(* The policy names three tools: a coordination tool, its legacy alias      *)
(* (still callable, so a rule for one must be a rule for both) and a tool   *)
(* outside the coordination set.  The agent CLIs that layer the             *)
(* configuration are external and modelled from the layers the code reads   *)
(* and replays.                                                             *)
(***************************************************************************)
EXTENDS Naturals, Sequences, FiniteSets, FiniteSetsExt, Selections

Names == {"tool", "alias", "other"}
Coordination == {"tool", "alias"}
Twin(n) == IF n = "tool" THEN "alias" ELSE "tool"

-----------------------------------------------------------------------------
(* Codex: a fragment is what one layer says under mcp_servers.borg.  A mode *)
(* or a list a layer does not set is "none" or <<>>.                        *)

ApprovalActions == {"none", "auto", "prompt", "writes", "approve"}
Fragments == [default : ApprovalActions, tools : [Names -> ApprovalActions],
              off : {<<>>} \cup {<<names>> : names \in SUBSET Names}]

NoPolicy == [default |-> "none", tools |-> [n \in Names |-> "none"], off |-> <<>>]

\* mergeConfigValue: a higher layer's values win key by key, lists as a whole.
Merge(base, over) ==
  [default |-> IF over.default # "none" THEN over.default ELSE base.default,
   tools   |-> [n \in Names |-> IF over.tools[n] # "none" THEN over.tools[n] ELSE base.tools[n]],
   off     |-> IF over.off # <<>> THEN over.off ELSE base.off]

\* Repeated -c options: the later one replaces the whole value of its key.
Then(args, later) ==
  [Merge(args, later) EXCEPT
     !.tools = IF later.tools = NoPolicy.tools THEN args.tools ELSE later.tools]

ModeOf(f, n) == IF f.tools[n] # "none" THEN f.tools[n] ELSE f.default
Disabled(f, n) == f.off # <<>> /\ n \in f.off[1]

\* A rule that names the tool or its alias covers both (assertToolNamePoliciesMigrated).
Migrated(f) ==
  /\ f.tools["tool"] = f.tools["alias"]
  /\ f.off # <<>> => ("tool" \in f.off[1] <=> "alias" \in f.off[1])

\* codexToolNameCompatibility: the missing spelling is given the rule of the other.
Completed(f) ==
  [f EXCEPT !.tools = [n \in Names |-> IF n \in Coordination /\ f.tools[n] = "none"
                                       THEN f.tools[Twin(n)] ELSE f.tools[n]],
            !.off = IF f.off # <<>> /\ f.off[1] \cap Coordination # {}
                    THEN <<f.off[1] \cup Coordination>> ELSE f.off]

\* The -c options that carry the completed tool fields, when completion changed any.
compatibilityArgs(f) ==
  IF Completed(f) = f THEN NoPolicy ELSE [Completed(f) EXCEPT !.default = "none"]

\* inspectCodexBorgApprovals: the coordination tool has a mode and is not approved.
Restrictive(f) == ModeOf(f, "tool") \notin {"none", "auto"}

\* codexBorgApprovalArgs: the existing table with both spellings set to auto.
codexBorgApprovalArgs(f) ==
  [NoPolicy EXCEPT !.tools = [n \in Names |-> IF n \in Coordination THEN "auto" ELSE f.tools[n]]]

\* What config/read gives: the layers from the base user layer up, the profile just above it.
Layered(cfg, user, profile, args) == Merge(Merge(Merge(user, profile), args), cfg.managed)

\* The terminal client: the selected profile, the approval options, the operator's own
\* options, then the compatibility options.
TuiConfig(cfg, user, approval, compat) ==
  Layered(cfg, user, cfg.profile, Then(Then(approval, cfg.flags), compat))

\* The private app-server takes neither the profile nor the operator's options.
ServerConfig(cfg, user, args) == Layered(cfg, user, NoPolicy, args)

\* Every layer config/read lists can be completed to a migrated policy.
LayersMigrated(cfg, user, args) ==
  \A f \in {user, args, cfg.managed} : Migrated(Completed(f))

-----------------------------------------------------------------------------
(* OpenCode: permission rules in order, the last match decides.  They are an *)
(* object of the configuration, so no rule is there twice.                  *)

OpenCodeRules == ({"*"} \cup Names) \X {"allow", "ask", "deny"}

Distinct(rules) == \A i, j \in DOMAIN rules : i # j => rules[i][1] # rules[j][1]

Matching(rules, n) == {i \in DOMAIN rules : rules[i][1] \in {"*", n}}

\* effectiveOpenCodePermission.
Permission(rules, n) ==
  IF Matching(rules, n) = {} THEN "none"
  ELSE rules[Max(Matching(rules, n))][2]

\* A rule for one spelling stands next to the same rule for the other.
AdjacentPairs(rules) ==
  \A i \in DOMAIN rules : rules[i][1] \in Coordination =>
    \E j \in {i - 1, i + 1} \cap DOMAIN rules :
      rules[j] = <<Twin(rules[i][1]), rules[i][2]>>

\* mergeOpenCodePermission: the rules for these names are taken out and put in again last.
Merged(rules) ==
  Chosen(rules, {i \in DOMAIN rules : rules[i][1] \notin Coordination})
    \o <<<<"tool", "allow">>, <<"alias", "allow">>>>

\* OPENCODE_PERMISSION replaces the configured rules or is merged into them key by key,
\* and managed rules come last.
Overridden(rules, override, managed) ==
  { override \o managed,
    [i \in DOMAIN rules |->
       IF \E j \in DOMAIN override : override[j][1] = rules[i][1]
       THEN override[CHOOSE j \in DOMAIN override : override[j][1] = rules[i][1]]
       ELSE rules[i]]
      \o Chosen(override, {j \in DOMAIN override : \A i \in DOMAIN rules : rules[i][1] # override[j][1]})
      \o managed }
=============================================================================
