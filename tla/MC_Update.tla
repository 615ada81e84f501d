----------------------------- MODULE MC_Update ------------------------------
(***************************************************************************)
(* Instance of Update in three settings, told apart by what the budget has *)
(* left: commands on a host with Hermes and plain configuration files;     *)
(* updates and setups while releases appear, without Hermes; one command   *)
(* and overlapping launches over files full of hooks in every form.        *)
(***************************************************************************)
EXTENDS Update, TLC

In(on, hooks) == [on |-> on, hooks |-> hooks]
Hk(k, form) == [k |-> k, form |-> form]
Mine == <<Hk("other", "first"), Hk("other", "second")>>

\* Nothing but the registrations.
Plain == [f \in Configs |-> [Blank EXCEPT !.mcp = IF f \in HookFiles \cup {"access"} THEN NoEntry
                                                  ELSE Fresh(f)]]

Lists ==
    <<<<In("all", <<Mine[1], Hk("regen", "bare")>>), In("all", <<Hk("regen", "canon"), Mine[2]>>),
        In("clear", <<Hk("clear", "canon")>>)>>,
      <<In("all", <<Hk("regen", "moved")>>), In("all", <<Mine[1]>>),
        In("clear", <<Hk("clear", "linked"), Mine[2]>>)>>,
      <<In("all", <<Mine[1], Hk("regen", "linked"), Hk("clear", "moved")>>),
        In("all", <<>>), In("all", <<Mine[2]>>), In("clear", <<Hk("clear", "bare")>>)>>>>

Prompts == <<In("all", <<Mine[1], Hk("audit", "bare"), Mine[2], Hk("audit", "canon")>>)>>

Reg(command, marks) == [command |-> command, marks |-> marks, more |-> "theirs"]

\* mcp gives each agent its registration.
Rich(n, broken, mcp, exact) ==
    [f \in Configs |->
       CASE f \in broken -> Broken
         [] f \in HookFiles -> [Blank EXCEPT !.rest = "theirs", !.start = Lists[n], !.prompt = Prompts]
         [] f = "access" -> [Blank EXCEPT !.rest = "theirs", !.exact = exact]
         [] OTHER -> [Blank EXCEPT !.rest = "theirs", !.mcp = mcp[f]]]

Regs(c, t, o) == ("claude.json" :> c) @@ ("config.toml" :> t) @@ ("opencode.json" :> o)

Riches ==
    {Rich(1, {}, Regs(Reg("stale", {}), Reg("stale", {"kind"}), Reg("stale", {"kind", "password"})),
          "allow"),
     Rich(2, {"codex"}, Regs(Reg("own", {}), Reg("own", {}), Reg("own", Marks)), "none"),
     Rich(3, {"config.toml"}, Regs(NoEntry, NoEntry, Reg("own", {})), "deny"),
     Rich(3, {"claude.json", "opencode.json"}, Regs(NoEntry, Reg("own", {"kind"}), NoEntry), "none")}

Left1(r, f, s, p) == [runs |-> MaxRuns - r, faults |-> MaxFaults - f, starts |-> MaxStarts - s,
                     published |-> MaxPublished - p]

Init ==
    /\ UpdateInit /\ HermesInit
    /\ \/ /\ HooksInit({Plain}) /\ tasks = MaxTasks
          /\ registry \in [client : 1..2, server : {1}] /\ server = 0
          /\ \/ budget = Left1(2, 1, 2, 0) /\ registry.client = 2
             \/ budget = Left1(2, 2, 0, 0) /\ registry.client = 2 /\ gateway = Stopped
             \/ budget = Left1(3, 3, 0, 0) /\ registry.client = 1 /\ gateway = Stopped
       \/ /\ HooksInit({Plain}) /\ tasks = MaxTasks /\ budget = Left1(2, 1, 0, 2)
          /\ registry = [client |-> 2, server |-> 2] /\ gateway = Stopped
       \/ /\ HooksInit(Riches) /\ tasks = 0 /\ budget = Left1(1, 1, 0, 0)
          /\ registry = [client |-> 1, server |-> 1] /\ gateway = Stopped
          /\ server = 1 /\ runtime.running = 0

Symmetry == Permutations(Targets)

Spec == Init /\ [][Next]_vars
=============================================================================
