----------------------------- MODULE AgentHooks -----------------------------
(***************************************************************************)
(* What Borg writes into the agents' own configuration (config-utils.ts):  *)
(* hooks in the settings of Claude Code and Codex, the MCP registration of *)
(* each agent, and the permission of OpenCode.  The files belong to the    *)
(* operator, who has hooks of his own in them and perhaps Borg's in an old *)
(* form, and perhaps a registration of his own under Borg's name.          *)
(* Processes read, change and write whole files, and no lock orders them;  *)
(* a write empties the file before it fills it, but for OpenCode's files.  *)
(*                                                                         *)
(* Abstracted: a command is the program it runs and the form it is written *)
(* in; matchers but for Claude's clear; OpenCode's global files are one;   *)
(* what else a file or a registration holds is one value.                  *)
(***************************************************************************)
EXTENDS Naturals, Sequences, FiniteSets, Selections

CONSTANTS
    Agents,     \* the agents there are
    Texts,      \* what an operator may have written
    Broken,     \* a file that does not parse
    MaxTasks    \* bound: launches

ASSUME HooksAssumption == Agents \subseteq {"claude", "codex", "opencode"} /\ MaxTasks \in Nat

VARIABLES
    file,      \* the configuration files
    proc,      \* the processes that change them
    tasks,     \* how many launches there were
    torn,      \* ghost: files lost to a write that did not finish, or was not seen whole
    orig       \* ghost: the files as they were at first

kVars == <<file, proc, tasks, torn, orig>>

Slots == {"main", "other"}
HookFiles == {"claude", "codex", "project"}
Mcp == [claude |-> "claude.json", codex |-> "config.toml", opencode |-> "opencode.json"]
Configs == HookFiles \cup {"access"} \cup {Mcp[a] : a \in Agents}
Events == {"start", "prompt", "tool"}

Kinds == {"regen", "clear", "audit", "remind", "other"}
Forms == {"canon", "bare", "moved", "linked"}
Rules == {"none", "allow", "ask", "deny"}

\* An agent's registration of Borg: the command it runs, what in it Borg knows its own
\* by (the agent's kind, and in OpenCode the references to the password and the seat a
\* launch expects), and what else it holds.
Marks == {"kind", "password", "seat"}
Registration == [command : {"none", "current", "stale", "own"}, marks : SUBSET Marks,
                 more : {"none"} \cup Texts]
NoEntry == [command |-> "none", marks |-> {}, more |-> "none"]

\* What a file holds: lists of entries, each a matcher and hooks; and the rest.
Hook == [k : Kinds, form : Forms \cup Texts]
Entry == [on : {"all", "clear"} \cup Texts, hooks : Seq(Hook)]
Contents == [rest : {"none"} \cup Texts, dirs : BOOLEAN,
             mcp : Registration, exact : Rules, tree : Rules,
             start : Seq(Entry), prompt : Seq(Entry), tool : Seq(Entry)]

ASSUME BrokenAssumption == Broken \notin Contents

\* A file that is not there, or is empty, is read as one that holds nothing.
Blank == [rest |-> "none", dirs |-> FALSE, mcp |-> NoEntry, exact |-> "none", tree |-> "none",
          start |-> <<>>, prompt |-> <<>>, tool |-> <<>>]

-----------------------------------------------------------------------------
(* Whose hook it is.  Forms: "canon" as Borg writes it now, "bare" a name, *)
(* "moved" a package's path, "linked" another path that ends in the name.  *)

Canon(k) == [k |-> k, form |-> "canon"]

commandMatches(h, k) == h.k = k /\ h.form \in {"canon", "bare", "linked"}

ownedCanonical(h) == h.k # "other" /\ h.form \in {"canon", "bare", "moved"}

Hooks(es) == UNION {{<<i, j>> : j \in DOMAIN es[i].hooks} : i \in DOMAIN es}
At(es, p) == es[p[1]].hooks[p[2]]
Before(p, q) == p[1] < q[1] \/ (p[1] = q[1] /\ p[2] < q[2])

Mapped(es, F(_)) ==
    [i \in DOMAIN es |-> [es[i] EXCEPT !.hooks = [j \in DOMAIN @ |-> F(@[j])]]]

\* The entries with only the hooks at the places in keep.
Filtered(es, keep) ==
    [i \in DOMAIN es |->
        [es[i] EXCEPT !.hooks = Chosen(@, {j \in DOMAIN @ : <<i, j>> \in keep})]]

\* ... and without those entries it emptied.
Dropped(es, keep) ==
    Chosen(Filtered(es, keep),
           {i \in DOMAIN es : es[i].hooks = <<>> \/ \E j \in DOMAIN es[i].hooks : <<i, j>> \in keep})

NonEmpty(es) == Chosen(es, {i \in DOMAIN es : es[i].hooks # <<>>})

Canonicalized(es) == Mapped(es, LAMBDA h : IF ownedCanonical(h) THEN Canon(h.k) ELSE h)

\* MUTANT of FirstOfKind: a hook that is not Borg's is deduplicated as well.
FirstOfAny(es) ==
    {p \in Hooks(es) : ~\E q \in Hooks(es) : Before(q, p) /\ At(es, q).k = At(es, p).k}

FirstOfKind(es) ==
    {p \in Hooks(es) : ~ownedCanonical(At(es, p))
                       \/ ~\E q \in Hooks(es) : Before(q, p) /\ ownedCanonical(At(es, q))
                                                /\ At(es, q).k = At(es, p).k}

migrateAndDedupOwnedHooks(es) == LET m == Canonicalized(es) IN Dropped(m, FirstOfKind(m))

hasCanonicalCommandHook(es, k) == \E p \in Hooks(es) : At(es, p) = Canon(k)

Added(es, k) ==
    LET m == migrateAndDedupOwnedHooks(es)
    IN  IF hasCanonicalCommandHook(m, k) THEN m
        ELSE Append(m, [on |-> "all", hooks |-> <<Canon(k)>>])

ClearEntry == [on |-> "clear", hooks |-> <<Canon("clear")>>]

\* One entry for Claude's clear, on its own; any other copy goes.
normalizeClearRewakeHook(es) ==
    LET m == Mapped(es, LAMBDA h : IF commandMatches(h, "clear") THEN Canon("clear") ELSE h)
        own == {p \in Hooks(m) : At(m, p).k = "clear" /\ commandMatches(At(m, p), "clear")}
    IN  IF Cardinality(own) = 1 /\ \E i \in DOMAIN m : m[i] = ClearEntry THEN m
        ELSE Append(NonEmpty(Filtered(m, Hooks(m) \ own)), ClearEntry)

-----------------------------------------------------------------------------
(* The changes, each of a file as it was read                              *)

addSessionStartHookAt(c) == [c EXCEPT !.start = normalizeClearRewakeHook(Added(@, "regen"))]

addClaudeLaunchAccess(c) == [c EXCEPT !.dirs = TRUE, !.tool = Added(@, "remind")]

\* A file in which nothing goes is not written, empty entries or not.
removeSessionStartHook(c) ==
    LET own == {p \in Hooks(c.start) : commandMatches(At(c.start, p), "regen")}
    IN  IF own = {} THEN c
        ELSE [c EXCEPT !.start = NonEmpty(Filtered(@, Hooks(@) \ own))]

KindAt == [start |-> "regen", prompt |-> "audit", tool |-> "remind"]

\* addUserPromptSubmitHook, and the three of Codex.
addHook(c, ev) == [c EXCEPT ![ev] = Added(@, KindAt[ev])]

refreshHookFile(c) ==
    [c EXCEPT !.start = migrateAndDedupOwnedHooks(@), !.prompt = migrateAndDedupOwnedHooks(@),
              !.tool = migrateAndDedupOwnedHooks(@)]

\* A registration a launch can use.  Claude's is any there is.
Recognized(f, e, targeted) ==
    /\ e.command # "none"
    /\ f = "config.toml" => "kind" \in e.marks
    /\ f = "opencode.json" => "password" \in e.marks /\ (targeted => "seat" \in e.marks)

\* What the agent's own program writes when Borg has itself added.
Fresh(f) == [command |-> "current", more |-> "none",
             marks |-> CASE f = "config.toml" -> {"kind"}
                         [] f = "opencode.json" -> Marks
                         [] OTHER -> {}]

\* A registration of an old package is pointed at this one; any other stays.
refreshMcpCommand(f, c) ==
    IF c.mcp.command = "stale" /\ (f = "claude.json" \/ "kind" \in c.mcp.marks)
    THEN [c EXCEPT !.mcp = [@ EXCEPT !.command = "current"]]
    ELSE c

\* For OpenCode 2: the operator's own under Borg's name becomes Borg's as well, and
\* keeps what else it holds.
registerCommonOpenCodeMcp(c) ==
    [c EXCEPT !.mcp = [@ EXCEPT !.command = "current", !.marks = Marks]]

\* What the operator says of the exact directory or of its tree holds.
addOpenCodeLaunchAccess(c) ==
    [c EXCEPT !.exact = IF @ = "allow" THEN "none" ELSE @,
              !.tree = IF @ = "none" /\ c.exact \in {"none", "allow"} THEN "allow" ELSE @]

Changed(op, c) ==
    CASE op[2] = "session" -> addSessionStartHookAt(c)
      [] op[2] = "dirs"    -> addClaudeLaunchAccess(c)
      [] op[2] = "unstart" -> removeSessionStartHook(c)
      [] op[2] \in Events  -> addHook(c, op[2])
      [] op[2] = "refresh" -> refreshHookFile(c)
      [] op[2] = "remcp"   -> refreshMcpCommand(op[1], c)
      [] op[2] = "common"  -> registerCommonOpenCodeMcp(c)
      [] op[2] = "access"  -> addOpenCodeLaunchAccess(c)

-----------------------------------------------------------------------------
(* What a command does, in order                                           *)

\* Changes that have the agent's own program register Borg: a failure stops the command,
\* or it goes on; a launch of a certain seat needs the reference to it.
Registers == {"register", "try", "target"}

provisionLaunchAccess(a, major) ==
    CASE a = "claude" -> <<<<"project", "dirs">>>>
      [] a = "codex"  -> <<<<"codex", "tool">>>>
      [] a = "opencode" /\ major = 1 -> <<<<"access", "access">>>>
      [] OTHER -> <<>>

ensureMcpConfigured(a, major) ==
    IF a = "opencode" /\ major = 2 THEN <<<<Mcp[a], "common">>>> ELSE <<<<Mcp[a], "register">>>>

configureResolvedCli(a) ==
    <<<<Mcp[a], "register">>>> \o
    CASE a = "claude" -> <<<<"project", "session">>, <<"claude", "unstart">>, <<"claude", "prompt">>>>
      [] OTHER -> <<<<"codex", "start">>, <<"codex", "prompt">>>>

\* assimilate prepares the worktree; a launch in it, of this very seat or not, repairs
\* what its agent needs.  The version of OpenCode is the one installed.
LaunchOps(a, how, major) ==
    CASE how = "assimilate" ->
           ensureMcpConfigured(a, major) \o provisionLaunchAccess(a, major)
           \o <<<<"project", "session">>>>
      [] how # "assimilate" /\ a # "opencode" -> configureResolvedCli(a)
      [] how # "assimilate" /\ a = "opencode" /\ major = 1 ->
           <<<<Mcp[a], IF how = "targeted" THEN "target" ELSE "try">>>>
           \o provisionLaunchAccess(a, major)
      [] OTHER -> <<>>

\* A file that does not parse has no hook.
Registered(f, ev) == file[f] # Broken /\ hasCanonicalCommandHook(file[f][ev], KindAt[ev])

\* setup finds out what is missing before it asks, and does that afterwards.
SetupOps(selected, major) ==
    LET do(c, op) == IF c THEN <<op>> ELSE <<>>
    IN  (IF "claude" \in selected
         THEN <<<<Mcp["claude"], "register">>>>
              \o do(Registered("claude", "start"), <<"claude", "unstart">>)
              \o do(~Registered("claude", "prompt"), <<"claude", "prompt">>)
         ELSE <<>>)
        \o (IF "codex" \in selected
            THEN <<<<Mcp["codex"], "register">>>>
                 \o do(~Registered("codex", "start"), <<"codex", "start">>)
                 \o do(~Registered("codex", "prompt"), <<"codex", "prompt">>)
            ELSE <<>>)
        \o (IF "opencode" \in selected THEN ensureMcpConfigured("opencode", major) ELSE <<>>)

\* The registrations in this order, the global hooks, then each worktree's.
RefreshOps ==
    LET all == <<"claude", "codex", "opencode">>
        mcps == Chosen(all, {i \in DOMAIN all : all[i] \in Agents})
    IN  [i \in DOMAIN mcps |-> <<Mcp[mcps[i]], "remcp">>]
        \o <<<<"claude", "refresh">>, <<"codex", "refresh">>, <<"project", "refresh">>,
             <<"project", "inspect">>>>

Stale(f) == file[f] = Broken \/ refreshHookFile(file[f]) # file[f]

-----------------------------------------------------------------------------
(* Processes                                                               *)

NoProc == [task |-> "none", ops |-> <<>>, at |-> "idle", old |-> Blank, new |-> Blank,
           failed |-> FALSE]

HooksInit(fs) ==
    /\ file \in fs /\ orig = file
    /\ proc = [s \in Slots |-> NoProc]
    /\ torn = {}

Busy(s) == proc[s].at \notin {"idle", "done"}

Begins(s, task, ops) ==
    proc' = [proc EXCEPT ![s] = [NoProc EXCEPT !.task = task, !.ops = ops, !.at = "read"]]

LaunchAgent ==
    /\ tasks < MaxTasks /\ tasks' = tasks + 1
    /\ ~Busy("other")
    /\ \E a \in Agents, how \in {"assimilate", "bare", "targeted"}, major \in {1, 2} :
          /\ LaunchOps(a, how, major) # <<>>
          /\ Begins("other", a, LaunchOps(a, how, major))
    /\ UNCHANGED <<file, torn, orig>>

Op(s) == Head(proc[s].ops)

\* The next change, or none left.
Popped1(p) == IF Len(p.ops) = 1 THEN [p EXCEPT !.ops = <<>>, !.at = "done", !.old = Blank, !.new = Blank]
              ELSE [p EXCEPT !.ops = Tail(@), !.at = "read", !.old = Blank, !.new = Blank]
Fails(p) == [p EXCEPT !.failed = TRUE]
Stops(p) == [Fails(p) EXCEPT !.ops = <<>>, !.at = "done", !.old = Blank, !.new = Blank]

\* Somebody has emptied the file and not yet filled it.
MidWrite(f) == \E s \in Slots : proc[s].at = "fill" /\ Op(s)[1] = f

\* What was read of it then is not what the file holds.
Reads(f) == torn' = IF MidWrite(f) THEN torn \cup {f} ELSE torn

\* What does not parse is left alone: a hook is skipped with a warning, a refresh of
\* hooks goes on and fails in the end, one of a registration says nothing; without
\* access to the worktree or a registration in OpenCode 2 the command stops.
Unreadable(s) ==
    proc' = [proc EXCEPT ![s] = CASE Op(s)[2] \in {"dirs", "access", "common"} -> Stops(@)
                                  [] Op(s)[2] = "refresh" -> Popped1(Fails(@))
                                  [] OTHER -> Popped1(@)]

ReadFile(s) ==
    LET op == Op(s)
        c == file[op[1]]
        v == Changed(op, c)
    IN  /\ proc[s].at = "read" /\ op[2] \notin Registers \cup {"inspect"}
        /\ \/ c = Broken /\ Unreadable(s)
           \/ c # Broken /\ v = c /\ proc' = [proc EXCEPT ![s] = Popped1(@)]
           \/ /\ c # Broken /\ v # c
              /\ proc' = [proc EXCEPT ![s].at = IF op[1] \in {"access", "opencode.json"}
                                                 THEN "replace" ELSE "write",
                                      ![s].old = c, ![s].new = v]
        /\ Reads(op[1])
        /\ UNCHANGED <<file, tasks, orig>>

\* writeJsonFile opens the file and so empties it, then writes.
EmptyFile(s) ==
    /\ proc[s].at = "write"
    /\ file' = [file EXCEPT ![Op(s)[1]] = Blank]
    /\ proc' = [proc EXCEPT ![s].at = "fill"]
    /\ UNCHANGED <<tasks, torn, orig>>

FillFile(s) ==
    /\ proc[s].at = "fill"
    /\ file' = [file EXCEPT ![Op(s)[1]] = proc[s].new]
    /\ proc' = [proc EXCEPT ![s] = Popped1(@)]
    /\ UNCHANGED <<tasks, torn, orig>>

\* OpenCode's files are replaced by a rename, if the file is still the one read.
stillUnchanged(s) ==
    /\ proc[s].at = "replace"
    /\ proc' = [proc EXCEPT ![s] = IF file[Op(s)[1]] = @.old THEN [@ EXCEPT !.at = "rename"]
                                   ELSE IF Op(s)[2] = "remcp" THEN Popped1(Fails(@))
                                   ELSE Stops(@)]
    /\ UNCHANGED <<file, tasks, torn, orig>>

writeOpenCode(s) ==
    /\ proc[s].at = "rename"
    /\ file' = [file EXCEPT ![Op(s)[1]] = proc[s].new]
    /\ proc' = [proc EXCEPT ![s] = Popped1(@)]
    /\ UNCHANGED <<tasks, torn, orig>>

\* A registration Borg can use is not touched; in a file of Codex that does not parse
\* it may still be found.
ensureCliMcpConfigured(s) ==
    LET f == Op(s)[1]
        found == file[f] # Broken /\ Recognized(f, file[f].mcp, Op(s)[2] = "target")
    IN  /\ proc[s].at = "read" /\ Op(s)[2] \in Registers
        /\ \/ /\ found \/ (file[f] = Broken /\ f = "config.toml")
              /\ proc' = [proc EXCEPT ![s] = Popped1(@)]
           \/ /\ ~found
              /\ proc' = [proc EXCEPT ![s].at = IF f = "opencode.json" THEN "add" ELSE "remove"]
        /\ Reads(f)
        /\ UNCHANGED <<file, tasks, orig>>

Puts(f, e) == file[f] # Broken /\ file' = [file EXCEPT ![f] = [@ EXCEPT !.mcp = e]]

\* What the agent's own program does, first of all to an entry of that name; it may fail
\* at that, which is ignored,
removeMcp(s) ==
    /\ proc[s].at = "remove"
    /\ Puts(Op(s)[1], NoEntry) \/ UNCHANGED file
    /\ proc' = [proc EXCEPT ![s].at = "add"]
    /\ Reads(Op(s)[1])
    /\ UNCHANGED <<tasks, orig>>

\* or when it adds Borg's, which is not: no hook is added after that.
addMcp(s) ==
    LET f == Op(s)[1]
        fails == IF Op(s)[2] = "try" THEN Popped1(Fails(proc[s])) ELSE Stops(proc[s])
    IN  /\ proc[s].at = "add"
        /\ \/ Puts(f, Fresh(f)) /\ proc' = [proc EXCEPT ![s] = Popped1(@)]
           \/ (Puts(f, Fresh(f)) \/ UNCHANGED file) /\ proc' = [proc EXCEPT ![s] = fails]
        /\ Reads(f)
        /\ UNCHANGED <<tasks, orig>>

inspectAgentIntegrationHealth(s) ==
    /\ proc[s].at = "read" /\ Op(s)[2] = "inspect"
    /\ proc' = [proc EXCEPT ![s] = Popped1(IF \E f \in HookFiles : Stale(f) THEN Fails(@) ELSE @)]
    /\ UNCHANGED <<file, tasks, torn, orig>>

\* A process killed while the file is empty leaves it so.
ProcessDies(s) ==
    /\ Busy(s)
    /\ proc' = [proc EXCEPT ![s] = NoProc]
    /\ torn' = IF proc[s].at = "fill" THEN torn \cup {Op(s)[1]} ELSE torn
    /\ UNCHANGED <<file, tasks, orig>>

HookStep(s) ==
    \/ ReadFile(s) \/ EmptyFile(s) \/ FillFile(s) \/ stillUnchanged(s) \/ writeOpenCode(s)
    \/ ensureCliMcpConfigured(s) \/ removeMcp(s) \/ addMcp(s) \/ inspectAgentIntegrationHealth(s)

-----------------------------------------------------------------------------
(* Properties                                                              *)

TheirHooks(e) == Chosen(e.hooks, {j \in DOMAIN e.hooks : e.hooks[j].k = "other"})
Theirs(es) == Chosen([i \in DOMAIN es |-> TheirHooks(es[i])],
                     {i \in DOMAIN es : TheirHooks(es[i]) # <<>>})

\* What is kept of a registration.  One every launch can use stays one, with what else it
\* holds, and its command changes only if it is Borg's old one, or at the registration for
\* OpenCode 2.  Any other is left, is Borg's now, with what else it held or without, or
\* gone: a launch does not keep it.
McpKept(f, before, now) ==
    IF Recognized(f, before, TRUE)
    THEN /\ now.command # "none" /\ before.marks \subseteq now.marks /\ now.more = before.more
         /\ now.command = before.command
            \/ (now.command = "current" /\ (before.command = "stale" \/ f = "opencode.json"))
    ELSE now.more \in {before.more, "none"} /\ now.command \in {before.command, "current", "none"}

\* What is kept of a file: the operator's own hooks, in their entries and their order,
\* the rest, the registration as far as said above and a refusal of access.
FileKept(f, before, now) ==
    \/ now = before
    \/ /\ now.rest = before.rest
       /\ \A ev \in Events : Theirs(now[ev]) = Theirs(before[ev])
       /\ McpKept(f, before.mcp, now.mcp)
       /\ \A w \in {"exact", "tree"} : before[w] \in {"ask", "deny"} => now[w] = before[w]

\* The operator's part of a file stays whatever the processes do to the file at once,
\* but for a registration that no launch could use; except in a file that was lost
\* between emptying and filling it (writeJsonFile).
ForeignKept ==
    \A f \in Configs : f \notin torn /\ ~MidWrite(f) => FileKept(f, orig[f], file[f])
=============================================================================
