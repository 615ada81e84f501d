# TLA+ verification of borg-mcp-client

Borg lets several coding agents ("drones") share a "cube": a project log on a
Borg server. This repository is the client. It runs as a command line, as an MCP
server beside every agent, as a stream that wakes an idle agent when the log
grows, and as a "representative", the automated delegate through which a human's
assistant talks to the cube's Coordinator. None of that is one process: several
processes of one seat share files in the user's home directory, the server is
remote, agents are killed without notice, and every promise the client makes
("no duplicate post", "no missed reply", "one stream per drone") has to survive
that. This directory models those promises.

Paths below are relative to the repository root (`src/` of a checkout is the
TypeScript source).

## 1. Inventory

| Component | State it keeps | Operations | Hard behaviour | What makes it correct |
|---|---|---|---|---|
| **Representative send** (`representative-core.ts`, `representative-store.ts`) | request ledger per binding generation: request id, digest, state, `maybeStored` | reserve, verify, append, settle, release, reconcile | overlapping calls, lost and late answers, crash between append and settle, rebind, bounded history | a post the server holds is never denied; identical content is never blindly sent twice |
| **Reply delivery** (`representative-core.ts`, `representative-delivery-store.ts`) | start, checkpoint, read fence and returned set per generation | ensure row, resolve head, read (snapshot, scan, widen), deliver | transactions separated by server reads, rebinds, a capped set | no direct reply is skipped; what was read can be delivered |
| **Representative database** (`representative-db.ts`, `representative-legacy.ts`) | generation directories, the `CURRENT` pointer, a publish mutex | open, create, import, transact, view, reset, retain | crash between publishing steps, a reset under open handles, corrupt files | no commit is lost; `CURRENT` names a complete generation |
| **Push engine and listener** (`representative-push.ts`, `representative-listener.ts`) | discovered replies, frontier, outstanding batch, refusals, startup cohort, debounce | capture, discover, merge, tick, ack, discard | ack against deadline, crash between persist and emit, pages read under a discarded state | nothing discovered is forgotten; every reply wakes the host until delivered |
| **Stream lease** (`stream-owner.ts`) | a lock directory, a claim directory, the owner's record and marker | acquire, refresh, release, recover | file-system races, staleness, crash between renames | no live lease is deleted; a double ownership ends; a dead owner is replaced |
| **Log stream** (`log-stream.ts`, `local-server-cursor.ts`) | session marks, remembered ids, inbox file, durable cursor | connect, catch up, route, append, trim, record, heartbeat | silent connections, replays, partial failure, two processes on one file | nothing missed; lost subscriptions noticed |
| **Unread reads and the cursor file** (`remote-client.ts`, `local-server-cursor.ts`) | one file with the cursors of all seats and purposes, its lock file | read a page, advance, digest, clear | pages and advances before the answer is complete, a lock unlinked by path | no unread entry is passed over; no cursor is moved back |
| **Role synchronisation** (`remote-client.ts`) | none; the cube's roles and taxonomy on the server | compare with a template, add, replace what was accepted | one reading and then many requests, others editing meanwhile | evolved text is never silently overwritten |
| **Inbox monitor** (`inbox-monitor.ts`) | pidfile, mutation lock, heartbeat, replay cursor | claim, reap, arm, tail, emit, respawn | check-then-unlink, a wedged holder, replay at arm time | one monitor per inbox; no line passed over |
| **Codex wake** (`codex-app-wake.ts`, `codex-app-server.ts`) | pending wakes, retry-drain obligations, inject mutex | wake, drain, retry, heartbeat | callbacks around awaits, three paths to one thread | every entry is read in the end; no double injection |
| **OpenCode wake** (`opencode-drone.ts`, `opencode-v2-*.ts`) | delivery queue, persisted intents, session binding; OpenCode 2: the broker's session and deliveries, the start-up mutex | inject, deliver, confirm, settle; wake, reconcile, hand over, launch | a POST that is not idempotent, crash around it, overlapping prompts, a launcher that dies | an unknown outcome is never repeated; the newest human session wins; bootstraps exclude each other |
| **Seat store** (`seat-store.ts`) | a JSON file, a lock file | lock, read, commit, unlock | reused pids, a stale lock, a write failing after its rename | transactions are atomic, reports are true |
| **Seats, assimilation, launch-all, cleanup** (`seats.ts`, `assimilate-cmd.ts`, `launch-all-*.ts`, `cleanup-cmd.ts`, ...) | seat records, worktrees, drones on the server, launch markers | prepare, attach, activate, bind, reset, prune, launch | lost answers, a crash in any gap, overlapping commands | no worktree is given a second seat; no live drone without its credential; the launch that was picked |
| **Agent launch and tool approval** (`claude.ts`, `codex-remote.ts`, `cli-tool-approval.ts`, ...) | layered policy of an agent CLI, private app-servers, sockets, pid files | resolve, override, verify, start, attach, prune | pruning of a server that just starts, edits meanwhile, failed starts | the operator's policy survives; no running server loses its socket |
| **Enrolment and trust** (`server-handshake.ts`, `server-trust.ts`, `config.ts`, `enrollment-lock.ts`, ...) | trust generations and their pointer, credentials, the accepted-enrolment marker | enrol, replace, resume, recover, use | two stores that must change together, a server set up anew | trust and credential agree; no accepted credential is lost or shown to another server |
| **Repository cube** (`repository-cube-init.ts`, `repository-identity.ts`) | the association of a repository, a creation retry record | resolve, adopt, create, associate, confirm | a retry of a creation, enrolment changing underneath | the association kept is the server's binding |
| **Hermes plugin installer** (`hermes-plugin-install.ts`) | plugin files, keys of a foreign configuration, an activation record | install, activate, roll back, uninstall | several files, a gateway restarted meanwhile | what is recorded active is what the gateway runs |
| **Agent configuration** (`config-utils.ts`) | hooks, MCP entries and permissions inside the operator's files | add, refresh, remove | whole-file rewrites without a lock | the operator's own entries survive |
| **Update and setup** (`update-cmd.ts`, `first-run-server.ts`, `setup.ts`) | installed client and server, the runtime the server uses | plan, install, hand over, verify | releases published one at a time, the new client going on for the old | a verified update leaves a pair that agrees |
| **MCP server, rendering, status** (`index.ts`, `tool-manifest.ts`, `regen-format.ts`, ...) | none of their own | dispatch, render, report | sequential | - |

How they interact: the representative's tools and its listener share one SQLite
database, whose transactions are serial and each check the worktree's binding
generation. The listener and the MCP servers use the same lease code on different
lock paths. The lease decides who runs the log stream; the stream writes the inbox
file, which the inbox monitor tails, and calls the Codex or OpenCode wake bridge.
The durable stream cursor is shared by all processes of a seat. Seats give every
component its credential, under an enrolment the server session checks; `assimilate`
makes a seat and then launches an agent in it; `update` rewrites the agents'
configuration and the Hermes plugin.

`PROJECT.json` lists the components with what is and is not modelled, and the
hazards: the places where this code can go wrong in a way a test would hardly
reach, each with the properties that watch it.

## 2. Plan

Done, in this order: `RepresentativeSend`; `StreamLease`; `RepresentativeDelivery`;
`LogStream`; `RepresentativePush`; `CodexWake`; `OpenCodeDelivery`; `InboxMonitor`;
`AtomicStore` and `SeatStore`; `SeatLifecycle`; `Enrollment` and `RepositoryCube`;
`HermesPlugin`, `AgentHooks` and `Update`; `RepresentativeState`; `ToolApproval` and
`AgentLaunch`; `OpenCodeBroker` and `OpenCodeHost`; `UnreadLog`; `RoleSync`; then the
proofs of every safety property the runs check except `LiveLeaseNotRemoved`, and of the
refinement of `AtomicStore` (section 5).

Next, most important first:

1. The lease: `LiveLeaseNotRemoved` proved for two processes, and a weaker property, for
   any number of them, of what a removal can hit (section 4 tells how three break it).
2. Breadth: the orphan-inbox sweep, the audit counters of the OpenCode 2 broker, clone
   and quickstart around assimilation, the readiness probes.

## 3. Modules and the code they model

`PROJECT.json`'s `map` gives, for every definition that stands for code, the file and
lines. A module that is composed with others under one run names its specification for
itself (`DeliverySpec`, `StateSpec`, `UnreadSpec`, `MonitorSpec`, `BrokerSpec`, `HostSpec`,
`SeatSpec`, `LaunchSpec`, `UpdateSpec`, `SyncSpec`); elsewhere it is `Spec`. The
correspondence in outline:

**RepresentativeSend** - `sendOnce` in `representative-core.ts` over the ledger of
`representative-store.ts`. A call is `Begin`, `Reserve` (one transaction: reuse,
refusal or reservation), `Transmit` (the verification passed and the append is on its
way) or `Release` (it did not), and one of the `Settle*` actions. `ServerStores`,
`ServerRefuses`, `OrphanStored` and `OrphanLost` are the server's side, with appends
that are answered late, never, or after the sender gave up. `saveBinding` rebinds the
worktree. State: the ledger per generation, each call, and the posts the server holds.

**RepresentativeDelivery** - the read and deliver tools over
`representative-delivery-store.ts`. The transactions are actions; the log grows and
rebinds happen between them. A binding whose start is imported resolves the server
head first.

**RepresentativeState** - `representative-db.ts`: the generation directories, `CURRENT`
and the mutex under which it is replaced. A process opens, creates or imports, runs
transactions that re-read `CURRENT`, views, resets and prunes, one file-system or SQLite
step at a time.

**StreamLease** - `stream-owner.ts` at the granularity of path operations: one action
per `mkdir`, `rename`, read, write or removal, over two names and reusable inodes.
The only clock is what a process can see of one: a stale record, an old marker, an old
directory.

**LogStream** - `streamOnce` and `runLoop` of `log-stream.ts` with the cursor of
`local-server-cursor.ts`. Each await in the handling of an event is a step boundary:
route, append, trim (read, then rename), record and advance. Heartbeats, the
divergence timer, expired cursors, eviction, refusals and lease loss are actions.

**UnreadLog** - `readLog` with `unread_only` and the file behind every cursor, which
`LogStream` takes as atomic: the lock file's open, stat and unlink, the read of the whole
file, its replacement, the unlink of the lock, page after page, and then the request for
the cube. Reads from an explicit `since` or cursor touch no state and are left out, and
so is cancellation, which ends a read the way a failure does.

**InboxMonitor** - `inbox-monitor.ts` with the pidfile, its mutation lock and the replay
cursor as files, the inbox as a window of numbered lines that the stream appends to and
trims. A monitor acquires (in the code's read, check, unlink and create steps), plans
its replay, tails and emits; it may stall, be wedged, be reaped, and go on.

**RepresentativePush** - `PushEngine` and the parts of `runListener` that drive it. The
wake document and the reply rows are one state; every transition is one transaction
(`Transaction`), network reads are steps of their own, and `Emit` is separate from the
transaction that persisted the wake.

**CodexWake** - the three injecting paths of `codex-app-wake.ts`. `pc` says where each
is; everything between two awaits is one step. `resolveFreshCodexWakeTarget`,
`readThread`, `startTurn` and `Delivered` are shared by the paths, as the code's shape
is, and differ in what a path does when it is put off.

**OpenCodeDelivery** - `injectOpenCodeEntry`, `settleOpenCodeEntry` and the delivery loop
of `opencode-drone.ts`, one step per await, over the binding file. `restoreBinding`,
`writeBinding`, `clearBinding` and `clearPendingSubmission` are operators on the pair
(memory, file), so that a failed write leaves the one without the other.
`pendingSubmissions` is a map, so an identity has one marker. A reconciliation loop looks
every 3 s and ends once its entry is no longer unconfirmed, and a delivery needs
0 + 0.25 + 1 + 3 s of retries to become so: `EarlierLoopEnded` says that the former loop
of an identity has ended by then. The OpenCode
server, the user's sessions and the agent's reading are the environment; an answer that
is not a success counts as a submission that was not stored, as the code takes it. Calls
may overlap, as the module allows; the stream makes one at a time. The diagnostics, and
`probeOpenCodeDroneArmed` and `disconnectOpenCodeDrone`, which only tests call, are left out.

**OpenCodeBroker** - `opencode-v2-broker.ts`. Wakes and reconciliation hold the serial
queue across their awaits; human prompts, context, settling and readiness come between.
**OpenCodeHost** - the launch, its supervisor process and the private server of OpenCode
2 with the SQLite mutex that covers a bootstrap (`opencode-v2-launch.ts`,
`-startup.ts`, `-startup-host.ts`, `-server.ts`). Commands travel over IPC in order;
each of the three processes dies on its own.

**AtomicStore**, **SeatStore** - what `withStore` promises, and `seat-store.ts`: the
lock file taken by `link`, the checks of a lock somebody else holds, the read, the write
and the rename. `Refines` is `AtomicStore`'s specification under the mapping *store =
the committed file, done = the transactions reported as done*.

**SeatLifecycle** - the seat transactions of `seats.ts` and the commands around them:
`assimilate` (prepare, attach on the server, worktree, activate, bind, roll back),
`reset`, `cleanup`, `launch` and `launch-all`. A store transaction is one action, on the
strength of `SeatStore`. A command runs in one of the `Runners`; `Nil` is no record, and
`MaxSeatFaults` bounds crashes and lost answers. The store it begins with is empty or
any an older version can have left: several active seats of one worktree, with no order of
their binding, with orders that tell the newest, and with orders that tie.

**ToolApproval**, **AgentLaunch** - the policy algebra of an agent CLI's configuration
layers as operators (merge, effective policy, override, verification), and the launch
that uses them: resolve, verify, start the private server, attach, clean up and prune. A
layer is any of `Fragments` (all approval modes of Codex on the server, its default and
its tools), OpenCode's rules are a list of any length, and `Configured` says what a
launch may find.

**Enrollment**, **RepositoryCube** - one origin's trust pointer and generations, the
accounts file and its accepted-enrolment marker, with `enroll`, replacement, resumption,
recovery and use; `RepositoryCube` extends it with resolving, adopting, creating and
confirming the cube of a repository under whatever session is current by then.

**RoleSync** - `syncRoles` and `applyTemplate`: one reading of the cube, the requests
decided from it, and each request as a step against a server others edit. One role with
a scalar field and a section, and one message class, stand for the fragments.

**HermesPlugin**, **AgentHooks**, **Update** - the installer's writes in their order with
the activation record and its roll-back (what is still to be written, or undone, is a set,
and `Rank` is the order the code goes through it); the whole-file rewrites of the agents'
settings with the clean-up of old forms, over any `Contents` a file can have; and
`update`/`setup`, which composes the two with the installation of the published client and
server. A process that registers Borg's MCP server recognises the registration it finds
as its agent's check does, and otherwise removes and adds it (Claude, Codex), each of which
may fail, or sets the command and the references of the entry (OpenCode, whose files are
checked against what was read and then renamed over, in two steps; OpenCode 2's setup
always sets them). OpenCode's global documents are one file in the model, and only a
launch in a worktree with a seat writes the access rules.

**Selections** - what a filter keeps of a list, in closed form, for the clean-up of hooks
and the rules of OpenCode.

An `MC_` module gives symmetry sets and initial states. Where one run covers several
machines that share no state (`MC_RepresentativeSend`, `MC_OpenCodeDelivery`,
`MC_SeatLifecycle`, `MC_LogStream`, `MC_RepositoryCube`), a constant-valued variable
`scene` picks the one that moves, so their states add up instead of multiplying.
Definitions that precede a mapped one and are used nowhere (`AnyEpoch`, `BoundOnly`,
...) are the mutated forms `PROJECT.json` pairs with each property.

## 4. Runs

| Run | Question | Properties |
|---|---|---|
| `representative_send` | is the ledger truthful about every post, under overlap, retry, crash, rebind and a full history? | `StoredIsAccountedFor`, `NoBlindDuplicate` |
| | can the checkpoint pass an unread reply, or a read reply become undeliverable? | `NothingSkipped`, `ReadStaysDeliverable` |
| | does a reset, a crash or a corrupt file lose a commit or leave a half-made database current? | `NoLostCommit`, `CurrentIsComplete` |
| `stream_lease` | is a live lease ever deleted; does a double ownership end; is a dead owner replaced? | `LiveLeaseNotRemoved`, `TwoOwnersHeal`, `DeadOwnerReplaced` |
| `log_stream` (two processes) | can the cursor pass an entry the inbox was not given, or move back? | `NothingMissed` |
| | can an unread read pass over an entry, or a process in the lock undo another's advance? | `UnreadNotPassed`, `NoLostAdvance` |
| `log_stream_live` (one process, two faults) | is a reconnect ever spurious; does an announced broadcast arrive through a silent connection? | `DivergenceIsReal`, `AnnouncedArrives` |
| `representative_push` | does discovery forget a reply; is an undelivered reply woken for ever, and not early? | `NothingForgotten`, `WokenUntilDelivered` |
| `codex_wake` | is every entry read in the end; does the health signal recover? | `UnreadIsRead`, `RecoversToHealthy` |
| `opencode_delivery` | can a submission of unknown outcome be forgotten or repeated (OpenCode 1)? | `IntentIsDurable`, `NoBlindResubmit` |
| | does an entry stay in one session, and do wakes follow the newest human prompt (OpenCode 2)? | `OneSessionPerSource`, `SessionIsNewest` |
| | can two launches bootstrap the shared database at once, whoever dies? | `BootstrapExclusive` |
| `inbox_monitor` | can two monitors serve, or a line go by unannounced? | `OneMonitor`, `AtLeastOnce` |
| `seat_lifecycle` | over overlapping commands, crashes and lost answers: does any step give a worktree a second seat, is a live drone without its credential, and is it the drone that was picked? | `NoSecondSeat`, `NoGhostDrone`, `LaunchesWhatWasPicked` |
| | does the operator's policy reach the agent; can a launch take a running server's socket? | `PolicyPreserved`, `RunningSocketKept` |
| `seat_store` | is the store atomic, and does every call return? | `Refines`, `Returns` |
| `server_session` | do trust and credential change together; is an accepted credential lost, or shown to another server; is the association the server's binding? | `TrustMatchesCredential`, `CredentialKept`, `NoCredentialToStranger`, `AssociationIsBinding` |
| | does a synchronisation ever overwrite what the cube's people wrote? | `NeverClobbers` |
| `install` | is what is recorded active what runs; do the operator's entries survive; does a verified update agree? | `GatewayHasWhatIsActive`, `ForeignKept`, `UpdatedPairAgrees` |

Every property holds. Several are stated with the exception the code needs: a ghost
variable records that the exceptional step was taken, and the property says what holds
otherwise. Those exceptions, and what else the models showed, follow; none of them is
needed for a run to hold.

**Stream, wakes and the representative**
- `StoredIsAccountedFor` excuses records the bounded history dropped. Once
  `pruneSettled` (`representative-store.ts:183`) drops a `sent` record, a retry of that
  request id is new to the ledger, and a refusal of it is recorded as `rejected` although
  the server holds the first post.
- Two processes can own the stream for a moment: `restoreClaimedLease`
  (`stream-owner.ts:624-636`) renames the claim back onto a directory a creator has just
  made and not filled. `stream-owner.test.ts:125` and `docs/HUMAN_REPRESENTATIVE.md:365`
  speak of exactly one. `TwoOwnersHeal` shows that it ends.
- `LiveLeaseNotRemoved` holds for two processes. Three can break it, which a
  configuration with a third process shows (it is not one of the runs, since every
  step it takes is one the code means to take). In 20 steps: a refresh of the owner has
  put the lease under the claim name and has not published its takeover marker; the
  directory is older than the grace of `stream-owner.ts:429-435`; a second process makes
  and fills the lock name; the recovery of a third meets `ENOTEMPTY` and discards the
  owner's lease in favour of the "canonical successor" (:452-455). In 29 steps: a
  recovery that saw an old claim finds no record in it any more, takes that for
  reclaimable and removes by path (:442-445) what a releasing owner has meanwhile moved
  there of another's. Both heal as `TwoOwnersHeal` describes.
- `DeadOwnerReplaced` is about dead owners. A live process that lost its lease to
  contention and finds its own stale record in the lock is refused by
  `stream-owner.ts:118`; only another process reclaims that record.
- `AnnouncedArrives` is about broadcasts past a session's baseline. While the session's
  broadcast mark is null, the first heartbeat's mark becomes the baseline without being
  compared with anything (`log-stream.ts:1134`).
- The trim is checked with one process. It reads the inbox and renames a shortened copy
  over it without a lock (`log-stream.ts:1687`), so while two processes overlap (a lease
  that was lost is noticed up to 45 s later) a line the new owner appends in between is
  lost. Its entry stays unread in the log, which is what the other wakes are for.
- An unread read advances the cursor before it asks for the cube (`remote-client.ts:1186`,
  :1213). When that request, a later page or the process fails, the entries of the pages
  read so far are behind the cursor and were given to nobody; `UnreadNotPassed` excuses
  exactly those (`dropped`). The advice of the error message, to repeat the unread read
  (:240), does not bring them back; reading without `unread_only` does.
- The cursor's lock is unlinked by path when it looks 30 s old and when its holder leaves
  (`local-server-cursor.ts:119`, :134). A process that slept in the lock removes its
  successor's, and two processes replace the file from what each had read, so a cursor
  can move back; `NoLostAdvance` excuses processes that overlapped in this way. What
  follows is that entries are read again.
- The Codex retry loop's `clear()` after awaiting `startTurn` (`codex-app-wake.ts:525`)
  drops a wake that was put off meanwhile, against the comment at :399. The next
  heartbeat finds the entry, which is why `UnreadIsRead` holds.
- `NoBlindResubmit` is about unknown outcomes. A confirmed submission is not remembered
  across a restart of the child, so a re-ping of an entry that is still unread, under
  another nonce or after the user switched sessions, is submitted again.
- In the OpenCode 2 broker the two reads of a reconciliation (messages, then inbox) can
  both miss a prompt that moves between them, so its message id is submitted again; two
  overlapping `/human` requests register in the order their verification ends; `/settle`
  of a source not yet known settles nothing.
- OpenCode launches: work done before the `try` of `opencode-v2-launch.ts:139-146`, a
  failure between the two descriptor writes (:320-321), and the "unbound" path of
  `claude.ts:200-223` leave their files behind. A supervisor that stops while `release`
  is awaited (`opencode-v2-startup-host.ts:105-115`) makes the launch report that no
  kickoff was submitted after it was admitted.
- When a stalled tail is respawned, the lines between what it printed and
  `lastEmittedOffset` (`inbox-monitor.ts:1317`) are skipped, although the comment below
  it says none is dropped; `AtLeastOnce` excuses them. A reaped monitor that resumes
  still writes the replay cursor, which a comment leaves to the lock holder. It writes its
  own boundary, so with a third monitor lines that the newer one owes fall behind the
  cursor; `AtLeastOnce` excuses exactly those.
- Two listeners over one wake state can close a startup cohort before its scan is
  through. `NothingForgotten` therefore needs the lease's promise of one listener; that
  discovery passes no reply without a wake record does not.
- Resetting a "not a database" file takes no lock (`representative-db.ts:623`); a process
  with an older open handle may still commit into it (`stray`). Generation directories
  left by failed publications count toward the retained ones.

**Seats and launches**
- A worktree can have several active seats: an older version's, whose bindings have no
  order, or whose orders are not all different. They are kept as they are and every command
  that resolves the worktree stops (`AmbiguousSeatBindingError`, `seats.ts:246-286`), until a
  reset takes them one by one or an activation retires them; of three, a reset of one of two
  that tie makes the repair take the rest. So `NoSecondSeat` is about steps: none adds to
  such a group, and none makes one.
- Of two overlapping plain `borg assimilate`, the second may adopt the first's pending
  record that is not bound yet (`assimilate-cmd.ts:2019-2042`, `seats.ts:705-729`) and
  rebind its seat, against the comment at `assimilate-cmd.ts:1969-1975`.
- `borg cleanup --prune` acts on the report it made earlier (`cleanup-cmd.ts:516`). An
  activation whose write throws after the rename makes `bindPending` answer 'replaced',
  and the roll-back removes the worktree of a seat that is active. The two reads of
  `getActiveCube` can tear. Launch-all's markers are checked at discovery and written
  after dispatch.
- The pid file of a private Codex server is truncated and then written; a pruning launch
  that reads it empty removes a live server's socket (`codex-remote.ts:262-277`,
  `misread`). A server that binds after its clean-up leaves a socket nobody prunes, and a
  killed launcher leaves its server running.
- An edit of the agent CLI's configuration during a launch can make the policy in force
  differ from the one that was verified (`overtaken`).

**Enrolment, installation, update**
- `restoreAcceptedEnrollmentAccounts` (`config.ts:1008`) overwrites another enrolment's
  pending record (`Displaced`); preparing and activating do not look for another's marker
  (`stacked`); consent is about the snapshot taken at prepare. A stale cube-creation retry
  record stays when the rerun resolves the association first.
- A synchronisation sends a missing scalar field as a plain update (`remote-client.ts:2376`),
  so a value somebody gave the field after the cube was read is overwritten, against
  "never silently overwritten" (:2236-2237); `NeverClobbers` excuses it (`since`). A
  decision names a fragment and not the text that was seen: text that evolved between the
  dry run and the accepting call is replaced as well. Sections and classes are safe,
  because the server refuses to insert what is there.
- A Hermes gateway restarted by hand between `beginGeneration` and the last write of the
  configuration is taken to have loaded the change (`hermes-plugin-install.ts:1277-1281`,
  `amid`). Overlapping installer commands are not ordered by a lock, so the model runs
  one at a time. An uninstall that crashed after removing `enabled` is undone by the next
  `borg update`; its nothing-to-do path leaves `__init__.py`.
- A settings file is truncated and then written, and an empty file is read as `{}`, so an
  overlapping reader can lose the operator's hooks (`config-utils.ts:84`, :210; `torn`).
  Overlapping rewrites can undo a refresh. `removeSessionStartHook` leaves global hooks
  that point into an old package path; `normalizeClearRewake` takes any absolute path
  that ends in `/borg-clear-rewake` for Borg's own. Setup's server installation does not
  look at the client again (`meddled`).
- An operator's own registration named `borg` is not kept for being there. A Codex entry
  without Borg's marker is removed and Borg's added, and is gone if the addition fails
  (`config-utils.ts:1075-1098`, :1276-1303); an OpenCode entry without Borg's references
  is replaced (:1435-1451, :1555-1570); OpenCode 2's setup sets command and marks whatever
  the entry holds (`opencode-common-config.ts:57-70`). Of registrations, `ForeignKept`
  therefore keeps what a launch could use as it was, and of OpenCode 2's entry what is
  beside the command and the marks (`McpKept`).
- A roll-back of the plugin goes on and restores the record when it cannot remove a file
  it had added to a directory that was there (`hermes-plugin-install.ts:1526`). The record
  is right all the same: the plugin is not enabled then (`SwitchInv`, section 5). An inbox
  cursor that can be neither written nor removed stays where it was, and entries are
  announced again.

**Bounds.** Two processes (calls, engines, launches) reach every pairwise race. A third
matters in three places: the store's lock is contended by three, so that one waits while
another's lock is reported stale; the lease and the inbox monitor have the races with a
third told above, of which the monitor's are covered by the proof for any number. For
the properties proved in section 5 every bound is arbitrary. Two request ids and two
contents tell "same" from "different". A settled history, a remembered-id cap or a
wake-key cap of 1 is at its limit at once, which is where eviction happens. A log of two
or three entries has one entry before, at and after every cursor. A page, or a read
limit, of 1 makes every scan multi-page. Waits of 1 and 2 keep the order of the code's
waits (debounce, refusal and deadline before rewake). Three commands between two
processes let one command overlap two others in turn. The stores an older version left have
two seats of a worktree (with no order, tied, told apart) or three, of which the repair of
the rest can depend on a reset. A server that is set up anew once
has two identities; two releases beyond the installed one let the pair be published
apart. Fault budgets of one or two put a fault between any two steps and a second one
into its recovery; the installer has a third in one setting (an install, an uninstall that
is cut off, an install that fails). The agents' files begin with every agent's fresh
registration, or with one, two or three of the files that differ: registrations of the
operator's or of an older Borg's or none, and files that do not parse. Each module's bounds
are constants named `Max...`. Two listeners over
one wake state (a lease that was lost and not yet noticed) are outside the push run's
bounds. The configurations switch off the deadlock check because the bounds let the
system stop: no entry, call, command or fault is left.

**Fairness and timing.** Liveness is claimed under what the scheduling gives:
- `StreamLease`: weak fairness of each process's next operation and of the staleness of
  records nobody refreshes. `spans` and the guards of the ageing actions say that the
  limits (70 s for a record, 5 s for a directory under initialisation or takeover) are
  long against one operation.
- `LogStream`: the loop reconnects and runs its steps; heartbeats, the timer and
  received events are strongly fair, because a session that is cut off again and again
  still gets each of them in some session. A server always slower than the divergence
  timer is outside this.
- `RepresentativePush`: time passes, the host restarts a listener that ended, the
  5-minute trigger comes round. The engine's transitions are strongly fair because its
  queue is first-in first-out: one that waits its turn gets it.
- `CodexWake`: requests are answered, turns read the log and end. The heartbeat (20 min)
  and the retry loop (at most about a minute apart) do not run in step, so each finds the
  mutex free in the end; failures and human turns are finitely many.
- `SeatStore`: weak fairness of each process's next step, nothing of the operator or of
  a crash. `Returns` needs no more because a waiter gives up after its attempts.

## 5. Proofs

TLC checks the small instances; the proofs hold for every value of the constants that
satisfies the named `ASSUME`s, which say that bounds are numbers, that a limit is not
zero and that a "none", or a file that does not parse, is not a value. 50 theorems are listed in `PROJECT.json`; 32 of
the 40 properties of the runs are stated by one. Only two theorems assume more:
`NoReplyIsForgotten` assumes `OneListener`, which is what the lease promises, and
`PoliciesArePreserved` that the edits made during launches are layers a configuration can
have. Of fairness the proofs use nothing.

| Module | Proves about |
|---|---|
| `RepresentativeProofs` | `RepresentativeSend`, `RepresentativeDelivery` |
| `RepresentativeStateProofs` | `RepresentativeState`, `RepresentativePush` |
| `LogStreamProofs` | `LogStream`, `UnreadLog` |
| `WakeProofs` | `CodexWake`, `InboxMonitor` |
| `OpenCodeProofs` | `OpenCodeHost`, `OpenCodeBroker`, `OpenCodeDelivery` |
| `SeatProofs` | `SeatStore` as an `AtomicStore`, `SeatLifecycle` |
| `ServerClientProofs` | `Enrollment`, `RepositoryCube`, `RoleSync` |
| `InstallProofs` | `Update`, `HermesPlugin`, `AgentHooks`, `AgentLaunch`, `ToolApproval` |

Few of the properties are inductive. What each argument adds:

**The representative**
- *Send.* `StoredIsAccountedFor` depends on which calls may still have an append under
  way. `LedgerInv` adds that an id whose record denies an attempt has no attempt anywhere
  (`NoHiddenAttempt`), that a reservation not marked `maybeStored` has exactly one holder
  (`SoleHolder`; otherwise a release by one call could erase another's attempt), that
  record and attempts agree on the content, that answers on their way are true, and that
  a call of the current generation has the current selection. `OneUnresolvedPerContent`
  and `NoBlindDuplicate` follow.
- *Delivery.* `NothingSkipped` needs to know that what reads returned covers the log
  without a gap from the row's start, and that a read under way holds a gapless window
  behind its row: `DeliveryInv`, per row and per call. `FenceHolds`, and `RowsMoveForward`
  as an action property, follow from it. `ReadStaysDeliverable` is about a set capped by
  number. `WindowInv` says that what a row still holds of its reads (`RowHoldsReads`) and
  every window under way (`WindowIsOldest`) are among the first `ReadLimit` entries after
  their start, counted with the broadcasts or without; two such windows are what
  `RETURNED_CAP` has room for.
- *Database.* `DatabaseInv`: who is between the lock and the clean-up of a publication is
  the mutex's holder; what it copies is fenced off from writers and has everything
  `CURRENT` had; the new generation has a newer name and is nobody else's; a transaction
  about to commit does so in `CURRENT`'s generation, or in a file that is no database any
  more. `NoLostCommit` and `CurrentIsComplete` follow.
- *Push.* `DiscoveryInv`: every undelivered direct reply behind the frontier has a wake
  record, only undelivered ones have one, and unless the wake state was discarded
  meanwhile a page is read from no further than discovery has got to. `CohortInv` says
  that while the startup cohort is open its end is within reach of what is left to
  count.

**Streams and wakes**
- *Log stream.* Why the durable cursor is safe is spread over the handler's awaits, so
  `StreamInv` says of every session what it may rely on between two of them: what the
  server sent so far is in the inbox, but for the event whose line is due (`SentIsKnown`);
  while it catches up, so is what is behind the cursor in memory (`CatchingUpOk`); the
  broadcast cursor covers what was sent (`BroadcastsCounted`). `NothingMissed` and
  `DivergenceIsReal` follow.
- *Unread reads.* `UnreadInv`: every entry up to the cursor, up to where any read began and
  up to the cursor in any copy of the file was handed over or is carried by the read that
  moved the cursor over it; a process in the lock that none overlapped is there alone, so
  its copy is current. `UnreadNotPassed` and the action property `NoLostAdvance` follow.
- *Codex.* `OneInjector` and `ObligationHasLoop` with the range of each path's position.
- *Inbox monitor.* `PidfileInv`: who serves and was not reaped is the pidfile's, and the
  pidfile changes only under the mutation lock. `LineInv`: what is before the cursor,
  before a tail, remembered or history was announced, and what is owed was announced, is
  about to be replayed or lies beyond every boundary that may become the cursor's.
- *OpenCode 1.* `DeliveryInv`: the file, and the memory once it was read, hold a marker for
  every submission of unknown outcome (`BindingHolds`); a source has one delivery under way
  (`OnePerSource`); from the look into the session on a delivery knows where such a
  submission was made, and before a POST there is none (`WorkOk`, `NothingThere`); an open
  submission is the only one of its source (`OpenIsAlone`).
- *OpenCode 2.* The launch, `HostInv`: a server that bootstraps has a supervisor that holds
  the mutex for it. The broker, `BrokerInv`: what the host was given for a source is in the
  session its delivery was made for, and a report that waits is newer than the one adopted.

**Seats and launches**
- *Seat store.* `ImplementsAtomicStore` states the refinement: initial states map to
  initial states, the rename maps to `Apply`, the return to `Report`, everything else to
  a stutter. A commit writes back what was read plus one transaction, so the step is
  `Apply` only if nobody committed since the read and the transaction is not in the file
  yet. Hence `IInv`: a process inside the transaction is the one the lock names
  (`OwnsLock`, which makes the unlink by path remove one's own lock), what it read is the
  file (`SnapIsFile`), its transaction is not there before its rename (`OncePerTxn`), and a
  lock's owner has at least started (`OwnersArePast`). That last part carries
  `StaleIsReal`: a pid that is used again has another start time, so an error that names a
  stale lock names a process that is gone.
- *Seats.* `SeatInv` relates what each overlapping command knows to the store. A store
  that was read has nothing left to repair (`LoadedAgain`), so what is written on top of it
  is what the next read finds, unless the write takes a seat out of a group that no order
  told apart: a re-mint could, and never does, because the command looked at a worktree with
  one active seat and no step adds another (`Settled`, `OnlyLeave`). `NoSecondSeat` is
  `OnlyLeave` for every step. Every live drone's credential is in a record or was let go of
  (`LiveIsKnown`), the orders stay within their type because activations are counted
  (`OrdersCounted`), and a command about to launch knows drone and credential of one record
  (`CommandInv`).
- *Sockets.* `SocketInv`: a server that was not spawned yet has no pid file and is on
  nobody's list, and who is on a list of stale ones is gone or was read half written.
- *Policy.* `PolicyInv` follows one launch: at the verification it holds the operator's
  configuration with what Borg completes (`Owned`), the final configuration respects it
  (`Respects`), and from then on the server resolves the layers to exactly what was passed.
  For OpenCode's rules, where the last match wins, it is that a rule Borg adds never
  changes the last match of any name but Borg's own, in a list of any length.

**Server client and installation**
- *Enrolment.* The model does not record which invitation a credential was generated for;
  `EnrollmentInv` says that there is such a record (`own`) with which everything held or
  sent agrees. `Sound` follows a credential through the files at every step, not only the
  redeemed ones, since an answer may have been lost; `Trusted` ties the accounts to the
  pointer at rest and to the marker between; `CommandLocked` says that who completes or
  undoes an enrolment works, with the lock, on the marker there is.
- *Repository cube and roles.* `CubeInv` is `AssociationIsBinding` with what a command
  holds of the session it runs under. `SyncInv`: a request in a call's list replaces what
  the call accepted, or adds a field that is still missing unless another touched it.
- *Update and the Hermes plugin.* `InstallInv`: at every place of a command the releases it
  resolved agree. For `GatewayHasWhatIsActive` it says what a roll-back would leave: the
  files and keys with everything undone are the same before and after each write and each
  reversal (`Undone`, `RollsBack`); while a generation is written its record is pending and
  no gateway that counts has started since; an edit only ever spoils a generation
  (`FitsSpoiled`). `SwitchInv` is about the order of writes and of their reversal: the
  plugin is never enabled while one of its files is missing, so a file that a roll-back
  left there changes nothing a gateway loads.
- *Agent configuration.* `HooksInv`: what a process is about to write keeps the operator's
  part, unless the file it read was lost already; a file that does not parse is never
  written; who removes or adds a registration found one that no launch could use; a
  command's process is at work only while the command waits for it. It rests on lemmas that every change of a file keeps that
  part (`FileKept`), for lists of hooks of any length.

Where an argument needs induction (a largest or smallest element, the last match of a
list) it uses the least-number principle (`NatLessThanWellFounded` and `WFMin`), since the
library's induction theorems take an operator, which the provers here cannot instantiate;
what a filter keeps is written in closed form (`Selections`) and not by recursion.

`LedgerInv`, `OneUnresolvedPerContent`, `DeliveryInv`, `FenceHolds`, `RowsMoveForward`,
`WindowInv`, `OneInjector`, `ObligationHasLoop`, `OneWriter`, `StaleIsReal`, the other
inductive invariants and the type invariants are proved and therefore not repeated in the
runs.

**Only model-checked:** liveness, which the prover does not reach (`TwoOwnersHeal`,
`DeadOwnerReplaced`, `AnnouncedArrives`, `WokenUntilDelivered`, `UnreadIsRead`,
`RecoversToHealthy`, `Returns`), and `LiveLeaseNotRemoved`, which is false beyond two
processes (section 4).

## 6. Not modelled

Section 1's table and `PROJECT.json` list every component. Not modelled at all: the MCP
server's dispatch and the representative's command surface, which keep no state of their
own, and the status reports, which only read. Left out of modelled components: text
(rendering, prompts, help), argument parsing, JSON and TOML syntax, HTTP and TLS,
certificate checks, version ordering and npm's output, the git queries behind a cleanup
verdict, the OpenCode plugin's own code, the socket protocol of the Codex app-server,
and the requests of the server client that change nothing here. SQLite's transactions
and POSIX `mkdir`, `link` and `rename` are taken as atomic. The server is modelled only
as the client sees it.
