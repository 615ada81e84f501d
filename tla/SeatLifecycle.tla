---------------------------- MODULE SeatLifecycle ----------------------------
(***************************************************************************)
(* The life of a seat: `borg assimilate` (assimilate-cmd.ts and its        *)
(* dependencies) reserves a seat in the private store (seats.ts), attaches *)
(* it on the server (server-handshake.ts), spawns a git worktree for it,   *)
(* and activates it there; `borg reset-local-connection` clears it,        *)
(* `borg cleanup --prune` removes the worktree of an evicted drone, and    *)
(* `borg launch` starts an agent in it.  Commands of several processes     *)
(* overlap, and each of them may crash between any two of its steps.       *)
(*                                                                         *)
(* A transaction of the store is one action: SeatStore.tla shows that the  *)
(* lock file makes it one.  A bearer credential stands for its digest, and *)
(* the drone the server creates for a bearer is written with the bearer's  *)
(* own number, so that a record is sound when the two agree.  There is one *)
(* server, one cube and one role; a reference of a seat (seatRef) is then  *)
(* its operation: the repository root it was asked for in, and a key.      *)
(***************************************************************************)
EXTENDS Integers, FiniteSets

CONSTANTS
    Runners,     \* the processes that run commands
    Home,        \* the repository's own checkout
    Worktrees,   \* the paths a sibling worktree may be given
    Nil,         \* no value
    MaxRuns,     \* bound: commands started
    MaxSeatFaults, \* bound: crashes, lost answers, failed writes
    MaxBearers   \* bound: bearers minted, and drones evicted

ASSUME SeatAssumption ==
    /\ Home \notin Worktrees /\ Nil \notin Worktrees \cup {Home} /\ Worktrees # {}
    /\ MaxRuns \in Nat /\ MaxSeatFaults \in Nat /\ MaxBearers \in Nat \ {0}

VARIABLES
    seats,     \* seats.json: a record for each reference it holds
    trees,     \* the worktrees git has registered, and that exist on disk
    live,      \* the server: bearers whose drone is a member of the cube
    evicted,   \* the server: bearers whose drone was removed
    dropped,   \* ghost: bearers a reset or a newer binding of the path let go of
    minted,    \* bearers minted so far
    runs,      \* commands started so far
    seatFaults, \* faults so far
    markers,   \* worktrees `borg launch-all` has lately sent a command to
    proc       \* the command each process is running

seatVars == <<seats, trees, live, evicted, dropped, minted, runs, seatFaults, markers, proc>>

Bearers == 1 .. MaxBearers
Paths   == Worktrees \cup {Home}
Named   == 0    \* the key of `--worktree name`; an unnamed sibling has its own
Refs    == [root : Paths, key : 0 .. MaxRuns]

\* A record of the store.  A pending one may have no worktree yet, and only
\* one an older version wrote has no bindingOrder (0) while it is active.
Seats == [state : {"pending", "active"}, bearer : Bearers,
          drone : Bearers \cup {Nil}, worktree : Paths \cup {Nil},
          bindingOrder : 0 .. MaxRuns + 2]

\* What a command knows.  "expect" is the record it found for its worktree
\* before it asked the server anything.
Idle == [at |-> "idle", cmd |-> Nil, root |-> Nil, ref |-> Nil,
         sibling |-> FALSE, remint |-> FALSE, expect |-> Nil,
         bearer |-> Nil, drone |-> Nil, tree |-> Nil, want |-> Nil, todo |-> {}]

(***************************************************************************)
(* Reading the store.                                                      *)
(***************************************************************************)
ActiveAt(s, w) == {r \in DOMAIN s : s[r].state = "active" /\ s[r].worktree = w}

\* Of several active seats of one worktree the newest binding stands, when
\* those that have an order have different ones; two of the same order, or none
\* with an order, and all of them stay.
Newest(s, w) ==
    LET ordered == {r \in ActiveAt(s, w) : s[r].bindingOrder # 0}
        Apart(r, q) == r = q \/ s[r].bindingOrder # s[q].bindingOrder
    IN  {n \in ordered : /\ \A r, q \in ordered : Apart(r, q)
                         /\ \A r \in ordered : s[r].bindingOrder <= s[n].bindingOrder}

Superseded(s) ==
    {r \in DOMAIN s : /\ s[r].state = "active"
                      /\ \E n \in Newest(s, s[r].worktree) : r # n}

\* repairOrderedDuplicateBindings, of every store that is read.
Loaded(s) == [r \in DOMAIN s \ Superseded(s) |-> s[r]]

\* The bearers the next read of what is written will not find.
LetGo(s) == {s[r].bearer : r \in Superseded(s)}

Store == Loaded(seats)

BoundTo(w) == {r \in DOMAIN Store : Store[r].worktree = w}

\* An attempt whose process is taken to have died before it bound a worktree.
findIncompleteSiblingAttempt(root) ==
    {r \in DOMAIN Store :
        /\ r.root = root /\ r.key # Named
        /\ Store[r].state = "pending" /\ Store[r].worktree = Nil}

Without(s, rs) == [r \in DOMAIN s \ rs |-> s[r]]
With(s, r, rec) == [q \in DOMAIN s \cup {r} |-> IF q = r THEN rec ELSE s[q]]

Status(b) == IF b \in live THEN "live" ELSE IF b \in evicted THEN "evicted" ELSE "rejected"

(***************************************************************************)
(* The start.  An older version may have left several active seats on one  *)
(* worktree: with no order of their binding, with orders that tell the     *)
(* newest, or with orders that do not.                                     *)
(***************************************************************************)
OldSeat(b, w, n) == [state |-> "active", bearer |-> b, drone |-> b,
                     worktree |-> w, bindingOrder |-> n]

OldRefs == [root : Paths, key : {Named}]

\* A store of old seats of path w, each with a bearer of its own.
OldStore(w, bearer, order) ==
    [r \in DOMAIN bearer |-> OldSeat(bearer[r], w, order[r])]

SeatInit ==
    /\ \/ /\ seats = [r \in {} |-> Nil] /\ minted = 0 /\ live = {}
          /\ trees \in {{Home}, {Home} \cup Worktrees}   \* the paths may be taken
       \/ \E w \in Paths, rs \in SUBSET OldRefs :
          /\ minted \in Bearers /\ live = 1 .. minted /\ trees = {Home, w}
          /\ \E bearer \in [rs -> 1 .. minted], order \in [rs -> 0 .. 2] :
                /\ \A b \in 1 .. minted : \E r \in rs : bearer[r] = b
                /\ \A r, q \in rs : bearer[r] = bearer[q] => r = q
                /\ seats = OldStore(w, bearer, order)
    /\ dropped = LetGo(seats)
    /\ evicted = {}
    /\ runs = 0 /\ seatFaults = 0
    /\ markers = {}
    /\ proc = [p \in Runners |-> Idle]

Set(p, c) == proc' = [proc EXCEPT ![p] = c]
Stop(p)   == Set(p, Idle)
SeatFault == seatFaults < MaxSeatFaults /\ seatFaults' = seatFaults + 1

(***************************************************************************)
(* borg assimilate.                                                        *)
(***************************************************************************)

\* resolveAssimilationAuthority reads what the worktree has.  A plain run
\* makes a sibling, unless the worktree only has a seat that is not active;
\* --here asks for the worktree's own seat and stops when it has none.  Two
\* active seats the order does not tell apart stop every command.
Begin(p, cmd, w) ==
    LET here == ActiveAt(Store, w)
        sib  == cmd = "named" \/ (cmd = "plain" /\ ~(here = {} /\ BoundTo(w) # {}))
    IN  /\ proc[p].at = "idle" /\ runs < MaxRuns /\ w \in trees
        /\ \A r, q \in here : r = q
        /\ cmd = "here" => BoundTo(w) # {}
        /\ runs' = runs + 1
        /\ Set(p, [Idle EXCEPT !.at = "choose", !.cmd = cmd, !.root = w,
                               !.sibling = sib,
                               !.ref = [root |-> w,
                                        key |-> IF cmd = "named" THEN Named ELSE runs + 1],
                               !.expect = IF here = {} THEN Nil
                                          ELSE [ref |-> CHOOSE r \in here : TRUE,
                                                rec |-> Store[CHOOSE r \in here : TRUE]]])
        /\ UNCHANGED <<seats, trees, live, evicted, dropped, minted, seatFaults, markers>>

\* Which operation the attach is for.  An unnamed sibling takes over an
\* attempt of the same repository that never bound a worktree.
chooseSibling(p) ==
    LET c == proc[p]
        inflight == findIncompleteSiblingAttempt(c.root)
    IN  /\ c.at = "choose" /\ c.sibling
        /\ \/ /\ c.cmd = "named" \/ inflight = {}
              /\ Set(p, [c EXCEPT !.at = "prepare", !.expect = Nil])
           \/ /\ c.cmd # "named"
              /\ \E r \in inflight :
                    Set(p, [c EXCEPT !.at = "prepare", !.expect = Nil, !.ref = r])
        /\ UNCHANGED <<seats, trees, live, evicted, dropped, minted, runs, seatFaults, markers>>

\* A worktree whose seat is not active resumes that seat's own operation.
\* The seat may have been activated, or cleared, since.
resumePersisted(p) ==
    LET c == proc[p]
    IN  /\ c.at = "choose" /\ ~c.sibling /\ c.expect = Nil
        /\ \/ /\ BoundTo(c.root) = {}
              /\ Stop(p)
           \/ \E r \in BoundTo(c.root) :
                Set(p, [c EXCEPT !.at = "prepare", !.ref = r,
                                 !.expect = IF Store[r].state = "pending" THEN Nil
                                            ELSE [ref |-> r, rec |-> Store[r]]])
        /\ UNCHANGED <<seats, trees, live, evicted, dropped, minted, runs, seatFaults, markers>>

\* --here asks the server about the seat first: a live one is attached again,
\* an evicted one is minted anew, and any other answer stops the command, as
\* a live monitor of the seat does.
probeSeat(p) ==
    LET c == proc[p]
        b == c.expect.rec.bearer
    IN  /\ c.at = "choose" /\ ~c.sibling /\ c.expect # Nil
        /\ \/ /\ Status(b) \in {"live", "evicted"}
              /\ Set(p, [c EXCEPT !.at = "prepare", !.ref = c.expect.ref,
                                  !.remint = Status(b) = "evicted"])
              /\ UNCHANGED seatFaults
           \/ SeatFault /\ Stop(p)          \* inconclusive, or a live monitor
        /\ UNCHANGED <<seats, trees, live, evicted, dropped, minted, runs, markers>>

\* prepareSeat: the expectation is checked again in the transaction that
\* mints.  A re-mint forgets the evicted credential and pins only the drone.
Holds(c) ==
    LET prior == {r \in DOMAIN Store : r = c.ref /\ Store[r].state = "active"}
    IN  IF c.expect = Nil
          THEN prior = {}
          ELSE /\ prior # {}
               /\ Store[c.ref].drone = c.expect.rec.drone
               /\ c.remint \/ Store[c.ref].bearer = c.expect.rec.bearer

\* MUTANT of Reuses: every attempt mints a bearer of its own.
ReusesActive(c) == c.ref \in DOMAIN Store /\ Store[c.ref].state = "active" /\ ~c.remint

\* A record that is there already is sent again as it is.
Reuses(c) == c.ref \in DOMAIN Store /\ ~c.remint

prepareSeat(p) ==
    LET c == proc[p]
    IN  /\ c.at = "prepare"
        /\ \/ ~Holds(c) /\ Stop(p) /\ UNCHANGED <<seats, minted>>
           \/ /\ Holds(c) /\ Reuses(c)
              /\ Set(p, [c EXCEPT !.at = "attach", !.bearer = Store[c.ref].bearer])
              /\ UNCHANGED <<seats, minted>>
           \/ /\ Holds(c) /\ ~Reuses(c) /\ minted < MaxBearers
              /\ minted' = minted + 1
              /\ seats' = With(Store, c.ref,
                              [state |-> "pending", bearer |-> minted + 1, drone |-> Nil,
                               worktree |-> Nil, bindingOrder |-> 0])
              /\ Set(p, [c EXCEPT !.at = "attach", !.bearer = minted + 1])
        /\ UNCHANGED <<trees, live, evicted, dropped, runs, seatFaults, markers>>

\* sendBorgServerAttach.  The server knows a bearer again by its digest.  An
\* answer may be lost on either side of what the server does.
attach(p) ==
    LET c == proc[p]
    IN  /\ c.at = "attach"
        /\ \/ /\ c.bearer \notin evicted
              /\ live' = live \cup {c.bearer}
              /\ Set(p, [c EXCEPT !.at = IF c.sibling THEN "spawn" ELSE "activate",
                                  !.drone = c.bearer,
                                  !.tree = IF c.sibling THEN Nil ELSE c.root])
              /\ UNCHANGED seatFaults
           \/ c.bearer \in evicted /\ Stop(p) /\ UNCHANGED <<live, seatFaults>>
           \/ SeatFault /\ Stop(p) /\ UNCHANGED live
           \/ c.bearer \notin evicted /\ SeatFault /\ live' = live \cup {c.bearer} /\ Stop(p)
        /\ UNCHANGED <<seats, trees, evicted, dropped, minted, runs, markers>>

\* prepareAssimilationWorktree: git gives each invocation a path of its own,
\* however often two of them try the same one.
prepareAssimilationWorktree(p) ==
    LET c == proc[p]
    IN  /\ c.at = "spawn"
        /\ \/ \E w \in Worktrees \ trees :
                /\ trees' = trees \cup {w}
                /\ Set(p, [c EXCEPT !.at = "activate", !.tree = w])
                /\ UNCHANGED seatFaults
           \/ SeatFault /\ Stop(p) /\ UNCHANGED trees
           \/ Worktrees \subseteq trees /\ Stop(p) /\ UNCHANGED <<trees, seatFaults>>
        /\ UNCHANGED <<seats, live, evicted, dropped, minted, runs, markers>>

Rollback(c) == IF c.sibling THEN trees \ {c.tree} ELSE trees

\* The preference or the launch access cannot be written.
launchAccessFails(p) ==
    /\ proc[p].at = "activate" /\ SeatFault
    /\ trees' = Rollback(proc[p]) /\ Stop(p)
    /\ UNCHANGED <<seats, live, evicted, dropped, minted, runs, markers>>

SameBearer(c) == c.ref \in DOMAIN Store /\ Store[c.ref].bearer = c.bearer

\* Other seats of the worktree, which the new binding retires.
Retired(c) == ActiveAt(Store, c.tree) \ {c.ref}

HighestOrder(s) ==
    CHOOSE n \in {0} \cup {s[r].bindingOrder : r \in DOMAIN s} :
        \A r \in DOMAIN s : s[r].bindingOrder <= n

\* MUTANT of Activated: bindings are not numbered, and retire no other.
BoundOnly(c) ==
    With(Store, c.ref, [Store[c.ref] EXCEPT !.state = "active", !.drone = c.drone,
                                            !.worktree = c.tree])

Activated(c) ==
    LET rec == Store[c.ref]
        kept == rec.state = "active" /\ rec.worktree = c.tree /\ rec.bindingOrder # 0
    IN  With(Without(Store, Retired(c)), c.ref,
             [rec EXCEPT !.state = "active", !.drone = c.drone, !.worktree = c.tree,
                         !.bindingOrder = IF kept THEN rec.bindingOrder
                                          ELSE HighestOrder(Store) + 1])

\* activateAndBindSeat and what finalizeAssimilationSeat does with it.  A
\* write that fails may fail before the new file is in place or after it.
activateAndBindSeat(p) ==
    LET c == proc[p]
        commit == /\ seats' = Activated(c)
                  /\ dropped' = dropped \cup {Store[r].bearer : r \in Retired(c)}
                                       \cup LetGo(Activated(c))
    IN  /\ c.at = "activate"
        /\ \/ SameBearer(c) /\ commit /\ Stop(p) /\ UNCHANGED seatFaults
           \/ /\ ~SameBearer(c)
              /\ Set(p, [c EXCEPT !.at = "bind"]) /\ UNCHANGED <<seats, dropped, seatFaults>>
           \/ /\ SameBearer(c) /\ SeatFault
              /\ commit \/ UNCHANGED <<seats, dropped>>
              /\ Set(p, [c EXCEPT !.at = "bind"])
        /\ UNCHANGED <<trees, live, evicted, minted, runs, markers>>

\* bindPendingSeatToWorktree keeps the reservation where the worktree is, so
\* that a later run in it finds it; otherwise the worktree goes.
bindPendingSeatToWorktree(p) ==
    LET c == proc[p]
        mine == SameBearer(c) /\ Store[c.ref].state = "pending"
    IN  /\ c.at = "bind"
        /\ \/ /\ mine
              /\ seats' = With(Store, c.ref, [Store[c.ref] EXCEPT !.worktree = c.tree,
                                                                  !.drone = c.drone])
              /\ UNCHANGED <<trees, seatFaults>>
           \/ ~mine /\ trees' = Rollback(c) /\ UNCHANGED <<seats, seatFaults>>
           \/ mine /\ SeatFault /\ trees' = Rollback(c) /\ UNCHANGED seats
        /\ Stop(p)
        /\ UNCHANGED <<live, evicted, dropped, minted, runs, markers>>

(***************************************************************************)
(* borg reset-local-connection: what it shows the operator is what it may  *)
(* clear after the answer.                                                 *)
(***************************************************************************)
snapshotLocalSeat(p, w) ==
    /\ proc[p].at = "idle" /\ runs < MaxRuns /\ w \in trees
    /\ runs' = runs + 1
    /\ \E r \in BoundTo(w) :
         Set(p, [Idle EXCEPT !.at = "reset", !.root = w, !.ref = r,
                             !.expect = [ref |-> r, rec |-> Store[r]]])
    /\ UNCHANGED <<seats, trees, live, evicted, dropped, minted, seatFaults, markers>>

SameSeat(c) ==
    /\ c.ref \in DOMAIN Store
    /\ Store[c.ref].worktree = c.root
    /\ Store[c.ref].drone = c.expect.rec.drone
    /\ Store[c.ref].bearer = c.expect.rec.bearer

resetSeatForWorktree(p) ==
    LET c == proc[p]
    IN  /\ c.at = "reset"
        /\ IF SameSeat(c)
             THEN /\ seats' = Without(Store, {c.ref})
                  /\ dropped' = dropped \cup {c.expect.rec.bearer}
                                       \cup LetGo(Without(Store, {c.ref}))
             ELSE UNCHANGED <<seats, dropped>>
        /\ Stop(p)
        /\ UNCHANGED <<trees, live, evicted, minted, runs, seatFaults, markers>>

(***************************************************************************)
(* borg cleanup --prune: a worktree that is clean and merged, whose active *)
(* seat the server says was evicted, is removed; the record stays.  It is  *)
(* asked for from the checkout, which is never a candidate.                *)
(***************************************************************************)
buildCleanupReport(p) ==
    LET gone == {w \in trees \ {Home} :
                    \E r \in ActiveAt(Store, w) : Status(Store[r].bearer) = "evicted"}
    IN  /\ proc[p].at = "idle" /\ runs < MaxRuns /\ gone # {}
        /\ runs' = runs + 1
        /\ Set(p, [Idle EXCEPT !.at = "prune", !.todo = gone])
        /\ UNCHANGED <<seats, trees, live, evicted, dropped, minted, seatFaults, markers>>

pruneWorktree(p) ==
    /\ proc[p].at = "prune"
    /\ \/ \E w \in proc[p].todo :
            /\ trees' = trees \ {w}
            /\ Set(p, [proc[p] EXCEPT !.todo = @ \ {w}])
       \/ proc[p].todo = {} /\ Stop(p) /\ UNCHANGED trees
    /\ UNCHANGED <<seats, live, evicted, dropped, minted, runs, seatFaults, markers>>

(***************************************************************************)
(* borg launch: the seat the operator picked goes to the agent's process   *)
(* as an expectation, which reads the seat, then its credential, and then  *)
(* the seat once more.                                                     *)
(***************************************************************************)
runLaunchSeat(p, w) ==
    /\ proc[p].at = "idle" /\ runs < MaxRuns /\ w \in trees
    /\ runs' = runs + 1
    /\ \E r \in ActiveAt(Store, w) :
         /\ ActiveAt(Store, w) = {r}
         /\ Set(p, [Idle EXCEPT !.at = "child", !.root = w, !.ref = r,
                                !.expect = [ref |-> r, rec |-> Store[r]]])
    /\ UNCHANGED <<seats, trees, live, evicted, dropped, minted, seatFaults, markers>>

Expected(c) ==
    /\ ActiveAt(Store, c.root) = {c.ref}
    /\ Store[c.ref].drone = c.expect.rec.drone

\* MUTANT of StillExpected: the second look is left out.
LookedOnce(c) == TRUE

StillExpected(c) == Expected(c)

readActiveSeat(p) ==
    /\ proc[p].at = "child"
    /\ IF Expected(proc[p]) THEN Set(p, [proc[p] EXCEPT !.at = "hydrate"]) ELSE Stop(p)
    /\ UNCHANGED <<seats, trees, live, evicted, dropped, minted, runs, seatFaults, markers>>

hydrateActiveCube(p) ==
    LET c == proc[p]
    IN  /\ c.at = "hydrate"
        /\ IF c.ref \in DOMAIN Store /\ Store[c.ref].state = "active"
             THEN Set(p, [c EXCEPT !.at = "recheck", !.bearer = Store[c.ref].bearer])
             ELSE Stop(p)
        /\ UNCHANGED <<seats, trees, live, evicted, dropped, minted, runs, seatFaults, markers>>

assertLaunchSeatExpectation(p) ==
    LET c == proc[p]
    IN  /\ c.at = "recheck"
        /\ IF StillExpected(c) THEN Set(p, [c EXCEPT !.at = "session"]) ELSE Stop(p)
        /\ UNCHANGED <<seats, trees, live, evicted, dropped, minted, runs, seatFaults, markers>>

(***************************************************************************)
(* borg launch-all: the seats of the linked worktrees, but those a command *)
(* was lately sent to (unless --force) and those the server has given up,  *)
(* each get a window and a `borg launch <drone id>` in it.  What is read   *)
(* at the beginning is old by the time the last window opens.              *)
(***************************************************************************)
discoverDroneCandidates ==
    {[tree |-> Store[r].worktree, drone |-> Store[r].drone] :
        r \in {q \in DOMAIN Store : /\ Store[q].state = "active"
                                   /\ Store[q].worktree \in trees \ {Home}}}

\* sweepStaleLocks drops the markers that are old.
runLaunchAll(p, force) ==
    LET found == discoverDroneCandidates
    IN  /\ proc[p].at = "idle" /\ runs < MaxRuns /\ found # {}
        /\ runs' = runs + 1
        /\ \E recent \in SUBSET markers :
             /\ markers' = recent
             /\ LET todo == {x \in found : force \/ x.tree \notin recent}
                IN  IF todo = {} THEN UNCHANGED proc
                    ELSE Set(p, [Idle EXCEPT !.at = "launch-all", !.todo = todo])
        /\ UNCHANGED <<seats, trees, live, evicted, dropped, minted, seatFaults>>

\* Only an answer that settles the matter skips a seat: one that could not be
\* had launches it anyway.
probeAll(p) ==
    LET c == proc[p]
        good == {x \in c.todo : Status(x.drone) = "live"}
    IN  /\ c.at = "launch-all"
        /\ \/ /\ Set(p, IF good = {} THEN Idle
                         ELSE [c EXCEPT !.at = "dispatch", !.todo = good])
              /\ UNCHANGED seatFaults
           \/ SeatFault /\ Set(p, [c EXCEPT !.at = "dispatch"])
        /\ UNCHANGED <<seats, trees, live, evicted, dropped, minted, runs, markers>>

\* A window for process q: the command is typed, then the marker is written.
runTmuxBackend(p, q) ==
    LET c == proc[p]
    IN  /\ c.at = "dispatch" /\ q # p /\ proc[q].at = "idle"
        /\ \E x \in c.todo :
             LET left == IF c.todo = {x} THEN Idle ELSE [c EXCEPT !.todo = @ \ {x}]
                 child == [Idle EXCEPT !.at = "launch", !.want = x.drone]
             IN  \/ /\ markers' = markers \cup {x.tree}
                    /\ proc' = [proc EXCEPT ![p] = left, ![q] = child]
                    /\ UNCHANGED seatFaults
                 \/ /\ SeatFault /\ UNCHANGED markers
                    /\ proc' = [proc EXCEPT ![p] = Idle, ![q] = child]
        /\ UNCHANGED <<seats, trees, live, evicted, dropped, minted, runs>>

\* The command looks the drone up again, and stops unless exactly one seat
\* that is active where it is bound has its id.
launchPicked(q) ==
    LET c == proc[q]
        rows == {r \in DOMAIN Store : Store[r].worktree # Nil /\ Store[r].drone = c.want}
        fit(r) == /\ rows = {r} /\ Store[r].worktree \in trees
                  /\ ActiveAt(Store, Store[r].worktree) = {r}
    IN  /\ c.at = "launch"
        /\ \/ \E r \in rows :
                /\ fit(r)
                /\ Set(q, [c EXCEPT !.at = "child", !.root = Store[r].worktree, !.ref = r,
                                    !.expect = [ref |-> r, rec |-> Store[r]]])
           \/ (\A r \in rows : ~fit(r)) /\ Stop(q)
        /\ UNCHANGED <<seats, trees, live, evicted, dropped, minted, runs, seatFaults, markers>>

sessionEnds(p) ==
    /\ proc[p].at = "session" /\ Stop(p)
    /\ UNCHANGED <<seats, trees, live, evicted, dropped, minted, runs, seatFaults, markers>>

(***************************************************************************)
(* What happens to the processes and on the server.                        *)
(***************************************************************************)
Crash(p) ==
    /\ proc[p].at # "idle" /\ SeatFault /\ Stop(p)
    /\ UNCHANGED <<seats, trees, live, evicted, dropped, minted, runs, markers>>

Evict ==
    /\ \E b \in live : live' = live \ {b} /\ evicted' = evicted \cup {b}
    /\ SeatFault
    /\ UNCHANGED <<seats, trees, dropped, minted, runs, proc, markers>>

SeatNext ==
    \/ \E p \in Runners :
         \/ \E w \in Paths :
              \/ \E cmd \in {"plain", "named", "here"} : Begin(p, cmd, w)
              \/ snapshotLocalSeat(p, w)
              \/ runLaunchSeat(p, w)
         \/ chooseSibling(p) \/ resumePersisted(p) \/ probeSeat(p)
         \/ prepareSeat(p) \/ attach(p) \/ prepareAssimilationWorktree(p)
         \/ launchAccessFails(p) \/ activateAndBindSeat(p) \/ bindPendingSeatToWorktree(p)
         \/ resetSeatForWorktree(p)
         \/ buildCleanupReport(p) \/ pruneWorktree(p)
         \/ readActiveSeat(p) \/ hydrateActiveCube(p) \/ assertLaunchSeatExpectation(p)
         \/ \E force \in BOOLEAN : runLaunchAll(p, force)
         \/ probeAll(p) \/ (\E q \in Runners : runTmuxBackend(p, q)) \/ launchPicked(p)
         \/ sessionEnds(p) \/ Crash(p)
    \/ Evict

SeatSpec == SeatInit /\ [][SeatNext]_seatVars

(***************************************************************************)
(* Properties.                                                             *)
(***************************************************************************)
SeatTypeOK ==
    /\ DOMAIN seats \subseteq Refs /\ \A r \in DOMAIN seats : seats[r] \in Seats
    /\ trees \subseteq Paths /\ Home \in trees
    /\ live \subseteq Bearers /\ evicted \subseteq Bearers /\ dropped \subseteq Bearers
    /\ markers \subseteq Worktrees
    /\ minted \in 0 .. MaxBearers /\ runs \in 0 .. MaxRuns /\ seatFaults \in 0 .. MaxSeatFaults

\* What a step may do to the active seats of a worktree.  Of a single one that is
\* written, at most one is read.
NoneJoins ==
    LET was == Store now == Store'
    IN  \A w \in Paths : \/ Cardinality(ActiveAt(seats', w)) <= 1
                         \/ Cardinality(ActiveAt(now, w)) <= 1
                         \/ ActiveAt(now, w) \subseteq ActiveAt(was, w)

\* No command makes a worktree ambiguous, however often a path is given again
\* after its worktree was removed and whoever else activates a seat in it: a
\* step leaves the worktree at most one active seat, or none it did not have.
\* Only an older version's duplicates, which no order tells apart, are several,
\* and they stay until a reset takes them one by one or a new binding retires
\* them (activateAndBindSeat, repairOrderedDuplicateBindings).
NoSecondSeat == [][NoneJoins]_seats

\* No ghost: a drone that is a member of the cube has its bearer in the local
\* store, unless the operator reset that seat or a newer binding of its path
\* retired it, then or when the store is next read.  An attempt that was cut off anywhere after the request left
\* is found again and sends the same bearer.
NoGhostDrone ==
    LET s == Store
    IN  \A b \in live : b \in dropped \/ \E r \in DOMAIN s : s[r].bearer = b

\* The agent `borg launch` starts speaks for the seat the operator picked, or
\* does not start: no re-mint between its reads lends it another credential,
\* and neither does one since `borg launch-all` chose what to launch.
LaunchesWhatWasPicked ==
    \A p \in Runners : proc[p].at = "session" =>
        /\ proc[p].bearer = proc[p].expect.rec.drone
        /\ proc[p].want \in {Nil, proc[p].bearer}

==============================================================================
