---------------------------- MODULE InboxMonitor ----------------------------
(***************************************************************************)
(* borg-inbox-monitor (inbox-monitor.ts), the process that tails a seat's  *)
(* inbox file and wakes the agent with one line per entry.  Monitors of    *)
(* one state root compete for a pidfile; a mutation lock file covers every *)
(* change of it.  The replay cursor says which line was handled last, so   *)
(* that the next monitor announces what came while none was armed.         *)
(*                                                                         *)
(* A line is its number in the order of appending; its timestamp is the    *)
(* time its entry was made, and entries are appended in that order.  A     *)
(* monitor runs once: its name stands for its pid and its nonce.           *)
(***************************************************************************)
EXTENDS Naturals, FiniteSets, Sequences

CONSTANTS
    Monitors, None,
    Old,                 \* a monitor that died before, leaving its pidfile
    MaxLines, MaxTime,   \* bounds of the log and of the clock
    Skew,                \* INBOX_ARM_TIMESTAMP_SKEW_MS
    ReplayCap,           \* ARM_REPLAY_CAP
    DedupCap,            \* RECENT_EMITTED_LINE_CAP
    Keep,                \* lines the stream's trim keeps
    MaxAttempts,         \* attempts of acquireInboxLock
    MaxMonitorFaults

ASSUME InboxAssumption ==
    /\ {MaxLines, MaxTime, Skew, MaxMonitorFaults} \subseteq Nat
    /\ {ReplayCap, DedupCap, Keep, MaxAttempts} \subseteq Nat \ {0}
    /\ {None, Old} \cap Monitors = {}

VARIABLES
    ts, lo,            \* timestamps of all lines; the first line the file still has
    now,
    mutation, pidfile, \* which monitor's content the lock files have, or None
    hb,                \* the heartbeat file: whose, and whether its mtime is stale
    cursor,            \* the replay cursor: line (0 for none) and boundary
    legacy,            \* the artifacts of an older binary
    mon,               \* the monitors
    said,              \* per monitor, the lines it emitted, in order
    excused,           \* lines nobody has to announce, see the properties
    owed,              \* lines that some monitor, its pidfile not taken, armed to replay
    reaped,            \* monitors whose pidfile was taken as that of a wedged holder
    monitorFaults

file == <<ts, lo, now, legacy>>
locks == <<mutation, pidfile>>
ghosts == <<said, excused, owed, reaped>>
monitorVars == <<ts, lo, now, mutation, pidfile, hb, cursor, legacy, mon, said, excused, owed,
                 reaped, monitorFaults>>

Times == 0 .. MaxTime
Lines == 1 .. MaxLines
InFile == lo .. Len(ts)
inboxSizeOf == Len(ts) + 1 - lo
Minus(a, b) == IF a < b THEN 0 ELSE a - b
Newest(S, n) == {l \in S : Cardinality({k \in S : k > l}) < n}

Cursors == [line : 0 .. MaxLines, since : Times]
Fresh == [pc |-> "new", wedged |-> FALSE, att |-> 1, arm |-> 0, at |-> 1, off |-> 0,
          grew |-> FALSE, stalled |-> FALSE, pend |-> {}, hist |-> {}, since |-> 0,
          seen |-> <<>>, line |-> 0]

MonitorInit ==
    /\ ts = <<>> /\ lo = 1 /\ now = 0 /\ mutation = None /\ pidfile \in {None, Old} /\ hb = None
    /\ cursor \in {None, [line |-> 0, since |-> 0]} /\ legacy = "absent" /\ mon = [m \in Monitors |-> Fresh]
    /\ said = [m \in Monitors |-> <<>>] /\ excused = {} /\ owed = {}
    /\ reaped = {} /\ monitorFaults = 0

Running(m) == m # Old /\ mon[m].pc \notin {"new", "gone"}
Runs(m, s) == mon[m].pc = s /\ ~ mon[m].wedged
Set(m, r) == mon' = [mon EXCEPT ![m] = r]
To(m, s) == Set(m, IF s = "gone" THEN [Fresh EXCEPT !.pc = s] ELSE [mon[m] EXCEPT !.pc = s])
MayFail == IF monitorFaults < MaxMonitorFaults THEN BOOLEAN ELSE {FALSE}
Costs(f) == monitorFaults' = monitorFaults + (IF f THEN 1 ELSE 0)

-----------------------------------------------------------------------------
(* Becoming the monitor: claimModernMonitorSafely and acquireInboxLock.    *)

\* The state directory is prepared, or found unsafe.
ensureMonitorStateDir(m) ==
    /\ Runs(m, "new")
    /\ \E f \in MayFail : To(m, IF f THEN "gone" ELSE "mutate") /\ Costs(f)
    /\ UNCHANGED <<file, locks, hb, cursor, ghosts>>

MutationIgnored == TRUE

\* link(2) onto the mutation path: it fails when the path exists.
claimMutation == mutation = None

\* Every way out of the claim releases the mutation lock, if it is still ours.
releaseMutation(m) == mutation' = IF mutation = m THEN None ELSE mutation

\* The mutation lock, then the first look for an old binary.
legacyMonitorArtifactState(m) ==
    /\ Runs(m, "mutate")
    /\ IF claimMutation /\ legacy = "absent" THEN mutation' = m /\ To(m, "claim")
                                            ELSE To(m, "gone") /\ UNCHANGED mutation
    /\ UNCHANGED <<file, pidfile, hb, cursor, ghosts, monitorFaults>>

claim(m) ==
    /\ Runs(m, "claim")
    /\ IF mon[m].att > MaxAttempts
       THEN To(m, "gone") /\ releaseMutation(m) /\ UNCHANGED pidfile
       ELSE IF pidfile = None THEN pidfile' = m /\ To(m, "recheck") /\ UNCHANGED mutation
       ELSE To(m, "read") /\ UNCHANGED locks
    /\ UNCHANGED <<file, hb, cursor, ghosts, monitorFaults>>

\* A live holder whose own heartbeat is stale.
isHolderWedged(h) == hb # None /\ hb.nonce = h /\ hb.stale

\* A live holder that is not wedged keeps the inbox; any other pidfile is removed.
readHolder(m) ==
    LET h == pidfile
    IN  /\ Runs(m, "read")
        /\ IF h = None THEN Set(m, [mon[m] EXCEPT !.pc = "claim", !.att = @ + 1])
                            /\ UNCHANGED <<mutation, reaped>>
           ELSE IF Running(h) /\ ~ isHolderWedged(h)
           THEN To(m, "gone") /\ releaseMutation(m) /\ UNCHANGED reaped
           ELSE /\ Set(m, [mon[m] EXCEPT !.pc = "compare", !.line = h])
                /\ reaped' = IF Running(h) THEN reaped \cup {h} ELSE reaped
                /\ UNCHANGED mutation
    /\ UNCHANGED <<file, pidfile, hb, cursor, said, excused, owed, monitorFaults>>

\* removeIfContent is a read and an unlink.
compare(m) ==
    /\ Runs(m, "compare")
    /\ IF pidfile = mon[m].line THEN To(m, "unlink")
                                ELSE Set(m, [mon[m] EXCEPT !.pc = "claim", !.att = @ + 1])
    /\ UNCHANGED <<file, locks, hb, cursor, ghosts, monitorFaults>>

unlink(m) ==
    /\ Runs(m, "unlink")
    /\ pidfile' = None
    /\ Set(m, [mon[m] EXCEPT !.pc = "claim", !.att = @ + 1])
    /\ UNCHANGED <<file, mutation, hb, cursor, ghosts, monitorFaults>>

\* The old binary is looked for once more, with the pidfile in hand.
claimModernMonitorSafely(m) ==
    /\ Runs(m, "recheck")
    /\ releaseMutation(m)
    /\ IF legacy = "absent" THEN To(m, "beat") /\ UNCHANGED pidfile
       ELSE To(m, "gone") /\ pidfile' = IF pidfile = m THEN None ELSE pidfile
    /\ UNCHANGED <<file, hb, cursor, ghosts, monitorFaults>>

-----------------------------------------------------------------------------
(* Arming.                                                                 *)

writeHeartbeat(m) == hb' = [nonce |-> m, stale |-> FALSE]

\* The first heartbeat; then the arm time and the size of the file.
Beat(m) ==
    /\ Runs(m, "beat")
    /\ \E f \in MayFail :
          /\ Costs(f)
          /\ IF f THEN To(m, "rmpid") /\ UNCHANGED hb
             ELSE /\ writeHeartbeat(m)
                  /\ Set(m, [mon[m] EXCEPT !.pc = "arm", !.att = 1, !.line = 0, !.arm = now, !.off = inboxSizeOf])
    /\ UNCHANGED <<file, locks, cursor, ghosts>>

\* Entry lines after the stored cursor; after its time when its line was trimmed.
AfterCursor(c) ==
    IF c.line = 0 \/ c.line \in InFile THEN {l \in InFile : l > c.line}
    ELSE {l \in InFile : ts[l] >= ts[c.line]}

Candidates(c) == {l \in AfterCursor(c) : ts[l] >= c.since}

\* The plan of the arm: which lines are history, which are replayed, which only
\* counted in a notice.  Without a cursor every line is history.
planArmReplay(m) ==
    LET armSince == Minus(mon[m].arm, Skew)
        replay == IF cursor = None THEN {} ELSE Newest(Candidates(cursor), ReplayCap)
        skipped == IF cursor = None THEN InFile ELSE Candidates(cursor) \ replay
    IN  /\ Runs(m, "arm")
        /\ Set(m, [mon[m] EXCEPT !.pc = "tail", !.at = lo, !.pend = replay,
                      !.hist = InFile \ replay,
                      !.since = IF cursor = None THEN armSince ELSE cursor.since])
        /\ cursor' = IF cursor = None THEN [line |-> Len(ts), since |-> armSince] ELSE cursor
        /\ excused' = excused \cup skipped
                      \cup {l \in InFile \ owed : cursor # None /\ ts[l] < cursor.since}
        /\ owed' = IF m \in reaped THEN owed ELSE owed \cup replay
        /\ UNCHANGED <<file, locks, hb, said, reaped, monitorFaults>>

-----------------------------------------------------------------------------
(* Tailing.                                                                *)

remember(q, l) == LET all == Append(q, l) IN IF Len(all) > DedupCap THEN Tail(all) ELSE all
Remembers(q, l) == \E i \in 1 .. Len(q) : q[i] = l

isInboxLineAtOrAfterArm(m, l) == ts[l] >= Minus(mon[m].arm, Skew)

\* The tail prints its next line: the stall detector is anchored to the size of
\* the file; a replayed or new line is emitted, and the cursor is due.
handleStateRootLine(m) ==
    LET r == mon[m]
        l == r.at
        known == l \notin r.pend /\ (l \in r.hist \/ Remembers(r.seen, l))
        emits == ~ known /\ ~ Remembers(r.seen, l)
                 /\ (l \in r.pend \/ isInboxLineAtOrAfterArm(m, l))
    IN  /\ Runs(m, "tail") /\ ~ r.stalled /\ l <= Len(ts)
        /\ Set(m, [r EXCEPT !.at = l + 1, !.off = inboxSizeOf, !.grew = FALSE,
                      !.pc = IF known THEN "tail" ELSE "persist",
                      !.line = IF known THEN 0 ELSE l,
                      !.seen = IF known \/ Remembers(@, l) THEN @ ELSE remember(@, l)])
        /\ said' = IF emits THEN [said EXCEPT ![m] = Append(@, l)] ELSE said
        /\ excused' = IF known \/ emits THEN excused ELSE excused \cup {l}
        /\ UNCHANGED <<file, locks, hb, cursor, owed, reaped, monitorFaults>>

ArmBoundary(r) == Minus(r.arm, Skew)

\* While a replay is left, the boundary it was selected with.
handledSince(r) == IF r.pend \ {r.line} # {} THEN r.since ELSE Minus(r.arm, Skew)

\* A failed write removes the cursor, and the next arm skips history; or that fails too,
\* and the next arm replays from where the cursor was.  A monitor whose pidfile was
\* taken does not notice: its own boundary replaces the one the monitor after it armed
\* with, and the lines before it are not replayed any more.
persistCursor(m) ==
    LET r == mon[m]
    IN  /\ Runs(m, "persist")
        /\ Set(m, [r EXCEPT !.pc = "tail", !.line = 0, !.pend = @ \ {r.line}])
        /\ \E f \in MayFail :
              /\ IF f THEN cursor' \in {None, cursor}
                 ELSE cursor' = [line |-> r.line, since |-> handledSince(r)]
              /\ excused' = IF m \in reaped /\ ~f
                            THEN excused \cup {l \in InFile : ts[l] < handledSince(r)}
                            ELSE excused
              /\ Costs(f)
        /\ UNCHANGED <<file, locks, hb, said, owed, reaped>>

\* A tick: the heartbeat; then growth that was not delivered at the last tick
\* either means a stalled tail, which is replaced by one from the offset on.
\* (The 150 s the growth has to last are long for a tail that follows.)
evaluateInboxTailStall(m) ==
    LET r == mon[m]
        respawn == inboxSizeOf > r.off /\ r.grew /\ r.stalled
    IN  /\ Runs(m, "tail")
        /\ writeHeartbeat(m)
        /\ Set(m, [r EXCEPT !.off = IF inboxSizeOf < @ THEN inboxSizeOf ELSE @,
                      !.grew = inboxSizeOf > r.off /\ ~ respawn,
                      !.stalled = @ /\ ~ respawn,
                      !.at = IF respawn THEN lo + r.off ELSE @])
        /\ excused' = IF respawn THEN excused \cup (r.at .. lo + r.off - 1) ELSE excused
        /\ UNCHANGED <<file, locks, cursor, said, owed, reaped, monitorFaults>>

-----------------------------------------------------------------------------
(* Stopping: removeHeartbeat, then releasePidfile, each under the mutation *)
(* lock and given up when that is taken.                                   *)

shutdown(m) ==
    /\ Runs(m, "tail") /\ Set(m, [Fresh EXCEPT !.pc = "rmhb"])
    /\ UNCHANGED <<file, locks, hb, cursor, ghosts, monitorFaults>>

removeHeartbeat(m) ==
    /\ Runs(m, "rmhb")
    /\ hb' = IF claimMutation /\ hb # None /\ hb.nonce = m THEN None ELSE hb
    /\ To(m, "rmpid")
    /\ UNCHANGED <<file, locks, cursor, ghosts, monitorFaults>>

releasePidfile(m) ==
    /\ Runs(m, "rmpid")
    /\ pidfile' = IF claimMutation /\ pidfile = m THEN None ELSE pidfile
    /\ To(m, "gone")
    /\ UNCHANGED <<file, mutation, hb, cursor, ghosts, monitorFaults>>

-----------------------------------------------------------------------------
(* The stream, time, older binaries and faults.                            *)

\* The stream appends an entry, made at some time up to now.
appendInboxLine(t) ==
    /\ Len(ts) < MaxLines /\ t <= now
    /\ ts # <<>> => t >= ts[Len(ts)]
    /\ ts' = Append(ts, t)
    /\ UNCHANGED <<lo, now, locks, hb, cursor, legacy, mon, ghosts, monitorFaults>>

\* The trim renames a shortened copy over the file: every tail starts at its
\* beginning.  Lines that no monitor emitted before are lost to all of them.
trimInbox ==
    LET first == Len(ts) + 1 - Keep
    IN  /\ inboxSizeOf > Keep
        /\ lo' = first
        /\ excused' = excused \cup (lo .. first - 1)
        /\ mon' = [m \in Monitors |-> [mon[m] EXCEPT !.at = IF mon[m].pc \in {"tail", "persist"} THEN first ELSE @]]
        /\ UNCHANGED <<ts, now, locks, hb, cursor, legacy, said, owed, reaped, monitorFaults>>

TimePasses ==
    /\ now < MaxTime /\ now' = now + 1
    /\ UNCHANGED <<ts, lo, locks, hb, cursor, legacy, mon, ghosts, monitorFaults>>

\* A heartbeat is stale after five ticks that its monitor did not make.
HeartbeatAges ==
    /\ hb # None /\ ~ hb.stale
    /\ ~ Running(hb.nonce) \/ mon[hb.nonce].wedged
    /\ hb' = [hb EXCEPT !.stale = TRUE]
    /\ UNCHANGED <<file, locks, cursor, mon, ghosts, monitorFaults>>

OldBinary ==
    /\ monitorFaults < MaxMonitorFaults /\ monitorFaults' = monitorFaults + 1
    /\ \/ legacy = "absent" /\ legacy' = "live"
       \/ legacy = "live" /\ legacy' \in {"absent", "blocked"}
    /\ UNCHANGED <<ts, lo, now, locks, hb, cursor, mon, ghosts>>

MonitorFault(m) ==
    /\ Running(m) /\ monitorFaults < MaxMonitorFaults /\ monitorFaults' = monitorFaults + 1
    /\ \/ To(m, "gone")
       \/ ~ mon[m].wedged /\ Set(m, [mon[m] EXCEPT !.wedged = TRUE])
       \/ mon[m].pc = "tail" /\ ~ mon[m].stalled /\ Set(m, [mon[m] EXCEPT !.stalled = TRUE])
    /\ UNCHANGED <<file, locks, hb, cursor, ghosts>>

Resumes(m) ==
    /\ Running(m) /\ mon[m].wedged /\ Set(m, [mon[m] EXCEPT !.wedged = FALSE])
    /\ UNCHANGED <<file, locks, hb, cursor, ghosts, monitorFaults>>

Starts(m) ==
    \/ ensureMonitorStateDir(m) \/ legacyMonitorArtifactState(m) \/ claim(m)
    \/ readHolder(m) \/ compare(m) \/ unlink(m) \/ claimModernMonitorSafely(m)
    \/ Beat(m) \/ planArmReplay(m)

Tails(m) == handleStateRootLine(m) \/ persistCursor(m) \/ evaluateInboxTailStall(m)

Stops(m) == shutdown(m) \/ removeHeartbeat(m) \/ releasePidfile(m)

MonitorNext ==
    \/ \E m \in Monitors : Starts(m) \/ Tails(m) \/ Stops(m) \/ MonitorFault(m) \/ Resumes(m)
    \/ \E t \in Times : appendInboxLine(t)
    \/ trimInbox \/ TimePasses \/ HeartbeatAges \/ OldBinary

MonitorSpec == MonitorInit /\ [][MonitorNext]_monitorVars

-----------------------------------------------------------------------------
(* Properties.                                                             *)

Serving(m) == mon[m].pc \in {"beat", "arm", "tail", "persist"} /\ ~ mon[m].wedged

\* "Never double-tail": two monitors serve one inbox only when one of them was
\* wedged, lost its pidfile for that, and came back.
OneMonitor ==
    \A m, n \in Monitors : m # n /\ Serving(m) /\ Serving(n) => {m, n} \cap reaped # {}

Said(m) == {said[m][i] : i \in 1 .. Len(said[m])}

Announced(l) == l \in excused \/ \E m \in Monitors : l \in Said(m)

\* It has read the file to its end.
CaughtUp(m) == Runs(m, "tail") /\ ~ mon[m].stalled /\ mon[m].at > Len(ts)

\* "A line is emitted before the cursor moves past it ... never drops it": when the
\* cursor is past a line, or a monitor has read the file to its end, some monitor
\* emitted the line, or it is excused: history of a first arm, made before an arm
\* that did not owe it, counted in the notice, trimmed, behind the offset at which
\* a stalled tail was replaced, or behind the boundary that a monitor whose pidfile
\* was taken wrote after it came back.
AtLeastOnce ==
    /\ cursor # None => \A l \in 1 .. cursor.line : Announced(l)
    /\ (\E m \in Monitors : CaughtUp(m)) => \A l \in 1 .. Len(ts) : Announced(l)

=============================================================================
