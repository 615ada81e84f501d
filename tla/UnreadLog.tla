------------------------------ MODULE UnreadLog ------------------------------
(***************************************************************************)
(* `borg_read_log unread_only=true` (readLog in remote-client.ts) and the  *)
(* cursor file it advances (local-server-cursor.ts).  A read takes the     *)
(* cursor, fetches a page after it, advances the cursor to the page's end  *)
(* and, when the backlog is large, goes on for more pages; only then does  *)
(* it fetch the cube and return.  All seats and purposes share one file,   *)
(* replaced as a whole under a lock file.  A lock that looks older than    *)
(* 30 s is unlinked by path, and so is one's own when leaving.             *)
(*                                                                         *)
(* An entry is its number in the log.  There is the seat's unread cursor   *)
(* and its stream's, which LogStream drives.  Requests repeated after a    *)
(* 429 are the same request later.                                         *)
(***************************************************************************)
EXTENDS Naturals

CONSTANTS
    Readers,          \* processes that use the file
    Nobody,           \* no lock file
    PageLimit,        \* entries of a page
    DigestThreshold,  \* DIGEST_THRESHOLD
    FetchCap,         \* DIGEST_FETCH_CAP
    LockTries,        \* attempts of withLock
    Resets,           \* UNREAD_CURSOR_MAX_TRANSPORT_RETRIES
    MaxEntries, MaxReads, MaxMishaps   \* bounds

ASSUME UnreadAssumption ==
    /\ Nobody \notin Readers
    /\ {PageLimit, FetchCap, LockTries} \subseteq Nat \ {0}
    /\ {DigestThreshold, Resets, MaxEntries, MaxReads, MaxMishaps} \subseteq Nat

VARIABLES
    entries,     \* how many entries the server's log has
    cursors,     \* the cursor file; 0 is no cursor
    cursorLock,  \* the lock file: who made it, and whether it looks old
    reader,      \* what each process is doing
    reads, mishaps,
    returned,    \* entries some caller was given
    dropped,     \* entries of a read that failed after it had advanced past them
    overlapped   \* processes in the lock together with another, or robbed of it

unreadVars == <<entries, cursors, cursorLock, reader, reads, mishaps, returned, dropped, overlapped>>

CursorKeys == {"unread", "stream"}
NoLock == [by |-> Nobody, old |-> FALSE]
Resting == [at |-> "idle", key |-> "unread", lo |-> 0, to |-> 0, moved |-> 0, digest |-> FALSE,
            more |-> FALSE, snap |-> [k \in CursorKeys |-> 0], tries |-> 0, resets |-> 0, ok |-> TRUE]
Inside == {"read", "write", "release"}

UnreadTypeOK ==
    /\ entries \in 0..MaxEntries /\ reads \in 0..MaxReads /\ mishaps \in 0..MaxMishaps
    /\ cursors \in [CursorKeys -> 0..MaxEntries]
    /\ cursorLock \in [by : Readers \cup {Nobody}, old : BOOLEAN]
    /\ \A p \in Readers :
          /\ reader[p].at \in Inside \cup {"idle", "page", "lock", "stat", "unlink", "compose"}
          /\ reader[p].key \in CursorKeys
    /\ returned \subseteq 1..MaxEntries /\ dropped \subseteq 1..MaxEntries
    /\ overlapped \subseteq Readers

UnreadInit ==
    /\ entries = 0 /\ cursors = [k \in CursorKeys |-> 0] /\ cursorLock = NoLock
    /\ reader = [p \in Readers |-> Resting]
    /\ reads = 0 /\ mishaps = 0 /\ returned = {} /\ dropped = {} /\ overlapped = {}

Become(p, r) == reader' = [reader EXCEPT ![p] = r]
Step(p, l) == Become(p, [reader[p] EXCEPT !.at = l])

\* The call throws: what it had advanced past is gone with it.
Throw(p) ==
    /\ Become(p, Resting)
    /\ dropped' = IF reader[p].key = "unread"
                  THEN dropped \cup (reader[p].lo + 1 .. reader[p].moved) ELSE dropped

Mishap == mishaps < MaxMishaps /\ mishaps' = mishaps + 1

-----------------------------------------------------------------------------
(* readLog                                                                  *)

getLocalServerCursor(p) ==
    /\ reader[p].at = "idle" /\ reads < MaxReads
    /\ LET c == cursors["unread"]
       IN  Become(p, [Resting EXCEPT !.at = "page", !.lo = c, !.to = c, !.moved = c, !.resets = Resets])
    /\ reads' = reads + 1
    /\ UNCHANGED <<entries, cursors, cursorLock, mishaps, returned, dropped, overlapped>>

Least(a, b) == IF a < b THEN a ELSE b

\* A page, and from the first one whether the backlog calls for a digest.  The page's
\* cursor is its last entry, or the one asked from; an empty log has none.
localReadLogPage(p) ==
    LET r == reader[p]
        limit == IF r.digest THEN Least(PageLimit, FetchCap - (r.to - r.lo)) ELSE PageLimit
        end == Least(r.to + limit, entries)
    IN  /\ r.at = "page"
        /\ Become(p, [r EXCEPT !.to = end, !.more = end < entries,
                               !.digest = @ \/ entries - r.lo > DigestThreshold,
                               !.at = IF end = 0 THEN "compose" ELSE "lock", !.tries = 0])
        /\ UNCHANGED <<entries, cursors, cursorLock, reads, mishaps, returned, dropped, overlapped>>

\* A connection reset is retried with the same cursor; after that, and for any other
\* failure, the read throws.
requestWithRetry(p) ==
    /\ reader[p].at = "page" /\ Mishap
    /\ \/ /\ reader[p].resets > 0
          /\ Become(p, [reader[p] EXCEPT !.resets = @ - 1])
          /\ UNCHANGED dropped
       \/ Throw(p)
    /\ UNCHANGED <<entries, cursors, cursorLock, reads, returned, overlapped>>

\* The drones and roles are fetched last, with no retry; then the entries are returned.
localCubeComposition(p) ==
    /\ reader[p].at = "compose"
    /\ \/ /\ returned' = returned \cup (reader[p].lo + 1 .. reader[p].to)
          /\ Become(p, Resting)
          /\ UNCHANGED <<mishaps, dropped>>
       \/ Mishap /\ Throw(p) /\ UNCHANGED returned
    /\ UNCHANGED <<entries, cursors, cursorLock, reads, overlapped>>

-----------------------------------------------------------------------------
(* withLock and what runs in it                                             *)

Holds(p) == cursorLock.by = p /\ reader[p].at \in Inside

\* open(CURSOR_LOCK, 'wx').  Whoever comes in beside a process that lost its lock
\* overlaps with it.
openLock(p) ==
    LET r == reader[p] IN
    /\ r.at = "lock"
    /\ \/ /\ r.tries = LockTries
          /\ Throw(p)
          /\ UNCHANGED <<cursorLock, overlapped>>
       \/ /\ r.tries < LockTries /\ cursorLock = NoLock
          /\ cursorLock' = [by |-> p, old |-> FALSE]
          /\ Step(p, "read")
          /\ overlapped' = IF \E q \in Readers : reader[q].at \in Inside
                           THEN overlapped \cup {p} ELSE overlapped
          /\ UNCHANGED dropped
       \/ /\ r.tries < LockTries /\ cursorLock # NoLock
          /\ Become(p, [r EXCEPT !.at = "stat", !.tries = @ + 1])
          /\ UNCHANGED <<cursorLock, dropped, overlapped>>
    /\ UNCHANGED <<entries, cursors, reads, mishaps, returned>>

statLock(p) ==
    /\ reader[p].at = "stat"
    /\ Step(p, IF cursorLock.old THEN "unlink" ELSE "lock")
    /\ UNCHANGED <<entries, cursors, cursorLock, reads, mishaps, returned, dropped, overlapped>>

\* Removing the lock file by path robs whoever else holds it by now.
Removed(p) ==
    /\ cursorLock' = NoLock
    /\ overlapped' = {q \in overlapped \cup {q \in Readers : Holds(q)} :
                        q # p /\ reader[q].at \in Inside}

unlinkLock(p) ==
    /\ reader[p].at = "unlink"
    /\ Removed(p) /\ Step(p, "lock")
    /\ UNCHANGED <<entries, cursors, reads, mishaps, returned, dropped>>

NotNewer(prior, to) == prior = to
Superseded(prior, to) == prior >= to

HeadWanted(r) == IF r.key = "unread" THEN entries ELSE r.to
\* The cursor an operation writes: a page's end, or for the stream any position, or none.
Wanted(r) == r.to

\* What advanceLocalServerCursor and clearLocalServerCursor do first: read the whole file.
readState(p) ==
    LET r == reader[p]
        prior == cursors[r.key]
        skip == IF Wanted(r) = 0 THEN prior = 0 ELSE prior # 0 /\ Superseded(prior, Wanted(r))
    IN  /\ r.at = "read"
        /\ Become(p, [r EXCEPT !.snap = cursors, !.at = IF skip THEN "release" ELSE "write"])
        /\ UNCHANGED <<entries, cursors, cursorLock, reads, mishaps, returned, dropped, overlapped>>

\* The temporary file replaces the whole file, or writing it fails.
writeState(p) ==
    LET r == reader[p] IN
    /\ r.at = "write"
    /\ \/ /\ cursors' = [r.snap EXCEPT ![r.key] = Wanted(r)]
          /\ Become(p, [r EXCEPT !.at = "release", !.moved = r.to])
          /\ UNCHANGED mishaps
       \/ /\ Mishap /\ Become(p, [r EXCEPT !.at = "release", !.ok = FALSE])
          /\ UNCHANGED cursors
    /\ UNCHANGED <<entries, cursorLock, reads, returned, dropped, overlapped>>

\* The `finally` of withLock; then a read goes on: another page, or the composition.
releaseLock(p) ==
    LET r == reader[p] IN
    /\ r.at = "release"
    /\ Removed(p)
    /\ \/ ~ r.ok /\ Throw(p)
       \/ /\ r.ok /\ r.key = "stream" /\ Become(p, Resting) /\ UNCHANGED dropped
       \/ /\ r.ok /\ r.key = "unread"
          /\ Become(p, [r EXCEPT !.resets = Resets, !.at =
                          IF r.digest /\ r.more /\ r.to - r.lo < FetchCap THEN "page" ELSE "compose"])
          /\ UNCHANGED dropped
    /\ UNCHANGED <<entries, cursors, reads, mishaps, returned>>

-----------------------------------------------------------------------------
(* The stream's use of the file, the log, the clock and deaths               *)

\* The stream records a position it reached, or clears one the server refused.
streamCursor(p) ==
    /\ reader[p].at = "idle" /\ reads < MaxReads
    /\ \E to \in 0..entries : Become(p, [Resting EXCEPT !.at = "lock", !.key = "stream", !.to = to])
    /\ reads' = reads + 1
    /\ UNCHANGED <<entries, cursors, cursorLock, mishaps, returned, dropped, overlapped>>

appendLog ==
    /\ entries < MaxEntries
    /\ entries' = entries + 1
    /\ UNCHANGED <<cursors, cursorLock, reader, reads, mishaps, returned, dropped, overlapped>>

\* 30 s go by.  A holder that is alive takes that long only when the machine sleeps.
lockAges ==
    /\ cursorLock # NoLock /\ ~ cursorLock.old
    /\ cursorLock' = [cursorLock EXCEPT !.old = TRUE]
    /\ IF Holds(cursorLock.by) THEN Mishap ELSE UNCHANGED mishaps
    /\ UNCHANGED <<entries, cursors, reader, reads, returned, dropped, overlapped>>

die(p) ==
    /\ reader[p].at # "idle" /\ Mishap
    /\ Throw(p)
    /\ overlapped' = overlapped \ {p}
    /\ UNCHANGED <<entries, cursors, cursorLock, reads, returned>>

UnreadNext ==
    \/ \E p \in Readers :
          \/ getLocalServerCursor(p) \/ localReadLogPage(p) \/ requestWithRetry(p)
          \/ localCubeComposition(p) \/ openLock(p) \/ statLock(p) \/ unlinkLock(p)
          \/ readState(p) \/ writeState(p) \/ releaseLock(p) \/ streamCursor(p) \/ die(p)
    \/ appendLog \/ lockAges

UnreadSpec == UnreadInit /\ [][UnreadNext]_unreadVars

-----------------------------------------------------------------------------
\* readLog: whatever overlaps, fails, dies or steals the lock, an entry behind the unread
\* cursor was given to a caller, is in the hands of a read that still runs, or belonged to
\* the one read that moved the cursor over it and then failed.
UnreadNotPassed ==
    \A e \in 1..cursors["unread"] :
        \/ e \in returned \cup dropped
        \/ \E p \in Readers : /\ reader[p].at # "idle" /\ reader[p].key = "unread"
                              /\ reader[p].lo < e /\ e <= reader[p].to

\* withLock and advanceLocalServerCursor: no cursor, one's own or another's in the same
\* file, moves back, but where the stream clears its own, or by a process whose stay in the
\* lock overlapped another's because an old lock was unlinked by path.
NoLostAdvance ==
    [][\A k \in CursorKeys :
          cursors'[k] < cursors[k] =>
             \E p \in Readers :
                /\ reader[p].at = "write" /\ reader'[p].at = "release"
                /\ \/ p \in overlapped
                   \/ k = "stream" /\ reader[p].key = k /\ Wanted(reader[p]) = 0]_unreadVars
==============================================================================
