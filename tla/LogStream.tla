------------------------------ MODULE LogStream ------------------------------
(***************************************************************************)
(* The SSE log stream of a seat: from the server's log to the inbox file   *)
(* that wakes the agent, and the durable stream cursor.                    *)
(*                                                                         *)
(* Source: src/src/log-stream.ts (streamOnce, runLoop) and the stream      *)
(* cursor of src/src/local-server-cursor.ts.                               *)
(*                                                                         *)
(* Every process of the seat runs the loop; the lease (StreamLease) lets   *)
(* one of them stream, and one that lost it streams on until its refresh   *)
(* notices.  An event is handled in awaited steps: route it, append its    *)
(* line, read the file to trim it, rename the trimmed copy over it (and    *)
(* wake the agent), record it and advance the cursor.  Connections drop or *)
(* go silent, steps fail and processes die in between.                     *)
(*                                                                         *)
(* Abstractions.  An entry is its position in the log, in the server's     *)
(* (created_at, id) order; 0 stands for none.  The server is external: it  *)
(* sends what follows the cursor (the cursor's own entry too, or not), a   *)
(* bookmark, then live entries in log order, with re-pings of entries      *)
(* already sent; every log frame carries its cursor; without a cursor it   *)
(* starts at the tail.  The agent's unread state is asked for at every     *)
(* re-ping and answers either way.                                         *)
(***************************************************************************)
EXTENDS Naturals, Sequences, FiniteSets, SequencesExt

CONSTANTS
    Procs,      \* processes of the seat
    Posted,     \* kinds of entry that are posted
    InboxCap,   \* INBOX_TAIL_LINES_CAP
    RecentCap,  \* RECENT_IDS_CAP
    MaxLog,     \* bound: entries of the log
    MaxFaults   \* bound: faults of the environment

\* How an entry concerns this drone: a broadcast, a message directed to it, an
\* acknowledgement of its own entry, its own broadcast, or neither.
Kinds == {"broadcast", "direct", "ack", "own", "other"}

ASSUME StreamAssumption ==
    /\ Posted \subseteq Kinds
    /\ InboxCap \in Nat \ {0} /\ RecentCap \in Nat \ {0}
    /\ MaxLog \in Nat /\ MaxFaults \in Nat

VARIABLES
    log,     \* external: the cube's log
    expired, \* external: entries up to here are pruned, cursors there refused
    seat,    \* external: "valid", or "refused" once the server evicted it
    owner,   \* the process whose lease is valid
    cursor,  \* the durable stream cursor
    file,    \* the lines of the inbox file; 0 is an eviction sentinel
    proc,    \* each process's loop and session
    faults,  \* faults so far
    wrote,   \* history: the entries each process appended
    skipped  \* history: entries a connection without a cursor started after

external == <<log, expired, seat>>
history == <<wrote, skipped>>
vars == <<external, owner, cursor, file, proc, faults, history>>

Entries == 1 .. MaxLog
Points == 0 .. MaxLog

Inbound(e) == log[e] \in {"broadcast", "direct", "ack"}

\* broadcastHwmFromLogEvent: own broadcasts count, directs and acks do not.
InHwm(e) == log[e] \in {"broadcast", "own"}

\* The server's broadcast high-water mark.
ServerHwm ==
    LET b == {e \in 1 .. Len(log) : InHwm(e)}
    IN  IF b = {} THEN 0 ELSE CHOOSE e \in b : \A f \in b : f <= e

later(a, b) == IF a >= b THEN a ELSE b

-----------------------------------------------------------------------------
(* A process.                                                              *)

\* last: runLoop's lastEventId; hwm: lastPersistedHwm; bhwm: lastBroadcastHwm;
\* pend: pendingHwmDivergence; recent, order: recentIds and recentIdsOrder; ev: the
\* event under way; kept: the lines a trim read; doomed: the session was aborted.
\*  resume, next, tail, live, silent: the server's end of the session.
Fresh == [pc |-> "idle", last |-> 0, hwm |-> 0, bhwm |-> 0, pend |-> 0,
          catchingUp |-> FALSE, recent |-> {}, order |-> <<>>, ev |-> 0,
          kept |-> <<>>, doomed |-> FALSE,
          resume |-> 0, next |-> 1, tail |-> 0, live |-> FALSE, silent |-> FALSE]

ProcState ==
    [pc : {"idle", "clearing", "open", "append", "trim", "rename", "record",
           "stopped"},
     last : Points, hwm : Points, bhwm : Points, pend : Points,
     catchingUp : BOOLEAN, recent : SUBSET Entries,
     order : BoundedSeq(Entries, RecentCap), ev : Points,
     kept : BoundedSeq(Points, InboxCap), doomed : BOOLEAN, resume : Points, next : 1 .. MaxLog + 1,
     tail : Points, live : BOOLEAN, silent : BOOLEAN]

InSession(p) == proc[p].pc \in {"open", "append", "trim", "rename", "record"}
Set(p, s) == proc' = [proc EXCEPT ![p] = s]

\* The session ends; lastEventId is all that outlives it.
Ended(s) == [Fresh EXCEPT !.last = s.last]
EndSession(p) == Set(p, Ended(proc[p]))

markEventPersisted(s, e) ==
    IF s.hwm # 0 /\ e <= s.hwm THEN s ELSE [s EXCEPT !.hwm = e, !.last = e]

\* Mutant: own posts do not advance the broadcast cursor.
markOthersPersisted(s, e) ==
    LET b == IF log[e] = "broadcast" THEN later(s.bhwm, e) ELSE s.bhwm
    IN  [s EXCEPT !.bhwm = b, !.pend = IF @ <= b THEN 0 ELSE @]

\* The broadcast cursor advances; a divergence it catches up with is dropped.
markBroadcastPersisted(s, e) ==
    LET b == IF InHwm(e) THEN later(s.bhwm, e) ELSE s.bhwm
    IN  [s EXCEPT !.bhwm = b, !.pend = IF @ <= b THEN 0 ELSE @]

Init ==
    /\ log = <<>>
    /\ expired = 0
    /\ seat = "valid"
    /\ owner \in Procs
    /\ cursor = 0
    /\ file = <<>>
    /\ proc = [p \in Procs |-> Fresh]
    /\ faults = 0
    /\ wrote = [p \in Procs |-> {}]
    /\ skipped = {}

-----------------------------------------------------------------------------
(* Connecting.                                                             *)

\* The cursor decides where the server starts; without one it is the tail.
Connect(p) ==
    /\ proc[p].pc = "idle"
    /\ owner = p
    /\ seat = "valid"
    /\ cursor = 0 \/ cursor > expired
    /\ LET resume == IF cursor = 0 THEN Len(log) ELSE cursor
       IN  \E from \in {resume + 1} \cup ({cursor} \ {0}) :
              Set(p, [Fresh EXCEPT
                        !.pc = "open", !.last = proc[p].last, !.hwm = cursor,
                        !.catchingUp = cursor # 0 \/ proc[p].last # 0,
                        !.resume = resume, !.next = from, !.tail = Len(log)])
    /\ skipped' = IF cursor = 0 THEN skipped \cup (1 .. Len(log)) ELSE skipped
    /\ UNCHANGED <<external, owner, cursor, file, faults, wrote>>

\* 410 CURSOR_EXPIRED
CursorExpired(p) ==
    /\ proc[p].pc = "idle"
    /\ owner = p
    /\ seat = "valid"
    /\ cursor # 0 /\ cursor <= expired
    /\ Set(p, [proc[p] EXCEPT !.pc = "clearing"])
    /\ UNCHANGED <<external, owner, cursor, file, faults, history>>

\* The cursor is deleted whatever it is by then; the loop backs off.
ClearCursor(p) ==
    /\ proc[p].pc = "clearing"
    /\ cursor' = 0
    /\ EndSession(p)
    /\ UNCHANGED <<external, owner, file, faults, history>>

\* A typed refusal (410 evicted or deleted, 401), on connecting or as an error
\* frame, ends the loop: no replacement seat took its place.
Refused(p) ==
    /\ seat = "refused"
    /\ \/ proc[p].pc = "idle" /\ owner = p
       \/ proc[p].pc = "open"
    /\ Set(p, [Ended(proc[p]) EXCEPT !.pc = "stopped"])
    /\ UNCHANGED <<external, owner, cursor, file, faults, history>>

\* The eviction frame appends a sentinel line, at best, and ends the session.
EvictionFrame(p) ==
    /\ seat = "refused"
    /\ proc[p].pc = "open"
    /\ Set(p, [proc[p] EXCEPT !.pc = "append", !.ev = 0])
    /\ UNCHANGED <<external, owner, cursor, file, faults, history>>

-----------------------------------------------------------------------------
(* Events.                                                                 *)

atOrBeforeResumeCursor(s, e) == s.catchingUp /\ s.hwm # 0 /\ e <= s.hwm

consultInboxFile(s, nonce) == nonce \/ (s.catchingUp /\ s.hwm = 0)

alreadyPersisted(s, e, nonce) ==
    \/ atOrBeforeResumeCursor(s, e)
    \/ consultInboxFile(s, nonce) /\ e \in Range(file)

\* A log event is routed: recorded only, skipped as already handled (a re-ping
\* may wake the agent again), or appended.  nonce: a re-ping; pending: the entry
\* is still unread.
Route(p, s, e, nonce, pending) ==
    LET recent == e \in s.recent
        seen == IF recent THEN markBroadcastPersisted(markEventPersisted(s, e), e) ELSE s
        To(l) == Set(p, [seen EXCEPT !.pc = l, !.ev = e])
    IN  IF recent /\ ~ nonce THEN Set(p, seen)
        ELSE IF ~ Inbound(e) \/ (recent /\ log[e] = "ack") THEN To("record")
        ELSE IF recent THEN Set(p, seen)
        ELSE IF (nonce /\ ~ pending) \/ alreadyPersisted(s, e, nonce)
        THEN Set(p, markEventPersisted(s, e))
        ELSE To("append")

\* The next entry of the session arrives: catch-up up to the tail at connect,
\* live entries after the bookmark.
Receive(p) ==
    LET s == proc[p]
    IN  /\ s.pc = "open"
        /\ ~ s.silent
        /\ s.next <= IF s.live THEN Len(log) ELSE s.tail
        /\ Route(p, [s EXCEPT !.next = @ + 1], s.next, FALSE, TRUE)
        /\ UNCHANGED <<external, owner, cursor, file, faults, wrote, skipped>>

Bookmark(p) ==
    LET s == proc[p]
    IN  /\ s.pc = "open"
        /\ ~ s.live /\ s.next > s.tail
        /\ Set(p, [s EXCEPT !.catchingUp = FALSE, !.live = TRUE])
        /\ UNCHANGED <<external, owner, cursor, file, faults, history>>

\* The server sends an entry again, with a wake nonce.
Reping(p, e, pending) ==
    LET s == proc[p]
    IN  /\ s.pc = "open"
        /\ s.live /\ ~ s.silent
        /\ e < s.next
        /\ Route(p, s, e, TRUE, pending)
        /\ UNCHANGED <<external, owner, cursor, file, faults, wrote, skipped>>

\* appendCappedInboxLine: the line is appended, the file read back ...
AppendLine(p) ==
    LET s == proc[p]
    IN  /\ s.pc = "append"
        /\ file' = Append(file, s.ev)
        /\ wrote' = [wrote EXCEPT ![p] = @ \cup ({s.ev} \ {0})]
        /\ Set(p, [s EXCEPT !.pc = "trim"])
        /\ UNCHANGED <<external, owner, cursor, faults, skipped>>

NewestLines(lines) == SubSeq(lines, Len(lines) - InboxCap + 1, Len(lines))

\* The line is in the inbox; the wake that follows is the wake bridges'.
AfterAppend(s) ==
    IF s.ev = 0 THEN Ended(s) ELSE [s EXCEPT !.pc = "record", !.kept = <<>>]

\* ... and, past twice the cap, replaced by the newest of the lines read.
TrimRead(p) ==
    LET s == proc[p]
    IN  /\ s.pc = "trim"
        /\ Set(p, IF Len(file) <= 2 * InboxCap THEN AfterAppend(s)
                  ELSE [s EXCEPT !.pc = "rename", !.kept = NewestLines(file)])
        /\ UNCHANGED <<external, owner, cursor, file, faults, history>>

TrimRename(p) ==
    /\ proc[p].pc = "rename"
    /\ file' = proc[p].kept
    /\ Set(p, AfterAppend(proc[p]))
    /\ UNCHANGED <<external, owner, cursor, faults, history>>

\* The oldest id goes, even if it was recorded again since.
Remember(s) ==
    LET ids == Append(s.order, s.ev)
    IN  IF Len(ids) <= RecentCap
        THEN [s EXCEPT !.recent = @ \cup {s.ev}, !.order = ids]
        ELSE [s EXCEPT !.recent = (@ \cup {s.ev}) \ {Head(ids)}, !.order = Tail(ids)]

\* The in-memory half of recordSeen.
Recorded(s) == markBroadcastPersisted(markEventPersisted(Remember(s), s.ev), s.ev)

\* advanceLocalServerCursor, under its lock: never back.
advanceLocalServerCursor(c, e) == later(c, e)

RecordSeen(p) ==
    LET s == proc[p]
    IN  /\ s.pc = "record"
        /\ Set(p, [Recorded(s) EXCEPT !.pc = "open", !.ev = 0])
        /\ cursor' = advanceLocalServerCursor(cursor, s.ev)
        /\ UNCHANGED <<external, owner, file, faults, history>>

\* Mutant: every heartbeat's hwm becomes the baseline.
heartbeatAbsorb(s, h) == markBroadcastPersisted(s, h)

\* A heartbeat's hwm is the session's baseline, agrees with it, or starts the
\* grace timer of a divergence.
heartbeat(s, h) ==
    IF s.bhwm = 0
    THEN LET t == markBroadcastPersisted(s, h)
         IN  IF s.hwm = 0 /\ s.last = 0 THEN markEventPersisted(t, h) ELSE t
    ELSE IF h <= s.bhwm THEN [s EXCEPT !.pend = 0]
    ELSE [s EXCEPT !.pend = h]

Heartbeat(p) ==
    /\ proc[p].pc = "open"
    /\ ServerHwm # 0
    /\ Set(p, heartbeat(proc[p], ServerHwm))
    /\ UNCHANGED <<external, owner, cursor, file, faults, history>>

\* The grace timer fires in any step of the session and aborts it.
HwmTimeout(p) ==
    LET s == proc[p]
    IN  /\ InSession(p)
        /\ s.pend # 0
        /\ Set(p, [s EXCEPT !.pend = 0, !.doomed = s.bhwm < s.pend])
        /\ UNCHANGED <<external, owner, cursor, file, faults, history>>

\* The refresh timer finds the lease lost and aborts the session.
OwnerLost(p) ==
    /\ InSession(p)
    /\ owner # p /\ ~ proc[p].doomed
    /\ Set(p, [proc[p] EXCEPT !.doomed = TRUE])
    /\ UNCHANGED <<external, owner, cursor, file, faults, history>>

\* An aborted session ends at its next read.
Leave(p) ==
    /\ proc[p].pc = "open"
    /\ proc[p].doomed
    /\ EndSession(p)
    /\ UNCHANGED <<external, owner, cursor, file, faults, history>>

-----------------------------------------------------------------------------
(* Faults.                                                                 *)

Fault == faults < MaxFaults /\ faults' = faults + 1

\* The connection drops, or the watchdog ends it.
Disconnect(p) ==
    /\ Fault
    /\ proc[p].pc = "open"
    /\ EndSession(p)
    /\ UNCHANGED <<external, owner, cursor, file, history>>

\* The server loses the subscription: heartbeats still come, entries do not.
Silence(p) ==
    /\ Fault
    /\ InSession(p)
    /\ proc[p].live /\ ~ proc[p].silent
    /\ Set(p, [proc[p] EXCEPT !.silent = TRUE])
    /\ UNCHANGED <<external, owner, cursor, file, history>>

\* Mutant: a failed append is logged and the entry recorded.
WriteFailsSwallowed(p) ==
    /\ Fault
    /\ proc[p].pc \in {"append", "trim", "rename"}
    /\ Set(p, AfterAppend(proc[p]))
    /\ UNCHANGED <<external, owner, cursor, file, history>>

\* The append, or the trim after it, throws and ends the session.
WriteFails(p) ==
    LET s == proc[p]
    IN  /\ Fault
        /\ s.pc \in {"append", "trim", "rename"}
        /\ EndSession(p)
        /\ UNCHANGED <<external, owner, cursor, file, history>>

\* The cursor file is busy or corrupt: the memory moved, the cursor did not.
AdvanceFails(p) ==
    /\ Fault
    /\ proc[p].pc = "record"
    /\ Set(p, Ended(Recorded(proc[p])))
    /\ UNCHANGED <<external, owner, cursor, file, history>>

\* The process dies and is started again.
Crash(p) ==
    /\ Fault
    /\ proc[p].pc # "stopped"
    /\ Set(p, Fresh)
    /\ UNCHANGED <<external, owner, cursor, file, history>>

\* Another process's lease replaces the owner's (StreamLease).
TakeOver(p) ==
    /\ Fault
    /\ owner # p
    /\ owner' = p
    /\ UNCHANGED <<external, cursor, file, proc, history>>

\* The server prunes its log, or evicts the seat.
Prune ==
    /\ Fault
    /\ expired < Len(log)
    /\ expired' = expired + 1
    /\ UNCHANGED <<log, seat, owner, cursor, file, proc, history>>

Evict ==
    /\ Fault
    /\ seat = "valid"
    /\ seat' = "refused"
    /\ UNCHANGED <<log, expired, owner, cursor, file, proc, history>>

Post(kind) ==
    /\ Len(log) < MaxLog
    /\ log' = Append(log, kind)
    /\ UNCHANGED <<expired, seat, owner, cursor, file, proc, faults, history>>

Next ==
    \/ \E p \in Procs :
          \/ Connect(p) \/ CursorExpired(p) \/ ClearCursor(p)
          \/ Refused(p) \/ EvictionFrame(p)
          \/ Receive(p) \/ Bookmark(p)
          \/ AppendLine(p) \/ TrimRead(p) \/ TrimRename(p) \/ RecordSeen(p)
          \/ Heartbeat(p) \/ HwmTimeout(p) \/ OwnerLost(p) \/ Leave(p)
          \/ Disconnect(p) \/ Silence(p) \/ WriteFails(p) \/ AdvanceFails(p)
          \/ Crash(p) \/ TakeOver(p)
          \/ \E e \in 1 .. Len(log), pending \in BOOLEAN : Reping(p, e, pending)
    \/ Prune \/ Evict
    \/ \E kind \in Posted : Post(kind)

Spec == Init /\ [][Next]_vars

\* The loops run, an open session delivers what its server has, heartbeats come
\* every 20 s, and the timers fire.
Fairness ==
    /\ \A p \in Procs :
          /\ WF_vars(Connect(p) \/ CursorExpired(p) \/ ClearCursor(p) \/ Refused(p))
          /\ SF_vars(Receive(p))
          /\ SF_vars(Receive(p) /\ proc[p].next > cursor)
          /\ WF_vars(Bookmark(p))
          /\ WF_vars(AppendLine(p) \/ TrimRead(p) \/ TrimRename(p) \/ RecordSeen(p))
          /\ SF_vars(Heartbeat(p))
          /\ SF_vars(HwmTimeout(p))
          /\ WF_vars(OwnerLost(p))
          /\ SF_vars(Leave(p))

-----------------------------------------------------------------------------
(* Properties                                                              *)

\* Every variable keeps its type.
TypeOK ==
    /\ log \in Seq(Kinds) /\ Len(log) <= MaxLog
    /\ expired \in Points /\ seat \in {"valid", "refused"}
    /\ owner \in Procs
    /\ cursor \in Points
    /\ file \in Seq(Points)
    /\ proc \in [Procs -> ProcState]
    /\ faults \in 0 .. MaxFaults
    /\ wrote \in [Procs -> SUBSET Entries]
    /\ skipped \subseteq Entries

\* "LOAD-BEARING ORDER: the disk write must complete before the cursor
\* advances": the durable cursor never passes an inbound entry that is not in
\* the inbox, whatever failed, died or overlapped, except the entries a
\* connection without a cursor started after; and the late write of an old
\* session never moves it back: only the server's expiry of a cursor clears it.
NothingMissed ==
    /\ [](\A e \in 1 .. cursor :
             Inbound(e) /\ e \notin skipped => \E p \in Procs : e \in wrote[p])
    /\ [][cursor' < cursor => cursor' = 0 /\ expired # 0]_vars

\* gh#402: a divergence is only ever pending for a broadcast this session has
\* not been sent, is still handling or began after (a re-ping of an older own
\* post can set its baseline), so a heartbeat after an own post, a direct entry
\* or a replay starts no reconnect.
DivergenceIsReal ==
    \A p \in Procs :
        LET s == proc[p]
        IN  s.pend # 0 => \/ s.next <= s.pend
                          \/ s.pc # "open" /\ s.ev = s.pend
                          \/ s.pend <= s.resume

\* A broadcast the server has announced past a session's baseline reaches the
\* inbox, even when the server lost the subscription.
AnnouncedArrives ==
    \A e \in Entries :
        (/\ e <= Len(log) /\ log[e] = "broadcast"
         /\ \E p \in Procs : InSession(p) /\ proc[p].bhwm # 0 /\ proc[p].bhwm < e)
        ~> (seat = "refused" \/ e \in skipped \/ \E p \in Procs : e \in wrote[p])

=============================================================================
