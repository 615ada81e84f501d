------------------------------- MODULE WakeProofs -------------------------------
(***************************************************************************)
(* Proofs about the two bridges that wake an agent from its inbox.         *)
(*                                                                         *)
(* CodexWake: the mutex of the three injecting paths, and the retry loop   *)
(* behind every obligation, for any set of entries, nonces and bounds.     *)
(*                                                                         *)
(* InboxMonitor: one monitor serves (PidfileInv: whoever serves and was    *)
(* not reaped is the pidfile's, and the pidfile changes only under the     *)
(* mutation lock), and no line is passed over (LineInv: what is before the *)
(* cursor, before a tail, remembered or history was announced, and what is *)
(* owed is announced or still pending below every boundary that may become *)
(* the cursor's), for any number of monitors, lines and faults.            *)
(***************************************************************************)
EXTENDS CodexWake, InboxMonitor, TLAPS


\* What the two invariants need to be inductive: each path is at a step of its
\* own.
PathsOK ==
    /\ pc \in [Paths -> Steps]
    /\ pc["wake"] \in Critical \cup {"idle", "take"}
    /\ pc["beat"] \in Critical \cup {"idle"}
    /\ pc["drain"] \in Critical \cup {"idle", "top", "sleep"}
    /\ injectInFlight \in BOOLEAN /\ deliveryDeferred \in BOOLEAN /\ aged \in BOOLEAN

WakeInv == PathsOK /\ OneInjector /\ ObligationHasLoop

USE DEF Paths, Critical, Steps

\* The bridge starts with every path idle and nothing owed.
LEMMA InitWake == Init => WakeInv
  BY DEF Init, WakeInv, PathsOK, OneInjector, ObligationHasLoop, retryDrainInFlight

\* A wake that is put off leaves the critical section and gets its loop.
LEMMA WakePutOff ==
  ASSUME WakeInv, pc["wake"] \in Critical, NEW marked \in BOOLEAN, PutOff("wake", marked)
  PROVE  WakeInv'
<1>1. /\ pc' = [pc EXCEPT !["wake"] = "take",
                          !["drain"] = IF retryDrainInFlight THEN @ ELSE "sleep"]
      /\ injectInFlight' = FALSE
      /\ deliveryDeferred' \in BOOLEAN /\ aged' \in BOOLEAN
  BY DEF WakeInv, PathsOK, PutOff, scheduleRetryDrain
<1> QED
  BY <1>1 DEF WakeInv, PathsOK, OneInjector, ObligationHasLoop, retryDrainInFlight

\* A path that moves on inside the critical section keeps it.
LEMMA Stays ==
  ASSUME WakeInv, NEW p \in Paths, NEW s \in Critical, pc[p] \in Critical,
         pc' = [pc EXCEPT ![p] = s],
         UNCHANGED <<injectInFlight, retryDrainSourceEntryIds, aged, deliveryDeferred>>
  PROVE  WakeInv'
<1>1. CASE p = "wake"
  BY <1>1 DEF WakeInv, PathsOK, OneInjector, ObligationHasLoop, retryDrainInFlight
<1>2. CASE p = "drain"
  BY <1>2 DEF WakeInv, PathsOK, OneInjector, ObligationHasLoop, retryDrainInFlight
<1>3. CASE p = "beat"
  BY <1>3 DEF WakeInv, PathsOK, OneInjector, ObligationHasLoop, retryDrainInFlight
<1> QED
  BY <1>1, <1>2, <1>3

\* A path that leaves for where it waits frees the mutex and keeps the loop.
LEMMA Leaves ==
  ASSUME WakeInv, NEW p \in Paths, pc[p] \in Critical,
         pc' = [pc EXCEPT ![p] = After(p)], injectInFlight' = FALSE,
         UNCHANGED <<retryDrainSourceEntryIds, aged>>, deliveryDeferred' \in BOOLEAN
  PROVE  WakeInv'
<1>1. CASE p = "wake"
  BY <1>1 DEF WakeInv, PathsOK, OneInjector, ObligationHasLoop, retryDrainInFlight, After
<1>2. CASE p = "drain"
  BY <1>2 DEF WakeInv, PathsOK, OneInjector, ObligationHasLoop, retryDrainInFlight, After
<1>3. CASE p = "beat"
  BY <1>3 DEF WakeInv, PathsOK, OneInjector, ObligationHasLoop, retryDrainInFlight, After
<1> QED
  BY <1>1, <1>2, <1>3

\* An attempt put off on any path keeps both: a wake's entry joins the retry set.
LEMMA PutOffKeeps ==
  ASSUME WakeInv, NEW p \in Paths, pc[p] \in Critical, NEW marked \in BOOLEAN,
         PutOff(p, marked)
  PROVE  WakeInv'
<1>1. CASE p = "wake"
  BY <1>1, WakePutOff
<1>2. CASE p # "wake"
  <2>1. /\ pc' = [pc EXCEPT ![p] = After(p)] /\ injectInFlight' = FALSE
        /\ UNCHANGED <<retryDrainSourceEntryIds, aged>>
    BY <1>2 DEF PutOff, Goto
  <2>2. deliveryDeferred' \in BOOLEAN
    BY DEF PutOff, WakeInv, PathsOK
  <2> QED
    BY <2>1, <2>2, Leaves
<1> QED
  BY <1>1, <1>2

\* Every step of a path, of the stream, the agent or the clock keeps it.
LEMMA NextWake == WakeInv /\ [Next]_vars => WakeInv'
<1> SUFFICES ASSUME WakeInv, [Next]_vars PROVE WakeInv'
  OBVIOUS
<1> USE DEF WakeInv, PathsOK, OneInjector, ObligationHasLoop, retryDrainInFlight,
            Goto, outside, inside
<1>1. ASSUME NEW r \in Requests, wakeCodexViaAppServer(r) PROVE WakeInv'
  BY <1>1 DEF wakeCodexViaAppServer
<1>2. CASE TakeRequest
  BY <1>2 DEF TakeRequest, Locked, scheduleRetryDrain
<1>3. CASE QueueEmpty
  BY <1>3 DEF QueueEmpty
<1>4. ASSUME NEW s \in {"check", "recheck"}, NEW next \in {"resolve", "start"},
             WakeChecks(s, next)
      PROVE  WakeInv'
  <2>1. CASE request.entry \in unread
    BY <1>4, <2>1, Stays DEF WakeChecks, Advance
  <2>2. CASE request.entry \notin unread
    BY <1>4, <2>2, Leaves DEF WakeChecks, Finish, After
  <2> QED
    BY <2>1, <2>2
<1>5. CASE Retry \/ AgeOut \/ DrainWakes
  <2>1. CASE Retry
    BY <2>1 DEF Retry
  <2>2. CASE AgeOut
    BY <2>2 DEF AgeOut
  <2>3. CASE DrainWakes /\ injectInFlight
    BY <2>3 DEF DrainWakes, Locked
  <2>4. CASE DrainWakes /\ ~ injectInFlight
    BY <2>4 DEF DrainWakes, Locked
  <2> QED
    BY <1>5, <2>1, <2>2, <2>3, <2>4
<1>6. ASSUME NEW s \in {"check", "recheck"}, NEW next \in {"resolve", "start"},
             DrainChecks(s, next)
      PROVE  WakeInv'
  BY <1>6 DEF DrainChecks, Finish
<1>7. CASE fireCodexHeartbeatTick \/ BeatStep
  <2>1. CASE fireCodexHeartbeatTick
    BY <2>1 DEF fireCodexHeartbeatTick, Locked
  <2>2. CASE BeatChecks
    BY <2>2, Stays DEF BeatChecks, Advance
  <2>3. CASE NothingPending
    BY <2>3, Leaves DEF NothingPending, Finish, After
  <2> QED
    BY <1>7, <2>1, <2>2, <2>3 DEF BeatStep
<1>8. ASSUME NEW p \in Paths, resolveFreshCodexWakeTarget(p) PROVE WakeInv'
  <2>1. pc[p] \in Critical
    BY <1>8 DEF resolveFreshCodexWakeTarget
  <2>2. CASE PutOff(p, p # "drain")
    BY <2>1, <2>2, PutOffKeeps
  <2>3. CASE p = "wake" /\ Finish("wake", "take")
             /\ UNCHANGED <<retryDrainSourceEntryIds, aged, deliveryDeferred>>
    BY <2>1, <2>3, Leaves DEF Finish, After
  <2>4. CASE Advance(p, "read")
    BY <2>1, <2>4, Stays DEF Advance
  <2> QED
    BY <1>8, <2>2, <2>3, <2>4 DEF resolveFreshCodexWakeTarget
<1>9. ASSUME NEW p \in Paths, readThread(p) PROVE WakeInv'
  <2>1. pc[p] \in Critical
    BY <1>9 DEF readThread
  <2>2. CASE PutOff(p, p = "beat")
    BY <2>1, <2>2, PutOffKeeps
  <2>3. CASE Advance(p, IF p = "beat" THEN "start" ELSE "recheck")
    BY <2>1, <2>3, Stays DEF Advance
  <2> QED
    BY <1>9, <2>2, <2>3 DEF readThread
<1>10. ASSUME NEW p \in Paths, startTurn(p) \/ Delivered(p) PROVE WakeInv'
  <2>1. CASE startTurn(p)
    BY <2>1, Stays DEF startTurn
  <2>2. CASE Delivered(p) /\ p # "drain"
    BY <2>2, Leaves DEF Delivered
  <2>3. CASE Delivered("drain")
    BY <2>3 DEF Delivered
  <2> QED
    BY <1>10, <2>1, <2>2, <2>3
<1>11. ASSUME NEW p \in Paths, Fails(p) \/ NoActiveCube(p) PROVE WakeInv'
  <2>1. CASE Fails(p)
    BY <2>1, PutOffKeeps DEF Fails
  <2>2. CASE NoActiveCube(p)
    BY <2>2, Leaves DEF NoActiveCube, Finish
  <2> QED
    BY <1>11, <2>1, <2>2
<1>12. ASSUME NEW e \in Entries, Post(e) PROVE WakeInv'
  BY <1>12 DEF Post
<1>13. CASE ReadLog \/ TurnEnds \/ ThreadLoads \/ HumanTurn \/ AgeCapPasses \/ CadencePasses
  <2>1. CASE AgeCapPasses
    BY <2>1 DEF AgeCapPasses
  <2>2. CASE ReadLog \/ TurnEnds \/ ThreadLoads \/ HumanTurn \/ CadencePasses
    BY <2>2 DEF ReadLog, TurnEnds, ThreadLoads, HumanTurn, CadencePasses
  <2> QED
    BY <1>13, <2>1, <2>2
<1>14. CASE UNCHANGED vars
  BY <1>14 DEF vars
<1> QED
  BY <1>1, <1>2, <1>3, <1>4, <1>5, <1>6, <1>7, <1>8, <1>9, <1>10, <1>11, <1>12,
     <1>13, <1>14 DEF Next, WakeStep, DrainStep, Inject

\* The three paths into a Codex thread exclude each other: the mutex is held
\* exactly while one of them is between its check and its answer.
THEOREM InjectorTheorem == Spec => []OneInjector
<1>1. WakeInv => OneInjector
  BY DEF WakeInv
<1> QED
  BY <1>1, InitWake, NextWake, PTL DEF Spec

\* No obligation of the retry set is ever without the loop that works on it.
THEOREM ObligationTheorem == Spec => []ObligationHasLoop
<1>1. WakeInv => ObligationHasLoop
  BY DEF WakeInv
<1> QED
  BY <1>1, InitWake, NextWake, PTL DEF Spec

HIDE DEF Paths, Critical, Steps

-----------------------------------------------------------------------------
(* The inbox monitor: the invariants.                                      *)

\* Where a monitor holds the mutation lock, and where it reads the inbox.
Mutating == {"claim", "read", "compare", "unlink", "recheck"}
Armed == {"tail", "persist"}
Places == {"new", "mutate", "beat", "arm", "rmhb", "rmpid", "gone"} \cup Mutating \cup Armed

MonitorState ==
    [pc : Places, wedged : BOOLEAN, att : Nat, arm : Nat, at : Nat, off : Nat, grew : BOOLEAN,
     stalled : BOOLEAN, pend : SUBSET Nat, hist : SUBSET Nat, since : Nat, seen : Seq(Nat),
     line : Nat \cup Monitors \cup {Old}]

\* Types.  That the cursor is at a line follows from LineInv.
MonitorTypeOK ==
    /\ ts \in Seq(Nat) /\ lo \in 1 .. Len(ts) + 1 /\ now \in Nat
    /\ mutation \in Monitors \cup {None} /\ pidfile \in Monitors \cup {Old, None}
    /\ cursor \in [line : Nat \cup Monitors \cup {Old}, since : Nat] \cup {None}
    /\ mon \in [Monitors -> MonitorState]
    /\ said \in [Monitors -> Seq(Nat)] /\ reaped \subseteq Monitors

\* It holds the mutation lock while it changes the pidfile.
InTurn(m, r) ==
    /\ r.pc \in Mutating => mutation = m
    /\ r.pc = "recheck" => pidfile = m
    /\ r.pc = "unlink" => pidfile = r.line

\* A holder that will not change the pidfile, or whose pidfile was taken.
Over(h) == h = Old \/ h \in reaped \/ (h \in Monitors /\ mon[h].pc = "gone")

Serves(r) == r.pc \in {"beat", "arm", "tail", "persist"}

\* Whoever serves, and was not reaped, is the pidfile's.
PidfileInv ==
    /\ MonitorTypeOK
    /\ \A m \in Monitors : InTurn(m, mon[m])
    /\ \A m \in Monitors : mon[m].pc \in {"compare", "unlink"} => Over(mon[m].line)
    /\ pidfile \in Monitors => mon[pidfile].pc # "new"
    /\ \A m \in Monitors : Serves(mon[m]) /\ m \notin reaped => pidfile = m

\* Entries are appended in the order of their times.
FileOK ==
    /\ owed \subseteq 1 .. Len(ts)
    /\ \A i, j \in 1 .. Len(ts) : i <= j => ts[i] <= ts[j]

\* The replay cursor leaves nothing unsaid behind its line or its boundary.
CursorOK ==
    cursor # None =>
       /\ cursor.line \in 0 .. Len(ts)
       /\ \A l \in 1 .. cursor.line : Announced(l)
       /\ \A l \in owed : ts[l] < cursor.since => Announced(l)

\* A monitor arms with a clean slate.
Starting(r) ==
    /\ r.pc \notin Armed => r.seen = <<>>
    /\ r.pc = "arm" => r.line = 0

\* What a monitor is past, remembers or took for history was announced.
Passed(r) ==
    r.pc \in Armed =>
       /\ r.at \in 1 .. Len(ts) + 1 /\ r.line \in 0 .. Len(ts)
       /\ \A l \in 1 .. r.at - 1 : Announced(l)
       /\ \A l \in 1 .. r.line : Announced(l)
       /\ \A l \in r.hist : Announced(l)
       /\ \A i \in 1 .. Len(r.seen) : Announced(r.seen[i])

\* Both boundaries it may write to the cursor leave out only what was announced,
\* or what it is about to replay.
Owes(r) ==
    r.pc \in Armed =>
       /\ \A l \in owed : ts[l] < r.since => Announced(l)
       /\ \A l \in owed : ts[l] < Minus(r.arm, Skew) => Announced(l) \/ l \in r.pend

\* Every line before the file, the cursor and the tails was announced.
LineInv ==
    /\ FileOK
    /\ \A l \in 1 .. lo - 1 : Announced(l)
    /\ CursorOK
    /\ \A m \in Monitors : Starting(mon[m]) /\ Passed(mon[m])
    /\ \A m \in Monitors : m \notin reaped => Owes(mon[m])

-----------------------------------------------------------------------------
(* One monitor serves.                                                     *)

\* The start is typed, and nobody has the lock.
LEMMA MonitorStart == MonitorInit => MonitorTypeOK
<1> SUFFICES ASSUME MonitorInit PROVE MonitorTypeOK
  OBVIOUS
<1>1. Fresh \in MonitorState
  <2>1. Fresh.seen \in Seq(Nat)
    BY DEF Fresh
  <2> QED
    BY <2>1 DEF Fresh, MonitorState, Places
<1>2. [line |-> 0, since |-> 0] \in [line : Nat \cup Monitors \cup {Old}, since : Nat]
  OBVIOUS
<1>3. cursor \in [line : Nat \cup Monitors \cup {Old}, since : Nat] \cup {None}
  BY <1>2 DEF MonitorInit
<1>4. mon \in [Monitors -> MonitorState]
  BY <1>1 DEF MonitorInit
<1>5. said \in [Monitors -> Seq(Nat)]
  BY DEF MonitorInit
<1> QED
  BY <1>3, <1>4, <1>5 DEF MonitorInit, MonitorTypeOK

\* The start satisfies the invariant of the pidfile.
LEMMA PidfileStart == MonitorInit => PidfileInv
<1> SUFFICES ASSUME MonitorInit PROVE PidfileInv
  OBVIOUS
<1>1. \A m \in Monitors : mon[m].pc = "new"
  BY DEF MonitorInit, Fresh
<1> QED
  BY <1>1, MonitorStart, InboxAssumption
  DEF MonitorInit, PidfileInv, InTurn, Serves, Mutating

\* A step of one monitor, with what it must see to for the pidfile.
LEMMA MonitorMoves ==
  ASSUME PidfileInv, MonitorTypeOK', NEW m \in Monitors, NEW r \in MonitorState, Set(m, r),
         mon[m].pc # "gone", r.pc # "new", reaped \subseteq reaped',
         /\ r.pc \in Mutating => mutation' = m
         /\ r.pc = "recheck" => pidfile' = m
         /\ r.pc = "unlink" => pidfile' = r.line,
         r.pc \in {"compare", "unlink"} => Over(r.line)',
         Serves(r) /\ m \notin reaped' => pidfile' = m,
         mutation' = mutation \/ mutation \in {None, m},
         \/ pidfile' = pidfile
         \/ /\ mutation \in {None, m}
            /\ \/ pidfile = None /\ pidfile' = m
               \/ pidfile' = None /\ (pidfile = m \/ Over(pidfile))
  PROVE  PidfileInv'
<1>1. /\ mon'[m] = r
      /\ \A n \in Monitors : n # m => mon'[n] = mon[n]
  BY DEF Set, PidfileInv, MonitorTypeOK
<1>0. Old \notin Monitors /\ None \notin Monitors
  BY InboxAssumption
<1>2. \A n \in Monitors : InTurn(n, mon[n])' 
  <2> TAKE n \in Monitors
  <2>1. CASE n = m
    BY <2>1, <1>1 DEF InTurn
  <2>2. CASE n # m
    <3>1. mon'[n] = mon[n] /\ InTurn(n, mon[n])
      BY <2>2, <1>1 DEF PidfileInv
    <3>2. mon[n].pc \in Mutating => mutation = n /\ mutation' = n
      BY <3>1, <2>2, <1>0 DEF InTurn
    <3>3. mon[n].pc \in Mutating => pidfile' = pidfile
      BY <3>2, <2>2, <1>0
    <3> QED
      BY <3>1, <3>2, <3>3 DEF InTurn, Mutating
  <2> QED
    BY <2>1, <2>2
<1>3. \A h : Over(h) => Over(h)'
  BY <1>1, <1>0 DEF Over
<1>4. \A n \in Monitors : mon'[n].pc \in {"compare", "unlink"} => Over(mon[n].line)'
  <2> TAKE n \in Monitors
  <2>1. CASE n = m
    BY <2>1, <1>1
  <2>2. CASE n # m
    BY <2>2, <1>1, <1>3 DEF PidfileInv
  <2> QED
    BY <2>1, <2>2
<1>5. pidfile' \in Monitors => mon'[pidfile'].pc # "new"
  BY <1>1, <1>0 DEF PidfileInv
<1>6. ASSUME NEW n \in Monitors, Serves(mon'[n]), n \notin reaped'
      PROVE  pidfile' = n
  <2>1. CASE n = m
    BY <2>1, <1>1, <1>6
  <2>2. CASE n # m
    <3>1. Serves(mon[n]) /\ n \notin reaped /\ pidfile = n
      BY <2>2, <1>1, <1>6 DEF PidfileInv
    <3>2. ~ Over(n)
      BY <3>1, <1>0 DEF Over, Serves
    <3> QED
      BY <3>1, <3>2, <2>2, <1>0
  <2> QED
    BY <2>1, <2>2
<1>7. \A n \in Monitors : Serves(mon'[n]) /\ n \notin reaped' => pidfile' = n
  BY <1>6
<1> QED
  BY <1>2, <1>4, <1>5, <1>7 DEF PidfileInv, InTurn, Over, Serves

\* A monitor that changes its place keeps the rest of its state, or dies.
LEMMA MovesOn ==
  ASSUME MonitorTypeOK, NEW m \in Monitors, NEW s \in Places, To(m, s)
  PROVE  \E r \in MonitorState :
            /\ Set(m, r) /\ r.pc = s
            /\ s # "gone" => r = [mon[m] EXCEPT !.pc = s]
            /\ s = "gone" => r = [Fresh EXCEPT !.pc = s]
<1>1. Fresh \in MonitorState
  <2>1. Fresh.seen \in Seq(Nat)
    BY DEF Fresh
  <2> QED
    BY <2>1 DEF Fresh, MonitorState, Places
<1>2. mon[m] \in MonitorState
  BY DEF MonitorTypeOK
<1>3. [Fresh EXCEPT !.pc = s] \in MonitorState /\ [mon[m] EXCEPT !.pc = s] \in MonitorState
  BY <1>1, <1>2 DEF MonitorState
<1>4. [Fresh EXCEPT !.pc = s].pc = s /\ [mon[m] EXCEPT !.pc = s].pc = s
  BY <1>2 DEF MonitorState, Fresh
<1> QED
  BY <1>3, <1>4 DEF To

\* Without a change of file, cursor and emitted lines, only the monitor's own
\* state has to be typed.
LEMMA MovesTyped ==
  ASSUME MonitorTypeOK, NEW m \in Monitors, NEW r \in MonitorState, Set(m, r),
         UNCHANGED <<ts, lo, now, cursor, said>>,
         mutation' \in Monitors \cup {None}, pidfile' \in Monitors \cup {Old, None},
         reaped' \subseteq Monitors
  PROVE  MonitorTypeOK'
  BY DEF MonitorTypeOK, Set

\* Looking for the lock and for an old binary.
LEMMA PidfileSetOut ==
  ASSUME PidfileInv, NEW m \in Monitors,
         ensureMonitorStateDir(m) \/ legacyMonitorArtifactState(m)
  PROVE  PidfileInv'
<1>0. MonitorTypeOK
  BY DEF PidfileInv
<1>1. CASE ensureMonitorStateDir(m)
  <2>1. PICK s \in {"gone", "mutate"} : To(m, s)
    BY <1>1 DEF ensureMonitorStateDir
  <2>2. PICK r \in MonitorState : Set(m, r) /\ r.pc = s
    BY <2>1, <1>0, MovesOn DEF Places
  <2>3. UNCHANGED <<ts, lo, now, cursor, said, mutation, pidfile, reaped>> /\ mon[m].pc = "new"
    BY <1>1 DEF ensureMonitorStateDir, Runs, file, locks, ghosts
  <2>4. MonitorTypeOK'
    BY <1>0, <2>2, <2>3, MovesTyped DEF MonitorTypeOK
  <2> QED
    BY <2>2, <2>3, <2>4, MonitorMoves DEF Serves, Mutating
<1>2. CASE legacyMonitorArtifactState(m)
  <2>1. \/ To(m, "gone") /\ mutation' = mutation
        \/ To(m, "claim") /\ mutation = None /\ mutation' = m
    BY <1>2 DEF legacyMonitorArtifactState, claimMutation
  <2>2. PICK s \in {"gone", "claim"} :
          /\ To(m, s)
          /\ s = "gone" => mutation' = mutation
          /\ s = "claim" => mutation = None /\ mutation' = m
    BY <2>1
  <2>3. PICK r \in MonitorState : Set(m, r) /\ r.pc = s
    BY <2>2, <1>0, MovesOn DEF Places, Mutating
  <2>4. UNCHANGED <<ts, lo, now, cursor, said, pidfile, reaped>> /\ mon[m].pc = "mutate"
    BY <1>2 DEF legacyMonitorArtifactState, Runs, file, ghosts
  <2>5. MonitorTypeOK'
    BY <1>0, <2>2, <2>3, <2>4, MovesTyped DEF MonitorTypeOK
  <2> QED
    BY <2>2, <2>3, <2>4, <2>5, MonitorMoves DEF Serves, Mutating
<1> QED
  BY <1>1, <1>2

\* Taking a free pidfile under the mutation lock.
LEMMA PidfileClaimed ==
  ASSUME PidfileInv, NEW m \in Monitors, claim(m)
  PROVE  PidfileInv'
<1>0. MonitorTypeOK /\ mutation = m /\ mon[m].pc = "claim"
  BY DEF PidfileInv, InTurn, claim, Runs, Mutating
<1>1. PICK s \in {"gone", "recheck", "read"} :
        /\ To(m, s)
        /\ s = "gone" => mutation' = None /\ pidfile' = pidfile
        /\ s = "recheck" => mutation' = m /\ pidfile = None /\ pidfile' = m
        /\ s = "read" => mutation' = m /\ pidfile' = pidfile
  BY <1>0 DEF claim, releaseMutation, locks
<1>2. PICK r \in MonitorState : Set(m, r) /\ r.pc = s
  BY <1>1, <1>0, MovesOn DEF Places, Mutating
<1>3. UNCHANGED <<ts, lo, now, cursor, said, reaped>>
  BY DEF claim, file, ghosts
<1>4. MonitorTypeOK'
  BY <1>0, <1>1, <1>2, <1>3, MovesTyped DEF MonitorTypeOK
<1> QED
  BY <1>0, <1>1, <1>2, <1>3, <1>4, MonitorMoves DEF Serves, Mutating

\* Judging the holder of the pidfile: one that is left to be removed has died, or
\* is counted as reaped.
LEMMA HolderJudged ==
  ASSUME PidfileInv, NEW m \in Monitors, readHolder(m)
  PROVE  PidfileInv'
<1>0. MonitorTypeOK /\ mutation = m /\ mon[m].pc = "read" /\ mon[m] \in MonitorState
  BY DEF PidfileInv, InTurn, readHolder, Runs, Mutating, MonitorTypeOK
<1>1. UNCHANGED <<ts, lo, now, cursor, said, pidfile>>
  BY DEF readHolder, file
<1>2. CASE pidfile = None
  <2> DEFINE r == [mon[m] EXCEPT !.pc = "claim", !.att = @ + 1]
  <2>1. Set(m, r) /\ UNCHANGED <<mutation, reaped>>
    BY <1>2 DEF readHolder
  <2>0. mon[m].att + 1 \in Nat
    BY <1>0 DEF MonitorState
  <2>2. r \in MonitorState /\ r.pc = "claim"
    BY <1>0, <2>0 DEF MonitorState, Places, Mutating
  <2> HIDE DEF r
  <2>3. MonitorTypeOK'
    BY <1>0, <1>1, <2>1, <2>2, MovesTyped DEF MonitorTypeOK
  <2> QED
    BY <1>0, <1>1, <2>1, <2>2, <2>3, MonitorMoves DEF Serves, Mutating
<1>3. CASE pidfile # None /\ Running(pidfile) /\ ~ isHolderWedged(pidfile)
  <2>1. To(m, "gone") /\ mutation' = None /\ reaped' = reaped
    BY <1>0, <1>3 DEF readHolder, releaseMutation
  <2>2. PICK r \in MonitorState : Set(m, r) /\ r.pc = "gone"
    BY <2>1, <1>0, MovesOn DEF Places
  <2>3. MonitorTypeOK'
    BY <1>0, <1>1, <2>1, <2>2, MovesTyped DEF MonitorTypeOK
  <2> QED
    BY <1>0, <1>1, <2>1, <2>2, <2>3, MonitorMoves DEF Serves, Mutating
<1>4. CASE pidfile # None /\ ~ (Running(pidfile) /\ ~ isHolderWedged(pidfile))
  <2>2. pidfile \in Monitors \cup {Old}
    BY <1>0, <1>4 DEF MonitorTypeOK
  <2>0. [mon[m] EXCEPT !.pc = "compare", !.line = pidfile] \in MonitorState
    BY <1>0, <2>2 DEF MonitorState, Places, Mutating
  <2> PICK r \in MonitorState : r = [mon[m] EXCEPT !.pc = "compare", !.line = pidfile]
    BY <2>0
  <2>1. /\ Set(m, r) /\ mutation' = mutation
        /\ reaped' = IF Running(pidfile) THEN reaped \cup {pidfile} ELSE reaped
    BY <1>4 DEF readHolder
  <2>3. r.pc = "compare" /\ r.line = pidfile
    BY <1>0 DEF MonitorState
  <2>4. pidfile = Old \/ pidfile \in reaped' \/ (pidfile \in Monitors /\ mon[pidfile].pc = "gone")
    BY <2>1, <2>2 DEF Running, PidfileInv
  <2>5. pidfile \in Monitors /\ mon[pidfile].pc = "gone" => mon'[pidfile].pc = "gone"
    BY <2>1, <1>0 DEF Set, MonitorTypeOK
  <2>6. reaped \subseteq reaped' /\ reaped' \subseteq Monitors
    BY <2>1, <2>2, <1>0 DEF MonitorTypeOK, Running
  <2>7. MonitorTypeOK'
    BY <1>0, <1>1, <2>1, <2>3, <2>6, MovesTyped DEF MonitorTypeOK
  <2>8. Over(r.line)'
    BY <2>3, <2>4, <2>5 DEF Over
  <2>9. /\ mon[m].pc # "gone" /\ r.pc # "new" /\ reaped \subseteq reaped'
        /\ r.pc \in Mutating => mutation' = m
        /\ r.pc # "recheck" /\ r.pc # "unlink" /\ ~ Serves(r)
        /\ mutation' = mutation /\ pidfile' = pidfile
    BY <1>0, <1>1, <2>1, <2>3, <2>6 DEF Serves, Mutating
  <2> QED
    BY <2>1, <2>3, <2>7, <2>8, <2>9, MonitorMoves
<1> QED
  BY <1>2, <1>3, <1>4

\* Removing the pidfile of a dead or wedged holder: a read and an unlink, both
\* under the mutation lock.
LEMMA PidfileRemoved ==
  ASSUME PidfileInv, NEW m \in Monitors, compare(m) \/ unlink(m)
  PROVE  PidfileInv'
<1>0. MonitorTypeOK /\ mutation = m /\ mon[m].pc \in {"compare", "unlink"}
      /\ mon[m] \in MonitorState /\ Over(mon[m].line)
  BY DEF PidfileInv, InTurn, compare, unlink, Runs, Mutating, MonitorTypeOK
<1>1. UNCHANGED <<ts, lo, now, cursor, said, mutation, reaped>>
  BY DEF compare, unlink, file, ghosts, locks
<1>2. CASE Set(m, [mon[m] EXCEPT !.pc = "claim", !.att = @ + 1])
           /\ (pidfile' = pidfile \/ unlink(m))
  <2> DEFINE r == [mon[m] EXCEPT !.pc = "claim", !.att = @ + 1]
  <2>1. Set(m, r)
    BY <1>2
  <2>0. mon[m].att + 1 \in Nat
    BY <1>0 DEF MonitorState
  <2>2. r \in MonitorState /\ r.pc = "claim"
    BY <1>0, <2>0 DEF MonitorState, Places, Mutating
  <2> HIDE DEF r
  <2>5. ASSUME unlink(m) PROVE pidfile = mon[m].line /\ pidfile' = None
    <3>1. mon[m].pc = "unlink" /\ pidfile' = None
      BY <2>5 DEF unlink, Runs
    <3>2. InTurn(m, mon[m])
      BY DEF PidfileInv
    <3> QED
      BY <3>1, <3>2 DEF InTurn
  <2>3. pidfile' = pidfile \/ (pidfile' = None /\ Over(pidfile))
    BY <1>2, <1>0, <2>5
  <2>4. MonitorTypeOK'
    BY <1>0, <1>1, <2>1, <2>2, <2>3, MovesTyped DEF MonitorTypeOK
  <2> QED
    BY <1>0, <1>1, <2>1, <2>2, <2>3, <2>4, MonitorMoves DEF Serves, Mutating
<1>3. CASE To(m, "unlink") /\ pidfile = mon[m].line /\ pidfile' = pidfile
  <2>1. PICK r \in MonitorState : Set(m, r) /\ r.pc = "unlink" /\ r = [mon[m] EXCEPT !.pc = "unlink"]
    BY <1>3, <1>0, MovesOn DEF Places, Mutating
  <2>2. r.line = pidfile
    BY <2>1, <1>0, <1>3 DEF MonitorState
  <2>3. MonitorTypeOK'
    BY <1>0, <1>1, <1>3, <2>1, MovesTyped DEF MonitorTypeOK
  <2>4. \A h \in Monitors : mon[h].pc = "gone" => mon'[h].pc = "gone"
    BY <1>0, <2>1 DEF Set, MonitorTypeOK
  <2>5. Over(r.line)'
    BY <1>0, <1>1, <1>3, <2>2, <2>4 DEF Over
  <2>6. /\ mon[m].pc # "gone" /\ r.pc # "new" /\ reaped \subseteq reaped'
        /\ r.pc \in Mutating => mutation' = m
        /\ r.pc # "recheck" /\ pidfile' = r.line /\ ~ Serves(r)
        /\ mutation' = mutation /\ pidfile' = pidfile
    BY <1>0, <1>1, <1>3, <2>1, <2>2 DEF Serves, Mutating
  <2> QED
    BY <2>1, <2>3, <2>5, <2>6, MonitorMoves
<1>4. CASE compare(m)
  BY <1>4, <1>2, <1>3 DEF compare, locks
<1>5. CASE unlink(m)
  BY <1>5, <1>2 DEF unlink
<1> QED
  BY <1>4, <1>5

\* The last look for an old binary, with the pidfile in hand.
LEMMA PidfileRechecked ==
  ASSUME PidfileInv, NEW m \in Monitors, claimModernMonitorSafely(m)
  PROVE  PidfileInv'
<1>0. MonitorTypeOK /\ mutation = m /\ mon[m].pc = "recheck" /\ pidfile = m
  BY DEF PidfileInv, InTurn, claimModernMonitorSafely, Runs, Mutating
<1>1. PICK s \in {"gone", "beat"} :
        To(m, s) /\ (s = "beat" => pidfile' = pidfile) /\ (s = "gone" => pidfile' = None)
  BY <1>0 DEF claimModernMonitorSafely
<1>2. PICK r \in MonitorState : Set(m, r) /\ r.pc = s
  BY <1>1, <1>0, MovesOn DEF Places
<1>3. UNCHANGED <<ts, lo, now, cursor, said, reaped>> /\ mutation' = None
  BY <1>0 DEF claimModernMonitorSafely, file, ghosts, releaseMutation
<1>4. MonitorTypeOK'
  BY <1>0, <1>1, <1>2, <1>3, MovesTyped DEF MonitorTypeOK
<1> QED
  BY <1>0, <1>1, <1>2, <1>3, <1>4, MonitorMoves DEF Serves, Mutating

\* The bounds are numbers.
LEMMA Bounds ==
  /\ MaxLines \in Nat /\ MaxTime \in Nat /\ Skew \in Nat
  /\ ReplayCap \in Nat /\ DedupCap \in Nat \ {0} /\ Keep \in Nat \ {0}
  BY InboxAssumption

\* Subtraction stops at zero.
LEMMA MinusIsNat == ASSUME NEW a \in Nat, NEW b \in Nat PROVE Minus(a, b) \in Nat
  BY DEF Minus

\* A monitor that stays armed, or leaves for good, leaves the locks alone.
LEMMA ServesOn ==
  ASSUME PidfileInv, NEW m \in Monitors, NEW r \in MonitorState, Set(m, r), MonitorTypeOK',
         UNCHANGED <<mutation, pidfile, reaped>>, Serves(mon[m]),
         r.pc \in {"beat", "arm", "tail", "persist", "rmhb", "rmpid", "gone"}
  PROVE  PidfileInv'
<1>1. /\ mon[m].pc # "gone" /\ r.pc # "new" /\ r.pc \notin Mutating
  BY DEF Serves, Mutating
<1>2. m \notin reaped => pidfile = m
  BY DEF PidfileInv
<1> QED
  BY <1>1, <1>2, MonitorMoves DEF Mutating

\* The first heartbeat and the arming.
LEMMA PidfileArmed ==
  ASSUME PidfileInv, NEW m \in Monitors, Beat(m) \/ planArmReplay(m)
  PROVE  PidfileInv'
<1>0. MonitorTypeOK /\ mon[m] \in MonitorState /\ ts \in Seq(Nat) /\ Len(ts) \in Nat /\ lo \in Nat
  BY DEF PidfileInv, MonitorTypeOK
<1>1. CASE Beat(m) /\ To(m, "rmpid")
  <2>1. PICK r \in MonitorState : Set(m, r) /\ r.pc = "rmpid"
    BY <1>1, <1>0, MovesOn DEF Places
  <2>2. UNCHANGED <<ts, lo, now, cursor, said, mutation, pidfile, reaped>> /\ Serves(mon[m])
    BY <1>1 DEF Beat, file, locks, ghosts, Runs, Serves
  <2>3. MonitorTypeOK'
    BY <1>0, <2>1, <2>2, MovesTyped DEF MonitorTypeOK
  <2> QED
    BY <2>1, <2>2, <2>3, ServesOn
<1>2. CASE Beat(m) /\ ~ To(m, "rmpid")
  <2> DEFINE r == [mon[m] EXCEPT !.pc = "arm", !.att = 1, !.line = 0, !.arm = now,
                                 !.off = inboxSizeOf]
  <2>1. Set(m, r)
    BY <1>2 DEF Beat
  <2>2. inboxSizeOf \in Nat /\ now \in Nat
    BY <1>0 DEF MonitorTypeOK, inboxSizeOf
  <2>3. r \in MonitorState /\ r.pc = "arm"
    BY <1>0, <2>2 DEF MonitorState, Places
  <2> HIDE DEF r
  <2>4. UNCHANGED <<ts, lo, now, cursor, said, mutation, pidfile, reaped>> /\ Serves(mon[m])
    BY <1>2 DEF Beat, file, locks, ghosts, Runs, Serves
  <2>5. MonitorTypeOK'
    BY <1>0, <2>1, <2>3, <2>4, MovesTyped DEF MonitorTypeOK
  <2> QED
    BY <2>1, <2>3, <2>4, <2>5, ServesOn
<1>3. CASE planArmReplay(m)
  <2> DEFINE since == Minus(mon[m].arm, Skew)
             replay == IF cursor = None THEN {} ELSE Newest(Candidates(cursor), ReplayCap)
             start == IF cursor = None THEN since ELSE cursor.since
             r == [mon[m] EXCEPT !.pc = "tail", !.at = lo, !.pend = replay,
                                 !.hist = InFile \ replay, !.since = start]
  <2>1. Set(m, r)
    BY <1>3 DEF planArmReplay
  <2>2. since \in Nat
    BY <1>0, Bounds, MinusIsNat DEF MonitorState
  <2>3. start \in Nat
    BY <1>0, <2>2 DEF MonitorTypeOK
  <2>4. InFile \subseteq Nat /\ replay \subseteq InFile
    BY <1>0 DEF InFile, Newest, Candidates, AfterCursor
  <2> HIDE DEF since, replay, start
  <2>5. r \in MonitorState /\ r.pc = "tail"
    BY <1>0, <2>3, <2>4 DEF MonitorState, Places, Armed
  <2> HIDE DEF r
  <2>6. UNCHANGED <<ts, lo, now, said, mutation, pidfile, reaped>> /\ Serves(mon[m])
    BY <1>3 DEF planArmReplay, file, locks, Runs, Serves
  <2>7. cursor' = cursor \/ cursor' = [line |-> Len(ts), since |-> since]
    BY <1>3 DEF planArmReplay, since
  <2>8. cursor' \in [line : Nat \cup Monitors \cup {Old}, since : Nat] \cup {None}
    BY <2>7, <2>2, <1>0 DEF MonitorTypeOK
  <2>9. MonitorTypeOK'
    BY <1>0, <2>1, <2>5, <2>6, <2>8 DEF MonitorTypeOK, Set
  <2> QED
    BY <2>1, <2>5, <2>6, <2>9, ServesOn
<1> QED
  BY <1>1, <1>2, <1>3

\* What a monitor remembers stays bounded and typed.
LEMMA RememberTyped ==
  ASSUME NEW q \in Seq(Nat), NEW l \in Nat
  PROVE  /\ remember(q, l) \in Seq(Nat)
         /\ \A i \in 1 .. Len(remember(q, l)) :
               remember(q, l)[i] = l \/ \E j \in 1 .. Len(q) : remember(q, l)[i] = q[j]
<1> DEFINE all == Append(q, l)
<1>1. /\ all \in Seq(Nat) /\ Len(all) = Len(q) + 1 /\ Len(q) \in Nat
      /\ \A i \in 1 .. Len(all) : all[i] = IF i = Len(q) + 1 THEN l ELSE q[i]
  OBVIOUS
<1>2. \A i \in 1 .. Len(all) : all[i] = l \/ \E j \in 1 .. Len(q) : all[i] = q[j]
  BY <1>1
<1>3. CASE Len(all) > DedupCap
  <2>1. remember(q, l) = Tail(all)
    BY <1>3 DEF remember
  <2>2. /\ Tail(all) \in Seq(Nat) /\ Len(Tail(all)) = Len(q)
        /\ \A i \in 1 .. Len(Tail(all)) : Tail(all)[i] = all[i + 1] /\ i + 1 \in 1 .. Len(all)
    BY <1>1
  <2> HIDE DEF all
  <2> QED
    BY <2>1, <2>2, <1>2
<1>4. CASE ~ (Len(all) > DedupCap)
  <2>1. remember(q, l) = all
    BY <1>4 DEF remember
  <2> QED
    BY <2>1, <1>1, <1>2
<1> QED
  BY <1>3, <1>4

\* Serving: a line, its cursor, a tick.
LEMMA PidfileTailing ==
  ASSUME PidfileInv, NEW m \in Monitors, Tails(m)
  PROVE  PidfileInv'
<1>0. /\ MonitorTypeOK /\ mon[m] \in MonitorState /\ ts \in Seq(Nat) /\ Len(ts) \in Nat /\ lo \in Nat
      /\ inboxSizeOf \in Nat /\ mon[m].arm \in Nat /\ mon[m].since \in Nat /\ mon[m].seen \in Seq(Nat)
      /\ mon[m].at \in Nat /\ mon[m].off \in Nat /\ mon[m].pend \subseteq Nat
  <2>1. MonitorTypeOK /\ mon[m] \in MonitorState /\ ts \in Seq(Nat) /\ lo \in 1 .. Len(ts) + 1
    BY DEF PidfileInv, MonitorTypeOK
  <2>2. Len(ts) \in Nat
    BY <2>1
  <2>3. lo \in Nat /\ inboxSizeOf \in Nat
    BY <2>1, <2>2 DEF inboxSizeOf
  <2> QED
    BY <2>1, <2>2, <2>3 DEF MonitorState
<1>1. CASE handleStateRootLine(m)
  <2> DEFINE l == mon[m].at
  <2>1. PICK place \in {"tail", "persist"}, due \in Nat, seen \in Seq(Nat), emits \in BOOLEAN :
          /\ mon' = [mon EXCEPT ![m] = [mon[m] EXCEPT !.at = l + 1, !.off = inboxSizeOf, !.grew = FALSE,
                                                     !.pc = place, !.line = due, !.seen = seen]]
          /\ said' = IF emits THEN [said EXCEPT ![m] = Append(said[m], l)] ELSE said
    <3> DEFINE k == l \notin mon[m].pend /\ (l \in mon[m].hist \/ Remembers(mon[m].seen, l))
               e == ~ k /\ ~ Remembers(mon[m].seen, l)
                    /\ (l \in mon[m].pend \/ isInboxLineAtOrAfterArm(m, l))
               s == IF k \/ Remembers(mon[m].seen, l) THEN mon[m].seen ELSE remember(mon[m].seen, l)
               p == IF k THEN "tail" ELSE "persist"
               d == IF k THEN 0 ELSE l
    <3>1. s \in Seq(Nat) /\ d \in Nat
      BY <1>0, RememberTyped
    <3>2. e \in BOOLEAN /\ p \in {"tail", "persist"}
      OBVIOUS
    <3>3. /\ mon' = [mon EXCEPT ![m] = [mon[m] EXCEPT !.at = l + 1, !.off = inboxSizeOf, !.grew = FALSE,
                                                     !.pc = p, !.line = d, !.seen = s]]
          /\ said' = IF e THEN [said EXCEPT ![m] = Append(said[m], l)] ELSE said
      BY <1>1 DEF handleStateRootLine, Set
    <3> HIDE DEF e, s, p, d
    <3> QED
      BY <3>1, <3>2, <3>3
  <2> DEFINE r == [mon[m] EXCEPT !.at = l + 1, !.off = inboxSizeOf, !.grew = FALSE,
                                 !.pc = place, !.line = due, !.seen = seen]
  <2>7. l + 1 \in Nat
    BY <1>0
  <2>2. r \in MonitorState /\ r.pc \in {"tail", "persist"}
    <3> HIDE DEF l
    <3> QED
      BY <1>0, <2>7 DEF MonitorState, Places, Armed
  <2>3. Set(m, r)
    BY <2>1 DEF Set
  <2> HIDE DEF r
  <2>4. UNCHANGED <<ts, lo, now, cursor, mutation, pidfile, reaped>> /\ Serves(mon[m])
    BY <1>1 DEF handleStateRootLine, file, locks, Runs, Serves
  <2>5. said' \in [Monitors -> Seq(Nat)]
    <3>1. said[m] \in Seq(Nat)
      BY <1>0 DEF MonitorTypeOK
    <3>2. Append(said[m], l) \in Seq(Nat)
      BY <3>1, <1>0
    <3> QED
      BY <3>2, <2>1, <1>0 DEF MonitorTypeOK
  <2>6. MonitorTypeOK'
    BY <1>0, <2>2, <2>3, <2>4, <2>5 DEF MonitorTypeOK, Set
  <2> QED
    BY <2>2, <2>3, <2>4, <2>6, ServesOn
<1>2. CASE persistCursor(m)
  <2> DEFINE r == [mon[m] EXCEPT !.pc = "tail", !.line = 0, !.pend = mon[m].pend \ {mon[m].line}]
  <2>1. Set(m, r)
    BY <1>2 DEF persistCursor
  <2>2. r \in MonitorState /\ r.pc = "tail"
    BY <1>0 DEF MonitorState, Places, Armed
  <2> HIDE DEF r
  <2>3. UNCHANGED <<ts, lo, now, said, mutation, pidfile, reaped>> /\ Serves(mon[m])
    BY <1>2 DEF persistCursor, file, locks, Runs, Serves
  <2>4. handledSince(mon[m]) \in Nat
    BY <1>0, Bounds, MinusIsNat DEF handledSince
  <2>5. \/ cursor' \in {None, cursor}
        \/ cursor' = [line |-> mon[m].line, since |-> handledSince(mon[m])]
    BY <1>2 DEF persistCursor
  <2>6. mon[m].line \in Nat \cup Monitors \cup {Old}
    BY <1>0 DEF MonitorState
  <2>7. cursor' \in [line : Nat \cup Monitors \cup {Old}, since : Nat] \cup {None}
    BY <1>0, <2>4, <2>5, <2>6 DEF MonitorTypeOK
  <2>8. MonitorTypeOK'
    BY <1>0, <2>1, <2>2, <2>3, <2>7 DEF MonitorTypeOK, Set
  <2> QED
    BY <2>1, <2>2, <2>3, <2>8, ServesOn
<1>3. CASE evaluateInboxTailStall(m)
  <2>1. PICK off \in Nat, grew \in BOOLEAN, stalled \in BOOLEAN, at \in Nat :
          mon' = [mon EXCEPT ![m] = [mon[m] EXCEPT !.off = off, !.grew = grew,
                                                   !.stalled = stalled, !.at = at]]
    <3> DEFINE respawn == inboxSizeOf > mon[m].off /\ mon[m].grew /\ mon[m].stalled
               o == IF inboxSizeOf < mon[m].off THEN inboxSizeOf ELSE mon[m].off
               g == inboxSizeOf > mon[m].off /\ ~ respawn
               s == mon[m].stalled /\ ~ respawn
               a == IF respawn THEN lo + mon[m].off ELSE mon[m].at
    <3>1. o \in Nat /\ a \in Nat
      BY <1>0
    <3>2. g \in BOOLEAN /\ s \in BOOLEAN
      OBVIOUS
    <3>3. mon' = [mon EXCEPT ![m] = [mon[m] EXCEPT !.off = o, !.grew = g, !.stalled = s, !.at = a]]
      BY <1>3 DEF evaluateInboxTailStall, Set
    <3> HIDE DEF o, g, s, a
    <3> QED
      BY <3>1, <3>2, <3>3
  <2> DEFINE r == [mon[m] EXCEPT !.off = off, !.grew = grew, !.stalled = stalled, !.at = at]
  <2>2. r \in MonitorState /\ r.pc = "tail"
    BY <1>0, <1>3 DEF MonitorState, evaluateInboxTailStall, Runs
  <2>3. Set(m, r)
    BY <2>1 DEF Set
  <2> HIDE DEF r
  <2>4. UNCHANGED <<ts, lo, now, cursor, said, mutation, pidfile, reaped>> /\ Serves(mon[m])
    BY <1>3 DEF evaluateInboxTailStall, file, locks, Runs, Serves
  <2>5. MonitorTypeOK'
    BY <1>0, <2>2, <2>3, <2>4, MovesTyped DEF MonitorTypeOK
  <2> QED
    BY <2>2, <2>3, <2>4, <2>5, ServesOn
<1> QED
  BY <1>1, <1>2, <1>3 DEF Tails

\* Stopping, crashing, being stopped for a while and coming back.
LEMMA PidfileLeft ==
  ASSUME PidfileInv, NEW m \in Monitors, Stops(m) \/ MonitorFault(m) \/ Resumes(m)
  PROVE  PidfileInv'
<1>0. MonitorTypeOK /\ mon[m] \in MonitorState
  BY DEF PidfileInv, MonitorTypeOK
<1>1. CASE shutdown(m)
  <2>1. [Fresh EXCEPT !.pc = "rmhb"] \in MonitorState
    <3>1. Fresh.seen \in Seq(Nat)
      BY DEF Fresh
    <3> QED
      BY <3>1 DEF Fresh, MonitorState, Places
  <2>2. [Fresh EXCEPT !.pc = "rmhb"].pc = "rmhb"
    BY DEF Fresh
  <2>3. PICK r \in MonitorState : Set(m, r) /\ r.pc = "rmhb"
    BY <1>1, <2>1, <2>2 DEF shutdown
  <2>4. UNCHANGED <<ts, lo, now, cursor, said, mutation, pidfile, reaped>> /\ Serves(mon[m])
    BY <1>1 DEF shutdown, file, locks, ghosts, Runs, Serves
  <2>5. MonitorTypeOK'
    BY <1>0, <2>3, <2>4, MovesTyped DEF MonitorTypeOK
  <2> QED
    BY <2>3, <2>4, <2>5, ServesOn
<1>2. CASE removeHeartbeat(m)
  <2>1. PICK r \in MonitorState : Set(m, r) /\ r.pc = "rmpid"
    BY <1>0, <1>2, MovesOn DEF removeHeartbeat, Places
  <2>2. UNCHANGED <<ts, lo, now, cursor, said, mutation, pidfile, reaped>> /\ mon[m].pc = "rmhb"
    BY <1>2 DEF removeHeartbeat, file, locks, ghosts, Runs
  <2>3. MonitorTypeOK'
    BY <1>0, <2>1, <2>2, MovesTyped DEF MonitorTypeOK
  <2> QED
    BY <2>1, <2>2, <2>3, MonitorMoves DEF Serves, Mutating
<1>3. CASE releasePidfile(m)
  <2>1. PICK r \in MonitorState : Set(m, r) /\ r.pc = "gone"
    BY <1>0, <1>3, MovesOn DEF releasePidfile, Places
  <2>2. /\ UNCHANGED <<ts, lo, now, cursor, said, mutation, reaped>> /\ mon[m].pc = "rmpid"
        /\ pidfile' = pidfile \/ (mutation = None /\ pidfile = m /\ pidfile' = None)
    BY <1>3 DEF releasePidfile, claimMutation, file, ghosts, Runs
  <2>3. MonitorTypeOK'
    BY <1>0, <2>1, <2>2, MovesTyped DEF MonitorTypeOK
  <2> QED
    BY <2>1, <2>2, <2>3, MonitorMoves DEF Serves, Mutating
<1>4. CASE (MonitorFault(m) \/ Resumes(m)) /\ ~ To(m, "gone")
  <2>1. PICK w \in BOOLEAN, s \in BOOLEAN :
          mon' = [mon EXCEPT ![m] = [mon[m] EXCEPT !.wedged = w, !.stalled = s]]
    <3>1. mon[m].wedged \in BOOLEAN /\ mon[m].stalled \in BOOLEAN
      BY <1>0 DEF MonitorState
    <3>2. /\ [mon[m] EXCEPT !.wedged = TRUE] = [mon[m] EXCEPT !.wedged = TRUE, !.stalled = mon[m].stalled]
          /\ [mon[m] EXCEPT !.wedged = FALSE] = [mon[m] EXCEPT !.wedged = FALSE, !.stalled = mon[m].stalled]
          /\ [mon[m] EXCEPT !.stalled = TRUE] = [mon[m] EXCEPT !.wedged = mon[m].wedged, !.stalled = TRUE]
      BY <1>0 DEF MonitorState
    <3> QED
      BY <1>4, <3>1, <3>2 DEF MonitorFault, Resumes, Set
  <2> DEFINE r == [mon[m] EXCEPT !.wedged = w, !.stalled = s]
  <2>2. PICK q \in MonitorState : q = r
    BY <1>0 DEF MonitorState
  <2>3. q.pc = mon[m].pc /\ q.line = mon[m].line /\ Set(m, q)
    BY <1>0, <2>1, <2>2 DEF MonitorState, Set
  <2> HIDE DEF r
  <2>4. UNCHANGED <<ts, lo, now, cursor, said, mutation, pidfile, reaped>> /\ mon[m].pc \notin {"new", "gone"}
    BY <1>4 DEF MonitorFault, Resumes, file, locks, ghosts, Running
  <2>5. MonitorTypeOK'
    BY <1>0, <2>2, <2>3, <2>4, MovesTyped DEF MonitorTypeOK
  <2>6. InTurn(m, mon[m]) /\ (Serves(mon[m]) /\ m \notin reaped => pidfile = m)
        /\ (mon[m].pc \in {"compare", "unlink"} => Over(mon[m].line))
    BY DEF PidfileInv
  <2>7. \A h \in Monitors : mon'[h].pc = mon[h].pc
    BY <2>3, <1>0 DEF Set, MonitorTypeOK
  <2>8. q.pc \in {"compare", "unlink"} => Over(q.line)'
    BY <2>3, <2>4, <2>6, <2>7 DEF Over
  <2>9. Serves(q) => Serves(mon[m])
    BY <2>3 DEF Serves
  <2>10. /\ q.pc \in Mutating => mutation' = m
         /\ q.pc = "recheck" => pidfile' = m
         /\ q.pc = "unlink" => pidfile' = q.line
         /\ Serves(q) /\ m \notin reaped' => pidfile' = m
    BY <2>3, <2>4, <2>6, <2>9 DEF InTurn
  <2> QED
    BY <2>2, <2>3, <2>4, <2>5, <2>8, <2>10, MonitorMoves
<1>5. CASE MonitorFault(m) /\ To(m, "gone")
  <2>1. PICK r \in MonitorState : Set(m, r) /\ r.pc = "gone"
    BY <1>0, <1>5, MovesOn DEF Places
  <2>2. UNCHANGED <<ts, lo, now, cursor, said, mutation, pidfile, reaped>> /\ mon[m].pc # "gone"
    BY <1>5 DEF MonitorFault, file, locks, ghosts, Running
  <2>3. MonitorTypeOK'
    BY <1>0, <2>1, <2>2, MovesTyped DEF MonitorTypeOK
  <2> QED
    BY <2>1, <2>2, <2>3, MonitorMoves DEF Serves, Mutating
<1>6. CASE Resumes(m) /\ To(m, "gone")
  <2>1. PICK r \in MonitorState : Set(m, r) /\ r.pc = "gone"
    BY <1>0, <1>6, MovesOn DEF Places
  <2>2. UNCHANGED <<ts, lo, now, cursor, said, mutation, pidfile, reaped>> /\ mon[m].pc # "gone"
    BY <1>6 DEF Resumes, file, locks, ghosts, Running
  <2>3. MonitorTypeOK'
    BY <1>0, <2>1, <2>2, MovesTyped DEF MonitorTypeOK
  <2> QED
    BY <2>1, <2>2, <2>3, MonitorMoves DEF Serves, Mutating
<1> QED
  BY <1>1, <1>2, <1>3, <1>4, <1>5, <1>6 DEF Stops

\* The stream, the trim, the clock and an older binary leave locks and places.
LEMMA PidfileElsewhere ==
  ASSUME PidfileInv,
         \/ \E t \in Times : appendInboxLine(t)
         \/ trimInbox \/ TimePasses \/ HeartbeatAges \/ OldBinary
  PROVE  PidfileInv'
<1>0. /\ MonitorTypeOK /\ ts \in Seq(Nat) /\ Len(ts) \in Nat /\ lo \in 1 .. Len(ts) + 1
      /\ now \in Nat /\ lo \in Nat
  BY DEF PidfileInv, MonitorTypeOK
<1>1. ASSUME MonitorTypeOK', UNCHANGED <<mutation, pidfile, reaped>>,
             \A m \in Monitors : mon'[m].pc = mon[m].pc /\ mon'[m].line = mon[m].line
      PROVE  PidfileInv'
  <2>1. \A m \in Monitors : InTurn(m, mon[m])'
    BY <1>1 DEF PidfileInv, InTurn
  <2>3. \A m \in Monitors : mon'[m].pc \in {"compare", "unlink"} => Over(mon[m].line)'
    BY <1>1 DEF PidfileInv, Over
  <2>4. pidfile' \in Monitors => mon'[pidfile'].pc # "new"
    BY <1>1 DEF PidfileInv
  <2>5. \A m \in Monitors : Serves(mon'[m]) /\ m \notin reaped' => pidfile' = m
    BY <1>1 DEF PidfileInv, Serves
  <2> QED
    BY <1>1, <2>1, <2>3, <2>4, <2>5 DEF PidfileInv, InTurn, Serves
<1>2. ASSUME NEW t \in Times, appendInboxLine(t) PROVE PidfileInv'
  <2>1. t \in Nat
    BY Bounds DEF Times
  <2>2. ts' \in Seq(Nat) /\ Len(ts') = Len(ts) + 1
    BY <1>0, <1>2, <2>1 DEF appendInboxLine
  <2>3. UNCHANGED <<lo, now, mutation, pidfile, reaped, cursor, said, mon>>
    BY <1>2 DEF appendInboxLine, locks, ghosts
  <2>4. lo' \in 1 .. Len(ts') + 1
    BY <1>0, <2>2, <2>3
  <2>5. MonitorTypeOK'
    BY <1>0, <2>2, <2>3, <2>4 DEF MonitorTypeOK
  <2> QED
    BY <1>1, <2>3, <2>5
<1>3. CASE trimInbox
  <2> DEFINE first == Len(ts) + 1 - Keep
  <2>1. first \in 1 .. Len(ts) + 1
    BY <1>0, <1>3, Bounds DEF trimInbox, inboxSizeOf
  <2>2. UNCHANGED <<ts, now, mutation, pidfile, reaped, cursor, said>> /\ lo' = first
    BY <1>3 DEF trimInbox, locks
  <2>3. mon' = [m \in Monitors |-> [mon[m] EXCEPT !.at = IF mon[m].pc \in {"tail", "persist"}
                                                        THEN first ELSE @]]
    BY <1>3 DEF trimInbox
  <2>4. first \in Nat
    BY <2>1, <1>0
  <2> HIDE DEF first
  <2>5. \A m \in Monitors : mon'[m] \in MonitorState /\ mon'[m].pc = mon[m].pc /\ mon'[m].line = mon[m].line
    <3> TAKE m \in Monitors
    <3>1. mon[m] \in MonitorState /\ mon[m].at \in Nat
      BY <1>0 DEF MonitorTypeOK, MonitorState
    <3>2. PICK a \in Nat : mon'[m] = [mon[m] EXCEPT !.at = a]
      BY <2>3, <2>4, <3>1
    <3> QED
      BY <3>1, <3>2 DEF MonitorState
  <2>6. mon' \in [Monitors -> MonitorState]
    <3>1. DOMAIN mon' = Monitors /\ mon' = [m \in Monitors |-> mon'[m]]
      BY <2>3
    <3> QED
      BY <3>1, <2>5
  <2>7. MonitorTypeOK'
    BY <1>0, <2>1, <2>2, <2>6 DEF MonitorTypeOK
  <2> QED
    BY <1>1, <2>2, <2>5, <2>7
<1>4. CASE TimePasses
  <2>1. UNCHANGED <<ts, lo, mutation, pidfile, reaped, cursor, said, mon>> /\ now' \in Nat
    BY <1>0, <1>4 DEF TimePasses, locks, ghosts
  <2>2. MonitorTypeOK'
    BY <1>0, <2>1 DEF MonitorTypeOK
  <2> QED
    BY <1>1, <2>1, <2>2
<1>5. CASE HeartbeatAges \/ OldBinary
  <2>1. UNCHANGED <<ts, lo, now, mutation, pidfile, reaped, cursor, said, mon>>
    BY <1>5 DEF HeartbeatAges, OldBinary, file, locks, ghosts
  <2>2. MonitorTypeOK'
    BY <1>0, <2>1 DEF MonitorTypeOK
  <2> QED
    BY <1>1, <2>1, <2>2
<1> QED
  BY <1>2, <1>3, <1>4, <1>5

\* The pidfile's invariant: inductive.
LEMMA PidfileNext == PidfileInv /\ [MonitorNext]_monitorVars => PidfileInv'
<1> SUFFICES ASSUME PidfileInv, [MonitorNext]_monitorVars PROVE PidfileInv'
  OBVIOUS
<1>1. ASSUME NEW m \in Monitors, Starts(m) PROVE PidfileInv'
  BY <1>1, PidfileSetOut, PidfileClaimed, HolderJudged, PidfileRemoved, PidfileRechecked,
     PidfileArmed DEF Starts
<1>2. CASE UNCHANGED monitorVars
  BY <1>2 DEF monitorVars, PidfileInv, MonitorTypeOK, InTurn, Over, Serves
<1> QED
  BY <1>1, <1>2, PidfileTailing, PidfileLeft, PidfileElsewhere DEF MonitorNext

\* Two that serve without having been reaped would both be the pidfile's.
LEMMA ServingIsHolder == PidfileInv => OneMonitor
  BY DEF PidfileInv, OneMonitor, Serving, Serves

\* "Never double-tail" (inbox-monitor.ts): whatever monitors start, crash, wedge and
\* come back, two of them serve one inbox only when one of them lost its pidfile as
\* wedged.
THEOREM OnlyOneTails == MonitorSpec => []OneMonitor
<1>1. MonitorSpec => []PidfileInv
  BY PidfileStart, PidfileNext, PTL DEF MonitorSpec
<1> QED
  BY <1>1, ServingIsHolder, PTL

-----------------------------------------------------------------------------
(* No line is passed over.                                                 *)

\* The start has no line.
LEMMA LineStart == MonitorInit => LineInv
<1> SUFFICES ASSUME MonitorInit PROVE LineInv
  OBVIOUS
<1>1. ts = <<>> /\ Len(ts) = 0 /\ lo = 1 /\ owed = {}
  BY DEF MonitorInit
<1>2. \A m \in Monitors : mon[m].pc = "new" /\ mon[m].seen = <<>>
  BY DEF MonitorInit, Fresh
<1>3. FileOK /\ (\A l \in 1 .. lo - 1 : Announced(l))
  BY <1>1 DEF FileOK
<1>4. CursorOK
  BY <1>1 DEF CursorOK, MonitorInit
<1>5. \A m \in Monitors : Starting(mon[m]) /\ Passed(mon[m]) /\ Owes(mon[m])
  BY <1>2 DEF Starting, Passed, Owes, Armed
<1> QED
  BY <1>3, <1>4, <1>5 DEF LineInv

\* A step of one monitor that takes back no announcement.
LEMMA LineMoves ==
  ASSUME LineInv, MonitorTypeOK, NEW m \in Monitors, NEW r, Set(m, r),
         UNCHANGED <<ts, lo>>, reaped \subseteq reaped', owed' \subseteq 1 .. Len(ts),
         \A l : Announced(l) => Announced(l)',
         \A n \in Monitors : n # m /\ n \notin reaped' /\ mon[n].pc \in Armed => owed' = owed,
         CursorOK', Starting(r), Passed(r)', m \notin reaped' => Owes(r)'
  PROVE  LineInv'
<1>1. /\ mon'[m] = r
      /\ \A n \in Monitors : n # m => mon'[n] = mon[n]
  BY DEF Set, MonitorTypeOK
<1>2. FileOK' /\ (\A l \in 1 .. lo - 1 : Announced(l))'
  BY DEF LineInv, FileOK
<1>3. ASSUME NEW n \in Monitors
      PROVE  /\ (Starting(mon[n]) /\ Passed(mon[n]))'
             /\ n \notin reaped' => Owes(mon[n])'
  <2>1. CASE n = m
    BY <2>1, <1>1 DEF Starting, Passed, Owes
  <2>2. CASE n # m
    <3>1. mon'[n] = mon[n] /\ Starting(mon[n]) /\ Passed(mon[n])
          /\ (n \notin reaped' => n \notin reaped /\ Owes(mon[n]))
      BY <2>2, <1>1 DEF LineInv
    <3>2. Starting(mon[n])'
      BY <3>1 DEF Starting
    <3>3. Passed(mon[n])'
      BY <3>1 DEF Passed
    <3>4. n \notin reaped' => Owes(mon[n])'
      BY <3>1, <2>2 DEF Owes
    <3> QED
      BY <3>2, <3>3, <3>4
  <2> QED
    BY <2>1, <2>2
<1> QED
  BY <1>2, <1>3 DEF LineInv

\* A step of a monitor that is not tailing says and files nothing.
LEMMA LineQuiet ==
  ASSUME LineInv, MonitorTypeOK, NEW m \in Monitors, NEW r, Set(m, r),
         UNCHANGED <<ts, lo, cursor, said, excused, owed>>, reaped \subseteq reaped',
         r.pc \notin Armed, Starting(r)
  PROVE  LineInv'
<1>1. \A l : Announced(l) => Announced(l)'
  BY DEF Announced, Said
<1>2. CursorOK'
  BY <1>1 DEF LineInv, CursorOK
<1>3. Passed(r)' /\ Owes(r)'
  BY DEF Passed, Owes
<1>4. owed' \subseteq 1 .. Len(ts)
  BY DEF LineInv, FileOK
<1> QED
  BY <1>1, <1>2, <1>3, <1>4, LineMoves

\* So does one that only changes its place, or dies.
LEMMA LineQuietMove ==
  ASSUME LineInv, MonitorTypeOK, NEW m \in Monitors,
         NEW s \in Places \ {"arm", "tail", "persist"}, To(m, s),
         mon[m].pc \notin Armed \/ s = "gone",
         UNCHANGED <<ts, lo, cursor, said, excused, owed>>, reaped \subseteq reaped'
  PROVE  LineInv'
<1>0. mon[m] \in MonitorState
  BY DEF MonitorTypeOK
<1>1. PICK r \in MonitorState :
        /\ Set(m, r) /\ r.pc = s
        /\ s # "gone" => r = [mon[m] EXCEPT !.pc = s]
        /\ s = "gone" => r = [Fresh EXCEPT !.pc = s]
  BY MovesOn
<1>2. s = "gone" => r.seen = <<>>
  BY <1>1 DEF Fresh
<1>3. s # "gone" => r.seen = mon[m].seen /\ mon[m].seen = <<>>
  BY <1>0, <1>1 DEF MonitorState, LineInv, Starting
<1> QED
  BY <1>1, <1>2, <1>3, LineQuiet DEF Starting, Armed

\* Becoming the monitor, and the first heartbeat.
LEMMA LineStarting ==
  ASSUME LineInv, PidfileInv, NEW m \in Monitors, Starts(m), ~ planArmReplay(m)
  PROVE  LineInv'
<1>0. MonitorTypeOK /\ mon[m] \in MonitorState
  BY DEF PidfileInv, MonitorTypeOK
<1>1. CASE ensureMonitorStateDir(m)
  <2>1. PICK s \in {"gone", "mutate"} : To(m, s)
    BY <1>1 DEF ensureMonitorStateDir
  <2>2. UNCHANGED <<ts, lo, cursor, said, excused, owed, reaped>> /\ mon[m].pc \notin Armed
    BY <1>1 DEF ensureMonitorStateDir, Runs, file, ghosts, Armed
  <2> QED
    BY <1>0, <2>1, <2>2, LineQuietMove DEF Places
<1>2. CASE legacyMonitorArtifactState(m)
  <2>1. PICK s \in {"gone", "claim"} : To(m, s)
    BY <1>2 DEF legacyMonitorArtifactState
  <2>2. UNCHANGED <<ts, lo, cursor, said, excused, owed, reaped>> /\ mon[m].pc \notin Armed
    BY <1>2 DEF legacyMonitorArtifactState, Runs, file, ghosts, Armed
  <2> QED
    BY <1>0, <2>1, <2>2, LineQuietMove DEF Places, Mutating
<1>3. CASE claim(m)
  <2>1. PICK s \in {"gone", "recheck", "read"} : To(m, s)
    BY <1>3 DEF claim
  <2>2. UNCHANGED <<ts, lo, cursor, said, excused, owed, reaped>> /\ mon[m].pc \notin Armed
    BY <1>3 DEF claim, Runs, file, ghosts, Armed
  <2> QED
    BY <1>0, <2>1, <2>2, LineQuietMove DEF Places, Mutating
<1>4. ASSUME readHolder(m) \/ compare(m) \/ unlink(m) PROVE LineInv'
  <2>1. UNCHANGED <<ts, lo, cursor, said, excused, owed>> /\ reaped \subseteq reaped'
        /\ mon[m].pc \notin Armed
    BY <1>4 DEF readHolder, compare, unlink, Runs, file, ghosts, Armed
  <2>2. mon[m].seen = <<>>
    BY <2>1 DEF LineInv, Starting
  <2>3. CASE Set(m, [mon[m] EXCEPT !.pc = "claim", !.att = @ + 1])
    <3> DEFINE r == [mon[m] EXCEPT !.pc = "claim", !.att = @ + 1]
    <3>1. r.pc = "claim" /\ r.seen = <<>>
      BY <1>0, <2>2 DEF MonitorState
    <3>2. Set(m, r)
      BY <2>3
    <3> HIDE DEF r
    <3> QED
      BY <1>0, <2>1, <3>1, <3>2, LineQuiet DEF Starting, Armed
  <2>4. CASE Set(m, [mon[m] EXCEPT !.pc = "compare", !.line = pidfile])
    <3> DEFINE r == [mon[m] EXCEPT !.pc = "compare", !.line = pidfile]
    <3>1. r.pc = "compare" /\ r.seen = <<>>
      BY <1>0, <2>2 DEF MonitorState
    <3>2. Set(m, r)
      BY <2>4
    <3> HIDE DEF r
    <3> QED
      BY <1>0, <2>1, <3>1, <3>2, LineQuiet DEF Starting, Armed
  <2>5. CASE \E s \in {"gone", "unlink"} : To(m, s)
    BY <2>5, <1>0, <2>1, LineQuietMove DEF Places, Mutating
  <2> QED
    BY <1>4, <2>3, <2>4, <2>5 DEF readHolder, compare, unlink
<1>5. CASE claimModernMonitorSafely(m)
  <2>1. PICK s \in {"gone", "beat"} : To(m, s)
    BY <1>5 DEF claimModernMonitorSafely
  <2>2. UNCHANGED <<ts, lo, cursor, said, excused, owed, reaped>> /\ mon[m].pc \notin Armed
    BY <1>5 DEF claimModernMonitorSafely, Runs, file, ghosts, Armed
  <2> QED
    BY <1>0, <2>1, <2>2, LineQuietMove DEF Places
<1>6. CASE Beat(m)
  <2>1. UNCHANGED <<ts, lo, cursor, said, excused, owed, reaped>> /\ mon[m].pc \notin Armed
    BY <1>6 DEF Beat, Runs, file, ghosts, Armed
  <2>2. mon[m].seen = <<>>
    BY <2>1 DEF LineInv, Starting
  <2>3. CASE To(m, "rmpid")
    BY <1>0, <2>1, <2>3, LineQuietMove DEF Places
  <2>4. CASE ~ To(m, "rmpid")
    <3> DEFINE r == [mon[m] EXCEPT !.pc = "arm", !.att = 1, !.line = 0, !.arm = now,
                                   !.off = inboxSizeOf]
    <3>1. r.pc = "arm" /\ r.seen = <<>> /\ r.line = 0
      BY <1>0, <2>2 DEF MonitorState
    <3>2. Set(m, r)
      BY <1>6, <2>4 DEF Beat
    <3> HIDE DEF r
    <3> QED
      BY <1>0, <2>1, <3>1, <3>2, LineQuiet DEF Starting, Armed
  <2> QED
    BY <2>3, <2>4
<1> QED
  BY <1>1, <1>2, <1>3, <1>4, <1>5, <1>6 DEF Starts

\* Stopping, crashing, and being away for a while.
LEMMA LineLeft ==
  ASSUME LineInv, PidfileInv, NEW m \in Monitors, Stops(m) \/ MonitorFault(m) \/ Resumes(m)
  PROVE  LineInv'
<1>0. MonitorTypeOK /\ mon[m] \in MonitorState
  BY DEF PidfileInv, MonitorTypeOK
<1>1. UNCHANGED <<ts, lo, cursor, said, excused, owed, reaped>>
  BY DEF Stops, shutdown, removeHeartbeat, releasePidfile, MonitorFault, Resumes, file, ghosts
<1>2. CASE To(m, "gone")
  BY <1>0, <1>1, <1>2, LineQuietMove DEF Places
<1>3. CASE shutdown(m)
  <2> DEFINE r == [Fresh EXCEPT !.pc = "rmhb"]
  <2>1. r.pc = "rmhb" /\ r.seen = <<>>
    BY DEF Fresh
  <2>2. Set(m, r)
    BY <1>3 DEF shutdown
  <2> HIDE DEF r
  <2> QED
    BY <1>0, <1>1, <2>1, <2>2, LineQuiet DEF Starting, Armed
<1>4. CASE removeHeartbeat(m)
  BY <1>0, <1>1, <1>4, LineQuietMove DEF removeHeartbeat, Runs, Armed, Places
<1>5. CASE (MonitorFault(m) \/ Resumes(m)) /\ ~ To(m, "gone")
  <2>1. PICK q : /\ Set(m, q)
                 /\ q.pc = mon[m].pc /\ q.line = mon[m].line /\ q.seen = mon[m].seen /\ q.at = mon[m].at
                 /\ q.hist = mon[m].hist /\ q.pend = mon[m].pend /\ q.since = mon[m].since
                 /\ q.arm = mon[m].arm
    <3>1. PICK q \in {[mon[m] EXCEPT !.wedged = TRUE], [mon[m] EXCEPT !.wedged = FALSE],
                      [mon[m] EXCEPT !.stalled = TRUE]} : Set(m, q)
      BY <1>5 DEF MonitorFault, Resumes
    <3> QED
      BY <1>0, <3>1 DEF MonitorState
  <2>2. /\ \A l : Announced(l) => Announced(l)'
        /\ owed' \subseteq 1 .. Len(ts)
    BY <1>1 DEF Announced, Said, LineInv, FileOK
  <2>3. CursorOK'
    BY <1>1, <2>2 DEF LineInv, CursorOK
  <2>4. Starting(q) /\ Passed(q)'
    BY <1>1, <2>1, <2>2 DEF LineInv, Starting, Passed
  <2>5. m \notin reaped' => Owes(q)'
    BY <1>1, <2>1, <2>2 DEF LineInv, Owes
  <2> QED
    BY <1>0, <1>1, <2>1, <2>2, <2>3, <2>4, <2>5, LineMoves
<1>6. CASE releasePidfile(m)
  BY <1>2, <1>6 DEF releasePidfile
<1> QED
  BY <1>2, <1>3, <1>4, <1>5, <1>6 DEF Stops

\* Arming: what is not replayed is behind the cursor, counted, or excused; only a
\* monitor that holds the pidfile adds to what is owed.
LEMMA LineArmed ==
  ASSUME LineInv, PidfileInv, NEW m \in Monitors, planArmReplay(m)
  PROVE  LineInv'
<1>0. /\ MonitorTypeOK /\ mon[m] \in MonitorState /\ ts \in Seq(Nat) /\ Len(ts) \in Nat
      /\ lo \in 1 .. Len(ts) + 1 /\ lo \in Nat /\ mon[m].pc = "arm"
  BY DEF PidfileInv, MonitorTypeOK, planArmReplay, Runs
<1> DEFINE since == Minus(mon[m].arm, Skew)
           replay == IF cursor = None THEN {} ELSE Newest(Candidates(cursor), ReplayCap)
           skipped == IF cursor = None THEN InFile ELSE Candidates(cursor) \ replay
           start == IF cursor = None THEN since ELSE cursor.since
<1>1. PICK r : r = [mon[m] EXCEPT !.pc = "tail", !.at = lo, !.pend = replay,
                                  !.hist = InFile \ replay, !.since = start]
  OBVIOUS
<1>2. /\ Set(m, r)
      /\ cursor' = IF cursor = None THEN [line |-> Len(ts), since |-> since] ELSE cursor
      /\ excused' = excused \cup skipped
                    \cup {l \in InFile \ owed : cursor # None /\ ts[l] < cursor.since}
      /\ owed' = IF m \in reaped THEN owed ELSE owed \cup replay
      /\ UNCHANGED <<ts, lo, said, reaped>>
  BY <1>1 DEF planArmReplay, file
<1>3. replay \subseteq InFile /\ replay \cap skipped = {}
      /\ (cursor # None => replay \cup skipped = Candidates(cursor))
  BY DEF Newest, Candidates, AfterCursor
<1>4. InFile \subseteq 1 .. Len(ts) /\ \A l \in InFile : l \in Nat /\ lo <= l
  BY <1>0 DEF InFile
<1>5. \A l \in replay : cursor # None /\ ~ (ts[l] < cursor.since)
  <2> TAKE l \in replay
  <2>1. l \in Candidates(cursor) /\ cursor # None /\ l \in 1 .. Len(ts)
    BY <1>3, <1>4
  <2>2. ts[l] \in Nat /\ cursor.since \in Nat /\ ts[l] >= cursor.since
    BY <1>0, <2>1 DEF Candidates, MonitorTypeOK
  <2> QED
    BY <2>1, <2>2
<1> HIDE DEF since, replay, skipped, start
<1>6. \A l : Announced(l) => Announced(l)'
  BY <1>2 DEF Announced, Said
\* What is not replayed.
<1>7. \A l \in InFile \ replay : Announced(l)'
  <2> TAKE l \in InFile \ replay
  <2>1. CASE l \in skipped
    BY <2>1, <1>2 DEF Announced
  <2>2. CASE l \notin skipped
    <3>1. cursor # None /\ l \notin Candidates(cursor)
      BY <2>2, <1>3 DEF skipped
    <3>2. /\ cursor.line \in 0 .. Len(ts) /\ cursor.since \in Nat
          /\ \A k \in 1 .. cursor.line : Announced(k)
          /\ \A k \in owed : ts[k] < cursor.since => Announced(k)
      BY <3>1, <1>0 DEF LineInv, CursorOK, MonitorTypeOK
    <3>3. l \in 1 .. Len(ts) /\ l \in Nat /\ ts[l] \in Nat /\ lo <= l
      BY <1>0, <1>4
    <3>4. CASE l \in AfterCursor(cursor)
      <4>1. ts[l] < cursor.since
        BY <3>1, <3>2, <3>3, <3>4 DEF Candidates
      <4> QED
        BY <4>1, <3>1, <3>2, <1>2, <1>6 DEF Announced
    <3>5. CASE l \notin AfterCursor(cursor)
      <4>1. CASE cursor.line = 0 \/ cursor.line \in InFile
        <5>1. ~ (l > cursor.line)
          BY <4>1, <3>5 DEF AfterCursor
        <5>2. l \in 1 .. cursor.line
          BY <5>1, <3>2, <3>3
        <5> QED
          BY <5>2, <3>2, <1>6
      <4>2. CASE ~ (cursor.line = 0 \/ cursor.line \in InFile)
        <5>1. ~ (ts[l] >= ts[cursor.line])
          BY <4>2, <3>5 DEF AfterCursor
        <5>2. cursor.line \in 1 .. Len(ts) /\ cursor.line < lo
          BY <4>2, <3>2, <1>0 DEF InFile
        <5>3. cursor.line <= l
          BY <5>2, <3>3, <1>0
        <5>4. ts[cursor.line] <= ts[l] /\ ts[cursor.line] \in Nat
          BY <5>2, <5>3, <3>3, <1>0 DEF LineInv, FileOK
        <5> QED
          BY <5>1, <5>4, <3>3
      <4> QED
        BY <4>1, <4>2
    <3> QED
      BY <3>4, <3>5
  <2> QED
    BY <2>1, <2>2
<1>8. \A l \in 1 .. lo - 1 : Announced(l)'
  BY <1>6 DEF LineInv
<1>9. \A l \in 1 .. Len(ts) : l \notin replay => Announced(l)'
  <2> TAKE l \in 1 .. Len(ts)
  <2>1. CASE l \in InFile
    BY <2>1, <1>7
  <2>2. CASE l \notin InFile
    <3>1. l \in 1 .. lo - 1
      BY <2>2, <1>0 DEF InFile
    <3> QED
      BY <3>1, <1>8
  <2> QED
    BY <2>1, <2>2
<1>10. owed' \subseteq 1 .. Len(ts) /\ owed' \subseteq owed \cup replay
  BY <1>2, <1>3, <1>4 DEF LineInv, FileOK
<1>11. CursorOK'
  <2>1. CASE cursor = None
    <3>1. replay = {}
      BY <2>1, <1>5
    <3>2. cursor' = [line |-> Len(ts), since |-> since]
      BY <2>1, <1>2
    <3>3. cursor'.line = Len(ts)
      BY <3>2
    <3>4. \A l \in 1 .. Len(ts) : Announced(l)'
      BY <1>9, <3>1
    <3>5. Len(ts) \in 0 .. Len(ts)
      BY <1>0
    <3> QED
      BY <3>3, <3>4, <3>5, <1>2, <1>10 DEF CursorOK
  <2>2. CASE cursor # None
    <3>1. cursor' = cursor /\ CursorOK
      BY <2>2, <1>2 DEF LineInv
    <3>2. \A l \in owed' : ts[l] < cursor.since => Announced(l)'
      BY <2>2, <3>1, <1>5, <1>6, <1>10 DEF CursorOK
    <3> QED
      BY <2>2, <3>1, <3>2, <1>2, <1>6 DEF CursorOK
  <2> QED
    BY <2>1, <2>2
<1>12. /\ r.pc = "tail" /\ r.at = lo /\ r.line = mon[m].line /\ r.seen = mon[m].seen
       /\ r.pend = replay /\ r.hist = InFile \ replay /\ r.since = start /\ r.arm = mon[m].arm
  BY <1>0, <1>1 DEF MonitorState
<1>13. r.line = 0 /\ r.seen = <<>>
  BY <1>0, <1>12 DEF LineInv, Starting, Armed
<1>14. Starting(r) /\ Passed(r)'
  <2>1. r.line \in 0 .. Len(ts) /\ 1 .. r.line = {} /\ Len(r.seen) = 0
    BY <1>0, <1>13
  <2> QED
    BY <1>0, <1>2, <1>7, <1>8, <1>12, <1>13, <2>1 DEF Starting, Passed, Armed
<1>15. m \notin reaped' => Owes(r)'
  <2>1. \A l \in owed' : ts[l] < start => Announced(l)'
    <3>1. CASE cursor = None
      BY <3>1, <1>5, <1>9, <1>10
    <3>2. CASE cursor # None
      BY <3>2, <1>5, <1>6, <1>10 DEF start, LineInv, CursorOK
    <3> QED
      BY <3>1, <3>2
  <2>2. \A l \in owed' : Announced(l)' \/ l \in replay
    BY <1>9, <1>10
  <2> QED
    BY <1>2, <1>12, <2>1, <2>2 DEF Owes
<1>16. ASSUME NEW n \in Monitors, n # m, n \notin reaped', mon[n].pc \in Armed PROVE owed' = owed
  <2>1. pidfile = n
    BY <1>16, <1>2 DEF PidfileInv, Serves, Armed
  <2>2. m \notin reaped => pidfile = m
    BY <1>0 DEF PidfileInv, Serves
  <2> QED
    BY <2>1, <2>2, <1>2, <1>16
<1> QED
  BY <1>0, <1>2, <1>6, <1>10, <1>11, <1>14, <1>15, <1>16, LineMoves

\* A tailed line is known, emitted or excused before the tail is past it.
LEMMA LineTailed ==
  ASSUME LineInv, PidfileInv, NEW m \in Monitors, handleStateRootLine(m)
  PROVE  LineInv'
<1>0. /\ MonitorTypeOK /\ mon[m] \in MonitorState /\ ts \in Seq(Nat) /\ Len(ts) \in Nat
      /\ mon[m].pc = "tail" /\ mon[m].seen \in Seq(Nat) /\ mon[m].at \in Nat
      /\ said[m] \in Seq(Nat) /\ mon[m].at <= Len(ts)
  <2>1. MonitorTypeOK /\ mon[m] \in MonitorState /\ ts \in Seq(Nat) /\ said[m] \in Seq(Nat)
    BY DEF PidfileInv, MonitorTypeOK
  <2>2. mon[m].pc = "tail" /\ mon[m].at <= Len(ts)
    BY DEF handleStateRootLine, Runs
  <2> QED
    BY <2>1, <2>2 DEF MonitorState
<1> PICK l \in Nat : l = mon[m].at
  BY <1>0
<1> DEFINE known == l \notin mon[m].pend /\ (l \in mon[m].hist \/ Remembers(mon[m].seen, l))
           emits == ~ known /\ ~ Remembers(mon[m].seen, l)
                    /\ (l \in mon[m].pend \/ isInboxLineAtOrAfterArm(m, l))
           seen == IF known \/ Remembers(mon[m].seen, l) THEN mon[m].seen
                   ELSE remember(mon[m].seen, l)
           place == IF known THEN "tail" ELSE "persist"
           due == IF known THEN 0 ELSE l
<1>1. PICK r : r = [mon[m] EXCEPT !.at = l + 1, !.off = inboxSizeOf, !.grew = FALSE,
                                  !.pc = place, !.line = due, !.seen = seen]
  OBVIOUS
<1>2. /\ Set(m, r)
      /\ said' = IF emits THEN [said EXCEPT ![m] = Append(said[m], l)] ELSE said
      /\ excused' = IF known \/ emits THEN excused ELSE excused \cup {l}
      /\ UNCHANGED <<ts, lo, cursor, owed, reaped>>
  BY <1>1 DEF handleStateRootLine, file
<1>3. Passed(mon[m]) /\ Starting(mon[m])
  BY DEF LineInv
<1>4. /\ l \in 1 .. Len(ts)
      /\ \A k \in 1 .. l - 1 : Announced(k)
      /\ \A k \in mon[m].hist : Announced(k)
      /\ \A i \in 1 .. Len(mon[m].seen) : Announced(mon[m].seen[i])
  BY <1>0, <1>3 DEF Passed, Armed
<1>5. \A k : Announced(k) => Announced(k)'
  <2>1. excused \subseteq excused'
    BY <1>2
  <2>2. \A n \in Monitors : Said(n) \subseteq Said(n)'
    <3> TAKE n \in Monitors
    <3>0. said[n] \in Seq(Nat) /\ said \in [Monitors -> Seq(Nat)]
      BY <1>0 DEF MonitorTypeOK
    <3>1. said'[n] = said[n] \/ said'[n] = Append(said[n], l)
      BY <1>2, <3>0
    <3>2. Len(said[n]) \in Nat /\ Len(Append(said[n], l)) = Len(said[n]) + 1
          /\ \A i \in 1 .. Len(said[n]) : Append(said[n], l)[i] = said[n][i]
      BY <3>0
    <3>3. /\ 1 .. Len(said[n]) \subseteq 1 .. Len(said'[n])
          /\ \A i \in 1 .. Len(said[n]) : said'[n][i] = said[n][i]
      BY <3>1, <3>2
    <3>4. \A k \in Said(n) : \E i \in 1 .. Len(said'[n]) : said'[n][i] = k
      BY <3>3 DEF Said
    <3> QED
      BY <3>4 DEF Said
  <2> QED
    BY <2>1, <2>2 DEF Announced
<1>6. known => Announced(l)'
  BY <1>4, <1>5 DEF Remembers
<1>7. emits => Announced(l)'
  <2> SUFFICES ASSUME emits PROVE Announced(l)'
    OBVIOUS
  <2>1. said'[m] = Append(said[m], l)
    BY <1>0, <1>2 DEF MonitorTypeOK
  <2>2. Len(said[m]) \in Nat /\ Len(Append(said[m], l)) = Len(said[m]) + 1
        /\ Append(said[m], l)[Len(said[m]) + 1] = l
    BY <1>0
  <2>3. \E i \in 1 .. Len(said'[m]) : said'[m][i] = l
    BY <2>1, <2>2
  <2> QED
    BY <2>3 DEF Announced, Said
<1>8. Announced(l)'
  BY <1>2, <1>6, <1>7 DEF Announced
<1>9. seen \in Seq(Nat) /\ \A i \in 1 .. Len(seen) : seen[i] = l \/ \E j \in 1 .. Len(mon[m].seen) : seen[i] = mon[m].seen[j]
  <2>1. CASE known \/ Remembers(mon[m].seen, l)
    <3>1. seen = mon[m].seen
      BY <2>1
    <3> HIDE DEF seen
    <3> QED
      BY <3>1, <1>0
  <2>2. CASE ~ (known \/ Remembers(mon[m].seen, l))
    <3>1. seen = remember(mon[m].seen, l)
      BY <2>2
    <3> HIDE DEF seen
    <3> QED
      BY <3>1, <1>0, RememberTyped
  <2> QED
    BY <2>1, <2>2
<1>10. PICK q : q = seen
  OBVIOUS
<1> HIDE DEF known, emits, seen
<1>11. /\ r.pc \in Armed /\ r.at = l + 1 /\ r.line \in {0, l} /\ r.seen = q
       /\ r.hist = mon[m].hist /\ r.pend = mon[m].pend /\ r.since = mon[m].since /\ r.arm = mon[m].arm
  BY <1>0, <1>1, <1>10 DEF MonitorState, Armed
<1>12. \A i \in 1 .. Len(q) : Announced(q[i])'
  BY <1>4, <1>5, <1>8, <1>9, <1>10
<1>13. \A k \in 1 .. l : Announced(k)'
  <2> TAKE k \in 1 .. l
  <2>1. k = l \/ k \in 1 .. l - 1
    OBVIOUS
  <2> QED
    BY <2>1, <1>4, <1>5, <1>8
<1>14. Passed(r)'
  <2>1. r.at \in 1 .. Len(ts) + 1 /\ r.line \in 0 .. Len(ts) /\ r.at - 1 = l /\ 1 .. r.line \subseteq 1 .. l
    <3>1. l \in 1 .. Len(ts) /\ Len(ts) \in Nat /\ r.at = l + 1 /\ (r.line = 0 \/ r.line = l)
      BY <1>0, <1>4, <1>11
    <3>2. r.line \in 0 .. Len(ts) /\ 1 .. r.line \subseteq 1 .. l
      BY <3>1
    <3> QED
      BY <3>1, <3>2
  <2> QED
    BY <1>2, <1>4, <1>5, <1>11, <1>12, <1>13, <2>1 DEF Passed
<1>15. Starting(r)
  BY <1>11 DEF Starting, Armed
<1>16. CursorOK'
  BY <1>2, <1>5 DEF LineInv, CursorOK
<1>17. m \notin reaped' => Owes(r)'
  BY <1>0, <1>2, <1>5, <1>11 DEF LineInv, Owes, Armed
<1>18. owed' \subseteq 1 .. Len(ts)
  BY <1>2 DEF LineInv, FileOK
<1> QED
  BY <1>0, <1>2, <1>5, <1>14, <1>15, <1>16, <1>17, <1>18, LineMoves

\* The cursor moves to a line that was emitted, with a boundary that leaves out
\* only what was announced; the boundary of a reaped monitor is excused.
LEMMA LineFiled ==
  ASSUME LineInv, PidfileInv, NEW m \in Monitors, persistCursor(m)
  PROVE  LineInv'
<1>0. /\ MonitorTypeOK /\ mon[m] \in MonitorState /\ ts \in Seq(Nat) /\ Len(ts) \in Nat
      /\ mon[m].pc = "persist" /\ lo \in 1 .. Len(ts) + 1 /\ lo \in Nat
  BY DEF PidfileInv, MonitorTypeOK, persistCursor, Runs
<1>1. PICK r : r = [mon[m] EXCEPT !.pc = "tail", !.line = 0, !.pend = mon[m].pend \ {mon[m].line}]
  OBVIOUS
<1>2. PICK line, since : line = mon[m].line /\ since = handledSince(mon[m])
  OBVIOUS
<1> DEFINE Written ==
        /\ cursor' = [line |-> line, since |-> since]
        /\ excused' = IF m \in reaped THEN excused \cup {l \in InFile : ts[l] < since} ELSE excused
<1>3. /\ Set(m, r)
      /\ \/ cursor' \in {None, cursor} /\ UNCHANGED excused
         \/ Written
      /\ UNCHANGED <<ts, lo, said, owed, reaped>>
  BY <1>1, <1>2 DEF persistCursor, file
<1>4. Passed(mon[m]) /\ (m \notin reaped => Owes(mon[m]))
  BY DEF LineInv
<1>5. \A l : Announced(l) => Announced(l)'
  BY <1>3 DEF Announced, Said
<1>6. line \in 0 .. Len(ts) /\ \A l \in 1 .. line : Announced(l)
  BY <1>0, <1>2, <1>4 DEF Passed, Armed
<1>7. \A l \in owed : l \in 1 .. Len(ts) /\ (l < lo => Announced(l))
  <2> TAKE l \in owed
  <2>1. l \in 1 .. Len(ts)
    BY DEF LineInv, FileOK
  <2>2. l < lo => l \in 1 .. lo - 1
    BY <1>0, <2>1
  <2> QED
    BY <2>1, <2>2 DEF LineInv
<1>8. Written => \A l \in owed : ts[l] < since => Announced(l)'
  <2> HAVE Written
  <2> TAKE l \in owed
  <2> SUFFICES ASSUME ts[l] < since PROVE Announced(l)'
    OBVIOUS
  <2>1. CASE m \in reaped
    <3>1. CASE l < lo
      BY <3>1, <1>5, <1>7
    <3>2. CASE ~ (l < lo)
      <4>1. l \in InFile
        BY <3>2, <1>0, <1>7 DEF InFile
      <4> QED
        BY <4>1, <2>1, <1>3 DEF Announced
    <3> QED
      BY <3>1, <3>2
  <2>2. CASE m \notin reaped /\ mon[m].pend \ {line} # {}
    <3>1. since = mon[m].since
      BY <2>2, <1>2 DEF handledSince
    <3> QED
      BY <3>1, <2>2, <1>0, <1>4, <1>5 DEF Owes, Armed
  <2>3. CASE m \notin reaped /\ mon[m].pend \ {line} = {}
    <3>1. since = Minus(mon[m].arm, Skew)
      BY <2>3, <1>2 DEF handledSince
    <3>2. Announced(l) \/ l \in mon[m].pend
      BY <3>1, <2>3, <1>0, <1>4 DEF Owes, Armed
    <3>3. l \in mon[m].pend => l = line /\ l \in 1 .. line
      BY <2>3, <1>6, <1>7
    <3> QED
      BY <3>2, <3>3, <1>5, <1>6
  <2> QED
    BY <2>1, <2>2, <2>3
<1>9. CursorOK'
  <2>1. CASE cursor' \in {None, cursor}
    BY <2>1, <1>3, <1>5 DEF CursorOK, LineInv
  <2>2. CASE Written
    <3>1. cursor'.line = line /\ cursor'.since = since
      BY <2>2
    <3> QED
      BY <2>2, <3>1, <1>3, <1>5, <1>6, <1>8 DEF CursorOK
  <2> QED
    BY <2>1, <2>2, <1>3
<1>10. /\ r.pc = "tail" /\ r.line = 0 /\ r.pend = mon[m].pend \ {line} /\ r.at = mon[m].at
       /\ r.seen = mon[m].seen /\ r.hist = mon[m].hist /\ r.since = mon[m].since
       /\ r.arm = mon[m].arm
  BY <1>0, <1>1, <1>2 DEF MonitorState
<1>11. Starting(r) /\ Passed(r)'
  <2>1. r.line \in 0 .. Len(ts) /\ 1 .. r.line = {}
    BY <1>0, <1>10
  <2> QED
    BY <1>0, <1>3, <1>4, <1>5, <1>10, <2>1 DEF Starting, Passed, Armed
<1>12. m \notin reaped' => Owes(r)'
  <2> SUFFICES ASSUME m \notin reaped PROVE Owes(r)'
    BY <1>3
  <2>1. \A l \in owed : l \in mon[m].pend => l \in r.pend \/ Announced(l)
    <3> TAKE l \in owed
    <3>1. l = line => l \in 1 .. line
      BY <1>6, <1>7
    <3> QED
      BY <3>1, <1>6, <1>10
  <2> QED
    BY <2>1, <1>0, <1>3, <1>4, <1>5, <1>10 DEF Owes, Armed
<1>13. owed' \subseteq 1 .. Len(ts)
  BY <1>3 DEF LineInv, FileOK
<1> QED
  BY <1>0, <1>3, <1>5, <1>9, <1>11, <1>12, <1>13, LineMoves

\* A tick: the lines before the offset of a replacement are excused.
LEMMA LineTicked ==
  ASSUME LineInv, PidfileInv, NEW m \in Monitors, evaluateInboxTailStall(m)
  PROVE  LineInv'
<1>0. /\ MonitorTypeOK /\ mon[m] \in MonitorState /\ ts \in Seq(Nat) /\ Len(ts) \in Nat
      /\ mon[m].pc = "tail" /\ lo \in 1 .. Len(ts) + 1 /\ lo \in Nat /\ mon[m].off \in Nat
  <2>1. MonitorTypeOK /\ mon[m] \in MonitorState /\ ts \in Seq(Nat) /\ lo \in 1 .. Len(ts) + 1
    BY DEF PidfileInv, MonitorTypeOK
  <2>2. mon[m].pc = "tail"
    BY DEF evaluateInboxTailStall, Runs
  <2>3. Len(ts) \in Nat
    BY <2>1
  <2> QED
    BY <2>1, <2>2, <2>3 DEF MonitorState
<1> DEFINE respawn == inboxSizeOf > mon[m].off /\ mon[m].grew /\ mon[m].stalled
           off == IF inboxSizeOf < mon[m].off THEN inboxSizeOf ELSE mon[m].off
           grew == inboxSizeOf > mon[m].off /\ ~ respawn
           stalled == mon[m].stalled /\ ~ respawn
           start == IF respawn THEN lo + mon[m].off ELSE mon[m].at
<1>1. PICK r : r = [mon[m] EXCEPT !.off = off, !.grew = grew, !.stalled = stalled, !.at = start]
  OBVIOUS
<1>2. /\ Set(m, r)
      /\ excused' = IF respawn THEN excused \cup (mon[m].at .. lo + mon[m].off - 1) ELSE excused
      /\ UNCHANGED <<ts, lo, cursor, said, owed, reaped>>
  BY <1>1 DEF evaluateInboxTailStall, file
<1>3. Passed(mon[m])
  BY DEF LineInv
<1>4. \A l : Announced(l) => Announced(l)'
  BY <1>2 DEF Announced, Said
<1>5. respawn => lo + mon[m].off \in 1 .. Len(ts) + 1
  BY <1>0 DEF inboxSizeOf
<1> HIDE DEF off, grew, stalled, start
<1>6. /\ r.pc = "tail" /\ r.line = mon[m].line /\ r.pend = mon[m].pend /\ r.at = start
      /\ r.seen = mon[m].seen /\ r.hist = mon[m].hist /\ r.since = mon[m].since
      /\ r.arm = mon[m].arm
  BY <1>0, <1>1 DEF MonitorState
<1>7. r.at \in 1 .. Len(ts) + 1 /\ \A l \in 1 .. r.at - 1 : Announced(l)'
  <2>1. mon[m].at \in 1 .. Len(ts) + 1 /\ \A l \in 1 .. mon[m].at - 1 : Announced(l)
    BY <1>0, <1>3 DEF Passed, Armed
  <2>2. CASE respawn
    <3>1. r.at = lo + mon[m].off
      BY <2>2, <1>6 DEF start
    <3>2. \A l \in mon[m].at .. lo + mon[m].off - 1 : Announced(l)'
      BY <2>2, <1>2 DEF Announced
    <3>3. \A l \in 1 .. r.at - 1 : l \in 1 .. mon[m].at - 1 \/ l \in mon[m].at .. lo + mon[m].off - 1
      BY <3>1, <2>1, <1>0
    <3> QED
      BY <3>1, <3>2, <3>3, <2>1, <2>2, <1>4, <1>5
  <2>3. CASE ~ respawn
    BY <2>1, <2>3, <1>4, <1>6 DEF start
  <2> QED
    BY <2>2, <2>3
<1>8. Starting(r) /\ Passed(r)'
  BY <1>0, <1>2, <1>3, <1>4, <1>6, <1>7 DEF Starting, Passed, Armed
<1>9. m \notin reaped' => Owes(r)'
  BY <1>0, <1>2, <1>4, <1>6 DEF LineInv, Owes, Armed
<1>10. CursorOK'
  BY <1>2, <1>4 DEF LineInv, CursorOK
<1>11. owed' \subseteq 1 .. Len(ts)
  BY <1>2 DEF LineInv, FileOK
<1> QED
  BY <1>0, <1>2, <1>4, <1>8, <1>9, <1>10, <1>11, LineMoves

\* The stream's append, the trim, the clock and an older binary.
LEMMA LineElsewhere ==
  ASSUME LineInv, PidfileInv,
         \/ \E t \in Times : appendInboxLine(t)
         \/ trimInbox \/ TimePasses \/ HeartbeatAges \/ OldBinary
  PROVE  LineInv'
<1>0. /\ MonitorTypeOK /\ ts \in Seq(Nat) /\ Len(ts) \in Nat /\ lo \in 1 .. Len(ts) + 1 /\ lo \in Nat
  BY DEF PidfileInv, MonitorTypeOK
<1>1. ASSUME NEW t \in Times, appendInboxLine(t) PROVE LineInv'
  <2>1. t \in Nat /\ ts' = Append(ts, t) /\ (ts # <<>> => t >= ts[Len(ts)])
        /\ UNCHANGED <<lo, cursor, said, excused, owed, reaped, mon>>
    BY <1>1, Bounds DEF appendInboxLine, Times, locks, ghosts
  <2>2. /\ Len(ts') = Len(ts) + 1 /\ ts'[Len(ts) + 1] = t
        /\ \A i \in 1 .. Len(ts) : ts'[i] = ts[i] /\ ts[i] \in Nat
        /\ Len(ts) # 0 => ts # <<>>
    BY <1>0, <2>1
  <2>3. \A l : Announced(l) => Announced(l)'
    BY <2>1 DEF Announced, Said
  <2>4. \A i, j \in 1 .. Len(ts') : i <= j => ts'[i] <= ts'[j]
    <3> SUFFICES ASSUME NEW i \in 1 .. Len(ts'), NEW j \in 1 .. Len(ts'), i <= j
                 PROVE  ts'[i] <= ts'[j]
      OBVIOUS
    <3>1. CASE j \in 1 .. Len(ts)
      <4>1. i \in 1 .. Len(ts) /\ ts[i] <= ts[j]
        BY <1>0, <2>2, <3>1 DEF LineInv, FileOK
      <4> QED
        BY <4>1, <3>1, <2>2
    <3>2. CASE j = Len(ts) + 1 /\ i \in 1 .. Len(ts)
      <4>1. Len(ts) \in 1 .. Len(ts) /\ i <= Len(ts) /\ ts # <<>>
        BY <1>0, <2>2, <3>2
      <4>2. ts[i] <= ts[Len(ts)]
        BY <4>1, <3>2 DEF LineInv, FileOK
      <4>3. ts[i] \in Nat /\ ts[Len(ts)] \in Nat /\ ts[Len(ts)] <= t /\ ts'[j] = t /\ ts'[i] = ts[i]
        BY <2>1, <2>2, <3>2, <4>1
      <4> QED
        BY <2>1, <4>2, <4>3
    <3>3. CASE i = Len(ts) + 1 /\ j = Len(ts) + 1
      BY <2>1, <2>2, <3>3
    <3> QED
      BY <1>0, <2>2, <3>1, <3>2, <3>3
  <2>5. \A k : k \in 0 .. Len(ts) => k \in 0 .. Len(ts')
    BY <1>0, <2>2
  <2>6. \A k : k \in 1 .. Len(ts) + 1 => k \in 1 .. Len(ts') + 1
    BY <1>0, <2>2
  <2>7. owed \subseteq 1 .. Len(ts) /\ owed \subseteq 1 .. Len(ts') /\ \A l \in owed : ts'[l] = ts[l]
    BY <1>0, <2>2 DEF LineInv, FileOK
  <2>8. FileOK'
    BY <2>1, <2>4, <2>7 DEF FileOK
  <2>9. CursorOK'
    BY <2>1, <2>3, <2>5, <2>7 DEF LineInv, CursorOK
  <2>10. \A m \in Monitors : (Starting(mon[m]) /\ Passed(mon[m]))'
    BY <2>1, <2>3, <2>5, <2>6 DEF LineInv, Starting, Passed
  <2>11. \A m \in Monitors : m \notin reaped' => Owes(mon[m])'
    BY <2>1, <2>3, <2>7 DEF LineInv, Owes
  <2>12. \A l \in 1 .. lo' - 1 : Announced(l)'
    BY <2>1, <2>3 DEF LineInv
  <2> QED
    BY <2>8, <2>9, <2>10, <2>11, <2>12 DEF LineInv
<1>2. CASE trimInbox
  <2>1. PICK first : first = Len(ts) + 1 - Keep
    OBVIOUS
  <2>2. first \in 1 .. Len(ts) + 1
    BY <1>0, <1>2, <2>1, Bounds DEF trimInbox, inboxSizeOf
  <2>3. /\ UNCHANGED <<ts, reaped, cursor, said, owed>> /\ lo' = first
        /\ excused' = excused \cup (lo .. first - 1)
        /\ mon' = [m \in Monitors |-> [mon[m] EXCEPT !.at = IF mon[m].pc \in {"tail", "persist"}
                                                          THEN first ELSE @]]
    BY <1>2, <2>1 DEF trimInbox
  <2>4. \A l : Announced(l) => Announced(l)'
    BY <2>3 DEF Announced, Said
  <2>5. \A l \in 1 .. first - 1 : Announced(l)'
    <3> TAKE l \in 1 .. first - 1
    <3>1. CASE l < lo
      <4>1. l \in 1 .. lo - 1
        BY <3>1, <1>0
      <4> QED
        BY <4>1, <2>4 DEF LineInv
    <3>2. CASE ~ (l < lo)
      <4>1. l \in lo .. first - 1
        BY <3>2, <1>0, <2>2
      <4> QED
        BY <4>1, <2>3 DEF Announced
    <3> QED
      BY <3>1, <3>2
  <2>6. ASSUME NEW m \in Monitors
        PROVE  /\ (Starting(mon[m]) /\ Passed(mon[m]))'
               /\ m \notin reaped' => Owes(mon[m])'
    <3>1. mon[m] \in MonitorState
      BY <1>0 DEF MonitorTypeOK
    <3>2. PICK a : /\ mon'[m] = [mon[m] EXCEPT !.at = a]
                   /\ mon[m].pc \in Armed => a = first
      BY <2>3 DEF Armed
    <3>3. /\ mon'[m].pc = mon[m].pc /\ mon'[m].line = mon[m].line /\ mon'[m].pend = mon[m].pend
          /\ mon'[m].at = a /\ mon'[m].seen = mon[m].seen /\ mon'[m].hist = mon[m].hist
          /\ mon'[m].since = mon[m].since /\ mon'[m].arm = mon[m].arm
      BY <3>1, <3>2 DEF MonitorState
    <3>4. Starting(mon[m])'
      BY <3>3 DEF LineInv, Starting
    <3>5. Passed(mon[m])'
      BY <2>2, <2>3, <2>4, <2>5, <3>2, <3>3 DEF LineInv, Passed
    <3>6. m \notin reaped' => Owes(mon[m])'
      BY <2>3, <2>4, <3>3 DEF LineInv, Owes
    <3> QED
      BY <3>4, <3>5, <3>6
  <2>7. CursorOK'
    BY <2>3, <2>4 DEF LineInv, CursorOK
  <2>8. FileOK'
    BY <2>3 DEF LineInv, FileOK
  <2> QED
    BY <2>3, <2>5, <2>6, <2>7, <2>8 DEF LineInv
<1>3. ASSUME UNCHANGED <<ts, lo, cursor, said, excused, owed, reaped, mon>> PROVE LineInv'
  <2>1. \A l : Announced(l) => Announced(l)'
    BY <1>3 DEF Announced, Said
  <2>2. FileOK' /\ CursorOK' /\ \A l \in 1 .. lo' - 1 : Announced(l)'
    BY <1>3, <2>1 DEF LineInv, FileOK, CursorOK
  <2>3. \A m \in Monitors : (Starting(mon[m]) /\ Passed(mon[m]))'
    BY <1>3, <2>1 DEF LineInv, Starting, Passed
  <2>4. \A m \in Monitors : m \notin reaped' => Owes(mon[m])'
    BY <1>3, <2>1 DEF LineInv, Owes
  <2> QED
    BY <2>2, <2>3, <2>4 DEF LineInv
<1>4. CASE TimePasses \/ HeartbeatAges \/ OldBinary
  BY <1>3, <1>4 DEF TimePasses, HeartbeatAges, OldBinary, file, locks, ghosts
<1> QED
  BY <1>1, <1>2, <1>4

\* The invariant of the lines, inductive beside that of the pidfile.
LEMMA LineNext == LineInv /\ PidfileInv /\ [MonitorNext]_monitorVars => LineInv'
<1> SUFFICES ASSUME LineInv, PidfileInv, [MonitorNext]_monitorVars PROVE LineInv'
  OBVIOUS
<1>1. ASSUME NEW m \in Monitors, Starts(m) PROVE LineInv'
  BY <1>1, LineStarting, LineArmed
<1>2. ASSUME NEW m \in Monitors, Tails(m) PROVE LineInv'
  BY <1>2, LineTailed, LineFiled, LineTicked DEF Tails
<1>3. CASE UNCHANGED monitorVars
  <2>1. UNCHANGED <<ts, lo, cursor, said, excused, owed, reaped, mon>>
    BY <1>3 DEF monitorVars
  <2>2. \A l : Announced(l) => Announced(l)'
    BY <2>1 DEF Announced, Said
  <2>3. FileOK' /\ CursorOK' /\ \A l \in 1 .. lo' - 1 : Announced(l)'
    BY <2>1, <2>2 DEF LineInv, FileOK, CursorOK
  <2>4. \A m \in Monitors : (Starting(mon[m]) /\ Passed(mon[m]))'
    BY <2>1, <2>2 DEF LineInv, Starting, Passed
  <2>5. \A m \in Monitors : m \notin reaped' => Owes(mon[m])'
    BY <2>1, <2>2 DEF LineInv, Owes
  <2> QED
    BY <2>3, <2>4, <2>5 DEF LineInv
<1> QED
  BY <1>1, <1>2, <1>3, LineLeft, LineElsewhere DEF MonitorNext

\* A monitor at the end of the file has every line before its place announced.
LEMMA LinesAnnounced == LineInv /\ PidfileInv => AtLeastOnce
<1> SUFFICES ASSUME LineInv, PidfileInv PROVE AtLeastOnce
  OBVIOUS
<1>1. Len(ts) \in Nat
  BY DEF PidfileInv, MonitorTypeOK
<1>2. ASSUME NEW m \in Monitors, CaughtUp(m), NEW l \in 1 .. Len(ts) PROVE Announced(l)
  <2>1. mon[m].pc \in Armed /\ Passed(mon[m]) /\ mon[m].at > Len(ts)
    BY <1>2 DEF CaughtUp, Runs, Armed, LineInv
  <2>2. mon[m].at = Len(ts) + 1
    BY <1>1, <2>1 DEF Passed
  <2>3. l \in 1 .. mon[m].at - 1
    BY <1>1, <2>2
  <2> QED
    BY <2>1, <2>3 DEF Passed
<1> QED
  BY <1>2 DEF AtLeastOnce, LineInv, CursorOK

\* "Never drops it" (inbox-monitor.ts): a line before the replay cursor, or before a
\* monitor that read the file to its end, was emitted by some monitor or is excused,
\* for any number of monitors, any trims, crashes and failed cursor writes.
THEOREM NoLineIsPassedOver == MonitorSpec => []AtLeastOnce
<1>1. MonitorSpec => [](PidfileInv /\ LineInv)
  BY PidfileStart, LineStart, PidfileNext, LineNext, PTL DEF MonitorSpec
<1> QED
  BY <1>1, LinesAnnounced, PTL

=============================================================================
