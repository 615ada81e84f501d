-------------------------- MODULE RepresentativePush --------------------------
(***************************************************************************)
(* The push engine of `borg representative listen`: which direct replies   *)
(* of the Coordinator wake the host, and when.                             *)
(*                                                                         *)
(* Source: src/src/representative-push.ts (PushEngine) as                  *)
(* src/src/representative-listener.ts (runListener) drives it.             *)
(*                                                                         *)
(* All wake state is in the state database.  An engine's transitions run   *)
(* one at a time, each in one transaction; server reads happen between     *)
(* them, and the listener's timer, the host's answers, the log and the     *)
(* tool that delivers replies come in at any point.  The lease lets one    *)
(* listener run, but one that lost it runs on until its next heartbeat, so *)
(* any number of engines may share the state.                              *)
(*                                                                         *)
(* Abstractions.  An entry is its position in the log.  An instant is the  *)
(* time left until it: 0 is past, Far more than the 24 h horizon ahead.    *)
(* Waits are constants in their order; the growth of the rewake and the    *)
(* refusal schedule, the attempts counted for it and the reason of a wake  *)
(* (startup, new reply, rewake) are left out.  Damaged wake state is never *)
(* read, so the damage and its discarding are one step.  A batch is told   *)
(* from others by the engine whose host was asked about it: an answer goes *)
(* to the listener that asked.                                             *)
(***************************************************************************)
EXTENDS Naturals, Sequences, FiniteSets

CONSTANTS
    Engines,     \* listeners of one representative
    Page,        \* DISCOVERY_PAGE
    Debounce,    \* WAKE_DEBOUNCE_MS
    RefusalWait, \* refusalBackoffMs
    AckDeadline, \* WAKE_ACK_DEADLINE_MS
    Rewake,      \* rewakeBackoffMs
    Horizon,     \* MAX_FUTURE_MS
    Captures,    \* CAPTURE_ATTEMPTS
    Posted,      \* kinds of entry that are posted
    None,        \* no instant, no engine
    MaxLog,      \* bound: entries of the log
    MaxFaults    \* bound: stops, discards, rebinds and clock jumps

ASSUME WaitAssumption ==
    /\ {Debounce, RefusalWait, AckDeadline, Rewake, Horizon} \subseteq Nat \ {0}
    /\ {Debounce, RefusalWait, AckDeadline, Rewake} \subseteq 0 .. Horizon
ASSUME PushAssumption == /\ {Page, Captures} \subseteq Nat \ {0}
                         /\ Posted \subseteq {"direct", "other"}
                         /\ MaxLog \in Nat /\ MaxFaults \in Nat
                         /\ None \notin Engines \cup Nat

VARIABLES
    log,        \* external: the cube log as this binding sees it
    bound,      \* the binding generation is current
    checkpoint, \* the delivered checkpoint, or the start before any delivery
    next,       \* wake_replies: when each discovered reply is due
    doc,        \* wake_state: the wake document
    asker,      \* the engine whose host was asked about the outstanding batch
    engine,     \* each listener process
    faults,     \* faults so far (bound)
    quiet,      \* history: time left in which a reply is not woken again
    cohortEnd   \* history: where the log ended when the cohort was captured

vars == <<log, bound, checkpoint, next, doc, asker, engine, faults, quiet, cohortEnd>>

Entries == 1 .. MaxLog
Points == 0 .. MaxLog
Far == Horizon + 1
Instants == 0 .. Far

Direct(e) == e <= Len(log) /\ log[e] = "direct"
Known == {e \in Entries : next[e] # None}

later(a, b) == IF a >= b THEN a ELSE b
earlier(a, b) == IF a <= b THEN a ELSE b

-----------------------------------------------------------------------------
(* The wake document and the engine.                                       *)

\* out: the replies of the outstanding batch, and its deadline; retry: refusal
\* back-off (0: none, or over); cohort: entries left to scan, open or closed.
Document ==
    [frontier : Points, out : SUBSET Entries, deadline : Instants,
     retry : Instants, remaining : Points, open : BOOLEAN,
     debounce : Instants \cup {None}, epoch : 0 .. MaxFaults]

emptyDocument ==
    [frontier |-> 0, out |-> {}, deadline |-> 0, retry |-> 0,
     remaining |-> 0, open |-> FALSE, debounce |-> None, epoch |-> 0]

\* up: the listener's start (capture of the cohort), then "up"; tries, at, ep,
\* count: the capture; scan: the discovery, with its cursor, its epoch and the
\* page read; emitting: the batch persisted and not yet written to the host;
\* timer: the scheduler's sleep; resched: nextDueAt is to be read.
Down == [up |-> "down", tries |-> 0, at |-> 0, ep |-> 0, count |-> 0,
         scan |-> "idle", rescan |-> FALSE, cur |-> 0, sep |-> 0, n |-> 0,
         more |-> FALSE, emitting |-> {}, timer |-> None, resched |-> FALSE]

EngineState ==
    [up : {"down", "start", "probe", "persist", "up"}, tries : 0 .. Captures,
     at : Points, ep : 0 .. MaxFaults, count : Points,
     scan : {"idle", "begin", "read", "merge", "tick", "paged"},
     rescan : BOOLEAN, cur : Points, sep : 0 .. MaxFaults, n : 0 .. Page,
     more : BOOLEAN, emitting : SUBSET Entries,
     timer : (0 .. Horizon) \cup {None}, resched : BOOLEAN]

Set(p, s) == engine' = [engine EXCEPT ![p] = s]

\* serial and transact: the engine's previous transition has been written out,
\* and the binding generation is current.
Transaction(p) == bound /\ engine[p].emitting = {}

\* scanStart: where reading goes on.
ScanFrom == later(doc.frontier, checkpoint)

Cleared(d) == [d EXCEPT !.out = {}, !.deadline = 0]

Init ==
    /\ log = <<>> /\ bound = TRUE /\ checkpoint = 0
    /\ next = [e \in Entries |-> None]
    /\ doc = emptyDocument /\ asker = None
    /\ engine = [p \in Engines |-> Down]
    /\ faults = 0
    /\ quiet = [e \in Entries |-> 0]
    /\ cohortEnd = 0

-----------------------------------------------------------------------------
(* Start: capture the cohort, then discover.                               *)

Start(p) ==
    /\ bound /\ engine[p].up = "down"
    /\ Set(p, [Down EXCEPT !.up = "start"])
    /\ UNCHANGED <<log, bound, checkpoint, next, doc, asker, faults, quiet, cohortEnd>>

\* discover(): one scan at a time; a trigger during a scan runs one more.
discover(s) == IF s.scan = "idle" THEN [s EXCEPT !.scan = "begin", !.rescan = FALSE]
                                  ELSE [s EXCEPT !.rescan = TRUE]

Captured == discover([Down EXCEPT !.up = "up", !.resched = TRUE])

captureCohort(p) ==
    LET s == engine[p]
    IN  /\ s.up = "start" /\ Transaction(p)
        /\ Set(p, IF doc.open THEN Captured
                  ELSE [s EXCEPT !.up = "probe", !.at = ScanFrom, !.ep = doc.epoch])
        /\ UNCHANGED <<log, bound, checkpoint, next, doc, asker, faults, quiet, cohortEnd>>

\* The one bounded request; without behind_by the size is unknown.
CaptureProbe(p) ==
    LET s == engine[p]
    IN  /\ s.up = "probe"
        /\ \E count \in {Len(log) - s.at, 0} :
              Set(p, [s EXCEPT !.up = "persist", !.count = count])
        /\ UNCHANGED <<log, bound, checkpoint, next, doc, asker, faults, quiet, cohortEnd>>

\* A probe of an older epoch is taken again, a bounded number of times.
CapturePersist(p) ==
    LET s == engine[p]
        again == s.tries + 1 < Captures
    IN  /\ s.up = "persist" /\ Transaction(p)
        /\ IF doc.epoch # s.ep
           THEN /\ Set(p, IF again THEN [s EXCEPT !.up = "start", !.tries = @ + 1]
                                   ELSE Captured)
                /\ UNCHANGED <<doc, cohortEnd>>
           ELSE /\ Set(p, Captured)
                /\ IF doc.open THEN UNCHANGED <<doc, cohortEnd>>
                   ELSE /\ doc' = [doc EXCEPT !.remaining = s.count,
                                              !.open = s.count > 0]
                        /\ cohortEnd' = s.at + s.count
        /\ UNCHANGED <<log, bound, checkpoint, next, asker, faults, quiet>>

-----------------------------------------------------------------------------
(* Discovery.                                                              *)

\* A connect, a log event, or the 5-minute timer.
Trigger(p) ==
    /\ engine[p].up = "up"
    /\ ~ engine[p].rescan
    /\ Set(p, discover(engine[p]))
    /\ UNCHANGED <<log, bound, checkpoint, next, doc, asker, faults, quiet, cohortEnd>>

\* The scan holds no page.
NoPage(s) == [s EXCEPT !.cur = 0, !.sep = 0, !.n = 0, !.more = FALSE]

scanOnce(p) ==
    LET s == engine[p]
    IN  /\ s.scan = "begin" /\ Transaction(p)
        /\ Set(p, [s EXCEPT !.scan = "read", !.cur = ScanFrom, !.sep = doc.epoch])
        /\ UNCHANGED <<log, bound, checkpoint, next, doc, asker, faults, quiet, cohortEnd>>

readAfter(p) ==
    LET s == engine[p]
        n == earlier(Page, Len(log) - s.cur)
    IN  /\ s.scan = "read"
        /\ Set(p, [s EXCEPT !.scan = "merge", !.n = n, !.more = Len(log) > s.cur + n])
        /\ UNCHANGED <<log, bound, checkpoint, next, doc, asker, faults, quiet, cohortEnd>>

\* The entries of the page that wake: direct, and past the floor at the merge.
Found(s) == {e \in s.cur + 1 .. s.cur + s.n : Direct(e) /\ e > checkpoint}

\* INSERT OR IGNORE: a reply already known keeps its schedule.
Inserted(s) == Found(s) \ Known

\* The startup scan covered the log as it was at capture.
CohortDone(s, left) == left = 0 \/ ~ s.more

MergedDoc(s) ==
    LET left == IF doc.remaining >= s.n THEN doc.remaining - s.n ELSE 0
        d == [doc EXCEPT !.frontier = later(@, s.cur + s.n),
                         !.remaining = IF doc.open THEN left ELSE @]
    IN  IF doc.open /\ CohortDone(s, left)
        THEN [d EXCEPT !.open = FALSE, !.debounce = None]
        ELSE IF Inserted(s) # {} /\ ~ doc.open /\ doc.debounce = None
        THEN [d EXCEPT !.debounce = Debounce]
        ELSE d

AnyEpoch(s) == TRUE

\* A page read under another epoch is dropped, and the scan begins again.
SameEpoch(s) == s.sep = doc.epoch

merge(p) ==
    LET s == engine[p]
    IN  /\ s.scan = "merge" /\ Transaction(p)
        /\ IF SameEpoch(s)
           THEN /\ Set(p, [s EXCEPT !.scan = "tick"])
                /\ next' = [e \in Entries |-> IF e <= checkpoint THEN None
                                              ELSE IF e \in Inserted(s) THEN 0
                                              ELSE next[e]]
                /\ doc' = MergedDoc(s)
           ELSE /\ Set(p, [NoPage(s) EXCEPT !.scan = "begin", !.rescan = FALSE])
                /\ UNCHANGED <<next, doc>>
        /\ UNCHANGED <<log, bound, checkpoint, asker, faults, quiet, cohortEnd>>

\* After the page's tick: the next page, one more scan, or the end.
ScanNext(p) ==
    LET s == engine[p]
    IN  /\ s.scan = "paged" /\ s.emitting = {}
        /\ Set(p, IF s.more /\ s.n > 0
                  THEN [s EXCEPT !.scan = "read", !.cur = s.cur + s.n]
                  ELSE IF s.rescan
                  THEN [NoPage(s) EXCEPT !.scan = "begin", !.rescan = FALSE]
                  ELSE [NoPage(s) EXCEPT !.scan = "idle", !.resched = TRUE])
        /\ UNCHANGED <<log, bound, checkpoint, next, doc, asker, faults, quiet, cohortEnd>>

-----------------------------------------------------------------------------
(* The scheduler.                                                          *)

NoClamp(t) == t

\* clamp: an instant a clock jump left beyond the horizon.
clamp(t) == earlier(t, Horizon)

Clamped(d) == [d EXCEPT !.deadline = clamp(@), !.retry = clamp(@),
                        !.debounce = IF @ = None THEN None ELSE clamp(@)]

\* A batch past its deadline clears; its replies keep their schedule.
Expired(d) == IF d.out # {} /\ d.deadline = 0 THEN Cleared(d) ELSE d

Blocked(d) == \/ d.out # {}
              \/ d.retry > 0
              \/ d.open
              \/ d.debounce # None /\ d.debounce > 0

Due == {e \in Known : clamp(next[e]) = 0}

\* The replies of a wake are due again after the back-off.
Scheduled(due) ==
    [e \in Entries |-> IF e \in due THEN Rewake
                       ELSE IF e \in Known THEN clamp(next[e]) ELSE None]

\* tick() by engine p, which continues as s: expire, then persist one batch of
\* every due reply.
tick(p, s) ==
    LET d == Expired(Clamped(doc))
        due == IF Blocked(d) THEN {} ELSE Due
    IN  /\ Transaction(p)
        /\ next' = Scheduled(due)
        /\ doc' = IF due = {} THEN d
                  ELSE [d EXCEPT !.out = due, !.deadline = AckDeadline,
                                 !.debounce = None]
        /\ asker' = IF due # {} THEN p ELSE IF d.out = {} THEN None ELSE asker
        /\ quiet' = [e \in Entries |-> IF e \in due THEN Rewake ELSE quiet[e]]
        /\ Set(p, [s EXCEPT !.emitting = due])
        /\ UNCHANGED <<log, bound, checkpoint, faults, cohortEnd>>

PageTick(p) ==
    /\ engine[p].scan = "tick"
    /\ tick(p, [engine[p] EXCEPT !.scan = "paged"])

TimerTick(p) ==
    /\ engine[p].up = "up" /\ engine[p].timer = 0
    /\ tick(p, [engine[p] EXCEPT !.timer = None, !.resched = TRUE])

\* The wake event reaches the host, after it was persisted.
Emit(p) ==
    /\ engine[p].emitting # {}
    /\ Set(p, [engine[p] EXCEPT !.emitting = {}])
    /\ UNCHANGED <<log, bound, checkpoint, next, doc, asker, faults, quiet, cohortEnd>>

EarliestDue == CHOOSE t \in Instants : /\ \E e \in Known : next[e] = t
                                       /\ \A e \in Known : t <= next[e]

nextDueAt ==
    IF doc.out # {} THEN clamp(doc.deadline)
    ELSE IF doc.retry > 0 THEN clamp(doc.retry)
    ELSE IF doc.open \/ Known = {} THEN None
    ELSE IF doc.debounce # None
    THEN later(clamp(EarliestDue), clamp(doc.debounce))
    ELSE clamp(EarliestDue)

\* The listener sleeps until the next eligible instant only; nextDueAt does not
\* wait for the engine's other transitions.
reschedule(p) ==
    LET s == engine[p]
    IN  /\ s.up = "up" /\ s.resched /\ bound
        /\ Set(p, [s EXCEPT !.timer = nextDueAt, !.resched = FALSE])
        /\ UNCHANGED <<log, bound, checkpoint, next, doc, asker, faults, quiet, cohortEnd>>

\* One answer of the host: for the outstanding batch, or for any other.
ack(p, matches, accepted) ==
    LET late == doc.out # {} /\ doc.deadline = 0
        refused == ~ late /\ matches /\ ~ accepted
    IN  /\ engine[p].up = "up" /\ Transaction(p)
        /\ matches => doc.out # {} /\ asker = p
        /\ matches \/ late
        /\ doc' = IF refused THEN [Cleared(doc) EXCEPT !.retry = RefusalWait]
                  ELSE IF late THEN Cleared(doc)
                  ELSE [Cleared(doc) EXCEPT !.retry = 0]
        /\ next' = [e \in Entries |-> IF refused /\ e \in doc.out \cap Known
                                      THEN RefusalWait ELSE next[e]]
        /\ quiet' = [e \in Entries |-> IF refused /\ e \in doc.out THEN 0 ELSE quiet[e]]
        /\ asker' = None
        /\ Set(p, [engine[p] EXCEPT !.resched = TRUE])
        /\ UNCHANGED <<log, bound, checkpoint, faults, cohortEnd>>

-----------------------------------------------------------------------------
(* The environment.                                                        *)

Fault == faults < MaxFaults /\ faults' = faults + 1

\* EOF, a signal, a fatal error or a crash: nothing more is written, and a wake
\* already persisted is lost.
Stop(p) ==
    /\ Fault
    /\ engine[p].up # "down"
    /\ Set(p, Down)
    /\ asker' = IF asker = p THEN None ELSE asker
    /\ UNCHANGED <<log, bound, checkpoint, next, doc, quiet, cohortEnd>>

\* Invalid wake state: the next transaction rebuilds it from the checkpoint.
discardInvalidWakeState ==
    /\ Fault /\ bound
    /\ next' = [e \in Entries |-> None]
    /\ doc' = [emptyDocument EXCEPT !.frontier = checkpoint, !.epoch = doc.epoch + 1]
    /\ asker' = None
    /\ quiet' = [e \in Entries |-> 0]
    /\ cohortEnd' = 0
    /\ UNCHANGED <<log, bound, checkpoint, engine>>

\* The system clock is set back: every persisted instant is beyond the horizon.
ClockBack ==
    /\ Fault
    /\ next' = [e \in Entries |-> IF e \in Known THEN Far ELSE None]
    /\ doc' = [doc EXCEPT !.deadline = IF doc.out # {} THEN Far ELSE 0,
                          !.retry = IF @ > 0 THEN Far ELSE 0,
                          !.debounce = IF @ = None THEN None ELSE Far]
    /\ UNCHANGED <<log, bound, checkpoint, asker, engine, quiet, cohortEnd>>

\* The operator binds another seat: this generation's engines stop.
saveBinding ==
    /\ Fault /\ bound
    /\ bound' = FALSE
    /\ UNCHANGED <<log, checkpoint, next, doc, asker, engine, quiet, cohortEnd>>

Rebound(p) ==
    /\ ~ bound /\ engine[p].up # "down"
    /\ Set(p, Down)
    /\ asker' = IF asker = p THEN None ELSE asker
    /\ UNCHANGED <<log, bound, checkpoint, next, doc, faults, quiet, cohortEnd>>

Post(kind) ==
    /\ Len(log) < MaxLog
    /\ log' = Append(log, kind)
    /\ UNCHANGED <<bound, checkpoint, next, doc, asker, engine, faults, quiet, cohortEnd>>

\* borg_representative_deliver, in another process: the checkpoint moves and
\* the wake records behind it go.
advanceCheckpoint(e) ==
    /\ bound /\ Direct(e) /\ e > checkpoint
    /\ checkpoint' = e
    /\ next' = [f \in Entries |-> IF f <= e THEN None ELSE next[f]]
    /\ UNCHANGED <<log, bound, doc, asker, engine, faults, quiet, cohortEnd>>

Past(t) == IF t \in 1 .. Horizon THEN t - 1 ELSE t

\* Time passes, for the persisted instants and the listeners' timers alike.
Tick ==
    /\ next' = [e \in Entries |-> IF e \in Known THEN Past(next[e]) ELSE None]
    /\ doc' = [doc EXCEPT !.deadline = Past(@), !.retry = Past(@),
                          !.debounce = IF @ = None THEN None ELSE Past(@)]
    /\ engine' = [p \in Engines |->
                     IF engine[p].timer = None THEN engine[p]
                     ELSE [engine[p] EXCEPT !.timer = Past(@)]]
    /\ quiet' = [e \in Entries |-> Past(quiet[e])]
    /\ UNCHANGED <<log, bound, checkpoint, asker, faults, cohortEnd>>

CaptureStep(p) == captureCohort(p) \/ CaptureProbe(p) \/ CapturePersist(p)

ScanStep(p) == scanOnce(p) \/ readAfter(p) \/ merge(p) \/ PageTick(p) \/ ScanNext(p)

Next ==
    \/ \E p \in Engines :
          \/ Start(p) \/ CaptureStep(p) \/ ScanStep(p) \/ Trigger(p)
          \/ TimerTick(p) \/ Emit(p) \/ reschedule(p)
          \/ \E matches, accepted \in BOOLEAN : ack(p, matches, accepted)
          \/ Stop(p) \/ Rebound(p)
    \/ discardInvalidWakeState \/ ClockBack \/ saveBinding
    \/ \E kind \in Posted : Post(kind)
    \/ \E e \in Entries : advanceCheckpoint(e)
    \/ Tick

Spec == Init /\ [][Next]_vars

\* The host restarts a listener that ended, the event loop runs what is due,
\* the 5-minute trigger comes round, time passes.  Transitions queue in order, so
\* one that waits for its turn again and again gets it.
FairSpec ==
    /\ Spec
    /\ WF_vars(Tick)
    /\ \A p \in Engines :
          /\ WF_vars(Start(p)) /\ WF_vars(Trigger(p)) /\ WF_vars(Emit(p))
          /\ SF_vars(CaptureStep(p)) /\ SF_vars(ScanStep(p))
          /\ SF_vars(TimerTick(p)) /\ SF_vars(reschedule(p))

-----------------------------------------------------------------------------
(* Properties                                                              *)

\* Every variable keeps its type.
TypeOK ==
    /\ log \in Seq({"direct", "other"}) /\ Len(log) <= MaxLog
    /\ bound \in BOOLEAN /\ checkpoint \in Points
    /\ next \in [Entries -> Instants \cup {None}]
    /\ doc \in Document
    /\ asker \in Engines \cup {None}
    /\ engine \in [Engines -> EngineState]
    /\ faults \in 0 .. MaxFaults
    /\ quiet \in [Entries -> 0 .. Rewake]
    /\ cohortEnd \in Points

\* The wake records are the undelivered direct replies discovery has passed, no
\* more and no fewer: although pages are read outside transactions, no reply is
\* passed unrecorded when the state is discarded while one is under way, none
\* delivered in the meantime is recorded; and the startup cohort closes only once
\* discovery, or delivery, has passed the log as it was at capture.
NothingForgotten ==
    /\ \A e \in Entries : Direct(e) /\ e > checkpoint /\ e <= doc.frontier => e \in Known
    /\ \A e \in Known : Direct(e) /\ e > checkpoint
    /\ ~ doc.open => ScanFrom >= cohortEnd

\* "A wake stops only when the reply is delivered": an undelivered reply is
\* woken again and again, whatever the host answers, through restarts, discarded
\* state and clock jumps; but never before its back-off is over, unless the host
\* refused it: no crash, restart or rescan starts a storm.
WokenUntilDelivered ==
    /\ [][\A p \in Engines :
             engine[p].emitting = {} /\ engine'[p].emitting # {}
             => \A e \in engine'[p].emitting : quiet[e] = 0]_vars
    /\ \A e \in Entries :
          <>[](bound /\ Direct(e) /\ e > checkpoint)
          => []<><<\E p \in Engines : e \in engine[p].emitting /\ Emit(p)>>_vars

=============================================================================
