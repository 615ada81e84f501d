------------------------------ MODULE CodexWake ------------------------------
(***************************************************************************)
(* The wake bridge of a Codex seat: how an entry of the log becomes a turn *)
(* in the agent's thread.                                                  *)
(*                                                                         *)
(* Source: src/src/codex-app-wake.ts.                                      *)
(*                                                                         *)
(* Three paths of one process inject into the same thread: the per-entry   *)
(* wake, which works off the stream's calls one at a time; the retry-drain *)
(* loop, which takes over what a wake could not deliver; and the periodic  *)
(* heartbeat.  The process is single-threaded, so what happens between two *)
(* awaits is one step; at every await the other paths, the stream, the     *)
(* agent and the thread go on.  A loop that returns and the `.finally`     *)
(* that clears its flag are one step: no I/O callback runs between them.   *)
(*                                                                         *)
(* Abstractions.  A turn that the bridge starts reads the whole log before *)
(* it ends (the prompt asks for it).  The heartbeat's cadence is a flag,   *)
(* as is the age cap of the retry loop.  The stream names the entry in     *)
(* every call, so unscoped obligations do not arise; the last attempt's    *)
(* result and the target's id are for display and are left out.  This      *)
(* process owns the stream lease.                                          *)
(***************************************************************************)
EXTENDS Naturals, Sequences

CONSTANTS
    Entries,            \* entries of the log addressed to this seat
    Nonces,             \* wake nonces: none, and the server's re-pings
    DeliveredWakeKeyCap,\* DELIVERED_WAKE_KEY_CAP
    MaxCalls,           \* bound: calls of the stream
    MaxFaults           \* bound: failed requests, unloaded threads, user turns

ASSUME WakeAssumption == /\ DeliveredWakeKeyCap \in Nat
                         /\ MaxCalls \in Nat /\ MaxFaults \in Nat

VARIABLES
    posted,            \* external: entries in the log
    unread,            \* external: entries past the agent's read cursor
    thread,            \* external: the agent's thread
    reading,           \* external: a turn the bridge started has yet to read
    pendingWakeRequests,
    request,           \* the request the wake path works on
    pc,                \* where each path is
    injectInFlight,    \* the mutex of the three paths
    deliveredWakeKeys,
    retryDrainSourceEntryIds,
    aged,              \* the retry loop has run for its age cap
    deliveryDeferred,
    recent,            \* a tick, or a delivery (lastDeliveredAt), within the cadence
    calls, faults      \* so far (bounds)

outside == <<posted, thread, reading, calls, faults>>
vars == <<posted, unread, thread, reading, pendingWakeRequests, request, pc,
          injectInFlight, deliveredWakeKeys, retryDrainSourceEntryIds, aged,
          deliveryDeferred, recent, calls, faults>>

\* The wake key of a request is its nonce, or the prompt of its entry.
Requests == [entry : Entries, nonce : Nonces]
Paths == {"wake", "drain", "beat"}

\* Inside the critical section, in order.
Critical == {"check", "none", "resolve", "read", "recheck", "start", "answer"}
Steps == Critical \cup {"idle", "take", "top", "sleep"}

retryDrainInFlight == pc["drain"] # "idle"

Init ==
    /\ posted = {} /\ unread = {} /\ thread = "absent" /\ reading = FALSE
    /\ pendingWakeRequests = <<>> /\ request = <<>>
    /\ pc = [p \in Paths |-> "idle"]
    /\ injectInFlight = FALSE /\ deliveredWakeKeys = <<>>
    /\ retryDrainSourceEntryIds = {} /\ aged = FALSE /\ deliveryDeferred = FALSE
    /\ recent = FALSE /\ calls = 0 /\ faults = 0

Goto(p, s) == pc' = [pc EXCEPT ![p] = s]

-----------------------------------------------------------------------------
(* Leaving a path.                                                         *)

\* After one attempt: the next request, the next try, or the end of the tick.
After(p) == CASE p = "wake" -> "take" [] p = "drain" -> "top" [] p = "beat" -> "idle"

\* The wake of e goes to the retry loop, which starts or is already running.
scheduleRetryDrain(e) ==
    /\ retryDrainSourceEntryIds' = retryDrainSourceEntryIds \cup {e}
    /\ pc' = [pc EXCEPT !["wake"] = "take",
                        !["drain"] = IF retryDrainInFlight THEN @ ELSE "sleep"]
    /\ aged' = (aged /\ retryDrainInFlight)

\* Mutant: the lock is kept.
PutOffHoldingLock(p, marked) ==
    /\ deliveryDeferred' = (deliveryDeferred \/ marked)
    /\ IF p = "wake" THEN scheduleRetryDrain(request.entry)
       ELSE Goto(p, After(p)) /\ UNCHANGED <<retryDrainSourceEntryIds, aged>>
    /\ UNCHANGED <<pendingWakeRequests, request, injectInFlight, deliveredWakeKeys, recent, unread>>

\* The attempt of p ends without a delivery, which is marked or not.
PutOff(p, marked) ==
    /\ injectInFlight' = FALSE
    /\ deliveryDeferred' = (deliveryDeferred \/ marked)
    /\ IF p = "wake" THEN scheduleRetryDrain(request.entry)
       ELSE Goto(p, After(p)) /\ UNCHANGED <<retryDrainSourceEntryIds, aged>>
    /\ UNCHANGED <<pendingWakeRequests, request, deliveredWakeKeys, recent, unread>>

\* The attempt of p ends with nothing left to do.
Finish(p, s) ==
    /\ Goto(p, s)
    /\ injectInFlight' = FALSE
    /\ UNCHANGED <<pendingWakeRequests, request, deliveredWakeKeys, recent, unread>>

Fault == faults < MaxFaults /\ faults' = faults + 1

-----------------------------------------------------------------------------
(* Entering a path.                                                        *)

\* A call of the stream: queued, and worked off by the one drain of the queue.
wakeCodexViaAppServer(r) ==
    /\ calls < MaxCalls /\ calls' = calls + 1
    /\ r.entry \in posted
    /\ pendingWakeRequests' = Append(pendingWakeRequests, r)
    /\ Goto("wake", IF pc["wake"] = "idle" THEN "take" ELSE pc["wake"])
    /\ UNCHANGED <<posted, unread, thread, reading, request, injectInFlight,
                   deliveredWakeKeys, retryDrainSourceEntryIds, aged, deliveryDeferred,
                   recent, faults>>

\* tryAcquireInjectLock refuses.
Locked == injectInFlight

\* drainCodexWakeQueue: the next request enters the critical section, or is put
\* off because another path is there.
TakeRequest ==
    /\ pc["wake"] = "take" /\ pendingWakeRequests # <<>>
    /\ request' = Head(pendingWakeRequests)
    /\ pendingWakeRequests' = Tail(pendingWakeRequests)
    /\ IF Locked
       THEN /\ scheduleRetryDrain(Head(pendingWakeRequests).entry)
            /\ UNCHANGED injectInFlight
       ELSE /\ injectInFlight' = TRUE
            /\ Goto("wake", "check")
            /\ UNCHANGED <<retryDrainSourceEntryIds, aged>>
    /\ UNCHANGED <<outside, unread, deliveredWakeKeys, deliveryDeferred, recent>>

QueueEmpty ==
    /\ pc["wake"] = "take" /\ pendingWakeRequests = <<>>
    /\ Goto("wake", "idle") /\ request' = <<>>
    /\ UNCHANGED <<outside, unread, pendingWakeRequests, injectInFlight,
                   deliveredWakeKeys, retryDrainSourceEntryIds, aged, deliveryDeferred,
                   recent>>

Retry ==
    /\ pc["drain"] = "top" /\ ~ aged
    /\ Goto("drain", "sleep")
    /\ UNCHANGED <<outside, unread, pendingWakeRequests, request, injectInFlight,
                   deliveredWakeKeys, retryDrainSourceEntryIds, aged, deliveryDeferred,
                   recent>>

\* The age cap: the obligations of the loop go to the live marker.
AgeOut ==
    /\ pc["drain"] = "top" /\ aged
    /\ Goto("drain", "idle")
    /\ retryDrainSourceEntryIds' = {}
    /\ deliveryDeferred' = (deliveryDeferred \/ retryDrainSourceEntryIds # {})
    /\ UNCHANGED <<outside, unread, pendingWakeRequests, request, injectInFlight,
                   deliveredWakeKeys, aged, recent>>

DrainWakes ==
    /\ pc["drain"] = "sleep"
    /\ Goto("drain", IF Locked THEN "top" ELSE "check")
    /\ injectInFlight' = TRUE
    /\ UNCHANGED <<outside, unread, pendingWakeRequests, request, deliveredWakeKeys,
                   retryDrainSourceEntryIds, aged, deliveryDeferred, recent>>

fireCodexHeartbeatTick ==
    /\ pc["beat"] = "idle" /\ ~ recent /\ ~ Locked
    /\ injectInFlight' = TRUE /\ recent' = TRUE
    /\ Goto("beat", "check")
    /\ UNCHANGED <<outside, unread, pendingWakeRequests, request, deliveredWakeKeys,
                   retryDrainSourceEntryIds, aged, deliveryDeferred>>

-----------------------------------------------------------------------------
(* The critical section.                                                   *)

Advance(p, s) ==
    /\ Goto(p, s)
    /\ UNCHANGED <<outside, unread, pendingWakeRequests, request, injectInFlight,
                   deliveredWakeKeys, retryDrainSourceEntryIds, aged, deliveryDeferred,
                   recent>>

\* Is the entry still unread?  Asked first, and again before the turn.
WakeChecks(s, next) ==
    /\ pc["wake"] = s
    /\ IF request.entry \in unread THEN Advance("wake", next)
       ELSE /\ Finish("wake", "take")
            /\ UNCHANGED <<outside, retryDrainSourceEntryIds, aged, deliveryDeferred>>

\* Obligations already read are dropped, unless that cannot be checked; an entry
\* read since its check stays.
DrainChecks(s, next) ==
    /\ pc["drain"] = s
    /\ \E read \in SUBSET (retryDrainSourceEntryIds \ unread) :
          /\ retryDrainSourceEntryIds' = retryDrainSourceEntryIds \ read
          /\ IF retryDrainSourceEntryIds' = {}
             THEN Finish("drain", "idle")
             ELSE /\ Goto("drain", next)
                  /\ UNCHANGED <<unread, pendingWakeRequests, request, injectInFlight,
                                 deliveredWakeKeys, recent>>
    /\ UNCHANGED <<outside, aged, deliveryDeferred>>

BeatChecks ==
    /\ pc["beat"] = "check"
    /\ Advance("beat", IF unread = {} THEN "none" ELSE "resolve")

NothingPendingUnmarked ==
    /\ pc["beat"] = "none"
    /\ Finish("beat", "idle")
    /\ UNCHANGED <<outside, retryDrainSourceEntryIds, aged, deliveryDeferred>>

\* The answer "nothing unread" arrives: the marker clears.
NothingPending ==
    /\ pc["beat"] = "none"
    /\ Finish("beat", "idle")
    /\ deliveryDeferred' = FALSE
    /\ UNCHANGED <<outside, retryDrainSourceEntryIds, aged>>

AlreadyDelivered == \E i \in 1 .. Len(deliveredWakeKeys) : deliveredWakeKeys[i] = request

\* resolveFreshCodexWakeTarget: no thread is loaded, or one is.
resolveFreshCodexWakeTarget(p) ==
    /\ pc[p] = "resolve"
    /\ IF thread = "absent"
       THEN PutOff(p, p # "drain") /\ UNCHANGED outside
       ELSE IF p = "wake" /\ AlreadyDelivered
       THEN /\ Finish("wake", "take")
            /\ UNCHANGED <<outside, retryDrainSourceEntryIds, aged, deliveryDeferred>>
       ELSE Advance(p, "read")

readThread(p) ==
    /\ pc[p] = "read"
    /\ IF thread = "active"
       THEN PutOff(p, p = "beat") /\ UNCHANGED outside
       ELSE Advance(p, IF p = "beat" THEN "start" ELSE "recheck")

\* The app server starts the turn; its answer is on the way.
startTurn(p) ==
    /\ pc[p] = "start"
    /\ thread' = "active" /\ reading' = TRUE
    /\ Goto(p, "answer")
    /\ UNCHANGED <<posted, unread, calls, faults, pendingWakeRequests, request,
                   injectInFlight, deliveredWakeKeys, retryDrainSourceEntryIds, aged,
                   deliveryDeferred, recent>>

\* The newest wake keys are remembered.
rememberDeliveredWake(key) ==
    LET keys == Append(deliveredWakeKeys, key)
    IN  IF Len(keys) > DeliveredWakeKeyCap THEN Tail(keys) ELSE keys

\* The answer: the turn was delivered, and the drain's covers every obligation.
Delivered(p) ==
    /\ pc[p] = "answer"
    /\ Goto(p, IF p = "drain" THEN "idle" ELSE After(p))
    /\ injectInFlight' = FALSE
    /\ deliveredWakeKeys' = IF p = "wake" THEN rememberDeliveredWake(request)
                                          ELSE deliveredWakeKeys
    /\ retryDrainSourceEntryIds' = IF p = "drain" THEN {} ELSE retryDrainSourceEntryIds
    /\ deliveryDeferred' = FALSE /\ recent' = TRUE
    /\ UNCHANGED <<outside, unread, pendingWakeRequests, request, aged>>

\* A request of p fails, or the answer of a turn that started is lost.
Fails(p) ==
    /\ Fault
    /\ pc[p] \in Critical \ {"none"}
    /\ PutOff(p, p = "beat")
    /\ UNCHANGED <<posted, thread, reading, calls>>

\* getActiveCube finds no cube.
NoActiveCube(p) ==
    /\ Fault
    /\ pc[p] = "check"
    /\ Finish(p, After(p))
    /\ UNCHANGED <<posted, thread, reading, calls, retryDrainSourceEntryIds, aged, deliveryDeferred>>

-----------------------------------------------------------------------------
(* The environment.                                                        *)

inside == <<pendingWakeRequests, request, pc, injectInFlight, deliveredWakeKeys,
            retryDrainSourceEntryIds, aged, deliveryDeferred>>

Post(e) ==
    /\ e \notin posted
    /\ posted' = posted \cup {e} /\ unread' = unread \cup {e}
    /\ UNCHANGED <<inside, thread, reading, recent, calls, faults>>

\* The agent reads the log to its end.
ReadLog ==
    /\ thread = "active"
    /\ unread' = {} /\ reading' = FALSE
    /\ UNCHANGED <<inside, posted, thread, recent, calls, faults>>

TurnEnds ==
    /\ thread = "active" /\ ~ reading
    /\ thread' = "idle"
    /\ UNCHANGED <<inside, posted, unread, reading, recent, calls, faults>>

\* The thread is loaded, or another one, for which no wake key is known.
ThreadLoads ==
    /\ thread = "absent"
    /\ thread' = "idle"
    /\ deliveredWakeKeys' \in {deliveredWakeKeys, <<>>}
    /\ UNCHANGED <<posted, unread, reading, pendingWakeRequests, request, pc,
                   injectInFlight, retryDrainSourceEntryIds, aged, deliveryDeferred,
                   recent, calls, faults>>

\* The human starts a turn of their own, or the thread is closed.
HumanTurn ==
    /\ Fault
    /\ thread = "idle"
    /\ thread' \in {"active", "absent"}
    /\ UNCHANGED <<inside, posted, unread, reading, recent, calls>>

\* The cadence, or the age cap, passes only while no path is at work.
Waiting == pc["drain"] # "top" /\ \A p \in Paths : pc[p] \notin Critical

AgeCapPasses ==
    /\ retryDrainInFlight /\ ~ aged /\ Waiting
    /\ aged' = TRUE
    /\ UNCHANGED <<outside, unread, pendingWakeRequests, request, pc, injectInFlight,
                   deliveredWakeKeys, retryDrainSourceEntryIds, deliveryDeferred,
                   recent>>

CadencePasses ==
    /\ recent /\ Waiting
    /\ recent' = FALSE
    /\ UNCHANGED <<inside, outside, unread>>

WakeStep ==
    \/ TakeRequest \/ QueueEmpty
    \/ WakeChecks("check", "resolve") \/ WakeChecks("recheck", "start")

DrainStep ==
    \/ Retry \/ AgeOut \/ DrainWakes
    \/ DrainChecks("check", "resolve") \/ DrainChecks("recheck", "start")

BeatStep == BeatChecks \/ NothingPending

Inject(p) == \/ resolveFreshCodexWakeTarget(p) \/ readThread(p)
             \/ startTurn(p) \/ Delivered(p)

Next ==
    \/ \E r \in Requests : wakeCodexViaAppServer(r)
    \/ WakeStep \/ DrainStep \/ fireCodexHeartbeatTick \/ BeatStep
    \/ \E p \in Paths : Inject(p) \/ Fails(p) \/ NoActiveCube(p)
    \/ \E e \in Entries : Post(e)
    \/ ReadLog \/ TurnEnds \/ ThreadLoads \/ HumanTurn \/ AgeCapPasses \/ CadencePasses

Spec == Init /\ [][Next]_vars

\* The event loop runs what is ready, requests are answered, turns read and end.
\* The timers of the loop and of the heartbeat do not beat in step, so each finds
\* the mutex free in the end, and an obligation that stays read is found so.
FairSpec ==
    /\ Spec
    /\ WF_vars(WakeStep) /\ WF_vars(DrainStep) /\ WF_vars(BeatStep)
    /\ \A p \in Paths : WF_vars(Inject(p))
    /\ SF_vars(fireCodexHeartbeatTick) /\ SF_vars(DrainWakes /\ ~ Locked)
    /\ SF_vars(/\ DrainChecks("check", "resolve")
               /\ retryDrainSourceEntryIds' \subseteq unread)
    /\ WF_vars(ReadLog /\ reading) /\ WF_vars(TurnEnds)
    /\ WF_vars(ThreadLoads) /\ WF_vars(CadencePasses)

-----------------------------------------------------------------------------
(* Properties                                                              *)

\* Every variable keeps its type.
TypeOK ==
    /\ posted \subseteq Entries /\ unread \subseteq posted
    /\ thread \in {"absent", "idle", "active"} /\ reading \in BOOLEAN
    /\ pendingWakeRequests \in Seq(Requests) /\ request \in Requests \cup {<<>>}
    /\ pc \in [Paths -> Steps]
    /\ injectInFlight \in BOOLEAN
    /\ deliveredWakeKeys \in Seq(Requests) /\ Len(deliveredWakeKeys) <= DeliveredWakeKeyCap
    /\ retryDrainSourceEntryIds \subseteq Entries
    /\ aged \in BOOLEAN /\ deliveryDeferred \in BOOLEAN /\ recent \in BOOLEAN
    /\ calls \in 0 .. MaxCalls /\ faults \in 0 .. MaxFaults

\* The mutex "closes that cross-path race": at most one path is between its
\* resolve and its answer, and the mutex is held exactly while one is.
OneInjector ==
    /\ \A p, q \in Paths : pc[p] \in Critical /\ pc[q] \in Critical => p = q
    /\ injectInFlight <=> \E p \in Paths : pc[p] \in Critical

\* An obligation in the retry set has a loop that works on it: no return, prune
\* or age-out of the loop, and no coalesced call, leaves one behind.
ObligationHasLoop ==
    retryDrainSourceEntryIds # {} => retryDrainInFlight

\* codexWakePathHealthy with the bridge armed.
Healthy == ~ retryDrainInFlight /\ retryDrainSourceEntryIds = {} /\ ~ deliveryDeferred

\* "The backstop": every entry is read in the end, whatever the wake and the
\* retry loop dropped.
UnreadIsRead ==
    \A e \in Entries : e \in unread ~> e \notin unread

\* "a seat that recovers by any path returns to healthy": once everything is
\* read, for good, the health signal clears for good.
RecoversToHealthy ==
    <>[](unread = {}) => <>[]Healthy

=============================================================================
