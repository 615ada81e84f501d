-------------------------- MODULE OpenCodeDelivery --------------------------
(***************************************************************************)
(* Wakes of an OpenCode seat (opencode-drone.ts).  The MCP child of the    *)
(* seat injects each log entry into the bound OpenCode session with a POST *)
(* that is not idempotent.  Deliveries are worked off one at a time; each  *)
(* await is a step boundary.  The binding file survives the child and      *)
(* holds the submissions whose outcome is not known.                       *)
(*                                                                         *)
(* Texts are left out (an identity always comes with the same text), and   *)
(* so are diagnostics: failed entries, counters and observations.  Calls   *)
(* may overlap, as the module allows; the stream makes one at a time.      *)
(***************************************************************************)
EXTENDS Naturals, FiniteSets, Sequences

CONSTANTS
    Sources,       \* log entries
    Nonces,        \* wake nonces of re-pings
    None,
    MaxSessions,   \* sessions are numbered in the order of their creation
    HistoryLimit,  \* OPEN_CODE_DELIVERY_HISTORY_LIMIT
    Attempts,      \* length of OPEN_CODE_DELIVERY_RETRY_DELAYS_MS
    MaxCalls, MaxFaults

ASSUME OpenCodeAssumption ==
    /\ {MaxSessions, HistoryLimit, Attempts} \subseteq Nat \ {0}
    /\ {MaxCalls, MaxFaults} \subseteq Nat
    /\ "own" \notin Nonces /\ None \notin Nat

VARIABLES
    arrived, unread,   \* entries the stream received; those the agent has not read
    sessions, created, \* top-level sessions of the directory; how many there ever were
    subs,              \* every POST: identity, session, what became of it
    launched,          \* the launcher bound its session
    mem,               \* cached session, known roots, pendingSubmissions
    file,              \* the binding file
    delivered, unconfirmed, \* deliveredEntries, unconfirmedEntries: how many-th newest, or 0
    queue,             \* deliveryQueue
    work, pc,          \* the delivery under way and where it is
    rec,               \* reconciliations under way
    calls, faults

world == <<arrived, unread, sessions, created, launched, calls>>
history == <<delivered, unconfirmed, rec>>
vars == <<arrived, unread, sessions, created, subs, launched, mem, file, delivered,
          unconfirmed, queue, work, pc, rec, calls, faults>>

Identities == [src : Sources, nonce : Nonces \cup {"own"}]
Own(s) == [src |-> s, nonce |-> "own"]
Ids == 1 .. MaxSessions
Pending == [id : Identities, sess : Ids]
Outcomes == {"flying", "lost", "stored", "shown", "refused", "gone"}
Submissions == [id : Identities, sess : Ids, st : Outcomes]
Memories == [sess : Ids \cup {None}, known : SUBSET Ids, pend : SUBSET Pending]
Files == [sess : Ids, known : SUBSET Ids, pend : SUBSET Pending, claimed : BOOLEAN]
Deliveries == [id : Identities, allow : BOOLEAN, settled : BOOLEAN, accepted : BOOLEAN,
               bound : Ids \cup {None}, known : SUBSET Ids, target : Ids \cup {None},
               conf : Ids \cup {None}, before : BOOLEAN, attempt : 1 .. Attempts]

ASSUME NoneAssumption == None \notin Files \cup Deliveries

\* Submissions whose identity has not appeared and that were not refused.
Unresolved == {x \in subs : x.st \in {"flying", "lost", "stored"}}

Newest(S) == {s \in S : \A t \in S : t <= s}
InSeq(q) == {q[i] : i \in 1 .. Len(q)}

Blank == [sess |-> None, known |-> {}, pend |-> {}]
Forgotten == [i \in Identities |-> 0]

Init ==
    /\ arrived = {} /\ unread = {} /\ sessions = {1} /\ created = 1 /\ subs = {}
    /\ launched = FALSE /\ mem = Blank /\ file = None
    /\ delivered = Forgotten /\ unconfirmed = Forgotten /\ queue = <<>> /\ work = None
    /\ pc = "idle" /\ rec = {} /\ calls = 0 /\ faults = 0

\* What of a step fails: nothing, its request (the transport, the status or the
\* shape of the answer), or its write of the file.
Failures == IF faults < MaxFaults THEN {"none", "request", "write"} ELSE {"none"}
Costs(f) == faults' = faults + (IF f = "none" THEN 0 ELSE 1)

-----------------------------------------------------------------------------
(* The binding: what memory and the file hold after an operation.          *)

Binding == [mem |-> mem, file |-> file]

writeBinding(b, s, known, f) ==
    IF f = "write" THEN b
    ELSE [mem  |-> [b.mem EXCEPT !.sess = s, !.known = known],
          file |-> [sess |-> s, known |-> known, pend |-> b.mem.pend, claimed |-> TRUE]]

\* Nothing can be written while no session is cached.
persistCurrentBinding(b, f) ==
    IF b.mem.sess = None THEN b ELSE writeBinding(b, b.mem.sess, b.mem.known, f)

\* The file of this seat, or the launcher's placeholder, which the seat claims by
\* writing its name into it.
claimPlaceholderBinding(b, f) == b.file # None /\ (b.file.claimed \/ f # "write")

\* The cached session stands while the file does; otherwise the file is read.
restoreBinding(b, f) ==
    CASE b.mem.sess # None /\ b.file # None -> b
      [] b.mem.sess # None /\ b.file = None ->
            [b EXCEPT !.mem.sess = None, !.mem.known = {}]
      [] b.mem.sess = None /\ ~ claimPlaceholderBinding(b, f) -> b
      [] OTHER -> [mem  |-> [sess |-> b.file.sess, known |-> b.file.known, pend |-> b.file.pend],
                   file |-> [b.file EXCEPT !.claimed = TRUE]]

clearAlways(b) == [mem |-> [b.mem EXCEPT !.sess = None, !.known = {}], file |-> None]

\* The file stays while it holds a submission that may have been stored.
clearBinding(b) ==
    [mem  |-> [b.mem EXCEPT !.sess = None, !.known = {}],
     file |-> IF b.mem.pend # {} THEN b.file ELSE None]

PendingOf(b, ids) == {p \in b.mem.pend : p.id \in ids}

\* The markers of ids are dropped, and the file follows if there were any.
clearPendingSubmission(b, ids, f) ==
    IF PendingOf(b, ids) = {} THEN b
    ELSE persistCurrentBinding([b EXCEPT !.mem.pend = @ \ PendingOf(b, ids)], f)

Bind(b) == mem' = b.mem /\ file' = b.file

-----------------------------------------------------------------------------
(* Ending a delivery.                                                      *)

Remembered(h) == {i \in Identities : h[i] # 0}

Without(h, S) ==
    [i \in Identities |-> IF i \in S \/ h[i] = 0 THEN 0
                         ELSE h[i] - Cardinality({j \in S \cap Identities : h[j] \in 1 .. h[i]})]

\* The newest identities are remembered.
rememberBounded(h, id) ==
    [i \in Identities |-> IF i = id THEN 1
                         ELSE IF Without(h, {id})[i] \in {0, HistoryLimit} THEN 0
                         ELSE Without(h, {id})[i] + 1]

Idle == work' = None /\ pc' = "idle"

\* The message of id was seen in its session.
confirmOpenCodeDelivery(b, id, f) ==
    /\ Bind(clearPendingSubmission(b, {id}, f))
    /\ unconfirmed' = Without(unconfirmed, {id})
    /\ delivered' = rememberBounded(delivered, id)

\* A loop looks every 3 s and ends when its entry is not unconfirmed, which a delivery
\* under way is not; to end as unconfirmed takes a delivery 4.25 s of retries.
EarlierLoopEnded(id) == \A r \in rec : r.id # id

\* A confirmation-only loop for an accepted submission, one per identity.
scheduleOpenCodeReconciliation(id, s) ==
    IF \E r \in rec : r.id = id THEN rec ELSE rec \cup {[id |-> id, sess |-> s]}

\* The end of one turn of processOpenCodeDeliveries.
Finish(outcome, d, b, f) ==
    /\ Idle
    /\ IF d.settled THEN Bind(b) /\ UNCHANGED history
       ELSE CASE outcome = "delivered" ->
                    confirmOpenCodeDelivery(b, d.id, f) /\ UNCHANGED rec
              [] outcome = "unconfirmed" ->
                    /\ EarlierLoopEnded(d.id)
                    /\ unconfirmed' = rememberBounded(unconfirmed, d.id)
                    /\ rec' = IF d.accepted THEN scheduleOpenCodeReconciliation(d.id, d.conf)
                                            ELSE rec
                    /\ Bind(b) /\ UNCHANGED delivered
              [] outcome = "failed" ->
                    /\ unconfirmed' = Without(unconfirmed, {d.id})
                    /\ Bind(b) /\ UNCHANGED <<delivered, rec>>
    /\ Costs(f)
    /\ UNCHANGED <<world, queue>>

\* The delivery goes on at step s.
Go(s, d, b, f) ==
    /\ work' = d /\ pc' = s /\ Bind(b) /\ Costs(f)
    /\ UNCHANGED <<world, history, queue>>

\* The next attempt, or the end: without leave to submit the outcome is unknown.
NextAttempt(d, b, f) ==
    IF d.attempt < Attempts
    THEN Go("ask", [d EXCEPT !.attempt = @ + 1], b, f)
    ELSE Finish(IF d.allow THEN "failed" ELSE "unconfirmed", d, b, f)

-----------------------------------------------------------------------------
(* Calls of the stream.                                                    *)

SameSource(ids, i) == {x \in ids : x.src = i.src /\ x # i}
Active == {d.id : d \in InSeq(queue) \cup (IF work = None THEN {} ELSE {work})}

\* An identity that some earlier call of its source stands for is not queued.
Deduplicated(i) ==
    SameSource(Remembered(delivered) \cup Remembered(unconfirmed) \cup Active, i) # {}

Enqueue(i, allow, b) ==
    IF Deduplicated(i) \/ i \in Remembered(delivered) \cup Active
    THEN UNCHANGED <<queue, rec>>
    ELSE IF i \in Remembered(unconfirmed)
    THEN /\ rec' = IF PendingOf(b, {i}) = {} THEN rec
                   ELSE scheduleOpenCodeReconciliation(i,
                            (CHOOSE p \in PendingOf(b, {i}) : TRUE).sess)
         /\ UNCHANGED queue
    ELSE /\ queue' = Append(queue, [id |-> i, allow |-> allow, settled |-> FALSE,
                                    accepted |-> FALSE, bound |-> None, known |-> {},
                                    target |-> None, conf |-> None, before |-> FALSE,
                                    attempt |-> 1])
         /\ UNCHANGED rec

AsRemembered(f) == Binding

\* "Rehydrate durable source markers before source-level deduplication."
Rehydrated(f) == restoreBinding(Binding, f)

\* A call: a marker of the same source turns it into a confirmation of that
\* submission.  (Two such markers send the call back and forth until it throws.)
injectOpenCodeEntry(i) ==
    /\ calls < MaxCalls /\ calls' = calls + 1
    /\ i.src \in arrived
    /\ \E f \in Failures \ {"request"} :
          LET b == Rehydrated(f)
              other == {p \in b.mem.pend : p.id \in SameSource(Identities, i)}
          IN  /\ Bind(b) /\ Costs(f)
              /\ IF other = {} THEN Enqueue(i, TRUE, b)
                 ELSE \E p \in other :
                        IF \E q \in b.mem.pend : q.id \in SameSource(Identities, p.id)
                        THEN UNCHANGED <<queue, rec>>
                        ELSE Enqueue(p.id, FALSE, b)
    /\ UNCHANGED <<arrived, unread, sessions, created, subs, launched, delivered,
                   unconfirmed, work, pc>>

\* What the settling of s leaves: no unconfirmed entry, no marker of an entry that
\* is unconfirmed or active, and every active delivery of s settled.
Settled(d, s) == IF d # None /\ d.id.src = s THEN [d EXCEPT !.settled = TRUE] ELSE d

SettledIds(s) == {i \in Remembered(unconfirmed) \cup Active : i.src = s}

settleOpenCodeEntry(s) ==
    /\ s \in arrived \ unread
    /\ SettledIds(s) # {}
    /\ \E f \in Failures \ {"request"} :
          /\ Bind(clearPendingSubmission(Binding, SettledIds(s), f)) /\ Costs(f)
    /\ unconfirmed' = Without(unconfirmed, SettledIds(s))
    /\ queue' = [j \in 1 .. Len(queue) |-> Settled(queue[j], s)]
    /\ work' = Settled(work, s)
    /\ UNCHANGED <<world, subs, delivered, rec, pc>>

-----------------------------------------------------------------------------
(* deliverOpenCodeEntry, one step per await.                               *)

Shift ==
    /\ work = None /\ queue # <<>>
    /\ work' = Head(queue) /\ queue' = Tail(queue) /\ pc' = "ask"
    /\ UNCHANGED <<world, subs, mem, file, history, faults>>

\* sourcePending finds the entry consumed: this settles it.
Consumed(f) ==
    /\ Bind(clearPendingSubmission(Binding, SettledIds(work.id.src), f)) /\ Costs(f)
    /\ unconfirmed' = Without(unconfirmed, SettledIds(work.id.src))
    /\ queue' = [j \in 1 .. Len(queue) |-> Settled(queue[j], work.id.src)]
    /\ Idle
    /\ UNCHANGED <<world, delivered, rec>>

Ask(s, next) ==
    /\ pc = s
    /\ \E f \in Failures :
          IF s = "ask" /\ work.settled THEN Finish("delivered", work, Binding, f)
          ELSE IF f = "request" THEN Finish("failed", work, Binding, f)
          ELSE IF work.id.src \notin unread THEN Consumed(f)
          ELSE Go(next, work, Binding, f)
    /\ UNCHANGED subs

\* A target is chosen: a submission made before is confirmed where it was made.
ToFind(d, s, b, f) ==
    LET p == PendingOf(b, {d.id})
    IN  Go("find", [d EXCEPT !.target = s, !.bound = None, !.known = {}, !.before = p # {},
                             !.conf = IF p = {} THEN s ELSE (CHOOSE x \in p : TRUE).sess],
           b, f)

resolveInjectionSession ==
    /\ pc = "resolve"
    /\ \E f \in Failures \ {"request"} :
          LET b == restoreBinding(Binding, f)
          IN  IF work.attempt > 1 /\ work.settled THEN Finish("delivered", work, Binding, f)
              ELSE IF work.target # None THEN ToFind(work, work.target, Binding, f)
              ELSE IF b.mem.sess = None THEN Finish("failed", work, b, f)
              ELSE Go("get", [work EXCEPT !.bound = b.file.sess, !.known = b.file.known], b, f)
    /\ UNCHANGED subs

\* Is the bound session still there?
getSession ==
    /\ pc = "get"
    /\ \E f \in Failures \ {"write"} :
          IF f = "request" THEN NextAttempt(work, Binding, f)
          ELSE IF work.bound \in sessions THEN Go("switch", work, Binding, f)
          ELSE Go("replace", work, clearBinding(Binding), f)
    /\ UNCHANGED subs

\* findUnseenTopLevelSession, for a bound session that is gone, or that the user
\* left with /new.
findUnseenTopLevelSession ==
    /\ pc \in {"replace", "switch"}
    /\ LET unseen == sessions \ work.known
       IN  \E f \in Failures :
              IF f # "request" /\ unseen # {}
              THEN \E s \in Newest(unseen) :
                      ToFind(work, s, writeBinding(Binding, s, sessions, f), f)
              ELSE IF pc = "switch" THEN ToFind(work, work.bound, Binding, f)
              ELSE IF f = "request" THEN NextAttempt(work, Binding, f)
              ELSE Finish("failed", work, Binding, f)
    /\ UNCHANGED subs

Shown(i, s) == s \in sessions /\ [id |-> i, sess |-> s, st |-> "shown"] \in subs

\* The look before the POST, for the identity and for its source.
findInjectedMessage ==
    /\ pc = "find"
    /\ \E f \in Failures :
          IF f = "request" \/ work.conf \notin sessions THEN NextAttempt(work, Binding, f)
          ELSE IF Shown(work.id, work.conf) \/ Shown(Own(work.id.src), work.conf)
          THEN Finish("delivered", work, clearPendingSubmission(Binding, {work.id}, f), f)
          ELSE IF work.before
          THEN Go("confirm", [work EXCEPT !.accepted = TRUE, !.attempt = 1], Binding, f)
          ELSE IF ~ work.allow THEN NextAttempt(work, Binding, f)
          ELSE IF work.settled THEN Finish("delivered", work, Binding, f)
          ELSE Go("askAgain", work, Binding, f)
    /\ UNCHANGED subs

\* The intent is made durable, then the one POST goes out.
Submit ==
    /\ pc = "submit"
    /\ \E f \in Failures \ {"request"} :
          LET without == [Binding EXCEPT !.mem.pend = @ \ PendingOf(Binding, {work.id})]
              with == [without EXCEPT !.mem.pend = @ \cup {[id |-> work.id, sess |-> work.target]}]
          IN  IF mem.sess = None \/ f = "write"
              THEN Finish("failed", work, without, f) /\ UNCHANGED subs
              ELSE /\ Go("post", work, persistCurrentBinding(with, f), f)
                   /\ subs' = {x \in subs : ~ (x.id = work.id /\ x.st \in {"refused", "gone"})}
                              \cup {[id |-> work.id, sess |-> work.target, st |-> "flying"]}

Was(st) == [id |-> work.id, sess |-> work.target, st |-> st] \in subs

\* The answer: accepted, refused, or none.
promptSession ==
    /\ pc = "post"
    /\ \E f \in Failures :
          IF f = "request" \/ Was("lost") \/ Was("stored") \/ Was("shown")
          THEN Go("confirm", [work EXCEPT !.accepted = TRUE, !.attempt = 1], Binding, f)
          ELSE /\ Was("refused") \/ Was("gone")
               /\ LET b == clearPendingSubmission(Binding, {work.id}, f)
                  IN  Finish("failed", work, IF Was("gone") THEN clearBinding(b) ELSE b, f)
    /\ UNCHANGED subs

Confirm ==
    /\ pc = "confirm"
    /\ \E f \in Failures :
          IF work.attempt > 1 /\ work.settled THEN Finish("delivered", work, Binding, f)
          ELSE IF f # "request" /\ Shown(work.id, work.conf)
          THEN Finish("delivered", work, clearPendingSubmission(Binding, {work.id}, f), f)
          ELSE IF work.attempt < Attempts
          THEN Go("confirm", [work EXCEPT !.attempt = @ + 1], Binding, f)
          ELSE Finish("unconfirmed", work, Binding, f)
    /\ UNCHANGED subs

\* A look of the reconciliation loop that finds the message.
Reconciled(r) ==
    /\ r \in rec /\ r.id \in Remembered(unconfirmed)
    /\ Shown(r.id, r.sess)
    /\ \E f \in Failures \ {"request"} :
          confirmOpenCodeDelivery(Binding, r.id, f) /\ Costs(f)
    /\ rec' = rec \ {r}
    /\ UNCHANGED <<world, subs, queue, work, pc>>

\* The loop's attempts are used up, or its entry is no longer unconfirmed.
ReconciliationEnds(r) ==
    /\ r \in rec /\ rec' = rec \ {r}
    /\ UNCHANGED <<world, subs, mem, file, delivered, unconfirmed, queue, work, pc, faults>>

-----------------------------------------------------------------------------
(* The launcher, the server, the user and the agent.                       *)

\* The one session that received the launch's kickoff is the first.
findLaunchSession == 1 \in sessions

\* The launcher finds the session with its kickoff and leaves a placeholder.
injectInitialKickoff ==
    /\ ~ launched /\ launched' = TRUE
    /\ findLaunchSession
    /\ file' = [sess |-> 1, known |-> sessions, pend |-> {}, claimed |-> FALSE]
    /\ UNCHANGED <<arrived, unread, sessions, created, subs, mem, history, queue, work,
                   pc, calls, faults>>

\* The MCP child stops and another one connects: only the file survives.
connectOpenCodeDrone ==
    /\ faults < MaxFaults /\ faults' = faults + 1
    /\ mem' = Blank /\ delivered' = Forgotten /\ unconfirmed' = Forgotten /\ rec' = {}
    /\ queue' = <<>> /\ Idle
    /\ UNCHANGED <<arrived, unread, sessions, created, subs, launched, file, calls>>

Becomes(x, st) == subs' = (subs \ {x}) \cup {[x EXCEPT !.st = st]}

\* The OpenCode server takes a POST, refuses it, does not know its session, or
\* never gets it; a stored message appears, with its metadata, at some time or
\* never.
ServerHandles(x) ==
    /\ x \in subs
    /\ \/ x.st = "flying" /\ x.sess \in sessions /\ Becomes(x, "stored") /\ UNCHANGED faults
       \/ x.st = "flying" /\ x.sess \notin sessions /\ Becomes(x, "gone") /\ UNCHANGED faults
       \/ /\ x.st = "flying" /\ faults < MaxFaults /\ faults' = faults + 1
          /\ \E st \in {"refused", "lost"} : Becomes(x, st)
       \/ x.st = "stored" /\ Becomes(x, "shown") /\ UNCHANGED faults
    /\ UNCHANGED <<world, mem, file, history, queue, work, pc>>

Arrives(s) ==
    /\ s \notin arrived
    /\ arrived' = arrived \cup {s} /\ unread' = unread \cup {s}
    /\ UNCHANGED <<sessions, created, subs, launched, mem, file, history, queue, work, pc, calls, faults>>

Reads ==
    /\ unread # {} /\ unread' = {}
    /\ UNCHANGED <<arrived, sessions, created, subs, launched, mem, file, history, queue,
                   work, pc, calls, faults>>

\* The user opens a session with /new, or deletes one.
NewSession ==
    /\ created < MaxSessions /\ created' = created + 1
    /\ sessions' = sessions \cup {created + 1}
    /\ UNCHANGED <<arrived, unread, subs, launched, mem, file, history, queue, work, pc, calls, faults>>

DeleteSession(s) ==
    /\ faults < MaxFaults /\ faults' = faults + 1
    /\ s \in sessions /\ sessions' = sessions \ {s}
    /\ UNCHANGED <<arrived, unread, created, subs, launched, mem, file, history, queue,
                   work, pc, calls>>

-----------------------------------------------------------------------------
deliverOpenCodeEntry ==
    \/ Shift \/ Ask("ask", "resolve") \/ resolveInjectionSession \/ getSession
    \/ findUnseenTopLevelSession \/ findInjectedMessage \/ Ask("askAgain", "submit")
    \/ Submit \/ promptSession \/ Confirm

Next ==
    \/ \E i \in Identities : injectOpenCodeEntry(i)
    \/ \E s \in Sources : settleOpenCodeEntry(s) \/ Arrives(s)
    \/ deliverOpenCodeEntry
    \/ \E r \in rec : Reconciled(r) \/ ReconciliationEnds(r)
    \/ injectInitialKickoff \/ connectOpenCodeDrone
    \/ \E x \in subs : ServerHandles(x)
    \/ Reads \/ NewSession \/ \E s \in sessions : DeleteSession(s)

Spec == Init /\ [][Next]_vars

-----------------------------------------------------------------------------
(* Properties.                                                             *)

\* Every variable keeps its type; the histories of openCode deliveries stay
\* within their limit.
TypeOK ==
    /\ arrived \subseteq Sources /\ unread \subseteq arrived
    /\ sessions \subseteq 1 .. created /\ created \in Ids /\ subs \subseteq Submissions
    /\ launched \in BOOLEAN
    /\ mem \in Memories /\ file \in Files \cup {None}
    /\ {delivered, unconfirmed} \subseteq [Identities -> 0 .. HistoryLimit]
    /\ queue \in Seq(Deliveries) /\ (work = None \/ work \in Deliveries)
    /\ (work = None) <=> (pc = "idle")
    /\ rec \subseteq Pending
    /\ calls \in 0 .. MaxCalls /\ faults \in 0 .. MaxFaults

\* "Persist the intent before the one POST": whatever the child, its memory or
\* the bound session go through, the file names every submission whose outcome
\* is unknown, as long as its entry is unread.
IntentIsDurable ==
    \A x \in Unresolved : x.id.src \in unread =>
        file # None /\ [id |-> x.id, sess |-> x.sess] \in file.pend

\* "Every recovery path is confirmation-only until that identity appears": no
\* POST goes out for an entry that has one whose outcome is unknown, under
\* whatever nonce and in whatever session.
NoBlindResubmit ==
    [][\A x \in subs' \ subs : x.st = "flying" =>
          ~ \E y \in Unresolved : y.id.src = x.id.src]_vars

=============================================================================
