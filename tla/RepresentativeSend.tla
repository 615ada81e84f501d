-------------------------- MODULE RepresentativeSend --------------------------
(***************************************************************************)
(* borg_representative_send: the request ledger that stands between a      *)
(* human's automated representative and the cube log.                      *)
(*                                                                         *)
(* Source: src/src/representative-core.ts (sendOnce) and                   *)
(* src/src/representative-store.ts (transactRequests, saveBinding).        *)
(*                                                                         *)
(* Any number of host processes run sends at once.  A send is three        *)
(* separated steps: one transaction that reserves the request id in the    *)
(* ledger, a live verification, and ONE append whose outcome is recorded   *)
(* by a second transaction.  Between them other sends, a rebind by the     *)
(* operator, a crash, or an append that is answered late (or never, or     *)
(* arrives after the sender gave up) may intervene.                        *)
(*                                                                         *)
(* Abstractions.  The payload digest is the content itself (two contents   *)
(* never collide).  A generation is a number, a selection (origin, trust,  *)
(* cube, representative, Coordinator) a model value.  A generated request  *)
(* id and an unused id given by the caller behave alike, so a send names   *)
(* any id.  The ledger's row order is the order of record creation.        *)
(***************************************************************************)
EXTENDS Naturals, FiniteSets

CONSTANTS
    Calls,        \* concurrent borg_representative_send calls, in any process
    Ids,          \* request ids (protocol post_id)
    Contents,     \* message payloads, told apart by their digest
    Selections,   \* what `borg representative prepare` may bind
    NoContent,    \* the content of no record
    NoPost,       \* the post of an idle call
    SettledLimit, \* SETTLED_REQUEST_LIMIT
    MaxSends,     \* bound: sends started
    MaxRebinds    \* bound: rebinds by the operator

ASSUME LimitAssumption == SettledLimit \in Nat
ASSUME BoundAssumption == MaxSends \in Nat /\ MaxRebinds \in Nat
ASSUME SelectionAssumption == Selections # {}
ASSUME NoContentAssumption == NoContent \notin Contents

VARIABLES
    generation,  \* the worktree's current binding generation
    selection,   \* what that generation is bound to
    ledger,      \* the generation's request records
    created,     \* records created so far: the row order
    call,        \* what each call is doing
    orphans,     \* appends whose sender stopped waiting, still under way
    log,         \* external: the posts the Borg server holds
    started,     \* sends started (bound)
    forgotten    \* history: stored-or-unresolved ids whose record was dropped

vars == <<generation, selection, ledger, created, call, orphans, log,
          started, forgotten>>

-----------------------------------------------------------------------------
(* The ledger.                                                             *)

States == {"absent", "pending", "ambiguous", "sent", "rejected"}

Record == [state : States, maybeStored : BOOLEAN,
           content : Contents \cup {NoContent}, at : Nat]

Absent == [state |-> "absent", maybeStored |-> FALSE,
           content |-> NoContent, at |-> 0]

Unresolved(r) == r.state \in {"pending", "ambiguous"}
Settled(r) == r.state \in {"sent", "rejected"}

\* Settled records that still fit the limit, newest first; an unresolved
\* record always fits.
Fits(records, i) ==
    \/ ~ Settled(records[i])
    \/ Cardinality({j \in Ids : /\ Settled(records[j])
                                /\ records[j].at > records[i].at}) < SettledLimit

pruneSettled(records) ==
    [i \in Ids |-> IF Fits(records, i) THEN records[i] ELSE Absent]

\* transactRequests: every transaction that changed the ledger prunes it.
Commit(records) ==
    /\ ledger' = pruneSettled(records)
    /\ forgotten' = forgotten \cup
           {<<selection, i>> : i \in {j \in Ids : /\ records[j].state = "sent"
                                                  /\ ~ Fits(records, j)}}

-----------------------------------------------------------------------------
(* The calls and the server.                                               *)

Answers == {"none", "stored", "refused"}
Priors == {"absent", "pending", "ambiguous", "rejected"}

Post == [sel : Selections, id : Ids, content : Contents]

NoCall == [pc |-> "idle", gen |-> 0, post |-> NoPost, prior |-> "absent",
           answer |-> "none"]

CallState == {NoCall} \cup
             [pc : {"reserving", "verifying", "waiting"}, gen : Nat,
              post : Post, prior : Priors, answer : Answers]

Current(c) == call[c].gen = generation
Return(c) == call' = [call EXCEPT ![c] = NoCall]

\* The server holds another message under this post id.
Conflict(p) == \E q \in log : /\ q.sel = p.sel
                              /\ q.id = p.id
                              /\ q.content # p.content

Init ==
    /\ generation = 0
    /\ selection \in Selections
    /\ ledger = [i \in Ids |-> Absent]
    /\ created = 0
    /\ call = [c \in Calls |-> NoCall]
    /\ orphans = {}
    /\ log = {}
    /\ started = 0
    /\ forgotten = {}

-----------------------------------------------------------------------------
(* sendOnce                                                                *)

\* The tool call resolves the current binding, then awaits.
Begin(c, i, m) ==
    /\ call[c].pc = "idle"
    /\ started < MaxSends
    /\ call' = [call EXCEPT ![c] =
                  [pc |-> "reserving", gen |-> generation,
                   post |-> [sel |-> selection, id |-> i, content |-> m],
                   prior |-> "absent", answer |-> "none"]]
    /\ started' = started + 1
    /\ UNCHANGED <<generation, selection, ledger, created, orphans, log, forgotten>>

\* Mutant: the check forgets the ambiguous requests.
PendingElsewhere(p) ==
    \E j \in Ids : /\ j # p.id
                   /\ ledger[j].content = p.content
                   /\ ledger[j].state = "pending"

\* Identical content is in flight or unresolved under another id.
UnresolvedElsewhere(p) ==
    \E j \in Ids : /\ j # p.id
                   /\ ledger[j].content = p.content
                   /\ Unresolved(ledger[j])

\* The reservation refuses: the binding was rebound, the id was used for
\* other content, the request was already sent, or identical content is
\* unresolved under another id.  Nothing changes.
Refuse(c) ==
    LET p == call[c].post
        r == ledger[p.id]
    IN  \/ ~ Current(c)
        \/ r.state # "absent" /\ r.content # p.content
        \/ r.state = "sent"
        \/ r.state \in {"absent", "rejected"} /\ UnresolvedElsewhere(p)

ReserveRefused(c) ==
    /\ call[c].pc = "reserving"
    /\ Refuse(c)
    /\ Return(c)
    /\ UNCHANGED <<generation, selection, ledger, created, orphans, log,
                   started, forgotten>>

\* Mutant: a retry does not remember that an earlier attempt may be stored.
ReservedForgetful(r, p) ==
    IF r.state = "absent"
    THEN [state |-> "pending", maybeStored |-> FALSE,
          content |-> p.content, at |-> created + 1]
    ELSE [r EXCEPT !.state = "pending"]

\* The record a reservation leaves: pending, and remembered as possibly
\* stored when an earlier attempt under this id is unresolved.
Reserved(r, p) ==
    IF r.state = "absent"
    THEN [state |-> "pending", maybeStored |-> FALSE,
          content |-> p.content, at |-> created + 1]
    ELSE [r EXCEPT !.state = "pending",
                   !.maybeStored = @ \/ Unresolved(r)]

Reserve(c) ==
    LET p == call[c].post
        r == ledger[p.id]
    IN  /\ call[c].pc = "reserving"
        /\ ~ Refuse(c)
        /\ Commit([ledger EXCEPT ![p.id] = Reserved(r, p)])
        /\ created' = IF r.state = "absent" THEN created + 1 ELSE created
        /\ call' = [call EXCEPT ![c].pc = "verifying", ![c].prior = r.state]
        /\ UNCHANGED <<generation, selection, orphans, log, started>>

\* verifyLiveBinding succeeds; the append is transmitted, once.
Transmit(c) ==
    /\ call[c].pc = "verifying"
    /\ call' = [call EXCEPT ![c].pc = "waiting"]
    /\ UNCHANGED <<generation, selection, ledger, created, orphans, log,
                   started, forgotten>>

\* What releasing the reservation of a call that found `prior` leaves.
Released(r, prior) ==
    IF r.state # "pending" THEN r
    ELSE IF r.maybeStored
         THEN IF prior = "ambiguous" THEN [r EXCEPT !.state = "ambiguous"] ELSE r
         ELSE IF prior = "absent" THEN Absent ELSE [r EXCEPT !.state = prior]

\* verifyLiveBinding fails: nothing was posted, the reservation is released.
\* After a rebind the transaction is skipped.
Release(c) ==
    LET i == call[c].post.id
    IN  /\ call[c].pc = "verifying"
        /\ IF Current(c)
           THEN Commit([ledger EXCEPT ![i] = Released(@, call[c].prior)])
           ELSE UNCHANGED <<ledger, forgotten>>
        /\ Return(c)
        /\ UNCHANGED <<generation, selection, created, orphans, log, started>>

\* What settling a call leaves of its record; a record that is gone is made
\* again in the settled state.
Settlement(r, p, state) ==
    LET base == IF r.state = "absent"
                THEN [state |-> state, maybeStored |-> FALSE,
                      content |-> p.content, at |-> created + 1]
                ELSE r
        maybe == base.maybeStored \/ state = "ambiguous"
    IN  IF base.state = "sent" THEN base
        ELSE [base EXCEPT
                !.state = IF state = "rejected" /\ maybe THEN "ambiguous" ELSE state,
                !.maybeStored = maybe /\ state # "sent"]

settle(c, state) ==
    LET p == call[c].post
        r == ledger[p.id]
    IN  IF Current(c)
        THEN /\ Commit([ledger EXCEPT ![p.id] = Settlement(r, p, state)])
             /\ created' = IF r.state = "absent" THEN created + 1 ELSE created
        ELSE UNCHANGED <<ledger, forgotten, created>>

\* The answer is the stored entry: the request is sent.
SettleSent(c) ==
    /\ call[c].pc = "waiting"
    /\ call[c].answer = "stored"
    /\ settle(c, "sent")
    /\ Return(c)
    /\ UNCHANGED <<generation, selection, orphans, log, started>>

\* classifyAppendFailure: a typed refusal answered the one attempt.
SettleRejected(c) ==
    /\ call[c].pc = "waiting"
    /\ call[c].answer = "refused"
    /\ settle(c, "rejected")
    /\ Return(c)
    /\ UNCHANGED <<generation, selection, orphans, log, started>>

\* The append may still be on its way when its sender stops waiting.
Abandon(c) ==
    orphans' = IF call[c].pc = "waiting" /\ call[c].answer = "none"
               THEN orphans \cup {call[c].post}
               ELSE orphans

\* classifyAppendFailure: no answer, a 5xx, or an answer that cannot be read.
SettleAmbiguous(c) ==
    /\ call[c].pc = "waiting"
    /\ Abandon(c)
    /\ settle(c, "ambiguous")
    /\ Return(c)
    /\ UNCHANGED <<generation, selection, log, started>>

\* The process dies, or a state transaction throws, in the middle of a call.
Crash(c) ==
    /\ call[c].pc # "idle"
    /\ Abandon(c)
    /\ Return(c)
    /\ UNCHANGED <<generation, selection, ledger, created, log, started, forgotten>>

-----------------------------------------------------------------------------
(* External: the Borg server deduplicates on the post id and refuses       *)
(* another message under it; it may refuse any append without storing it.  *)

ServerStores(c) ==
    /\ call[c].pc = "waiting"
    /\ call[c].answer = "none"
    /\ ~ Conflict(call[c].post)
    /\ log' = log \cup {call[c].post}
    /\ call' = [call EXCEPT ![c].answer = "stored"]
    /\ UNCHANGED <<generation, selection, ledger, created, orphans, started, forgotten>>

ServerRefuses(c) ==
    /\ call[c].pc = "waiting"
    /\ call[c].answer = "none"
    /\ call' = [call EXCEPT ![c].answer = "refused"]
    /\ UNCHANGED <<generation, selection, ledger, created, orphans, log,
                   started, forgotten>>

OrphanStored(p) ==
    /\ ~ Conflict(p)
    /\ log' = log \cup {p}
    /\ orphans' = orphans \ {p}
    /\ UNCHANGED <<generation, selection, ledger, created, call, started, forgotten>>

OrphanLost(p) ==
    /\ orphans' = orphans \ {p}
    /\ UNCHANGED <<generation, selection, ledger, created, call, log, started, forgotten>>

-----------------------------------------------------------------------------
\* saveBinding with rebind: always a new generation; the same selection
\* carries its ledger, another one starts with none.
saveBinding(s) ==
    /\ generation < MaxRebinds
    /\ generation' = generation + 1
    /\ selection' = s
    /\ IF s = selection
       THEN UNCHANGED <<ledger, forgotten>>
       ELSE /\ ledger' = [i \in Ids |-> Absent]
            /\ forgotten' = forgotten \cup
                 {<<selection, i>> : i \in {j \in Ids :
                     ledger[j].state \in {"pending", "ambiguous", "sent"}}}
    /\ UNCHANGED <<created, call, orphans, log, started>>

Next ==
    \/ \E c \in Calls, i \in Ids, m \in Contents : Begin(c, i, m)
    \/ \E c \in Calls : \/ ReserveRefused(c)
                        \/ Reserve(c)
                        \/ Transmit(c)
                        \/ Release(c)
                        \/ SettleSent(c)
                        \/ SettleRejected(c)
                        \/ SettleAmbiguous(c)
                        \/ Crash(c)
                        \/ ServerStores(c)
                        \/ ServerRefuses(c)
    \/ \E p \in orphans : OrphanStored(p) \/ OrphanLost(p)
    \/ \E s \in Selections : saveBinding(s)

Spec == Init /\ [][Next]_vars

-----------------------------------------------------------------------------
(* Properties                                                              *)

\* Every variable keeps its type; the ledger holds at most one record per id.
TypeOK ==
    /\ generation \in Nat
    /\ selection \in Selections
    /\ ledger \in [Ids -> Record]
    /\ created \in Nat
    /\ call \in [Calls -> CallState]
    /\ orphans \subseteq Post
    /\ log \subseteq Post
    /\ started \in Nat
    /\ forgotten \subseteq Selections \X Ids

Remembered(s, i) == <<s, i>> \notin forgotten

\* sendOnce, settle: "a definite refusal never hides an attempt that may be
\* stored".  A post the server holds is recorded with its content as sent or
\* still unresolved, whatever retries, releases, crashes, late arrivals and
\* rebinds happened, as long as the ledger was not made to drop it.
StoredIsAccountedFor ==
    \A p \in log :
        Remembered(p.sel, p.id) =>
            /\ p.sel = selection
            /\ ledger[p.id].state \in {"pending", "ambiguous", "sent"}
            /\ ledger[p.id].content = p.content

\* sendOnce, reservation: "overlapping calls cannot both conclude nothing is
\* in flight".  Identical content is unresolved under at most one id.
OneUnresolvedPerContent ==
    \A i, j \in Ids :
        /\ i # j
        /\ Unresolved(ledger[i]) /\ Unresolved(ledger[j])
        /\ Remembered(selection, i) /\ Remembered(selection, j)
        => ledger[i].content # ledger[j].content

\* SAME_ID_RETRY and the reservation together: the Coordinator sees the same
\* content twice only if the ledger knows one of the two copies was sent, so
\* a second copy is never the blind retry of an unresolved send.
NoBlindDuplicate ==
    \A p, q \in log :
        /\ p.id # q.id /\ p.sel = q.sel /\ p.content = q.content
        /\ Remembered(p.sel, p.id) /\ Remembered(q.sel, q.id)
        => ledger[p.id].state = "sent" \/ ledger[q.id].state = "sent"

\* A remembered record says sent only when the server holds exactly that post:
\* neither a late settlement nor a release marks content the server never got.
SentIsStored ==
    \A i \in Ids : ledger[i].state = "sent" /\ Remembered(selection, i) =>
        [sel |-> selection, id |-> i, content |-> ledger[i].content] \in log

-----------------------------------------------------------------------------
(* The inductive invariant behind the safety properties.                   *)

\* Call c holds a reservation of id i under selection s.
Holds(c, s, i) == /\ call[c].pc \in {"verifying", "waiting"}
                  /\ call[c].post.sel = s
                  /\ call[c].post.id = i

\* Some attempt under this id reached the server or still may.
MayBeStored(s, i) == \E p \in log \cup orphans : p.sel = s /\ p.id = i

\* Nothing is under way or stored under this id.
Untouched(s, i) == /\ \A c \in Calls : ~ Holds(c, s, i)
                   /\ ~ MayBeStored(s, i)

\* maybeStored marks unresolved records only, and every remembered ambiguous one.
FlagMeansUnresolved ==
    \A i \in Ids : /\ ledger[i].maybeStored => Unresolved(ledger[i])
                   /\ Remembered(selection, i) /\ ledger[i].state = "ambiguous"
                        => ledger[i].maybeStored
                   /\ ledger[i].state = "absent" => ledger[i] = Absent

\* An id with no record, or refused, has no attempt anywhere; so has every id
\* of a selection that is not the current one.
NoHiddenAttempt ==
    \A s \in Selections, i \in Ids :
        /\ Remembered(s, i)
        /\ s # selection \/ ledger[i].state \in {"absent", "rejected"}
        => Untouched(s, i)

\* A pending record that is not marked maybeStored belongs to one call at
\* most, and nothing is stored under it but by that call's own append.
SoleHolder ==
    \A i \in Ids, c \in Calls :
        /\ Remembered(selection, i)
        /\ ledger[i].state = "pending" /\ ~ ledger[i].maybeStored
        /\ Holds(c, selection, i)
        => /\ \A d \in Calls : Holds(d, selection, i) => d = c
           /\ call[c].prior \in {"absent", "rejected"}
           /\ call[c].pc = "verifying" \/ call[c].answer # "stored"
                => ~ MayBeStored(selection, i)

\* Every attempt under a recorded id carries the record's content.
SameContent ==
    \A i \in Ids :
        /\ Remembered(selection, i)
        /\ ledger[i].state # "absent"
        => /\ \A c \in Calls : Holds(c, selection, i) =>
                  call[c].post.content = ledger[i].content
           /\ \A p \in log \cup orphans : p.sel = selection /\ p.id = i =>
                  p.content = ledger[i].content

\* An answer naming the stored entry is true.
AnswersAreTrue ==
    \A c \in Calls : call[c].answer = "stored" => call[c].post \in log

\* A call of the current generation is bound to the current selection.
CurrentMeansSelected ==
    \A c \in Calls : call[c].pc # "idle" =>
        /\ call[c].gen <= generation
        /\ call[c].gen = generation => call[c].post.sel = selection

\* The inductive invariant of the send protocol: an id whose record denies an
\* attempt has none, an unmarked reservation has one holder, and the record
\* agrees with every attempt about the content.
LedgerInv ==
    /\ TypeOK
    /\ FlagMeansUnresolved
    /\ NoHiddenAttempt
    /\ SoleHolder
    /\ SameContent
    /\ AnswersAreTrue
    /\ CurrentMeansSelected
    /\ SentIsStored
    /\ OneUnresolvedPerContent

=============================================================================
