------------------------ MODULE RepresentativeDelivery ------------------------
(***************************************************************************)
(* borg_representative_read and borg_representative_deliver: the delivered *)
(* checkpoint and the read window of a binding generation.                 *)
(*                                                                         *)
(* Source: src/src/representative-core.ts (readRepresentativeReplies,      *)
(* deliverRepresentativeReplies, ackRepresentativeReply, serverHead) and   *)
(* src/src/representative-delivery-store.ts.                               *)
(*                                                                         *)
(* Calls run in any number of processes.  Each is a few transactions on    *)
(* the state database with server reads between them: ensure the delivery  *)
(* row, resolve a pending start from the server head, snapshot the window  *)
(* start (T1), scan the log, widen the read fence (T2); or check and       *)
(* advance the checkpoint.  The log grows, other calls commit and the      *)
(* operator rebinds in between.                                            *)
(*                                                                         *)
(* Abstractions.  A log point (created_at, id) is its position in the      *)
(* server's log; 0 stands for no point and for the nil point a binding     *)
(* start precedes.  The log only grows at its end, so a scan of many pages *)
(* sees what one look at its last page would.  The byte budget of a read   *)
(* takes any prefix of what fits its limit, or refuses an oversize entry.  *)
(* Wake records are the push component's.                                  *)
(***************************************************************************)
EXTENDS Naturals, FiniteSets, Sequences

CONSTANTS
    Readers,     \* concurrent tool calls, in any process
    ReadLimit,   \* the most replies one read returns
    ReturnedCap, \* RETURNED_CAP
    MaxLog,      \* bound: entries of the server's log
    MaxReplyRebinds \* bound: rebinds by the operator

ASSUME CapAssumption == /\ ReadLimit \in Nat \ {0}
                        /\ ReturnedCap = 2 * ReadLimit
ASSUME DeliveryBoundAssumption == MaxLog \in Nat /\ MaxReplyRebinds \in Nat

VARIABLES
    serverLog,   \* external: the cube log, each entry as the binding sees it
    boundGeneration, \* the worktree's current binding generation
    bound,       \* each generation's binding start (boundAt)
    delivery,    \* each generation's delivery row
    seatHistory, \* another generation of the seat has delivery state
    reader,      \* what each call is doing
    read         \* history: the entries a read of each generation returned

deliveryVars == <<serverLog, boundGeneration, bound, delivery, seatHistory, reader, read>>

Generations == 0 .. MaxReplyRebinds
Kinds == {"direct", "broadcast", "other"}
Points == 0 .. MaxLog

\* "absent": no row yet; "head-pending": an imported 5.x binding's first use
\* has not resolved its start yet.
StartKinds == {"absent", "head-pending", "head", "binding"}

Row == [kind : StartKinds, start : Points, checkpoint : Points,
        readThrough : Points, returned : SUBSET (1 .. MaxLog)]

NoRow == [kind |-> "absent", start |-> 0, checkpoint |-> 0, readThrough |-> 0,
          returned |-> {}]

Resolved(row) == row.kind \in {"head", "binding"}

later(a, b) == IF a >= b THEN a ELSE b

-----------------------------------------------------------------------------
(* Calls.                                                                  *)

NoReader == [pc |-> "idle", gen |-> 0, point |-> 0, window |-> {}]

\* point: the server head while it is resolved (0: none), then T1's window start.
ReaderState ==
    [pc : {"idle", "head", "resolving", "ready", "scanning", "widening"},
     gen : Generations, point : Points, window : SUBSET (1 .. MaxLog)]

BoundNow(c) == reader[c].gen = boundGeneration
ReturnReplies(c) == reader' = [reader EXCEPT ![c] = NoReader]
SetRow(g, row) == delivery' = [delivery EXCEPT ![g] = row]

DeliveryInit ==
    /\ serverLog = <<>>
    /\ boundGeneration = 0
    /\ bound = [g \in Generations |-> 0]
    /\ \E kind \in {"absent", "head-pending"} :
          delivery = [g \in Generations |->
                        IF g = 0 THEN [NoRow EXCEPT !.kind = kind] ELSE NoRow]
    /\ seatHistory = FALSE
    /\ reader = [c \in Readers |-> NoReader]
    /\ read = [g \in Generations |-> {}]

-----------------------------------------------------------------------------
(* ensureDeliveryState, which every tool call runs first.                  *)

\* First transaction, under the binding the call resolved: a prepared
\* generation without a row starts at its binding start.  A rebind before it
\* refuses the call and changes nothing, as if it had not begun.
Ensure(c) ==
    LET row == delivery[boundGeneration]
        Enter(l) == reader' = [reader EXCEPT ![c] = [NoReader EXCEPT !.pc = l, !.gen = boundGeneration]]
    IN  /\ reader[c].pc = "idle"
        /\ \/ /\ row.kind = "absent"
              /\ SetRow(boundGeneration, [NoRow EXCEPT !.kind = "binding", !.start = bound[boundGeneration]])
              /\ Enter("ready")
           \/ /\ row.kind = "head-pending"
              /\ Enter("head")
              /\ UNCHANGED delivery
           \/ /\ Resolved(row)
              /\ Enter("ready")
              /\ UNCHANGED delivery
        /\ UNCHANGED <<serverLog, boundGeneration, bound, seatHistory, read>>

\* The newest point of the log, outside any transaction; none for an empty
\* log or one that outgrows SERVER_HEAD_MAX_PAGES.
serverHead(c) ==
    /\ reader[c].pc = "head"
    /\ \E head \in {0, Len(serverLog)} :
          reader' = [reader EXCEPT ![c] = [@ EXCEPT !.pc = "resolving", !.point = head]]
    /\ UNCHANGED <<serverLog, boundGeneration, bound, delivery, seatHistory, read>>

\* The start another call resolved meanwhile stands.
StillPending(row) == row.kind = "head-pending"

\* Second transaction: the head, or the binding start when there is none or the
\* seat has delivery history by now.
Resolve(c) ==
    LET g == reader[c].gen
        row == delivery[g]
        head == reader[c].point
        start == IF head # 0 /\ ~ seatHistory
                 THEN [kind |-> "head", start |-> head]
                 ELSE [kind |-> "binding", start |-> bound[g]]
    IN  /\ reader[c].pc = "resolving"
        /\ IF ~ BoundNow(c) THEN ReturnReplies(c) /\ UNCHANGED delivery
           ELSE /\ reader' = [reader EXCEPT ![c] = [@ EXCEPT !.pc = "ready", !.point = 0]]
                /\ IF StillPending(row)
                   THEN SetRow(g, [row EXCEPT !.kind = start.kind, !.start = start.start])
                   ELSE UNCHANGED delivery
        /\ UNCHANGED <<serverLog, boundGeneration, bound, seatHistory, read>>

-----------------------------------------------------------------------------
(* readRepresentativeReplies                                               *)

\* scanStart: what every entry of the scan must exceed.
scanStart(row) == later(row.start, row.checkpoint)

\* T1: snapshot the window start of the generation that is current.
ReadSnapshot(c) ==
    /\ reader[c].pc = "ready"
    /\ IF BoundNow(c)
       THEN reader' = [reader EXCEPT ![c] =
                      [@ EXCEPT !.pc = "scanning",
                                !.point = scanStart(delivery[boundGeneration])]]
       ELSE ReturnReplies(c)
    /\ UNCHANGED <<serverLog, boundGeneration, bound, delivery, seatHistory, read>>

\* isAddressedCoordinatorEntry, under include_broadcast.
Addressed(e, broadcast) == \/ serverLog[e] = "direct"
                           \/ serverLog[e] = "broadcast" /\ broadcast

Candidates(c, broadcast) ==
    {e \in 1 .. Len(serverLog) : e > reader[c].point /\ Addressed(e, broadcast)}

\* Mutant: the newest candidates are kept instead of the oldest.
SuffixOf(w, cands) == \A e \in cands \ w, f \in w : e < f

\* The replies that fit are the oldest ones: entries are whole or omitted.
PrefixOf(w, cands) == \A e \in cands \ w, f \in w : f < e

\* Scan the log from the snapshot; take what fits, or refuse an oversize reply.
ReadScan(c, broadcast) ==
    LET cands == Candidates(c, broadcast)
    IN  /\ reader[c].pc = "scanning"
        /\ \/ /\ cands # {}                          \* REPRESENTATIVE_READ_OVERSIZE
              /\ ReturnReplies(c)
           \/ \E w \in SUBSET cands :
                 /\ PrefixOf(w, cands)
                 /\ Cardinality(w) <= ReadLimit
                 /\ cands # {} => w # {}
                 /\ reader' = [reader EXCEPT ![c] = [@ EXCEPT !.pc = "widening", !.window = w]]
        /\ UNCHANGED <<serverLog, boundGeneration, bound, delivery, seatHistory, read>>

\* Mutant: room for one window only.
NewestOneWindow(s) == {e \in s : Cardinality({f \in s : f > e}) < ReadLimit}

Newest(s) == {e \in s : Cardinality({f \in s : f > e}) < ReturnedCap}

Top(w) == CHOOSE e \in w : \A f \in w : f <= e

\* The returned set keeps what is after the checkpoint; the fence only widens.
widenReadWindow(row, w) ==
    IF w = {} THEN row
    ELSE [row EXCEPT
            !.returned = Newest({e \in @ \cup w : e > row.checkpoint}),
            !.readThrough = later(@, Top(w))]

\* T2 refuses when the worktree was rebound since T1.
StillCurrent(c) == BoundNow(c)

\* T2: widen the fence and the membership, then return the replies.
ReadWiden(c) ==
    LET g == reader[c].gen
        w == reader[c].window
    IN  /\ reader[c].pc = "widening"
        /\ IF StillCurrent(c)
           THEN /\ SetRow(g, widenReadWindow(delivery[g], w))
                /\ read' = [read EXCEPT ![g] = @ \cup w]
           ELSE UNCHANGED <<delivery, read>>
        /\ ReturnReplies(c)
        /\ UNCHANGED <<serverLog, boundGeneration, bound, seatHistory>>

-----------------------------------------------------------------------------
(* deliverRepresentativeReplies and ackRepresentativeReply                 *)

advanceCheckpoint(row, e) ==
    LET checkpoint == later(row.checkpoint, e)
    IN  [row EXCEPT !.checkpoint = checkpoint,
                    !.returned = {f \in @ : f > checkpoint}]

\* Membership of the read window, and not beyond the fence.
Deliverable(row, e) == e \in row.returned /\ e <= row.readThrough

\* One transaction: an entry at or before the checkpoint changes nothing; one
\* that is not a Coordinator reply or is outside the window refuses.  An id the
\* server does not know refuses too.
Deliver(c, e) ==
    LET g == reader[c].gen
        row == delivery[g]
    IN  /\ reader[c].pc = "ready"
        /\ IF /\ serverLog[e] # "other"
              /\ BoundNow(c)
              /\ e > row.checkpoint
              /\ Deliverable(row, e)
           THEN SetRow(g, advanceCheckpoint(row, e))
           ELSE UNCHANGED delivery
        /\ ReturnReplies(c)
        /\ UNCHANGED <<serverLog, boundGeneration, bound, seatHistory, read>>

\* Acknowledges a direct reply on the server; no local state changes.
Ack(c) ==
    /\ reader[c].pc = "ready"
    /\ ReturnReplies(c)
    /\ UNCHANGED <<serverLog, boundGeneration, bound, delivery, seatHistory, read>>

-----------------------------------------------------------------------------
(* The environment.                                                        *)

\* A call fails on a server read or a transaction, or its process dies.
Fail(c) ==
    /\ reader[c].pc # "idle"
    /\ ReturnReplies(c)
    /\ UNCHANGED <<serverLog, boundGeneration, bound, delivery, seatHistory, read>>

\* External: the server's log grows.
PostReply(kind) ==
    /\ Len(serverLog) < MaxLog
    /\ serverLog' = Append(serverLog, kind)
    /\ UNCHANGED <<boundGeneration, bound, delivery, seatHistory, reader, read>>

\* Another worktree's generation of the same seat creates its delivery row.
OtherGeneration ==
    /\ ~ seatHistory
    /\ seatHistory' = TRUE
    /\ UNCHANGED <<serverLog, boundGeneration, bound, delivery, reader, read>>

\* saveBinding with rebind: a new generation that starts where it is bound.
rebindDelivery ==
    /\ boundGeneration < MaxReplyRebinds
    /\ boundGeneration' = boundGeneration + 1
    /\ bound' = [bound EXCEPT ![boundGeneration + 1] = Len(serverLog)]
    /\ UNCHANGED <<serverLog, delivery, seatHistory, reader, read>>

DeliveryNext ==
    \/ \E c \in Readers :
          \/ Ensure(c) \/ serverHead(c) \/ Resolve(c)
          \/ ReadSnapshot(c) \/ ReadWiden(c) \/ Ack(c) \/ Fail(c)
          \/ \E broadcast \in BOOLEAN : ReadScan(c, broadcast)
          \/ \E e \in 1 .. Len(serverLog) : Deliver(c, e)
    \/ \E kind \in Kinds : PostReply(kind)
    \/ OtherGeneration
    \/ rebindDelivery

DeliverySpec == DeliveryInit /\ [][DeliveryNext]_deliveryVars

-----------------------------------------------------------------------------
(* Properties                                                              *)

\* Every variable keeps its type.
DeliveryTypeOK ==
    /\ serverLog \in Seq(Kinds) /\ Len(serverLog) <= MaxLog
    /\ boundGeneration \in Generations
    /\ bound \in [Generations -> Points]
    /\ delivery \in [Generations -> Row]
    /\ seatHistory \in BOOLEAN
    /\ reader \in [Readers -> ReaderState]
    /\ read \in [Generations -> SUBSET (1 .. MaxLog)]

\* The delivered checkpoint never passes over a direct Coordinator reply that no
\* read of this generation returned, whatever reads and deliveries overlapped,
\* included broadcasts or not, or were cut short by the byte budget.
NothingSkipped ==
    \A g \in Generations : \A e \in 1 .. Len(serverLog) :
        /\ serverLog[e] = "direct"
        /\ delivery[g].start < e /\ e <= delivery[g].checkpoint
        => e \in read[g]

\* RETURNED_CAP, "Two windows of at most 50 replies (with and without
\* broadcasts)": a reply a read returned stays deliverable until the checkpoint
\* passes it, so the cap never evicts one the host is about to deliver.
ReadStaysDeliverable ==
    \A g \in Generations : \A e \in read[g] :
        e > delivery[g].checkpoint => Deliverable(delivery[g], e)

\* The fence write() enforces: it never refuses a checkpoint deliver accepted.
FenceHolds ==
    \A g \in Generations : delivery[g].checkpoint <= delivery[g].readThrough

\* "Forward-only", "only for the generation that is still current": a
\* superseded generation's row never changes again, a checkpoint never moves
\* back, and a start never moves once some call resolved it.
RowsMoveForward ==
    [][\A g \in Generations :
          LET old == delivery[g]
              new == delivery'[g]
          IN  /\ g # boundGeneration => new = old
              /\ old.checkpoint <= new.checkpoint
              /\ Resolved(old) => new.kind = old.kind /\ new.start = old.start]_deliveryVars

-----------------------------------------------------------------------------
(* The inductive invariant behind NothingSkipped.                          *)

\* Every direct reply after the start and up to e was returned or delivered.
CoveredTo(g, e) ==
    \A d \in 1 .. Len(serverLog) :
        serverLog[d] = "direct" /\ delivery[g].start < d /\ d <= e =>
            d \in read[g] \/ d <= delivery[g].checkpoint

\* The window of a read under way leaves out no direct reply between its
\* snapshot's start and its end, and that start is still behind the row's.
WindowIsPrefix(c) ==
    LET g == reader[c].gen
    IN  /\ reader[c].pc \in {"scanning", "widening"} =>
              reader[c].point <= scanStart(delivery[g])
        /\ reader[c].pc = "widening" =>
              \A e \in reader[c].window :
                 /\ e <= Len(serverLog)
                 /\ \A d \in 1 .. Len(serverLog) :
                       serverLog[d] = "direct" /\ reader[c].point < d /\ d <= e =>
                           d \in reader[c].window

\* A call past its first transaction has a row, and one past both a resolved
\* start.
StartKnown(c) ==
    LET row == delivery[reader[c].gen]
    IN  /\ reader[c].pc # "idle" => row.kind # "absent"
        /\ reader[c].pc \in {"ready", "scanning", "widening"} => Resolved(row)

\* Only the current and earlier generations have rows.
NoFutureRows ==
    \A g \in Generations : g > boundGeneration =>
        delivery[g] = NoRow /\ read[g] = {}

\* Reads cover the log without gaps from a row's start, and its checkpoint is
\* at the end of a covered stretch.
RowInv(g) ==
    /\ delivery[g].checkpoint <= delivery[g].readThrough
    /\ delivery[g].checkpoint <= Len(serverLog)
    /\ delivery[g].returned \subseteq read[g]
    /\ ~ Resolved(delivery[g]) =>
          delivery[g].checkpoint = 0 /\ delivery[g].returned = {} /\ read[g] = {}
    /\ \A e \in read[g] : e <= Len(serverLog) /\ CoveredTo(g, e)
    /\ \A e \in 1 .. Len(serverLog) :
          /\ serverLog[e] = "direct"
          /\ delivery[g].start < e /\ e <= delivery[g].checkpoint
          => e \in read[g]

CallInv(c) ==
    /\ reader[c].gen <= boundGeneration
    /\ WindowIsPrefix(c)
    /\ StartKnown(c)

DeliveryInv ==
    /\ DeliveryTypeOK
    /\ NoFutureRows
    /\ \A g \in Generations : RowInv(g)
    /\ \A c \in Readers : CallInv(c)

=============================================================================
