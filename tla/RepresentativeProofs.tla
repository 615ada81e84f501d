------------------------ MODULE RepresentativeProofs ------------------------
(***************************************************************************)
(* Proofs about the representative's two tools: RepresentativeSend, for    *)
(* every set of calls, ids, contents and selections, every history limit   *)
(* and every bound, and RepresentativeDelivery, for any number of calls,   *)
(* any log, any number of rebinds and any read limit.                      *)
(***************************************************************************)
EXTENDS RepresentativeSend, RepresentativeDelivery, FiniteSetTheorems, WellFoundedInduction, TLAPS

\* What a transaction leaves of a record: the record, unless it is settled
\* history that no longer fits; a sent record that is dropped is forgotten.
Leaves(i, r) ==
    \/ ledger'[i] = r
    \/ /\ Settled(r)
       /\ ledger'[i] = Absent
       /\ r.state = "sent" => <<selection, i>> \in forgotten'

\* What a transaction does to the whole ledger.
Committed(records) ==
    /\ ledger' \in [Ids -> Record]
    /\ \A i \in Ids : Leaves(i, records[i])
    /\ forgotten \subseteq forgotten'
    /\ forgotten' \subseteq Selections \X Ids

\* The record that stands for "no record" has the type of records.
LEMMA AbsentType == Absent \in Record
  BY DEF Absent, Record, States

\* "No record" is the absent state, unmarked.
LEMMA AbsentFacts == Absent.state = "absent" /\ Absent.maybeStored = FALSE
  BY DEF Absent

\* A transaction keeps unresolved records and drops settled ones only.
LEMMA CommitLemma ==
    ASSUME TypeOK, NEW records \in [Ids -> Record], Commit(records)
    PROVE  Committed(records)
<1>1. ledger' \in [Ids -> Record]
  BY AbsentType DEF Commit, pruneSettled
<1>2. ASSUME NEW i \in Ids
      PROVE  Leaves(i, records[i])
  <2>1. CASE Fits(records, i)
    BY <2>1 DEF Commit, pruneSettled, Leaves
  <2>2. CASE ~ Fits(records, i)
    <3>1. ledger'[i] = Absent
      BY <2>2 DEF Commit, pruneSettled
    <3>2. Settled(records[i])
      BY <2>2 DEF Fits
    <3>3. records[i].state = "sent" => <<selection, i>> \in forgotten'
      BY <2>2 DEF Commit
    <3> QED BY <3>1, <3>2, <3>3 DEF Leaves
  <2> QED BY <2>1, <2>2
<1>3. forgotten \subseteq forgotten'
  BY DEF Commit
<1>4. forgotten' \subseteq Selections \X Ids
  BY DEF Commit, TypeOK
<1> QED BY <1>1, <1>2, <1>3, <1>4 DEF Committed

\* A reservation, a release and a settlement leave a record.
LEMMA ReservedType ==
    ASSUME TypeOK, NEW r \in Record, NEW p \in Post
    PROVE  Reserved(r, p) \in Record
<1> DEFINE b == r.maybeStored \/ Unresolved(r)
<1>1. b \in BOOLEAN
  BY Zenon
<1>2. Reserved(r, p) = IF r.state = "absent"
                       THEN [state |-> "pending", maybeStored |-> FALSE,
                             content |-> p.content, at |-> created + 1]
                       ELSE [r EXCEPT !.state = "pending", !.maybeStored = b]
  BY DEF Reserved
<1> HIDE DEF b
<1>3. CASE r.state = "absent"
  BY <1>2, <1>3 DEF TypeOK, Record, States, Post
<1>4. CASE r.state # "absent"
  <2>1. Reserved(r, p) = [r EXCEPT !.state = "pending", !.maybeStored = b]
    BY <1>2, <1>4
  <2> QED BY <1>1, <2>1 DEF Record, States
<1> QED BY <1>3, <1>4

LEMMA ReleasedType ==
    ASSUME NEW r \in Record, NEW prior \in Priors
    PROVE  Released(r, prior) \in Record
  BY AbsentType DEF Released, Record, States, Priors

LEMMA SettlementType ==
    ASSUME TypeOK, NEW r \in Record, NEW p \in Post,
           NEW state \in {"sent", "ambiguous", "rejected"}
    PROVE  Settlement(r, p, state) \in Record
<1> DEFINE base == IF r.state = "absent"
                  THEN [state |-> state, maybeStored |-> FALSE,
                        content |-> p.content, at |-> created + 1]
                  ELSE r
           maybe == base.maybeStored \/ state = "ambiguous"
           b == maybe /\ state # "sent"
           st == IF state = "rejected" /\ maybe THEN "ambiguous" ELSE state
<1>1. b \in BOOLEAN
  BY Zenon
<1>2. base \in Record
  BY DEF TypeOK, Record, States, Post
<1>3. st \in States
  BY DEF States
<1>4. Settlement(r, p, state) =
        IF base.state = "sent" THEN base
        ELSE [base EXCEPT !.state = st, !.maybeStored = b]
  BY Zenon DEF Settlement
<1> HIDE DEF base, maybe, b, st
<1> QED BY <1>1, <1>2, <1>3, <1>4 DEF Record

\* A call that left idle is a full call record.
LEMMA ActiveCall ==
    ASSUME TypeOK, NEW c \in Calls, call[c].pc # "idle"
    PROVE  /\ call[c] \in [pc : {"reserving", "verifying", "waiting"},
                           gen : Nat, post : Post, prior : Priors, answer : Answers]
           /\ call[c].post \in Post
           /\ call[c].post.id \in Ids
           /\ call[c].post.sel \in Selections
           /\ call[c].post.content \in Contents
  BY DEF TypeOK, CallState, NoCall, Post

\* What settling a call does to the ledger and the creation counter.
LEMMA SettleCommits ==
    ASSUME TypeOK, NEW c \in Calls, call[c].pc = "waiting",
           NEW state \in {"sent", "ambiguous", "rejected"}, settle(c, state)
    PROVE  /\ Current(c) => Committed([ledger EXCEPT ![call[c].post.id] =
                  Settlement(ledger[call[c].post.id], call[c].post, state)])
           /\ ~ Current(c) => UNCHANGED <<ledger, forgotten>>
           /\ created' \in Nat
<1> DEFINE p == call[c].post
           R == [ledger EXCEPT ![p.id] = Settlement(ledger[p.id], p, state)]
<1>1. p \in Post /\ p.id \in Ids
  BY ActiveCall
<1>2. ledger[p.id] \in Record
  BY <1>1 DEF TypeOK
<1>3. R \in [Ids -> Record]
  BY <1>1, <1>2, SettlementType DEF TypeOK
<1>4. Current(c) => Commit(R)
  BY DEF settle
<1>5. Current(c) => Committed(R)
  BY <1>3, <1>4, CommitLemma
<1>6. created' \in Nat
  BY DEF settle, TypeOK
<1>7. ~ Current(c) => UNCHANGED <<ledger, forgotten>>
  BY DEF settle
<1> HIDE DEF R
<1> QED BY <1>5, <1>6, <1>7 DEF R

\* The reservation commits the pending record.
LEMMA ReserveCommits ==
    ASSUME TypeOK, NEW c \in Calls, Reserve(c)
    PROVE  /\ Committed([ledger EXCEPT ![call[c].post.id] =
                  Reserved(ledger[call[c].post.id], call[c].post)])
           /\ created' \in Nat
<1> DEFINE p == call[c].post
           R == [ledger EXCEPT ![p.id] = Reserved(ledger[p.id], p)]
<1>1. p \in Post /\ p.id \in Ids
  BY ActiveCall DEF Reserve
<1>2. R \in [Ids -> Record]
  BY <1>1, ReservedType DEF TypeOK
<1>3. Commit(R)
  BY DEF Reserve
<1>4. Committed(R)
  BY <1>2, <1>3, CommitLemma
<1>5. created' \in Nat
  BY DEF Reserve, TypeOK
<1> QED BY <1>4, <1>5

\* The release commits the released record, or changes nothing after a rebind.
LEMMA ReleaseCommits ==
    ASSUME TypeOK, NEW c \in Calls, Release(c)
    PROVE  /\ Current(c) => Committed([ledger EXCEPT ![call[c].post.id] =
                  Released(ledger[call[c].post.id], call[c].prior)])
           /\ ~ Current(c) => UNCHANGED <<ledger, forgotten>>
<1> DEFINE i == call[c].post.id
           R == [ledger EXCEPT ![i] = Released(ledger[i], call[c].prior)]
<1>1. i \in Ids /\ call[c].prior \in Priors
  BY ActiveCall DEF Release
<1>2. R \in [Ids -> Record]
  BY <1>1, ReleasedType DEF TypeOK
<1>3. Current(c) => Commit(R)
  BY DEF Release
<1>4. Current(c) => Committed(R)
  BY <1>2, <1>3, CommitLemma
<1>5. ~ Current(c) => UNCHANGED <<ledger, forgotten>>
  BY DEF Release
<1> QED BY <1>4, <1>5

\* Every step keeps the types.
LEMMA TypeStep == TypeOK /\ [Next]_vars => TypeOK'
<1> SUFFICES ASSUME TypeOK, [Next]_vars
             PROVE  TypeOK'
  OBVIOUS
<1>0. NoCall \in CallState
  BY DEF CallState
<1>1. ASSUME NEW c \in Calls, NEW i \in Ids, NEW m \in Contents, Begin(c, i, m)
      PROVE  TypeOK'
  BY <1>1 DEF Begin, TypeOK, CallState, Post, Priors, Answers
<1>2. ASSUME NEW c \in Calls, ReserveRefused(c)
      PROVE  TypeOK'
  BY <1>0, <1>2 DEF ReserveRefused, Return, TypeOK
<1>3. ASSUME NEW c \in Calls, Reserve(c)
      PROVE  TypeOK'
  <2>1. ledger' \in [Ids -> Record] /\ created' \in Nat
        /\ forgotten' \subseteq Selections \X Ids
    BY <1>3, ReserveCommits DEF Committed
  <2>2. ledger[call[c].post.id].state \in States
    BY <1>3, ActiveCall DEF Reserve, TypeOK, Record
  <2>3. ledger[call[c].post.id].state # "sent"
    BY <1>3 DEF Reserve, Refuse
  <2>4. ledger[call[c].post.id].state \in Priors
    BY <2>2, <2>3 DEF States, Priors
  <2>5. call' \in [Calls -> CallState]
    BY <1>3, <2>4, ActiveCall DEF Reserve, TypeOK, CallState
  <2> QED BY <1>3, <2>1, <2>5 DEF Reserve, TypeOK
<1>4. ASSUME NEW c \in Calls, Transmit(c)
      PROVE  TypeOK'
  <2>1. call' \in [Calls -> CallState]
    BY <1>4, ActiveCall DEF Transmit, TypeOK, CallState
  <2> QED BY <1>4, <2>1 DEF Transmit, TypeOK
<1>5. ASSUME NEW c \in Calls, Release(c)
      PROVE  TypeOK'
  <2>1. ledger' \in [Ids -> Record] /\ forgotten' \subseteq Selections \X Ids
    BY <1>5, ReleaseCommits DEF Committed, TypeOK
  <2> QED BY <1>0, <1>5, <2>1 DEF Release, Return, TypeOK
<1>6. ASSUME NEW c \in Calls, SettleSent(c) \/ SettleRejected(c) \/ SettleAmbiguous(c)
      PROVE  TypeOK'
  <2>1. PICK state \in {"sent", "ambiguous", "rejected"} : settle(c, state)
    BY <1>6 DEF SettleSent, SettleRejected, SettleAmbiguous
  <2>2. call[c].pc = "waiting"
    BY <1>6 DEF SettleSent, SettleRejected, SettleAmbiguous
  <2>3. ledger' \in [Ids -> Record] /\ forgotten' \subseteq Selections \X Ids
        /\ created' \in Nat
    BY <2>1, <2>2, SettleCommits DEF Committed, TypeOK
  <2>4. call[c].post \in Post
    BY <2>2, ActiveCall
  <2>5. orphans' \subseteq Post
    BY <1>6, <2>4 DEF SettleSent, SettleRejected, SettleAmbiguous, Abandon, TypeOK
  <2> QED
    BY <1>0, <1>6, <2>3, <2>5
    DEF SettleSent, SettleRejected, SettleAmbiguous, Return, TypeOK
<1>7. ASSUME NEW c \in Calls, Crash(c)
      PROVE  TypeOK'
  <2>1. call[c].post \in Post
    BY <1>7, ActiveCall DEF Crash
  <2> QED BY <1>0, <1>7, <2>1 DEF Crash, Abandon, Return, TypeOK
<1>8. ASSUME NEW c \in Calls, ServerStores(c) \/ ServerRefuses(c)
      PROVE  TypeOK'
  <2>1. call[c].post \in Post
    BY <1>8, ActiveCall DEF ServerStores, ServerRefuses
  <2>2. call' \in [Calls -> CallState]
    BY <1>8, ActiveCall DEF ServerStores, ServerRefuses, TypeOK, CallState, Answers
  <2> QED BY <1>8, <2>1, <2>2 DEF ServerStores, ServerRefuses, TypeOK
<1>9. ASSUME NEW p \in orphans, OrphanStored(p) \/ OrphanLost(p)
      PROVE  TypeOK'
  BY <1>9 DEF OrphanStored, OrphanLost, TypeOK
<1>10. ASSUME NEW s \in Selections, saveBinding(s)
       PROVE  TypeOK'
  BY <1>10, AbsentType DEF saveBinding, TypeOK
<1>11. CASE UNCHANGED vars
  BY <1>11 DEF vars, TypeOK
<1> QED BY <1>1, <1>2, <1>3, <1>4, <1>5, <1>6, <1>7, <1>8, <1>9, <1>10, <1>11 DEF Next

\* Type correctness of the send protocol, for every instance.
THEOREM TypeCorrect == Spec => []TypeOK
<1>1. Init => TypeOK
  BY AbsentType DEF Init, TypeOK, CallState
<1> QED BY <1>1, TypeStep, PTL DEF Spec

-----------------------------------------------------------------------------
(* The inductive step, action by action.                                   *)

\* A reservation keeps the invariant: it starts an id that has no attempt, or
\* marks the record of one that has.
LEMMA ReserveStep ==
    ASSUME LedgerInv, NEW c \in Calls, Reserve(c), TypeOK'
    PROVE  LedgerInv'
<1> DEFINE p == call[c].post
           k == call[c].post.id
           new == Reserved(ledger[k], p)
<1>1. TypeOK
  BY DEF LedgerInv
<1>2. /\ k \in Ids /\ p \in Post /\ p.id = k
      /\ p.content \in Contents
      /\ call[c].pc = "reserving"
  BY <1>1, ActiveCall DEF Reserve
<1>3. ~ Refuse(c)
  BY DEF Reserve
<1>4. p.sel = selection
  BY <1>2, <1>3 DEF LedgerInv, CurrentMeansSelected, Refuse, Current
<1>5. /\ new.state = "pending" /\ new.content = p.content
      /\ ~ new.maybeStored => ledger[k].state \in {"absent", "rejected"}
  <2>1. ledger[k] \in Record
    BY <1>1, <1>2 DEF TypeOK
  <2>2. ledger[k].state = "absent" \/ ledger[k].content = p.content
    BY <1>3 DEF Refuse
  <2>3. ledger[k].state # "sent"
    BY <1>3 DEF Refuse
  <2> QED BY <2>1, <2>2, <2>3 DEF Reserved, Record, States, Unresolved
<1>6. /\ \A i \in Ids \ {k} : Leaves(i, ledger[i])
      /\ Leaves(k, new)
      /\ forgotten \subseteq forgotten'
  BY <1>1, <1>2, ReserveCommits DEF Committed, TypeOK
<1>7. ledger'[k] = new
  BY <1>5, <1>6 DEF Leaves, Settled
<1>8. /\ call' = [call EXCEPT ![c].pc = "verifying", ![c].prior = ledger[k].state]
      /\ UNCHANGED <<generation, selection, orphans, log>>
  BY DEF Reserve
<1>9. call \in [Calls -> CallState] /\ ledger \in [Ids -> Record]
  BY <1>1 DEF TypeOK
<1> HIDE DEF new
<1>10. \A d \in Calls, s \in Selections, i \in Ids :
          Holds(d, s, i)' <=> (Holds(d, s, i) \/ (d = c /\ s = selection /\ i = k))
  BY <1>2, <1>4, <1>8, <1>9 DEF Holds
<1>11. \A s \in Selections, i \in Ids : MayBeStored(s, i)' <=> MayBeStored(s, i)
  BY <1>8 DEF MayBeStored
<1>12. \A s \in Selections, i \in Ids : Remembered(s, i)' => Remembered(s, i)
  BY <1>6 DEF Remembered
<1>20. /\ \A i \in Ids : i # k /\ ledger'[i].state # "absent" => ledger'[i] = ledger[i]
       /\ \A i \in Ids : Remembered(selection, i)' => Remembered(selection, i)
       /\ selection \in Selections
  BY <1>1, <1>6, <1>8, AbsentFacts DEF Leaves, Remembered, TypeOK
<1>13. FlagMeansUnresolved'
  <2> SUFFICES ASSUME NEW i \in Ids
               PROVE  /\ ledger'[i].maybeStored => Unresolved(ledger'[i])
                      /\ Remembered(selection, i)' /\ ledger'[i].state = "ambiguous"
                           => ledger'[i].maybeStored
                      /\ ledger'[i].state = "absent" => ledger'[i] = Absent
    BY DEF FlagMeansUnresolved
  <2>1. CASE i = k
    BY <1>5, <1>7, <2>1 DEF Unresolved
  <2>2. CASE i # k /\ ledger'[i] = ledger[i]
    BY <1>20, <2>2 DEF LedgerInv, FlagMeansUnresolved
  <2>3. CASE i # k /\ ledger'[i] = Absent
    BY <2>3 DEF Absent
  <2> QED BY <1>6, <2>1, <2>2, <2>3 DEF Leaves
<1>14. NoHiddenAttempt'
  BY <1>5, <1>6, <1>7, <1>8, <1>10, <1>11, <1>12
  DEF LedgerInv, NoHiddenAttempt, Untouched, Leaves, Settled, Remembered
<1>15. SoleHolder'
  <2> SUFFICES ASSUME NEW i \in Ids, NEW d \in Calls,
                      Remembered(selection, i)',
                      ledger'[i].state = "pending", ~ ledger'[i].maybeStored,
                      Holds(d, selection, i)'
               PROVE  /\ \A e \in Calls : Holds(e, selection, i)' => e = d
                      /\ call'[d].prior \in {"absent", "rejected"}
                      /\ call'[d].pc = "verifying" \/ call'[d].answer # "stored"
                           => ~ MayBeStored(selection, i)'
    BY <1>8 DEF SoleHolder
  <2>1. CASE i = k
    <3>1. Untouched(selection, k)
      BY <1>20, <1>8, <1>2, <1>5, <1>7, <1>12, <2>1
      DEF LedgerInv, NoHiddenAttempt, TypeOK
    <3> QED BY <1>20, <1>8, <1>2, <1>5, <1>7, <1>8, <1>9, <1>10, <1>11, <2>1, <3>1
            DEF Untouched, TypeOK
  <2>2. CASE i # k
    <3>1. ledger'[i] = ledger[i]
      BY <1>20, <2>2
    <3>2. Holds(d, selection, i) /\ d # c
      BY <1>20, <1>8, <1>2, <1>8, <1>9, <1>10, <2>2 DEF TypeOK, Holds
    <3>3. call'[d] = call[d]
      BY <1>8, <1>9, <3>2
    <3> QED BY <1>20, <1>8, <1>10, <1>11, <1>12, <2>2, <3>1, <3>2, <3>3
            DEF LedgerInv, SoleHolder, TypeOK
  <2> QED BY <2>1, <2>2
<1>16. SameContent'
  <2> SUFFICES ASSUME NEW i \in Ids,
                      Remembered(selection, i)', ledger'[i].state # "absent"
               PROVE  /\ \A d \in Calls : Holds(d, selection, i)' =>
                            call'[d].post.content = ledger'[i].content
                      /\ \A q \in log \cup orphans : q.sel = selection /\ q.id = i =>
                            q.content = ledger'[i].content
    BY <1>8 DEF SameContent
  <2>1. \A d \in Calls : call'[d].post = call[d].post
    BY <1>8, <1>9, <1>2
  <2>2. CASE i = k
    <3>1. CASE ledger[k].state = "absent"
      <4>1. Untouched(selection, k)
        BY <1>20, <1>8, <1>12, <2>2, <3>1 DEF LedgerInv, NoHiddenAttempt, TypeOK
      <4> QED BY <1>20, <1>8, <1>5, <1>7, <1>10, <2>1, <2>2, <4>1
              DEF Untouched, MayBeStored, TypeOK
    <3>2. CASE ledger[k].state # "absent"
      <4>1. ledger[k].content = p.content
        BY <1>3, <3>2 DEF Refuse
      <4> QED BY <1>20, <1>8, <1>5, <1>7, <1>10, <1>12, <2>1, <2>2, <3>2, <4>1
              DEF LedgerInv, SameContent, TypeOK
    <3> QED BY <3>1, <3>2
  <2>3. CASE i # k
    <3>1. ledger'[i] = ledger[i]
      BY <1>20, <2>3
    <3> QED BY <1>20, <1>8, <1>10, <1>12, <2>1, <2>3, <3>1 DEF LedgerInv, SameContent, TypeOK
  <2> QED BY <2>2, <2>3
<1>17. AnswersAreTrue' /\ CurrentMeansSelected'
  BY <1>2, <1>8, <1>9 DEF LedgerInv, AnswersAreTrue, CurrentMeansSelected
<1>18. SentIsStored'
  BY <1>5, <1>7, <1>8, <1>20 DEF LedgerInv, SentIsStored
<1>19. OneUnresolvedPerContent'
  <2>1. \A i \in Ids : Unresolved(ledger'[i]) /\ i # k => ledger'[i] = ledger[i]
    BY <1>20 DEF Unresolved
  <2>2. \/ Unresolved(ledger[k]) /\ ledger[k].content = ledger'[k].content
        \/ \A j \in Ids \ {k} : Unresolved(ledger[j]) => ledger[j].content # ledger'[k].content
    <3>1. CASE ledger[k].state \in {"absent", "rejected"}
      BY <1>2, <1>3, <1>5, <1>7, <3>1 DEF Refuse, UnresolvedElsewhere
    <3>2. CASE ledger[k].state \notin {"absent", "rejected"}
      BY <1>2, <1>3, <1>5, <1>7, <1>9, <3>2 DEF Refuse, Unresolved, Record, States
    <3> QED BY <3>1, <3>2
  <2> QED BY <1>2, <1>8, <1>20, <2>1, <2>2 DEF LedgerInv, OneUnresolvedPerContent
<1> QED BY <1>13, <1>14, <1>15, <1>16, <1>17, <1>18, <1>19 DEF LedgerInv

\* Call c ends and leaves `new` of its record; its append may be abandoned.
Ends(c, new) ==
    LET k == call[c].post.id
    IN  /\ call' = [call EXCEPT ![c] = NoCall]
        /\ UNCHANGED <<generation, selection, log>>
        /\ orphans' = orphans \/ orphans' = orphans \cup {call[c].post}
        /\ \A i \in Ids \ {k} : Leaves(i, ledger[i])
        /\ Leaves(k, new)
        /\ forgotten \subseteq forgotten'

\* Ending a call keeps the invariant when the record it leaves denies an
\* attempt only if there is none, keeps the content, and says sent truly.
LEMMA EndsStep ==
    ASSUME LedgerInv, TypeOK', NEW c \in Calls, NEW new \in Record,
           call[c].pc \in {"verifying", "waiting"},
           call[c].post.sel = selection,
           Ends(c, new),
           new.maybeStored => Unresolved(new),
           new.state = "absent" => new = Absent,
           Remembered(selection, call[c].post.id) =>
             /\ new.state \in {"absent", "rejected"} =>
                  /\ orphans' = orphans
                  /\ ~ MayBeStored(selection, call[c].post.id)
                  /\ \A d \in Calls : Holds(d, selection, call[c].post.id) => d = c
             /\ Unresolved(new) => new.maybeStored
             /\ new.state # "absent" => new.content = ledger[call[c].post.id].content
             /\ new.state = "sent" => [sel |-> selection, id |-> call[c].post.id,
                                      content |-> new.content] \in log
             /\ Unresolved(new) => Unresolved(ledger[call[c].post.id])
    PROVE  LedgerInv'
<1> DEFINE k == call[c].post.id
<1>1. TypeOK
  BY DEF LedgerInv
<1>2. /\ k \in Ids /\ call[c].post \in Post /\ selection \in Selections
      /\ call \in [Calls -> CallState] /\ ledger \in [Ids -> Record]
  BY <1>1, ActiveCall DEF TypeOK
<1>3. /\ call' = [call EXCEPT ![c] = NoCall]
      /\ UNCHANGED <<generation, selection, log>>
  BY DEF Ends
<1>4. /\ \A d \in Calls : d # c => call'[d] = call[d]
      /\ call'[c] = NoCall /\ NoCall.pc = "idle" /\ NoCall.answer = "none"
  BY <1>2, <1>3 DEF NoCall
<1>5. \A d \in Calls, s \in Selections, i \in Ids :
          Holds(d, s, i)' <=> (d # c /\ Holds(d, s, i))
  BY <1>4 DEF Holds
<1>6. /\ \A i \in Ids : i # k /\ ledger'[i].state # "absent" => ledger'[i] = ledger[i]
      /\ \A i \in Ids : i # k => ledger'[i] = ledger[i] \/ ledger'[i] = Absent
      /\ ledger'[k].state # "absent" => ledger'[k] = new
      /\ ledger'[k] = new \/ ledger'[k] = Absent
  BY AbsentFacts DEF Ends, Leaves
<1>7. \A s \in Selections, i \in Ids : Remembered(s, i)' => Remembered(s, i)
  BY DEF Ends, Remembered
<1>8. ASSUME NEW i \in Ids, i # k, Remembered(selection, i)',
             ledger'[i].state \in {"absent", "rejected"}
      PROVE  ledger[i].state \in {"absent", "rejected"}
  <2>1. Leaves(i, ledger[i])
    BY <1>8 DEF Ends
  <2>2. <<selection, i>> \notin forgotten'
    BY <1>3, <1>8 DEF Remembered
  <2> QED BY <1>8, <2>1, <2>2 DEF Leaves, Settled
<1>9. ASSUME NEW i \in Ids, i = k, Remembered(selection, i)',
             ledger'[i].state \in {"absent", "rejected"}
      PROVE  new.state \in {"absent", "rejected"}
  <2>1. Leaves(k, new)
    BY DEF Ends
  <2>2. <<selection, i>> \notin forgotten'
    BY <1>3, <1>9 DEF Remembered
  <2> QED BY <1>9, <2>1, <2>2 DEF Leaves, Settled
<1>10. \A s \in Selections, i \in Ids :
          ~ (s = selection /\ i = k) \/ orphans' = orphans =>
              (MayBeStored(s, i)' <=> MayBeStored(s, i))
  BY <1>2, <1>3 DEF Ends, MayBeStored, Post
<1>11. FlagMeansUnresolved'
  <2> SUFFICES ASSUME NEW i \in Ids
               PROVE  /\ ledger'[i].maybeStored => Unresolved(ledger'[i])
                      /\ Remembered(selection, i)' /\ ledger'[i].state = "ambiguous"
                           => ledger'[i].maybeStored
                      /\ ledger'[i].state = "absent" => ledger'[i] = Absent
    BY DEF FlagMeansUnresolved
  <2>1. CASE ledger'[i] = Absent
    BY <2>1, AbsentFacts
  <2>2. CASE i # k /\ ledger'[i] = ledger[i]
    BY <1>2, <1>3, <1>7, <2>2 DEF LedgerInv, FlagMeansUnresolved
  <2>3. CASE i = k /\ ledger'[i] = new
    BY <1>2, <1>3, <1>7, <2>3 DEF Unresolved
  <2> QED BY <1>6, <2>1, <2>2, <2>3
<1>12. NoHiddenAttempt'
  <2> SUFFICES ASSUME NEW s \in Selections, NEW i \in Ids, Remembered(s, i)',
                      s # selection \/ ledger'[i].state \in {"absent", "rejected"}
               PROVE  Untouched(s, i)'
    BY <1>3 DEF NoHiddenAttempt
  <2>1. CASE s = selection /\ i = k
    <3>1. Remembered(selection, k) /\ new.state \in {"absent", "rejected"}
      BY <1>2, <1>3, <1>7, <1>9, <2>1
    <3>2. ~ MayBeStored(s, i)'
      BY <1>10, <2>1, <3>1
    <3>3. \A d \in Calls : ~ Holds(d, s, i)'
      BY <1>5, <2>1, <3>1
    <3> QED BY <3>2, <3>3 DEF Untouched
  <2>2. CASE ~ (s = selection /\ i = k)
    BY <1>3, <1>5, <1>7, <1>8, <1>10, <2>2 DEF Untouched, LedgerInv, NoHiddenAttempt
  <2> QED BY <2>1, <2>2
<1>13. SoleHolder'
  <2> SUFFICES ASSUME NEW i \in Ids, NEW d \in Calls, Remembered(selection, i)',
                      ledger'[i].state = "pending", ~ ledger'[i].maybeStored,
                      Holds(d, selection, i)'
               PROVE  /\ \A e \in Calls : Holds(e, selection, i)' => e = d
                      /\ call'[d].prior \in {"absent", "rejected"}
                      /\ call'[d].pc = "verifying" \/ call'[d].answer # "stored"
                           => ~ MayBeStored(selection, i)'
    BY <1>3 DEF SoleHolder
  <2>1. i # k /\ ledger'[i] = ledger[i]
    BY <1>2, <1>3, <1>6, <1>7 DEF Unresolved
  <2>2. d # c /\ Holds(d, selection, i) /\ call'[d] = call[d]
    BY <1>2, <1>3, <1>4, <1>5
  <2> QED BY <1>2, <1>3, <1>5, <1>7, <1>10, <2>1, <2>2 DEF LedgerInv, SoleHolder
<1>14. SameContent'
  <2> SUFFICES ASSUME NEW i \in Ids, Remembered(selection, i)',
                      ledger'[i].state # "absent"
               PROVE  /\ \A d \in Calls : Holds(d, selection, i)' =>
                            call'[d].post.content = ledger'[i].content
                      /\ \A q \in log \cup orphans' : q.sel = selection /\ q.id = i =>
                            q.content = ledger'[i].content
    BY <1>3 DEF SameContent
  <2>1. Remembered(selection, i)
    BY <1>2, <1>3, <1>7
  <2>2. ledger[i].state # "absent" /\ ledger'[i].content = ledger[i].content
    <3>1. CASE i = k
      <4>1. Holds(c, selection, k)
        BY DEF Holds
      <4>2. ledger[k].state # "absent"
        BY <1>2, <2>1, <3>1, <4>1 DEF LedgerInv, NoHiddenAttempt, Untouched
      <4> QED BY <1>6, <2>1, <3>1, <4>2
    <3>2. CASE i # k
      BY <1>6, <3>2
    <3> QED BY <3>1, <3>2
  <2>3. /\ \A d \in Calls : Holds(d, selection, i) =>
              call[d].post.content = ledger[i].content
        /\ \A q \in log \cup orphans : q.sel = selection /\ q.id = i =>
              q.content = ledger[i].content
    BY <2>1, <2>2 DEF LedgerInv, SameContent
  <2>4. i = k => call[c].post.content = ledger[i].content
    BY <2>3 DEF Holds
  <2>5. \A d \in Calls : Holds(d, selection, i)' =>
            call'[d].post.content = ledger'[i].content
    BY <1>2, <1>3, <1>4, <1>5, <2>2, <2>3
  <2>6. \A q \in log \cup orphans' : q.sel = selection /\ q.id = i =>
            q.content = ledger'[i].content
    BY <2>2, <2>3, <2>4 DEF Ends
  <2> QED BY <2>5, <2>6
<1>15. AnswersAreTrue' /\ CurrentMeansSelected'
  BY <1>3, <1>4 DEF LedgerInv, AnswersAreTrue, CurrentMeansSelected
<1>16. SentIsStored'
  BY <1>2, <1>3, <1>6, <1>7 DEF LedgerInv, SentIsStored
<1>17. OneUnresolvedPerContent'
  <2>1. \A i \in Ids : Unresolved(ledger'[i]) /\ Remembered(selection, i)' =>
            /\ Remembered(selection, i)
            /\ Unresolved(ledger[i]) /\ ledger'[i].content = ledger[i].content
    BY <1>2, <1>3, <1>6, <1>7 DEF Unresolved
  <2> QED BY <1>3, <2>1 DEF LedgerInv, OneUnresolvedPerContent
<1> QED BY <1>11, <1>12, <1>13, <1>14, <1>15, <1>16, <1>17 DEF LedgerInv

\* A call that ends without touching the ledger keeps the invariant: a crash,
\* and every end of a call whose generation was rebound.
LEMMA EndsQuietlyStep ==
    ASSUME LedgerInv, TypeOK', NEW c \in Calls, call[c].pc # "idle",
           call' = [call EXCEPT ![c] = NoCall],
           UNCHANGED <<generation, selection, ledger, log, forgotten>>,
           \/ orphans' = orphans
           \/ call[c].pc = "waiting" /\ orphans' = orphans \cup {call[c].post}
    PROVE  LedgerInv'
<1>1. TypeOK
  BY DEF LedgerInv
<1>2. /\ call[c].post \in Post /\ selection \in Selections
      /\ call \in [Calls -> CallState]
  BY <1>1, ActiveCall DEF TypeOK
<1>3. /\ \A d \in Calls : d # c => call'[d] = call[d]
      /\ call'[c] = NoCall /\ NoCall.pc = "idle" /\ NoCall.answer = "none"
  BY <1>2 DEF NoCall
<1>4. \A d \in Calls, s \in Selections, i \in Ids :
          Holds(d, s, i)' <=> (d # c /\ Holds(d, s, i))
  BY <1>3 DEF Holds
<1>5. \A s \in Selections, i \in Ids :
          MayBeStored(s, i)' => MayBeStored(s, i) \/ Holds(c, s, i)
  BY <1>2 DEF MayBeStored, Holds
<1>6. \A s \in Selections, i \in Ids : Remembered(s, i)' <=> Remembered(s, i)
  BY DEF Remembered
<1>7. FlagMeansUnresolved'
  BY <1>2, <1>6 DEF LedgerInv, FlagMeansUnresolved
<1>8. NoHiddenAttempt'
  BY <1>4, <1>5, <1>6 DEF LedgerInv, NoHiddenAttempt, Untouched
<1>9. SoleHolder'
  BY <1>2, <1>3, <1>4, <1>5, <1>6 DEF LedgerInv, SoleHolder
<1>10. SameContent'
  <2> SUFFICES ASSUME NEW i \in Ids, Remembered(selection, i), ledger[i].state # "absent"
               PROVE  /\ \A d \in Calls : Holds(d, selection, i)' =>
                            call'[d].post.content = ledger[i].content
                      /\ \A q \in log \cup orphans' : q.sel = selection /\ q.id = i =>
                            q.content = ledger[i].content
    BY <1>2, <1>6 DEF SameContent
  <2>1. /\ \A d \in Calls : Holds(d, selection, i) =>
              call[d].post.content = ledger[i].content
        /\ \A q \in log \cup orphans : q.sel = selection /\ q.id = i =>
              q.content = ledger[i].content
    BY DEF LedgerInv, SameContent
  <2>2. call[c].pc = "waiting" /\ call[c].post.sel = selection /\ call[c].post.id = i =>
            call[c].post.content = ledger[i].content
    BY <2>1 DEF Holds
  <2>3. \A d \in Calls : Holds(d, selection, i)' =>
            call'[d].post.content = ledger[i].content
    BY <1>2, <1>3, <1>4, <2>1
  <2> QED BY <2>1, <2>2, <2>3
<1>11. AnswersAreTrue' /\ CurrentMeansSelected'
  BY <1>3 DEF LedgerInv, AnswersAreTrue, CurrentMeansSelected
<1>12. SentIsStored' /\ OneUnresolvedPerContent'
  BY DEF LedgerInv, SentIsStored, OneUnresolvedPerContent, Remembered
<1> QED BY <1>7, <1>8, <1>9, <1>10, <1>11, <1>12 DEF LedgerInv

\* A release keeps the invariant: it drops, or turns back to refused, only the
\* reservation of a sole holder that posted nothing.
LEMMA ReleaseStep ==
    ASSUME LedgerInv, NEW c \in Calls, Release(c), TypeOK'
    PROVE  LedgerInv'
<1> DEFINE k == call[c].post.id
           r == ledger[k]
           new == Released(r, call[c].prior)
<1>1. TypeOK
  BY DEF LedgerInv
<1>2. k \in Ids /\ r \in Record /\ call[c].prior \in Priors /\ call[c].pc = "verifying"
  BY <1>1, ActiveCall DEF Release, TypeOK
<1>3. CASE ~ Current(c)
  BY <1>2, <1>3, ReleaseCommits, EndsQuietlyStep, <1>1 DEF Release, Return
<1>4. CASE Current(c)
  <2>1. new \in Record
    BY <1>2, ReleasedType
  <2>2. call[c].post.sel = selection
    BY <1>2, <1>4 DEF LedgerInv, CurrentMeansSelected, Current
  <2>3. Ends(c, new)
    BY <1>1, <1>2, <1>4, ReleaseCommits DEF Committed, Ends, Release, Return, TypeOK
  <2>4. /\ r.maybeStored => Unresolved(r)
        /\ Remembered(selection, k) /\ r.state = "ambiguous" => r.maybeStored
        /\ r.state = "absent" => r = Absent
    BY <1>2 DEF LedgerInv, FlagMeansUnresolved
  <2>5. Holds(c, selection, k)
    BY <1>2, <2>2 DEF Holds
  <2>6. Remembered(selection, k) => r.state \notin {"absent", "rejected"}
    BY <1>1, <1>2, <2>5 DEF LedgerInv, NoHiddenAttempt, Untouched, TypeOK
  <2>7. Remembered(selection, k) /\ r.state = "pending" /\ ~ r.maybeStored =>
          /\ \A d \in Calls : Holds(d, selection, k) => d = c
          /\ call[c].prior \in {"absent", "rejected"}
          /\ ~ MayBeStored(selection, k)
    BY <1>2, <2>5 DEF LedgerInv, SoleHolder
  <2>8. CASE r.state # "pending"
    <3>1. new = r
      BY <2>8 DEF Released
    <3>2. r.state = "sent" /\ Remembered(selection, k) =>
             [sel |-> selection, id |-> k, content |-> r.content] \in log
      BY <1>2 DEF LedgerInv, SentIsStored
    <3> HIDE DEF new
    <3> QED BY <1>2, <2>1, <2>2, <2>3, <2>4, <2>6, <2>8, <3>1, <3>2, EndsStep DEF Unresolved
  <2>9. CASE r.state = "pending" /\ r.maybeStored
    <3>1. /\ new.maybeStored /\ new.content = r.content
          /\ new.state \in {"pending", "ambiguous"}
      BY <1>2, <2>9 DEF Released, Record
    <3>2. Unresolved(new) /\ Unresolved(r)
      BY <2>9, <3>1 DEF Unresolved
    <3> HIDE DEF new
    <3> QED BY <1>2, <2>1, <2>2, <2>3, <3>1, <3>2, EndsStep
  <2>10. CASE r.state = "pending" /\ ~ r.maybeStored
    <3>1. /\ new.state = call[c].prior /\ ~ new.maybeStored
          /\ call[c].prior = "absent" => new = Absent
          /\ call[c].prior # "absent" => new.content = r.content
      BY <1>2, <2>10, AbsentFacts DEF Released, Record
    <3>2. Remembered(selection, k) => ~ Unresolved(new) /\ new.state # "sent"
      BY <2>7, <2>10, <3>1 DEF Unresolved
    <3>3. new.state = "absent" => new = Absent
      BY <3>1
    <3>4. orphans' = orphans
      BY DEF Release
    <3> HIDE DEF new
    <3> QED BY <1>2, <2>1, <2>2, <2>3, <2>7, <2>10, <3>1, <3>2, <3>3, <3>4, EndsStep
  <2> QED BY <2>8, <2>9, <2>10
<1> QED BY <1>3, <1>4

\* What a settlement says of a record that still exists.
LEMMA SettlementFacts ==
    ASSUME NEW r \in Record, NEW p \in Post,
           NEW state \in {"sent", "ambiguous", "rejected"}, r.state # "absent"
    PROVE  /\ r.state = "sent" => Settlement(r, p, state) = r
           /\ r.state # "sent" =>
                /\ Settlement(r, p, state).content = r.content
                /\ Settlement(r, p, state).state =
                     IF state = "rejected" /\ r.maybeStored THEN "ambiguous" ELSE state
                /\ state = "sent" => ~ Settlement(r, p, state).maybeStored
                /\ state = "ambiguous" => Settlement(r, p, state).maybeStored
                /\ state = "rejected" => (Settlement(r, p, state).maybeStored <=> r.maybeStored)
<1> DEFINE maybe == r.maybeStored \/ state = "ambiguous"
           b == maybe /\ state # "sent"
           st == IF state = "rejected" /\ maybe THEN "ambiguous" ELSE state
<1>1. r.state # "sent" => Settlement(r, p, state) = [r EXCEPT !.state = st, !.maybeStored = b]
  BY Zenon DEF Settlement
<1>2. r.state = "sent" => Settlement(r, p, state) = r
  BY DEF Settlement
<1>3. /\ state = "sent" => ~ b
      /\ state = "ambiguous" => b
      /\ state = "rejected" => (b <=> r.maybeStored)
  OBVIOUS
<1>4. st = IF state = "rejected" /\ r.maybeStored THEN "ambiguous" ELSE state
  OBVIOUS
<1> HIDE DEF b, st
<1>5. r.state # "sent" =>
        /\ Settlement(r, p, state).content = r.content
        /\ Settlement(r, p, state).state = st
        /\ Settlement(r, p, state).maybeStored = b
  BY <1>1 DEF Record
<1> QED BY <1>2, <1>3, <1>4, <1>5

\* A settlement of a record that is gone makes it in the settled state.
LEMMA RecreatedFacts ==
    ASSUME NEW r \in Record, NEW p \in Post,
           NEW state \in {"sent", "ambiguous", "rejected"}, r.state = "absent"
    PROVE  /\ Settlement(r, p, state).state = state
           /\ Settlement(r, p, state).maybeStored => state = "ambiguous"
  BY DEF Settlement

\* Settling a call of the current generation keeps the invariant when its
\* outcome is true: sent only what is stored, refused only what this call's
\* append did not store.
LEMMA SettleStep ==
    ASSUME LedgerInv, TypeOK', NEW c \in Calls,
           NEW state \in {"sent", "ambiguous", "rejected"},
           call[c].pc = "waiting", settle(c, state), Return(c),
           UNCHANGED <<generation, selection, log>>,
           \/ orphans' = orphans
           \/ orphans' = orphans \cup {call[c].post},
           state = "sent" => call[c].answer = "stored",
           state = "rejected" => call[c].answer = "refused" /\ orphans' = orphans
    PROVE  LedgerInv'
<1> DEFINE k == call[c].post.id
           r == ledger[k]
           new == Settlement(r, call[c].post, state)
<1>1. TypeOK
  BY DEF LedgerInv
<1>2. k \in Ids /\ r \in Record /\ call[c].post \in Post
  BY <1>1, ActiveCall DEF TypeOK
<1>3. CASE ~ Current(c)
  BY <1>1, <1>3, SettleCommits, EndsQuietlyStep DEF Return
<1>4. CASE Current(c)
  <2>1. new \in Record
    BY <1>1, <1>2, SettlementType
  <2>2. call[c].post.sel = selection
    BY <1>4 DEF LedgerInv, CurrentMeansSelected, Current
  <2>3. Ends(c, new)
    <3>1. Committed([ledger EXCEPT ![k] = new])
      BY <1>1, <1>4, SettleCommits
    <3> HIDE DEF new
    <3> QED BY <1>1, <1>2, <3>1 DEF Committed, Ends, Return, TypeOK
  <2>4. /\ r.maybeStored => Unresolved(r)
        /\ Remembered(selection, k) /\ r.state = "ambiguous" => r.maybeStored
    BY <1>2 DEF LedgerInv, FlagMeansUnresolved
  <2>5. Holds(c, selection, k)
    BY <2>2 DEF Holds
  <2>6. Remembered(selection, k) => r.state \notin {"absent", "rejected"}
    BY <1>1, <1>2, <2>5 DEF LedgerInv, NoHiddenAttempt, Untouched, TypeOK
  <2>7. Remembered(selection, k) /\ r.state = "pending" /\ ~ r.maybeStored =>
          /\ \A d \in Calls : Holds(d, selection, k) => d = c
          /\ call[c].answer # "stored" => ~ MayBeStored(selection, k)
    BY <1>2, <2>5 DEF LedgerInv, SoleHolder
  <2>8. CASE r.state = "absent"
    <3>1. new.state = state /\ (new.maybeStored => state = "ambiguous")
      BY <1>2, <2>8, RecreatedFacts
    <3>2. new.maybeStored => Unresolved(new)
      BY <3>1 DEF Unresolved
    <3>3. ~ Remembered(selection, k)
      BY <2>6, <2>8
    <3> HIDE DEF new
    <3> QED BY <2>1, <2>2, <2>3, <3>1, <3>2, <3>3, EndsStep
  <2>9. CASE r.state = "sent"
    <3>1. new = r
      BY <1>2, <2>9, SettlementFacts
    <3>2. Remembered(selection, k) =>
             [sel |-> selection, id |-> k, content |-> r.content] \in log
      BY <1>2, <2>9 DEF LedgerInv, SentIsStored
    <3> HIDE DEF new
    <3> QED BY <2>1, <2>2, <2>3, <2>4, <2>9, <3>1, <3>2, EndsStep DEF Unresolved
  <2>10. CASE r.state \notin {"absent", "sent"}
    <3>1. /\ new.content = r.content
          /\ new.state = IF state = "rejected" /\ r.maybeStored THEN "ambiguous" ELSE state
          /\ state = "sent" => ~ new.maybeStored
          /\ state = "ambiguous" => new.maybeStored
          /\ state = "rejected" => (new.maybeStored <=> r.maybeStored)
      BY <1>2, <2>10, SettlementFacts
    <3>2. new.maybeStored <=> Unresolved(new)
      BY <3>1 DEF Unresolved
    <3>3. Remembered(selection, k) => Unresolved(r)
      BY <1>2, <2>6, <2>10 DEF Record, States, Unresolved
    <3>4. Remembered(selection, k) /\ new.state \in {"absent", "rejected"} =>
            /\ state = "rejected" /\ r.state = "pending" /\ ~ r.maybeStored
      BY <2>4, <3>1, <3>3 DEF Unresolved
    <3>5. new.state = "sent" => call[c].post \in log
      BY <3>1 DEF LedgerInv, AnswersAreTrue
    <3>6. Remembered(selection, k) => call[c].post.content = r.content
      BY <1>2, <2>5, <2>10 DEF LedgerInv, SameContent
    <3>7. Remembered(selection, k) /\ new.state = "sent" =>
            [sel |-> selection, id |-> k, content |-> new.content] \in log
      BY <1>2, <2>2, <3>1, <3>5, <3>6 DEF Post
    <3>8. new.state # "absent"
      BY <3>1
    <3> HIDE DEF new
    <3> QED BY <2>1, <2>2, <2>3, <2>7, <3>1, <3>2, <3>3, <3>4, <3>7, <3>8, EndsStep
  <2> QED BY <2>8, <2>9, <2>10
<1> QED BY <1>3, <1>4

\* Steps of a call alone keep the invariant.
LEMMA CallStep ==
    ASSUME LedgerInv, TypeOK', NEW c \in Calls,
           \/ \E i \in Ids, m \in Contents : Begin(c, i, m)
           \/ Transmit(c) \/ ServerRefuses(c)
    PROVE  LedgerInv'
<1>1. TypeOK /\ call \in [Calls -> CallState]
  BY DEF LedgerInv, TypeOK
<1>2. UNCHANGED <<generation, selection, ledger, log, orphans, forgotten>>
  BY DEF Begin, Transmit, ServerRefuses
<1>3. \A d \in Calls : d # c => call'[d] = call[d]
  BY <1>1 DEF Begin, Transmit, ServerRefuses
<1>4. /\ call'[c].pc \in {"verifying", "waiting"} =>
            /\ call[c].pc \in {"verifying", "waiting"}
            /\ call'[c].post = call[c].post /\ call'[c].prior = call[c].prior
            /\ call'[c].pc = "verifying" \/ call'[c].answer # "stored" =>
                 call[c].pc = "verifying" \/ call[c].answer # "stored"
      /\ call'[c].answer = "stored" => call[c].answer = "stored" /\ call'[c].post = call[c].post
      /\ call'[c].gen <= generation
      /\ call'[c].gen = generation => call'[c].post.sel = selection
  BY <1>1, ActiveCall
  DEF Begin, Transmit, ServerRefuses, LedgerInv, CurrentMeansSelected, TypeOK
<1>5. \A d \in Calls, s \in Selections, i \in Ids :
         Holds(d, s, i)' => /\ Holds(d, s, i)
                            /\ call'[d].post = call[d].post
                            /\ call'[d].prior = call[d].prior
                            /\ call'[d].pc = "verifying" \/ call'[d].answer # "stored" =>
                                 call[d].pc = "verifying" \/ call[d].answer # "stored"
  BY <1>3, <1>4 DEF Holds
<1>6. \A s \in Selections, i \in Ids : /\ (MayBeStored(s, i)' <=> MayBeStored(s, i))
                                        /\ (Remembered(s, i)' <=> Remembered(s, i))
  BY <1>2 DEF MayBeStored, Remembered
<1>7. selection \in Selections
  BY <1>1 DEF TypeOK
<1>8. FlagMeansUnresolved' /\ SentIsStored' /\ OneUnresolvedPerContent'
  BY <1>2, <1>6, <1>7
  DEF LedgerInv, FlagMeansUnresolved, SentIsStored, OneUnresolvedPerContent
<1>9. NoHiddenAttempt'
  BY <1>2, <1>5, <1>6 DEF LedgerInv, NoHiddenAttempt, Untouched
<1>10. SoleHolder'
  BY <1>2, <1>5, <1>6, <1>7 DEF LedgerInv, SoleHolder
<1>11. SameContent'
  BY <1>2, <1>5, <1>6, <1>7 DEF LedgerInv, SameContent
<1>12. AnswersAreTrue' /\ CurrentMeansSelected'
  BY <1>2, <1>3, <1>4 DEF LedgerInv, AnswersAreTrue, CurrentMeansSelected
<1> QED BY <1>8, <1>9, <1>10, <1>11, <1>12 DEF LedgerInv

\* The server storing a post keeps the invariant: it is the append of a call
\* that holds the id, or an abandoned one the record already allows for.
LEMMA StoreStep ==
    ASSUME LedgerInv, TypeOK',
           \/ \E c \in Calls : ServerStores(c)
           \/ \E p \in orphans : OrphanStored(p) \/ OrphanLost(p)
    PROVE  LedgerInv'
<1>1. TypeOK /\ call \in [Calls -> CallState] /\ selection \in Selections
  BY DEF LedgerInv, TypeOK
<1>2. CASE \E c \in Calls : ServerStores(c)
  <2> PICK c \in Calls : ServerStores(c)
    BY <1>2
  <2>1. /\ call[c].pc = "waiting" /\ call[c].answer = "none"
        /\ log' = log \cup {call[c].post}
        /\ call' = [call EXCEPT ![c].answer = "stored"]
        /\ UNCHANGED <<generation, selection, ledger, orphans, forgotten>>
    BY DEF ServerStores
  <2>2. /\ \A d \in Calls : d # c => call'[d] = call[d]
        /\ \A d \in Calls : /\ call'[d].pc = call[d].pc /\ call'[d].post = call[d].post
                            /\ call'[d].prior = call[d].prior
                            /\ call'[d].gen = call[d].gen
        /\ call'[c].answer = "stored"
    BY <1>1, <2>1, ActiveCall
  <2>3. \A d \in Calls, s \in Selections, i \in Ids : Holds(d, s, i)' <=> Holds(d, s, i)
    BY <2>2 DEF Holds
  <2>4. \A s \in Selections, i \in Ids :
           MayBeStored(s, i)' <=> (MayBeStored(s, i) \/ Holds(c, s, i))
    BY <2>1 DEF MayBeStored, Holds
  <2>5. \A s \in Selections, i \in Ids : Remembered(s, i)' <=> Remembered(s, i)
    BY <2>1 DEF Remembered
  <2>6. FlagMeansUnresolved' /\ SentIsStored' /\ OneUnresolvedPerContent'
    BY <1>1, <2>1, <2>5
    DEF LedgerInv, FlagMeansUnresolved, SentIsStored, OneUnresolvedPerContent
  <2>7. NoHiddenAttempt'
    BY <2>1, <2>3, <2>4, <2>5 DEF LedgerInv, NoHiddenAttempt, Untouched
  <2>8. SoleHolder'
    BY <1>1, <2>1, <2>2, <2>3, <2>4, <2>5 DEF LedgerInv, SoleHolder
  <2>9. SameContent'
    BY <1>1, <2>1, <2>2, <2>3, <2>5 DEF LedgerInv, SameContent, Holds
  <2>10. AnswersAreTrue' /\ CurrentMeansSelected'
    BY <2>1, <2>2 DEF LedgerInv, AnswersAreTrue, CurrentMeansSelected
  <2> QED BY <2>6, <2>7, <2>8, <2>9, <2>10 DEF LedgerInv
<1>3. CASE \E p \in orphans : OrphanStored(p) \/ OrphanLost(p)
  <2>1. /\ log \subseteq log' /\ log' \cup orphans' \subseteq log \cup orphans
        /\ UNCHANGED <<generation, selection, ledger, call, forgotten>>
    BY <1>3 DEF OrphanStored, OrphanLost
  <2>2. \A s \in Selections, i \in Ids : MayBeStored(s, i)' => MayBeStored(s, i)
    BY <2>1 DEF MayBeStored
  <2>3. \A s \in Selections, i \in Ids :
           /\ (Remembered(s, i)' <=> Remembered(s, i))
           /\ \A d \in Calls : (Holds(d, s, i)' <=> Holds(d, s, i))
    BY <2>1 DEF Remembered, Holds
  <2>4. FlagMeansUnresolved' /\ SentIsStored' /\ OneUnresolvedPerContent'
    BY <1>1, <2>1, <2>3
    DEF LedgerInv, FlagMeansUnresolved, SentIsStored, OneUnresolvedPerContent
  <2>5. NoHiddenAttempt'
    BY <2>1, <2>2, <2>3 DEF LedgerInv, NoHiddenAttempt, Untouched
  <2>6. SoleHolder'
    BY <1>1, <2>1, <2>2, <2>3 DEF LedgerInv, SoleHolder
  <2>7. SameContent'
    BY <1>1, <2>1, <2>3 DEF LedgerInv, SameContent
  <2>8. AnswersAreTrue' /\ CurrentMeansSelected'
    BY <2>1 DEF LedgerInv, AnswersAreTrue, CurrentMeansSelected
  <2> QED BY <2>4, <2>5, <2>6, <2>7, <2>8 DEF LedgerInv
<1> QED BY <1>2, <1>3

\* A rebind keeps the invariant: the same selection carries its ledger, and
\* leaving a selection forgets every id that may have an attempt.
LEMMA RebindStep ==
    ASSUME LedgerInv, TypeOK', NEW t \in Selections, saveBinding(t)
    PROVE  LedgerInv'
<1>1. TypeOK /\ selection \in Selections /\ ledger \in [Ids -> Record]
      /\ generation \in Nat /\ call \in [Calls -> CallState]
  BY DEF LedgerInv, TypeOK
<1>2. /\ generation' = generation + 1 /\ selection' = t
      /\ UNCHANGED <<call, orphans, log>>
  BY DEF saveBinding
<1>3. \A s \in Selections, i \in Ids :
         /\ (MayBeStored(s, i)' <=> MayBeStored(s, i))
         /\ \A d \in Calls : (Holds(d, s, i)' <=> Holds(d, s, i))
  BY <1>2 DEF MayBeStored, Holds
<1>4. CurrentMeansSelected'
  <2>1. \A c \in Calls : call[c].pc # "idle" => call[c].gen \in Nat
    BY <1>1, ActiveCall
  <2> QED BY <1>1, <1>2, <2>1 DEF LedgerInv, CurrentMeansSelected
<1>5. AnswersAreTrue'
  BY <1>2 DEF LedgerInv, AnswersAreTrue
<1>6. CASE t = selection
  <2>1. UNCHANGED <<ledger, forgotten, selection>>
    BY <1>6 DEF saveBinding
  <2>2. \A s \in Selections, i \in Ids : Remembered(s, i)' <=> Remembered(s, i)
    BY <2>1 DEF Remembered
  <2>3. FlagMeansUnresolved' /\ SentIsStored' /\ OneUnresolvedPerContent'
    BY <1>1, <1>2, <2>1, <2>2
    DEF LedgerInv, FlagMeansUnresolved, SentIsStored, OneUnresolvedPerContent
  <2>4. NoHiddenAttempt'
    BY <1>3, <2>1, <2>2 DEF LedgerInv, NoHiddenAttempt, Untouched
  <2>5. SoleHolder'
    BY <1>1, <1>2, <1>3, <2>1, <2>2 DEF LedgerInv, SoleHolder
  <2>6. SameContent'
    BY <1>1, <1>2, <1>3, <2>1, <2>2 DEF LedgerInv, SameContent
  <2> QED BY <1>4, <1>5, <2>3, <2>4, <2>5, <2>6 DEF LedgerInv
<1>7. CASE t # selection
  <2>1. /\ \A i \in Ids : ledger'[i] = Absent
        /\ forgotten \subseteq forgotten'
        /\ \A i \in Ids : ledger[i].state \in {"pending", "ambiguous", "sent"}
              => <<selection, i>> \in forgotten'
    BY <1>7 DEF saveBinding
  <2>2. \A s \in Selections, i \in Ids : Remembered(s, i)' =>
           /\ Remembered(s, i)
           /\ s = selection => ledger[i].state \in {"absent", "rejected"}
    BY <1>1, <2>1 DEF Remembered, Record, States
  <2>3. NoHiddenAttempt'
    BY <1>3, <2>2 DEF LedgerInv, NoHiddenAttempt, Untouched
  <2>4. FlagMeansUnresolved' /\ SentIsStored' /\ OneUnresolvedPerContent'
    BY <2>1, AbsentFacts
    DEF FlagMeansUnresolved, SentIsStored, OneUnresolvedPerContent, Unresolved
  <2>5. SoleHolder' /\ SameContent'
    BY <2>1, AbsentFacts DEF SoleHolder, SameContent
  <2> QED BY <1>4, <1>5, <2>3, <2>4, <2>5 DEF LedgerInv
<1> QED BY <1>6, <1>7

\* The initial state satisfies the invariant.
LEMMA LedgerInit == Init => LedgerInv
<1> SUFFICES ASSUME Init PROVE LedgerInv
  OBVIOUS
<1>1. TypeOK
  BY AbsentType DEF Init, TypeOK, CallState
<1>2. \A c \in Calls : call[c].pc = "idle" /\ call[c].answer = "none"
  BY DEF Init, NoCall
<1>3. \A i \in Ids : ledger[i] = Absent
  BY DEF Init
<1>4. log = {} /\ orphans = {}
  BY DEF Init
<1>5. FlagMeansUnresolved /\ SentIsStored /\ OneUnresolvedPerContent
  BY <1>3, AbsentFacts
  DEF FlagMeansUnresolved, SentIsStored, OneUnresolvedPerContent, Unresolved
<1>6. NoHiddenAttempt /\ SoleHolder /\ SameContent
  BY <1>2, <1>3, <1>4, AbsentFacts
  DEF NoHiddenAttempt, SoleHolder, SameContent, Untouched, Holds, MayBeStored
<1>7. AnswersAreTrue /\ CurrentMeansSelected
  BY <1>2 DEF AnswersAreTrue, CurrentMeansSelected
<1> QED BY <1>1, <1>5, <1>6, <1>7 DEF LedgerInv

\* Every step keeps the invariant.
LEMMA LedgerStep == LedgerInv /\ [Next]_vars => LedgerInv'
<1> SUFFICES ASSUME LedgerInv, [Next]_vars
             PROVE  LedgerInv'
  OBVIOUS
<1>1. TypeOK /\ TypeOK'
  BY TypeStep DEF LedgerInv
<1>2. ASSUME NEW c \in Calls, NEW i \in Ids, NEW m \in Contents, Begin(c, i, m)
      PROVE  LedgerInv'
  BY <1>1, <1>2, CallStep
<1>3. ASSUME NEW c \in Calls, Transmit(c) \/ ServerRefuses(c)
      PROVE  LedgerInv'
  BY <1>1, <1>3, CallStep
<1>4. ASSUME NEW c \in Calls, ReserveRefused(c)
      PROVE  LedgerInv'
  BY <1>1, <1>4, EndsQuietlyStep DEF ReserveRefused, Return
<1>5. ASSUME NEW c \in Calls, Reserve(c)
      PROVE  LedgerInv'
  BY <1>1, <1>5, ReserveStep
<1>6. ASSUME NEW c \in Calls, Release(c)
      PROVE  LedgerInv'
  BY <1>1, <1>6, ReleaseStep
<1>7. ASSUME NEW c \in Calls, SettleSent(c)
      PROVE  LedgerInv'
  BY <1>1, <1>7, SettleStep DEF SettleSent
<1>8. ASSUME NEW c \in Calls, SettleRejected(c)
      PROVE  LedgerInv'
  BY <1>1, <1>8, SettleStep DEF SettleRejected
<1>9. ASSUME NEW c \in Calls, SettleAmbiguous(c)
      PROVE  LedgerInv'
  BY <1>1, <1>9, SettleStep DEF SettleAmbiguous, Abandon
<1>10. ASSUME NEW c \in Calls, Crash(c)
       PROVE  LedgerInv'
  BY <1>1, <1>10, EndsQuietlyStep DEF Crash, Abandon, Return
<1>11. ASSUME NEW c \in Calls, ServerStores(c)
       PROVE  LedgerInv'
  BY <1>1, <1>11, StoreStep
<1>12. ASSUME NEW p \in orphans, OrphanStored(p) \/ OrphanLost(p)
       PROVE  LedgerInv'
  BY <1>1, <1>12, StoreStep
<1>13. ASSUME NEW t \in Selections, saveBinding(t)
       PROVE  LedgerInv'
  BY <1>1, <1>13, RebindStep
<1>14. CASE UNCHANGED vars
  BY <1>14
  DEF vars, LedgerInv, TypeOK, FlagMeansUnresolved, NoHiddenAttempt, SoleHolder,
      SameContent, AnswersAreTrue, CurrentMeansSelected, SentIsStored,
      OneUnresolvedPerContent, Untouched, Holds, MayBeStored, Remembered
<1> QED
  BY <1>2, <1>3, <1>4, <1>5, <1>6, <1>7, <1>8, <1>9, <1>10, <1>11, <1>12, <1>13, <1>14
  DEF Next

\* What the invariant says of the posts the server holds.
LEMMA LedgerImplies == LedgerInv => StoredIsAccountedFor /\ NoBlindDuplicate
<1> SUFFICES ASSUME LedgerInv PROVE StoredIsAccountedFor /\ NoBlindDuplicate
  OBVIOUS
<1>1. log \subseteq Post /\ ledger \in [Ids -> Record] /\ selection \in Selections
  BY DEF LedgerInv, TypeOK
<1>2. ASSUME NEW p \in log, Remembered(p.sel, p.id)
      PROVE  /\ p.sel = selection /\ p.id \in Ids
             /\ ledger[p.id].state \in {"pending", "ambiguous", "sent"}
             /\ ledger[p.id].content = p.content
  <2>1. p.sel \in Selections /\ p.id \in Ids /\ MayBeStored(p.sel, p.id)
    BY <1>1 DEF Post, MayBeStored
  <2>2. p.sel = selection /\ ledger[p.id].state \notin {"absent", "rejected"}
    BY <1>2, <2>1 DEF LedgerInv, NoHiddenAttempt, Untouched
  <2>3. ledger[p.id].state \in States
    BY <1>1, <2>1 DEF Record
  <2>4. ledger[p.id].content = p.content
    BY <1>2, <2>1, <2>2 DEF LedgerInv, SameContent
  <2> QED BY <2>1, <2>2, <2>3, <2>4 DEF States
<1>3. StoredIsAccountedFor
  BY <1>2 DEF StoredIsAccountedFor
<1>4. NoBlindDuplicate
  BY <1>2 DEF LedgerInv, OneUnresolvedPerContent, NoBlindDuplicate, Unresolved
<1> QED BY <1>3, <1>4

\* The inductive invariant holds in every reachable state.
THEOREM LedgerInvariant == Spec => []LedgerInv
  BY LedgerInit, LedgerStep, PTL DEF Spec

\* A post the server holds is never recorded as refused or missing, unless the
\* ledger was made to drop it: for any number of overlapping calls, retries,
\* crashes, late arrivals and rebinds.
THEOREM StoredAccounted == Spec => []StoredIsAccountedFor
  BY LedgerInvariant, LedgerImplies, PTL

\* Identical content is never unresolved under two ids.
THEOREM OneUnresolved == Spec => []OneUnresolvedPerContent
<1>1. LedgerInv => OneUnresolvedPerContent
  BY DEF LedgerInv
<1> QED BY <1>1, LedgerInvariant, PTL

\* The Coordinator never gets the blind retry of an unresolved send.
THEOREM NoDuplicate == Spec => []NoBlindDuplicate
  BY LedgerInvariant, LedgerImplies, PTL

-----------------------------------------------------------------------------
\* A window has a newest entry, which Top is.
LEMMA TopLemma ==
    ASSUME NEW w, w \subseteq 1 .. MaxLog, w # {}
    PROVE  Top(w) \in w /\ \A f \in w : f <= Top(w)
<1> DEFINE T == {MaxLog - e : e \in w}
<1>1. T \subseteq Nat /\ T # {}
  <2>1. \A e \in w : MaxLog - e \in Nat
    BY DeliveryBoundAssumption
  <2> QED BY <2>1
<1>2. PICK x \in T : \A y \in T : ~ (<<y, x>> \in OpToRel(<, Nat))
  <2> HIDE DEF T
  <2> QED BY <1>1, WFMin, NatLessThanWellFounded, Zenon
<1>3. \A y \in T : ~ (y < x)
  BY <1>1, <1>2 DEF OpToRel
<1>4. PICK e \in w : x = MaxLog - e
  OBVIOUS
<1>5. \A f \in w : f <= e
  <2> SUFFICES ASSUME NEW f \in w PROVE f <= e
    OBVIOUS
  <2>1. MaxLog - f \in T
    OBVIOUS
  <2>2. ~ (MaxLog - f < MaxLog - e)
    BY <1>3, <1>4, <2>1
  <2> HIDE DEF T
  <2> QED BY <2>2, DeliveryBoundAssumption
<1> QED BY <1>5 DEF Top

\* The row that stands for "no row" has the type of rows.
LEMMA NoRowType == NoRow \in Row
  BY DeliveryBoundAssumption DEF NoRow, Row, StartKinds, Points

\* The idle call has the type of calls.
LEMMA NoCallType == NoReader \in ReaderState
  BY DeliveryBoundAssumption DEF NoReader, ReaderState, Points, Generations

\* later is one of its arguments and not less than either.
LEMMA LaterLemma ==
    ASSUME NEW a \in Nat, NEW b \in Nat
    PROVE  later(a, b) \in {a, b} /\ later(a, b) >= a /\ later(a, b) >= b
  BY DEF later

\* Widening a row leaves its kind, start and checkpoint alone, moves the fence
\* forward only and keeps returned within the old set and the window.
LEMMA WidenLemma ==
    ASSUME NEW row \in Row, NEW w, w \subseteq 1 .. MaxLog
    PROVE  LET new == widenReadWindow(row, w)
           IN  /\ new \in Row
               /\ new.kind = row.kind /\ new.start = row.start
               /\ new.checkpoint = row.checkpoint
               /\ new.readThrough >= row.readThrough
               /\ new.returned \subseteq row.returned \cup w
<1>1. CASE w = {}
  BY <1>1, DeliveryBoundAssumption DEF widenReadWindow, Row, Points
<1>2. CASE w # {}
  <2> DEFINE r == Newest({e \in row.returned \cup w : e > row.checkpoint})
             t == later(row.readThrough, Top(w))
  <2>1. r \subseteq row.returned \cup w
    BY DEF Newest
  <2>2. Top(w) \in 1 .. MaxLog
    BY <1>2, TopLemma
  <2>3. t \in Points /\ t >= row.readThrough
    BY <2>2, DeliveryBoundAssumption DEF later, Row, Points
  <2>4. row.returned \cup w \subseteq 1 .. MaxLog
    BY DEF Row
  <2>5. widenReadWindow(row, w) = [row EXCEPT !.returned = r, !.readThrough = t]
    BY <1>2 DEF widenReadWindow
  <2> HIDE DEF r, t
  <2> QED BY <2>1, <2>3, <2>4, <2>5 DEF Row
<1> QED BY <1>1, <1>2

\* Advancing leaves a row's kind, start and fence alone, and moves the
\* checkpoint to the entry it was asked for when that is ahead.
LEMMA AdvanceLemma ==
    ASSUME NEW row \in Row, NEW e \in 1 .. MaxLog, e > row.checkpoint
    PROVE  LET new == advanceCheckpoint(row, e)
           IN  /\ new \in Row
               /\ new.kind = row.kind /\ new.start = row.start
               /\ new.checkpoint = e
               /\ new.readThrough = row.readThrough
               /\ new.returned \subseteq row.returned
<1> DEFINE r == {f \in row.returned : f > e}
<1>1. later(row.checkpoint, e) = e
  BY DeliveryBoundAssumption DEF later, Row, Points
<1>2. advanceCheckpoint(row, e) = [row EXCEPT !.checkpoint = e, !.returned = r]
  BY <1>1 DEF advanceCheckpoint
<1>3. r \subseteq row.returned /\ row.returned \subseteq 1 .. MaxLog
  BY DEF Row
<1>4. e \in Points
  BY DeliveryBoundAssumption DEF Points
<1> HIDE DEF r
<1> QED BY <1>2, <1>3, <1>4 DEF Row

-----------------------------------------------------------------------------
(* Type correctness.                                                       *)

\* The points of the log, and of the rows, are numbers.
LEMMA PointLemma == Points \subseteq Nat /\ 0 \in Points /\ Generations \subseteq Nat
  BY DeliveryBoundAssumption DEF Points, Generations

\* Initially every variable has its type.
LEMMA InitType == DeliveryInit => DeliveryTypeOK
<1> SUFFICES ASSUME DeliveryInit PROVE DeliveryTypeOK
  OBVIOUS
<1>1. serverLog \in Seq(Kinds) /\ Len(serverLog) <= MaxLog
  BY DeliveryBoundAssumption DEF DeliveryInit
<1>2. boundGeneration \in Generations
  BY DeliveryBoundAssumption DEF DeliveryInit, Generations
<1>3. PICK kind \in {"absent", "head-pending"} :
        delivery = [g \in Generations |->
                      IF g = 0 THEN [NoRow EXCEPT !.kind = kind] ELSE NoRow]
  BY DEF DeliveryInit
<1>4. [NoRow EXCEPT !.kind = kind] \in Row
  BY NoRowType DEF Row, StartKinds
<1> QED BY <1>1, <1>2, <1>3, <1>4, NoRowType, NoCallType, PointLemma DEF DeliveryInit, DeliveryTypeOK

\* Every step keeps every variable's type.
LEMMA NextType == DeliveryTypeOK /\ [DeliveryNext]_deliveryVars => DeliveryTypeOK'
<1> SUFFICES ASSUME DeliveryTypeOK, [DeliveryNext]_deliveryVars PROVE DeliveryTypeOK'
  OBVIOUS
<1> USE PointLemma
<1>0. /\ serverLog \in Seq(Kinds) /\ Len(serverLog) <= MaxLog /\ Len(serverLog) \in Nat
      /\ boundGeneration \in Generations
      /\ bound \in [Generations -> Points]
      /\ delivery \in [Generations -> Row]
      /\ reader \in [Readers -> ReaderState]
      /\ read \in [Generations -> SUBSET (1 .. MaxLog)]
  BY DEF DeliveryTypeOK
<1>1. ASSUME NEW c \in Readers, Ensure(c) PROVE DeliveryTypeOK'
  <2> USE <1>0, <1>1
  <2>1. delivery' \in [Generations -> Row]
    <3>1. [NoRow EXCEPT !.kind = "binding", !.start = bound[boundGeneration]] \in Row
      BY NoRowType DEF Row, StartKinds
    <3> QED BY <3>1 DEF Ensure, SetRow
  <2>2. reader' \in [Readers -> ReaderState]
    <3>1. \A l \in {"head", "ready"} : [NoReader EXCEPT !.pc = l, !.gen = boundGeneration] \in ReaderState
      BY NoCallType DEF ReaderState
    <3> QED BY <3>1 DEF Ensure
  <2> QED BY <2>1, <2>2 DEF DeliveryTypeOK, Ensure
<1>2. ASSUME NEW c \in Readers, serverHead(c) PROVE DeliveryTypeOK'
  <2>1. Len(serverLog) \in Points
    BY <1>0, DeliveryBoundAssumption DEF Points
  <2>2. reader' \in [Readers -> ReaderState]
    BY <1>0, <1>2, <2>1 DEF serverHead, ReaderState
  <2> QED BY <1>2, <2>2 DEF DeliveryTypeOK, serverHead
<1>3. ASSUME NEW c \in Readers, Resolve(c) PROVE DeliveryTypeOK'
  <2> USE <1>0, <1>3
  <2>1. reader' \in [Readers -> ReaderState]
    <3>1. [reader[c] EXCEPT !.pc = "ready", !.point = 0] \in ReaderState
      BY DEF ReaderState
    <3> QED BY <3>1, NoCallType DEF Resolve, ReturnReplies
  <2>2. delivery' \in [Generations -> Row]
    <3>1. reader[c].gen \in Generations /\ reader[c].point \in Points
      BY DEF ReaderState
    <3>2. \A k \in StartKinds, p \in Points :
             [delivery[reader[c].gen] EXCEPT !.kind = k, !.start = p] \in Row
      BY <3>1 DEF Row
    <3>3. bound[reader[c].gen] \in Points
      BY <3>1
    <3>4. \/ UNCHANGED delivery
          \/ \E k \in StartKinds, p \in Points :
                delivery' = [delivery EXCEPT ![reader[c].gen] =
                               [delivery[reader[c].gen] EXCEPT !.kind = k, !.start = p]]
      BY <3>1, <3>3 DEF Resolve, SetRow, StartKinds
    <3>5. CASE UNCHANGED delivery
      BY <3>5
    <3>6. ASSUME NEW k \in StartKinds, NEW p \in Points,
                 delivery' = [delivery EXCEPT ![reader[c].gen] =
                                [delivery[reader[c].gen] EXCEPT !.kind = k, !.start = p]]
          PROVE  delivery' \in [Generations -> Row]
      BY <3>1, <3>2, <3>6
    <3> QED BY <3>4, <3>5, <3>6
  <2> QED BY <2>1, <2>2 DEF DeliveryTypeOK, Resolve
<1>4. ASSUME NEW c \in Readers, ReadSnapshot(c) PROVE DeliveryTypeOK'
  <2> USE <1>0, <1>4
  <2>1. scanStart(delivery[boundGeneration]) \in Points
    BY DEF scanStart, later, Row
  <2>2. reader' \in [Readers -> ReaderState]
    <3>1. [reader[c] EXCEPT !.pc = "scanning", !.point = scanStart(delivery[boundGeneration])] \in ReaderState
      BY <2>1 DEF ReaderState
    <3> QED BY <3>1, NoCallType DEF ReadSnapshot, ReturnReplies
  <2> QED BY <2>2 DEF DeliveryTypeOK, ReadSnapshot
<1>5. ASSUME NEW c \in Readers, NEW broadcast \in BOOLEAN, ReadScan(c, broadcast) PROVE DeliveryTypeOK'
  <2> USE <1>0, <1>5
  <2>1. Candidates(c, broadcast) \subseteq 1 .. MaxLog
    BY DeliveryBoundAssumption DEF Candidates
  <2>2. reader' \in [Readers -> ReaderState]
    <3>1. \A w \in SUBSET Candidates(c, broadcast) :
             [reader[c] EXCEPT !.pc = "widening", !.window = w] \in ReaderState
      BY <2>1 DEF ReaderState
    <3> QED BY <3>1, NoCallType DEF ReadScan, ReturnReplies
  <2> QED BY <2>2 DEF DeliveryTypeOK, ReadScan
<1>6. ASSUME NEW c \in Readers, ReadWiden(c) PROVE DeliveryTypeOK'
  <2> USE <1>0, <1>6
  <2>1. reader[c].gen \in Generations /\ reader[c].window \subseteq 1 .. MaxLog
    BY DEF ReaderState
  <2>2. widenReadWindow(delivery[reader[c].gen], reader[c].window) \in Row
    BY <2>1, WidenLemma
  <2>3. delivery' \in [Generations -> Row] /\ read' \in [Generations -> SUBSET (1 .. MaxLog)]
    BY <2>1, <2>2 DEF ReadWiden, SetRow
  <2>4. reader' \in [Readers -> ReaderState]
    BY NoCallType DEF ReadWiden, ReturnReplies
  <2> QED BY <2>3, <2>4 DEF DeliveryTypeOK, ReadWiden
<1>7. ASSUME NEW c \in Readers, NEW e \in 1 .. Len(serverLog), Deliver(c, e) PROVE DeliveryTypeOK'
  <2> USE <1>0, <1>7
  <2>1. reader[c].gen \in Generations /\ e \in 1 .. MaxLog
    BY DeliveryBoundAssumption DEF ReaderState
  <2>2. e > delivery[reader[c].gen].checkpoint => advanceCheckpoint(delivery[reader[c].gen], e) \in Row
    BY <2>1, AdvanceLemma
  <2>3. delivery' \in [Generations -> Row]
    BY <2>1, <2>2 DEF Deliver, SetRow
  <2>4. reader' \in [Readers -> ReaderState]
    BY NoCallType DEF Deliver, ReturnReplies
  <2> QED BY <2>3, <2>4 DEF DeliveryTypeOK, Deliver
<1>8. ASSUME NEW c \in Readers, Ack(c) \/ Fail(c) PROVE DeliveryTypeOK'
  <2>1. reader' \in [Readers -> ReaderState]
    BY <1>0, <1>8, NoCallType DEF Ack, Fail, ReturnReplies
  <2> QED BY <1>8, <2>1 DEF DeliveryTypeOK, Ack, Fail
<1>9. ASSUME NEW kind \in Kinds, PostReply(kind) PROVE DeliveryTypeOK'
  <2>1. serverLog' \in Seq(Kinds) /\ Len(serverLog') <= MaxLog
    BY <1>0, <1>9, DeliveryBoundAssumption DEF PostReply
  <2> QED BY <1>9, <2>1 DEF DeliveryTypeOK, PostReply
<1>10. CASE OtherGeneration
  BY <1>10 DEF DeliveryTypeOK, OtherGeneration
<1>11. CASE rebindDelivery
  <2>1. boundGeneration' \in Generations /\ Len(serverLog) \in Points
    BY <1>0, <1>11, DeliveryBoundAssumption DEF rebindDelivery, Generations, Points
  <2>2. bound' \in [Generations -> Points]
    BY <1>0, <1>11, <2>1 DEF rebindDelivery
  <2> QED BY <1>11, <2>1, <2>2 DEF DeliveryTypeOK, rebindDelivery
<1>12. CASE UNCHANGED deliveryVars
  BY <1>12 DEF DeliveryTypeOK, deliveryVars
<1> QED BY <1>1, <1>2, <1>3, <1>4, <1>5, <1>6, <1>7, <1>8, <1>9, <1>10, <1>11, <1>12 DEF DeliveryNext

\* The delivery rows, the calls and the log keep their types in every state.
THEOREM DeliveryTypeCorrect == DeliverySpec => []DeliveryTypeOK
  BY InitType, NextType, PTL DEF DeliverySpec

-----------------------------------------------------------------------------
(* The inductive invariant.                                                *)

\* What a step may do to a row: it stays, and once its start is resolved its
\* scans start no earlier than before.
RowAdvances(g) ==
    /\ delivery[g].kind # "absent" => delivery'[g].kind # "absent"
    /\ Resolved(delivery[g]) =>
          Resolved(delivery'[g]) /\ scanStart(delivery[g]) <= scanStart(delivery'[g])

\* What a step may do to the log.
LogGrows ==
    /\ Len(serverLog) <= Len(serverLog')
    /\ \A d \in 1 .. Len(serverLog) : serverLog'[d] = serverLog[d]

\* A call that takes no step keeps its part of the invariant: the window it
\* holds stays a prefix of what it scanned, and its start stays behind.
LEMMA CallFrame ==
    ASSUME DeliveryInv, DeliveryTypeOK', NEW c \in Readers, reader'[c] = reader[c],
           LogGrows, boundGeneration <= boundGeneration', RowAdvances(reader[c].gen)
    PROVE  CallInv(c)'
<1>0. /\ reader[c] \in ReaderState /\ reader[c].gen \in Generations /\ reader[c].point \in Nat
      /\ boundGeneration \in Nat /\ boundGeneration' \in Nat
      /\ Len(serverLog) \in Nat /\ Len(serverLog') \in Nat
      /\ delivery[reader[c].gen] \in Row /\ delivery'[reader[c].gen] \in Row
  <2>1. DeliveryTypeOK
    BY DEF DeliveryInv
  <2>2. reader[c] \in ReaderState /\ reader[c].gen \in Generations /\ reader[c].point \in Nat
    BY <2>1, PointLemma DEF DeliveryTypeOK, ReaderState
  <2>3. boundGeneration \in Nat /\ boundGeneration' \in Nat
    BY <2>1, PointLemma DEF DeliveryTypeOK
  <2>4. Len(serverLog) \in Nat /\ Len(serverLog') \in Nat
    BY <2>1 DEF DeliveryTypeOK
  <2>5. delivery[reader[c].gen] \in Row /\ delivery'[reader[c].gen] \in Row
    BY <2>1, <2>2 DEF DeliveryTypeOK
  <2> QED BY <2>2, <2>3, <2>4, <2>5
<1>1. CallInv(c)
  BY DEF DeliveryInv
<1>2. reader'[c].gen <= boundGeneration'
  <2>1. reader[c].gen \in Nat /\ reader[c].gen <= boundGeneration
    BY <1>0, <1>1, PointLemma DEF CallInv
  <2> QED BY <1>0, <2>1
<1>3. StartKnown(c)'
  BY <1>1 DEF CallInv, StartKnown, RowAdvances
<1>4. reader[c].pc \in {"scanning", "widening"} =>
         reader[c].point <= scanStart(delivery'[reader[c].gen])
  <2>1. /\ scanStart(delivery[reader[c].gen]) \in Nat
        /\ scanStart(delivery'[reader[c].gen]) \in Nat
    BY <1>0, PointLemma DEF scanStart, later, Row
  <2> QED BY <1>0, <1>1, <2>1 DEF CallInv, StartKnown, WindowIsPrefix, RowAdvances
<1>5. ASSUME reader[c].pc = "widening", NEW e \in reader[c].window
      PROVE  /\ e <= Len(serverLog')
             /\ \A d \in 1 .. Len(serverLog') :
                   serverLog'[d] = "direct" /\ reader[c].point < d /\ d <= e => d \in reader[c].window
  <2>1. e \in Nat /\ e <= Len(serverLog)
    BY <1>0, <1>1, <1>5, DeliveryBoundAssumption DEF CallInv, WindowIsPrefix, ReaderState
  <2>2. \A d \in 1 .. Len(serverLog) :
           serverLog[d] = "direct" /\ reader[c].point < d /\ d <= e => d \in reader[c].window
    BY <1>1, <1>5 DEF CallInv, WindowIsPrefix
  <2> QED BY <1>0, <2>1, <2>2 DEF LogGrows
<1>6. WindowIsPrefix(c)'
  BY <1>4, <1>5 DEF WindowIsPrefix
<1> QED BY <1>2, <1>3, <1>6 DEF CallInv

\* A call that returned satisfies its part of the invariant.
LEMMA CallReturned ==
    ASSUME DeliveryTypeOK', NEW c \in Readers, reader'[c] = NoReader
    PROVE  CallInv(c)'
  BY PointLemma DEF DeliveryTypeOK, NoReader, CallInv, WindowIsPrefix, StartKnown

\* Rows that a step leaves alone, with a log that did not change.
LEMMA RowFrame ==
    ASSUME NEW g \in Generations, RowInv(g),
           serverLog' = serverLog, delivery'[g] = delivery[g], read'[g] = read[g]
    PROVE  RowInv(g)'
  BY DEF RowInv, CoveredTo

\* A row whose start is written for the first time.
LEMMA RowStarted ==
    ASSUME DeliveryInv, NEW g \in Generations, ~ Resolved(delivery[g]),
           serverLog' = serverLog, read' = read,
           delivery'[g].checkpoint = 0, delivery'[g].returned = {},
           delivery'[g] \in Row
    PROVE  RowInv(g)'
<1>1. read[g] = {}
  BY DEF DeliveryInv, RowInv
<1>2. Len(serverLog) \in Nat /\ delivery'[g].readThrough \in Nat
  <2>1. serverLog \in Seq(Kinds)
    BY DEF DeliveryInv, DeliveryTypeOK
  <2>2. delivery'[g].readThrough \in Nat
    BY PointLemma DEF Row
  <2>3. Len(serverLog) \in Nat
    BY <2>1
  <2> QED BY <2>2, <2>3
<1>3. \A e \in 1 .. Len(serverLog) : ~ (e <= 0)
  BY <1>2
<1> QED BY <1>1, <1>2, <1>3 DEF RowInv, CoveredTo

\* The steps of a call that change no row: only the call itself moves.
LEMMA ReadCallStep ==
    ASSUME DeliveryInv, DeliveryTypeOK', NEW c \in Readers,
           UNCHANGED <<serverLog, boundGeneration, delivery, read>>,
           \A d \in Readers \ {c} : reader'[d] = reader[d],
           CallInv(c)'
    PROVE  DeliveryInv'
<1>1. \A g \in Generations : RowInv(g)'
  BY RowFrame DEF DeliveryInv
<1>2. NoFutureRows'
  BY DEF DeliveryInv, NoFutureRows
<1>3. ASSUME NEW d \in Readers \ {c} PROVE CallInv(d)'
  <2>1. LogGrows /\ boundGeneration <= boundGeneration'
    BY PointLemma DEF LogGrows, DeliveryInv, DeliveryTypeOK
  <2>2. RowAdvances(reader[d].gen)
    <3>1. delivery[reader[d].gen] \in Row
      BY DEF DeliveryInv, DeliveryTypeOK, ReaderState
    <3>2. scanStart(delivery[reader[d].gen]) \in Nat
      BY <3>1, PointLemma DEF scanStart, later, Row
    <3> QED BY <3>2 DEF RowAdvances
  <2> QED BY <2>1, <2>2, <1>3, CallFrame
<1> QED BY <1>1, <1>2, <1>3 DEF DeliveryInv

\* The steps of a call that write the row of one generation, current or past.
LEMMA RowStep ==
    ASSUME DeliveryInv, DeliveryTypeOK', NEW c \in Readers, NEW g \in Generations,
           UNCHANGED <<serverLog, boundGeneration>>, g <= boundGeneration,
           \A h \in Generations \ {g} : delivery'[h] = delivery[h] /\ read'[h] = read[h],
           \A d \in Readers \ {c} : reader'[d] = reader[d],
           RowInv(g)', RowAdvances(g), CallInv(c)'
    PROVE  DeliveryInv'
<1>0. boundGeneration \in Nat /\ g \in Nat
  BY PointLemma DEF DeliveryInv, DeliveryTypeOK
<1>1. ASSUME NEW h \in Generations PROVE RowInv(h)'
  BY <1>1, RowFrame DEF DeliveryInv
<1>2. NoFutureRows'
  <2> SUFFICES ASSUME NEW h \in Generations, h > boundGeneration
               PROVE  delivery'[h] = NoRow /\ read'[h] = {}
    BY DEF NoFutureRows
  <2>1. h # g
    BY <1>0
  <2> QED BY <2>1 DEF DeliveryInv, NoFutureRows
<1>3. ASSUME NEW d \in Readers \ {c} PROVE CallInv(d)'
  <2>1. LogGrows /\ boundGeneration <= boundGeneration'
    BY PointLemma DEF LogGrows, DeliveryInv, DeliveryTypeOK
  <2>2. RowAdvances(reader[d].gen)
    <3>1. reader[d].gen \in Generations /\ delivery[reader[d].gen] \in Row
      BY DEF DeliveryInv, DeliveryTypeOK, ReaderState
    <3>2. scanStart(delivery[reader[d].gen]) \in Nat
      BY <3>1, PointLemma DEF scanStart, later, Row
    <3> QED BY <3>1, <3>2 DEF RowAdvances
  <2> QED BY <2>1, <2>2, <1>3, CallFrame
<1> QED BY <1>1, <1>2, <1>3 DEF DeliveryInv

\* The invariant holds initially.
LEMMA InitInv == DeliveryInit => DeliveryInv
<1> SUFFICES ASSUME DeliveryInit PROVE DeliveryInv
  OBVIOUS
<1>1. DeliveryTypeOK
  BY InitType
<1>2. PICK kind \in {"absent", "head-pending"} :
        delivery = [g \in Generations |->
                      IF g = 0 THEN [NoRow EXCEPT !.kind = kind] ELSE NoRow]
  BY DEF DeliveryInit
<1>3. Len(serverLog) = 0 /\ boundGeneration = 0 /\ read = [g \in Generations |-> {}]
      /\ reader = [c \in Readers |-> NoReader]
  BY DEF DeliveryInit
<1>4. ASSUME NEW g \in Generations
      PROVE  delivery[g].checkpoint = 0 /\ delivery[g].readThrough = 0 /\ delivery[g].returned = {}
  BY <1>2 DEF NoRow
<1>5. ASSUME NEW g \in Generations PROVE RowInv(g)
  BY <1>3, <1>4, <1>5 DEF RowInv
<1>6. NoFutureRows
  <2> SUFFICES ASSUME NEW g \in Generations, g > 0 PROVE delivery[g] = NoRow /\ read[g] = {}
    BY <1>3 DEF NoFutureRows
  <2> QED BY <1>2, <1>3, PointLemma
<1>7. ASSUME NEW c \in Readers PROVE CallInv(c)
  BY <1>3 DEF CallInv, NoReader, WindowIsPrefix, StartKnown
<1> QED BY <1>1, <1>5, <1>6, <1>7 DEF DeliveryInv

\* Ensure keeps the invariant: a row it writes had no reads before.
LEMMA EnsureInv ==
    ASSUME DeliveryInv, DeliveryTypeOK', NEW c \in Readers, Ensure(c)
    PROVE  DeliveryInv'
<1>0. /\ boundGeneration \in Generations /\ boundGeneration \in Nat /\ reader \in [Readers -> ReaderState]
      /\ delivery \in [Generations -> Row] /\ delivery' \in [Generations -> Row]
  BY PointLemma DEF DeliveryInv, DeliveryTypeOK
<1>1. /\ reader'[c].gen = boundGeneration /\ reader'[c].pc \in {"head", "ready"}
      /\ delivery'[boundGeneration].kind # "absent"
      /\ reader'[c].pc = "ready" => Resolved(delivery'[boundGeneration])
  <2>1. CASE delivery[boundGeneration].kind = "absent"
    <3>1. /\ reader' = [reader EXCEPT ![c] = [NoReader EXCEPT !.pc = "ready", !.gen = boundGeneration]]
          /\ delivery' = [delivery EXCEPT ![boundGeneration] =
                            [NoRow EXCEPT !.kind = "binding", !.start = bound[boundGeneration]]]
      BY <2>1 DEF Ensure, SetRow, Resolved
    <3>2. reader'[c] = [NoReader EXCEPT !.pc = "ready", !.gen = boundGeneration]
      BY <1>0, <3>1
    <3>3. delivery'[boundGeneration] = [NoRow EXCEPT !.kind = "binding", !.start = bound[boundGeneration]]
      BY <1>0, <3>1
    <3> QED BY <3>2, <3>3 DEF NoReader, NoRow, Resolved
  <2>2. CASE delivery[boundGeneration].kind # "absent"
    BY <1>0, <2>2 DEF Ensure, NoReader, Resolved
  <2> QED BY <2>1, <2>2
<1>2. CallInv(c)'
  BY <1>0, <1>1 DEF CallInv, WindowIsPrefix, StartKnown, Ensure
<1>3. \A d \in Readers \ {c} : reader'[d] = reader[d]
  BY <1>0 DEF Ensure
<1>4. CASE UNCHANGED delivery
  BY <1>2, <1>3, <1>4, ReadCallStep DEF Ensure
<1>5. CASE delivery[boundGeneration].kind = "absent"
  <2>1. /\ delivery'[boundGeneration].checkpoint = 0 /\ delivery'[boundGeneration].returned = {}
        /\ \A h \in Generations \ {boundGeneration} : delivery'[h] = delivery[h]
        /\ UNCHANGED <<serverLog, boundGeneration, read>>
    <3>1. /\ delivery' = [delivery EXCEPT ![boundGeneration] =
                            [NoRow EXCEPT !.kind = "binding", !.start = bound[boundGeneration]]]
          /\ UNCHANGED <<serverLog, boundGeneration, read>>
      BY <1>5 DEF Ensure, SetRow, Resolved
    <3>2. delivery'[boundGeneration] = [NoRow EXCEPT !.kind = "binding", !.start = bound[boundGeneration]]
      BY <1>0, <3>1
    <3> QED BY <1>0, <3>1, <3>2 DEF NoRow
  <2>2. ~ Resolved(delivery[boundGeneration])
    BY <1>5 DEF Resolved
  <2>3. RowInv(boundGeneration)'
    <3>1. \A g \in Generations : g = boundGeneration => RowInv(g)'
      BY <1>0, <2>1, <2>2, RowStarted
    <3> QED BY <1>0, <2>1, <3>1
  <2>4. RowAdvances(boundGeneration)
    BY <1>5, <2>2 DEF RowAdvances
  <2> QED BY <1>0, <1>2, <1>3, <2>1, <2>3, <2>4, RowStep
<1> QED BY <1>4, <1>5 DEF Ensure

\* Resolve keeps the invariant: nothing was read before the start was known.
LEMMA ResolveInv ==
    ASSUME DeliveryInv, DeliveryTypeOK', NEW c \in Readers, Resolve(c)
    PROVE  DeliveryInv'
<1> DEFINE g == reader[c].gen
<1>0. /\ g \in Generations /\ g \in Nat /\ reader \in [Readers -> ReaderState]
      /\ delivery \in [Generations -> Row] /\ delivery' \in [Generations -> Row]
  BY PointLemma DEF DeliveryInv, DeliveryTypeOK, ReaderState
<1>1. UNCHANGED <<serverLog, boundGeneration, read>> /\ \A d \in Readers \ {c} : reader'[d] = reader[d]
  BY <1>0 DEF Resolve, ReturnReplies
<1>2. CASE ~ BoundNow(c)
  <2>1. reader'[c] = NoReader /\ UNCHANGED delivery
    BY <1>0, <1>2 DEF Resolve, ReturnReplies
  <2> QED BY <1>1, <2>1, CallReturned, ReadCallStep
<1>3. CASE BoundNow(c)
  <2>1. /\ reader'[c] = [reader[c] EXCEPT !.pc = "ready", !.point = 0]
        /\ reader'[c].gen = g /\ reader'[c].pc = "ready"
    <3>1. reader'[c] = [reader[c] EXCEPT !.pc = "ready", !.point = 0]
      BY <1>0, <1>3 DEF Resolve
    <3> QED BY <1>0, <3>1 DEF ReaderState
  <2>2. g <= boundGeneration
    BY DEF DeliveryInv, CallInv
  <2>3. CASE StillPending(delivery[g])
    <3>1. PICK k \in {"head", "binding"}, p \in Points :
            delivery' = [delivery EXCEPT ![g] = [delivery[g] EXCEPT !.kind = k, !.start = p]]
      <4>1. bound[g] \in Points /\ reader[c].point \in Points
        BY <1>0 DEF DeliveryInv, DeliveryTypeOK, ReaderState
      <4> QED BY <1>3, <2>3, <4>1 DEF Resolve, SetRow
    <3>2. /\ delivery'[g] = [delivery[g] EXCEPT !.kind = k, !.start = p]
          /\ \A h \in Generations \ {g} : delivery'[h] = delivery[h]
      BY <1>0, <3>1
    <3>3. /\ delivery'[g].kind \in {"head", "binding"}
          /\ delivery'[g].checkpoint = delivery[g].checkpoint
          /\ delivery'[g].returned = delivery[g].returned
      <4>1. delivery[g] \in Row
        BY <1>0
      <4> QED BY <3>2, <4>1 DEF Row
    <3>4. ~ Resolved(delivery[g]) /\ Resolved(delivery'[g])
      BY <2>3, <3>3 DEF StillPending, Resolved
    <3>5. delivery[g].checkpoint = 0 /\ delivery[g].returned = {}
      BY <1>0, <3>4 DEF DeliveryInv, RowInv
    <3>6. CallInv(c)'
      BY <1>1, <2>1, <2>2, <3>3, <3>4 DEF CallInv, WindowIsPrefix, StartKnown
    <3>7. RowAdvances(g)
      BY <3>3, <3>4 DEF RowAdvances
    <3>8. delivery'[g] \in Row
      BY <1>0
    <3>9. \A h \in Generations : h = g => RowInv(h)'
      BY <1>1, <3>3, <3>4, <3>5, <3>8, RowStarted
    <3>10. PICK h \in Generations : h = g
      BY <1>0
    <3> HIDE DEF g
    <3> QED BY <1>1, <2>2, <3>2, <3>6, <3>7, <3>9, <3>10, RowStep
  <2>4. CASE ~ StillPending(delivery[g])
    <3>1. UNCHANGED delivery
      BY <1>3, <2>4 DEF Resolve
    <3>2. Resolved(delivery[g])
      <4>1. delivery[g].kind # "absent"
        BY DEF Resolve, DeliveryInv, CallInv, StartKnown
      <4> QED BY <1>0, <2>4, <4>1 DEF StillPending, Resolved, Row, StartKinds
    <3>3. CallInv(c)'
      BY <1>1, <2>1, <2>2, <3>1, <3>2 DEF CallInv, WindowIsPrefix, StartKnown, Resolved
    <3> QED BY <1>1, <3>1, <3>3, ReadCallStep
  <2> QED BY <2>3, <2>4
<1> QED BY <1>2, <1>3

\* serverHead keeps the invariant: only the call moves.
LEMMA ServerHeadInv ==
    ASSUME DeliveryInv, DeliveryTypeOK', NEW c \in Readers, serverHead(c)
    PROVE  DeliveryInv'
<1>0. reader \in [Readers -> ReaderState]
  BY DEF DeliveryInv, DeliveryTypeOK
<1>1. PICK h : reader' = [reader EXCEPT ![c] = [reader[c] EXCEPT !.pc = "resolving", !.point = h]]
  BY DEF serverHead
<1>2. reader'[c].gen = reader[c].gen /\ reader'[c].pc = "resolving"
  <2>1. reader'[c] = [reader[c] EXCEPT !.pc = "resolving", !.point = h] /\ reader[c] \in ReaderState
    BY <1>0, <1>1
  <2> QED BY <2>1 DEF ReaderState
<1>3. CallInv(c)'
  BY <1>2 DEF serverHead, DeliveryInv, CallInv, WindowIsPrefix, StartKnown
<1> QED BY <1>0, <1>1, <1>3, ReadCallStep DEF serverHead

\* T1 keeps the invariant: the snapshot is where the row's scans start.
LEMMA ReadSnapshotInv ==
    ASSUME DeliveryInv, DeliveryTypeOK', NEW c \in Readers, ReadSnapshot(c)
    PROVE  DeliveryInv'
<1>0. reader \in [Readers -> ReaderState] /\ reader[c] \in ReaderState
  BY DEF DeliveryInv, DeliveryTypeOK
<1>1. CASE ~ BoundNow(c)
  <2>1. reader'[c] = NoReader /\ \A d \in Readers \ {c} : reader'[d] = reader[d]
    BY <1>0, <1>1 DEF ReadSnapshot, ReturnReplies
  <2> QED BY <2>1, CallReturned, ReadCallStep DEF ReadSnapshot
<1>2. CASE BoundNow(c)
  <2> DEFINE p == scanStart(delivery[boundGeneration])
  <2>1. reader' = [reader EXCEPT ![c] = [reader[c] EXCEPT !.pc = "scanning", !.point = p]]
    BY <1>2 DEF ReadSnapshot
  <2> HIDE DEF p
  <2>2. reader'[c].gen = reader[c].gen /\ reader'[c].pc = "scanning" /\ reader'[c].point = p
    <3>1. reader'[c] = [reader[c] EXCEPT !.pc = "scanning", !.point = p]
      BY <1>0, <2>1
    <3> QED BY <1>0, <3>1 DEF ReaderState
  <2>3. p \in Nat
    BY PointLemma DEF p, scanStart, later, Row, DeliveryInv, DeliveryTypeOK
  <2>4. CallInv(c)'
    BY <1>2, <2>2, <2>3
       DEF ReadSnapshot, DeliveryInv, CallInv, WindowIsPrefix, StartKnown, BoundNow, p
  <2> QED BY <1>0, <2>1, <2>4, ReadCallStep DEF ReadSnapshot
<1> QED BY <1>1, <1>2

\* The scan keeps the invariant: its window is the oldest candidates, and the
\* direct replies are candidates with and without include_broadcast.
LEMMA ReadScanInv ==
    ASSUME DeliveryInv, DeliveryTypeOK', NEW c \in Readers, NEW broadcast \in BOOLEAN,
           ReadScan(c, broadcast)
    PROVE  DeliveryInv'
<1> DEFINE cands == Candidates(c, broadcast)
<1>0. reader \in [Readers -> ReaderState] /\ reader[c] \in ReaderState /\ Len(serverLog) \in Nat
  BY DEF DeliveryInv, DeliveryTypeOK
<1>1. CASE ReturnReplies(c)
  <2>1. reader'[c] = NoReader /\ \A d \in Readers \ {c} : reader'[d] = reader[d]
    BY <1>0, <1>1 DEF ReturnReplies
  <2> QED BY <2>1, CallReturned, ReadCallStep DEF ReadScan
<1>2. ASSUME NEW w \in SUBSET cands, PrefixOf(w, cands),
             reader' = [reader EXCEPT ![c] = [reader[c] EXCEPT !.pc = "widening", !.window = w]]
      PROVE  DeliveryInv'
  <2>1. /\ reader'[c].gen = reader[c].gen /\ reader'[c].pc = "widening"
        /\ reader'[c].point = reader[c].point /\ reader'[c].window = w
    <3>1. reader'[c] = [reader[c] EXCEPT !.pc = "widening", !.window = w]
      BY <1>0, <1>2
    <3> QED BY <1>0, <3>1 DEF ReaderState
  <2>2. ASSUME NEW e \in w
        PROVE  /\ e <= Len(serverLog)
               /\ \A d \in 1 .. Len(serverLog) :
                     serverLog[d] = "direct" /\ reader[c].point < d /\ d <= e => d \in w
    <3>1. e \in 1 .. Len(serverLog)
      BY DEF Candidates
    <3>2. ASSUME NEW d \in 1 .. Len(serverLog), serverLog[d] = "direct", reader[c].point < d, d <= e, d \notin w
          PROVE  FALSE
      <4>1. reader[c].point \in Nat
        BY <1>0, PointLemma DEF ReaderState
      <4>2. d \in cands
        BY <3>2, <4>1, <1>0 DEF Candidates, Addressed
      <4>3. e < d
        BY <1>2, <3>2, <4>2 DEF PrefixOf
      <4> HIDE DEF cands
      <4> QED BY <1>0, <3>1, <3>2, <4>3
    <3> QED BY <1>0, <3>1, <3>2
  <2> HIDE DEF cands
  <2>3. CallInv(c)'
    BY <2>1, <2>2 DEF ReadScan, DeliveryInv, CallInv, WindowIsPrefix, StartKnown
  <2> QED BY <1>0, <1>2, <2>3, ReadCallStep DEF ReadScan
<1> QED BY <1>1, <1>2 DEF ReadScan

\* T2 keeps the invariant: a window is a prefix of the direct replies after a
\* start that is not ahead of the row's, so with the replies read before it
\* leaves no gap.
LEMMA ReadWidenInv ==
    ASSUME DeliveryInv, DeliveryTypeOK', NEW c \in Readers, ReadWiden(c)
    PROVE  DeliveryInv'
<1>a. PICK g \in Generations : g = reader[c].gen
  BY DEF DeliveryInv, DeliveryTypeOK, ReaderState
<1> DEFINE w == reader[c].window
           row == delivery[g]
           new == widenReadWindow(row, w)
<1>0. /\ reader \in [Readers -> ReaderState] /\ reader[c] \in ReaderState
      /\ delivery \in [Generations -> Row] /\ read \in [Generations -> SUBSET (1 .. MaxLog)]
      /\ Len(serverLog) \in Nat
  BY DEF DeliveryInv, DeliveryTypeOK
<1>1. /\ reader'[c] = NoReader /\ UNCHANGED <<serverLog, boundGeneration>>
      /\ \A d \in Readers \ {c} : reader'[d] = reader[d]
  BY <1>0 DEF ReadWiden, ReturnReplies
<1>2. CallInv(c)'
  BY <1>1, CallReturned
<1>3. CASE ~ StillCurrent(c)
  BY <1>1, <1>2, <1>3, ReadCallStep DEF ReadWiden
<1>4. CASE StillCurrent(c)
  <2>1. g \in Generations /\ w \subseteq 1 .. MaxLog /\ reader[c].point \in Nat /\ row \in Row
    BY <1>0, PointLemma DEF ReaderState
  <2>2. /\ delivery' = [delivery EXCEPT ![g] = new]
        /\ read' = [read EXCEPT ![g] = read[g] \cup w]
    BY <1>4, <1>a DEF ReadWiden, SetRow
  <2>3. /\ new.kind = row.kind /\ new.start = row.start /\ new.checkpoint = row.checkpoint
        /\ new.readThrough >= row.readThrough /\ new.returned \subseteq row.returned \cup w
        /\ new \in Row
    BY <2>1, WidenLemma
  <2>4. /\ reader[c].point <= scanStart(row)
        /\ \A e \in w :
              /\ e <= Len(serverLog)
              /\ \A d \in 1 .. Len(serverLog) :
                    serverLog[d] = "direct" /\ reader[c].point < d /\ d <= e => d \in w
        /\ Resolved(row) /\ g <= boundGeneration
    BY <1>a DEF ReadWiden, DeliveryInv, CallInv, WindowIsPrefix, StartKnown
  <2>5. RowInv(g)
    BY <2>1 DEF DeliveryInv
  <2> HIDE DEF new
  <2>6. delivery'[g] = new /\ read'[g] = read[g] \cup w
    BY <1>0, <2>1, <2>2
  <2>7. \A h \in Generations \ {g} : delivery'[h] = delivery[h] /\ read'[h] = read[h]
    BY <1>0, <2>1, <2>2
  <2>8. /\ row.checkpoint \in Nat /\ row.start \in Nat /\ row.readThrough \in Nat
        /\ new.readThrough \in Nat
    BY <2>1, <2>3, PointLemma DEF Row
  <2> HIDE DEF w, row
  <2>9. ASSUME NEW e \in w, NEW d \in 1 .. Len(serverLog), serverLog[d] = "direct", row.start < d, d <= e
        PROVE  d \in w \/ d <= row.checkpoint
    <3>1. CASE reader[c].point < d
      BY <2>4, <2>9, <3>1
    <3>2. CASE ~ (reader[c].point < d)
      BY <1>0, <2>1, <2>4, <2>8, <2>9, <3>2 DEF scanStart, later
    <3> QED BY <3>1, <3>2
  <2>10. RowInv(g)'
    <3>1. ASSUME NEW e \in read'[g]
          PROVE  /\ e <= Len(serverLog)
                 /\ \A d \in 1 .. Len(serverLog) :
                       serverLog[d] = "direct" /\ row.start < d /\ d <= e =>
                           d \in read'[g] \/ d <= row.checkpoint
      <4>1. CASE e \in w
        BY <2>4, <2>6, <2>9, <4>1
      <4>2. CASE e \in read[g]
        BY <2>5, <2>6, <4>2 DEF RowInv, CoveredTo, row
      <4> QED BY <2>6, <3>1, <4>1, <4>2
    <3>2. \A e \in read'[g] : e <= Len(serverLog') /\ CoveredTo(g, e)'
      BY <1>1, <2>3, <2>6, <3>1 DEF CoveredTo
    <3>3. new.returned \subseteq read[g] \cup w
      BY <2>3, <2>5 DEF RowInv, row
    <3>4. new.checkpoint <= new.readThrough /\ new.checkpoint <= Len(serverLog)
      BY <2>3, <2>5, <2>8, <1>0 DEF RowInv, row
    <3>5. \A e \in 1 .. Len(serverLog) :
             serverLog[e] = "direct" /\ row.start < e /\ e <= row.checkpoint => e \in read[g]
      BY <2>5 DEF RowInv, row
    <3>6. Resolved(new)
      BY <2>3, <2>4 DEF Resolved
    <3> QED BY <1>1, <2>3, <2>6, <3>2, <3>3, <3>4, <3>5, <3>6 DEF RowInv
  <2>11. RowAdvances(g)
    <3>1. scanStart(row) \in Nat /\ scanStart(new) = scanStart(row)
      BY <2>3, <2>8 DEF scanStart, later
    <3> QED BY <2>3, <2>6, <3>1 DEF RowAdvances, Resolved, row
  <2> QED BY <1>1, <1>2, <2>1, <2>4, <2>7, <2>10, <2>11, RowStep
<1> QED BY <1>3, <1>4

\* deliver keeps the invariant: it moves the checkpoint to an entry a read
\* returned, and everything up to such an entry is covered.
LEMMA DeliverInv ==
    ASSUME DeliveryInv, DeliveryTypeOK', NEW c \in Readers, NEW e \in 1 .. Len(serverLog), Deliver(c, e)
    PROVE  DeliveryInv'
<1>a. PICK g \in Generations : g = reader[c].gen
  BY DEF DeliveryInv, DeliveryTypeOK, ReaderState
<1> DEFINE row == delivery[g]
           new == advanceCheckpoint(row, e)
<1>0. /\ reader \in [Readers -> ReaderState] /\ delivery \in [Generations -> Row]
      /\ Len(serverLog) \in Nat /\ e \in 1 .. MaxLog
  <2>1. serverLog \in Seq(Kinds) /\ Len(serverLog) <= MaxLog
    BY DEF DeliveryInv, DeliveryTypeOK
  <2>2. Len(serverLog) \in Nat /\ e \in 1 .. MaxLog
    BY <2>1, DeliveryBoundAssumption
  <2> QED BY <2>2 DEF DeliveryInv, DeliveryTypeOK
<1>1. /\ reader'[c] = NoReader /\ UNCHANGED <<serverLog, boundGeneration, read>>
      /\ \A d \in Readers \ {c} : reader'[d] = reader[d]
  BY <1>0 DEF Deliver, ReturnReplies
<1>2. CallInv(c)'
  BY <1>1, CallReturned
<1>3. CASE UNCHANGED delivery
  BY <1>1, <1>2, <1>3, ReadCallStep
<1>4. CASE /\ e > row.checkpoint
           /\ Deliverable(row, e)
           /\ delivery' = [delivery EXCEPT ![g] = new]
  <2>1. row \in Row
    BY <1>0
  <2>2. /\ new \in Row /\ new.kind = row.kind /\ new.start = row.start
        /\ new.checkpoint = e /\ new.readThrough = row.readThrough
        /\ new.returned \subseteq row.returned
    BY <1>0, <1>4, <2>1, AdvanceLemma
  <2>3. RowInv(g) /\ g <= boundGeneration /\ Resolved(row)
    BY <1>a DEF Deliver, DeliveryInv, CallInv, StartKnown
  <2> HIDE DEF new
  <2>4. /\ delivery'[g] = new
        /\ \A h \in Generations \ {g} : delivery'[h] = delivery[h] /\ read'[h] = read[h]
    BY <1>0, <1>1, <1>4
  <2>5. row.checkpoint \in Nat /\ row.start \in Nat /\ row.readThrough \in Nat
    BY <2>1, PointLemma DEF Row
  <2>6. e \in read[g] /\ e <= row.readThrough
    BY <1>4, <2>3 DEF Deliverable, RowInv
  <2>7. ASSUME NEW d \in 1 .. Len(serverLog), serverLog[d] = "direct", row.start < d, d <= e
        PROVE  d \in read[g]
    BY <2>3, <2>6, <2>7 DEF RowInv, CoveredTo
  <2>8. RowInv(g)'
    <3>1. \A f \in read[g] :
             /\ f <= Len(serverLog)
             /\ \A d \in 1 .. Len(serverLog) :
                   serverLog[d] = "direct" /\ row.start < d /\ d <= f => d \in read[g] \/ d <= e
      <4>1. ASSUME NEW f \in read[g], NEW d \in 1 .. Len(serverLog),
                   serverLog[d] = "direct", row.start < d, d <= f
            PROVE  d \in read[g] \/ d <= e
        <5>1. d \in read[g] \/ d <= row.checkpoint
          BY <2>3, <4>1 DEF RowInv, CoveredTo
        <5> HIDE DEF row
        <5> QED BY <1>0, <1>4, <2>5, <5>1
      <4>2. \A f \in read[g] : f <= Len(serverLog)
        BY <2>3 DEF RowInv
      <4> QED BY <4>1, <4>2
    <3>2. \A f \in read'[g] : f <= Len(serverLog') /\ CoveredTo(g, f)'
      BY <1>1, <2>2, <2>4, <3>1 DEF CoveredTo
    <3>3. new.returned \subseteq read[g]
      BY <2>2, <2>3 DEF RowInv
    <3>4. new.checkpoint <= new.readThrough /\ new.checkpoint <= Len(serverLog)
      BY <1>0, <2>2, <2>6
    <3>5. Resolved(new)
      BY <2>2, <2>3 DEF Resolved
    <3> HIDE DEF row
    <3> QED BY <1>1, <2>2, <2>4, <2>7, <3>2, <3>3, <3>4, <3>5 DEF RowInv
  <2>9. RowAdvances(g)
    <3>1. scanStart(row) <= scanStart(new)
      BY <1>0, <1>4, <2>2, <2>5 DEF scanStart, later
    <3> QED BY <2>2, <2>4, <3>1 DEF RowAdvances, Resolved
  <2> QED BY <1>1, <1>2, <2>3, <2>4, <2>8, <2>9, RowStep
<1> QED BY <1>a, <1>3, <1>4 DEF Deliver, SetRow

\* The log's growth keeps the invariant: no row, read or window reaches an
\* entry that was not there.
LEMMA PostInv ==
    ASSUME DeliveryInv, DeliveryTypeOK', NEW kind \in Kinds, PostReply(kind)
    PROVE  DeliveryInv'
<1>0. /\ serverLog \in Seq(Kinds) /\ Len(serverLog) \in Nat /\ boundGeneration \in Nat
      /\ delivery \in [Generations -> Row] /\ reader \in [Readers -> ReaderState]
      /\ read \in [Generations -> SUBSET (1 .. MaxLog)]
  BY PointLemma DEF DeliveryInv, DeliveryTypeOK
<1>1. Len(serverLog') = Len(serverLog) + 1 /\ \A d \in 1 .. Len(serverLog) : serverLog'[d] = serverLog[d]
  BY <1>0 DEF PostReply
<1>2. LogGrows
  BY <1>0, <1>1 DEF LogGrows
<1>3. UNCHANGED <<boundGeneration, delivery, reader, read>>
  BY DEF PostReply
<1>4. ASSUME NEW g \in Generations PROVE RowInv(g)'
  <2>1. RowInv(g) /\ delivery[g].checkpoint \in Nat
    BY <1>0, PointLemma DEF DeliveryInv, Row
  <2>2. ASSUME NEW e \in read[g] PROVE e <= Len(serverLog') /\ CoveredTo(g, e)'
    <3>1. e \in Nat /\ e <= Len(serverLog) /\ CoveredTo(g, e)
      BY <1>0, <2>1, <2>2, DeliveryBoundAssumption DEF RowInv
    <3> QED BY <1>0, <1>1, <1>3, <3>1 DEF CoveredTo
  <2>3. delivery[g].checkpoint <= Len(serverLog')
    BY <1>0, <1>1, <2>1 DEF RowInv
  <2>4. ASSUME NEW e \in 1 .. Len(serverLog'), serverLog'[e] = "direct",
               delivery[g].start < e, e <= delivery[g].checkpoint
        PROVE  e \in read[g]
    <3>1. e \in 1 .. Len(serverLog)
      BY <1>0, <1>1, <2>1, <2>4 DEF RowInv
    <3> QED BY <1>1, <2>1, <2>4, <3>1 DEF RowInv
  <2> QED BY <1>3, <2>1, <2>2, <2>3, <2>4 DEF RowInv
<1>5. ASSUME NEW c \in Readers PROVE CallInv(c)'
  <2>1. RowAdvances(reader[c].gen)
    <3>1. scanStart(delivery[reader[c].gen]) \in Nat
      BY <1>0, PointLemma DEF ReaderState, scanStart, later, Row
    <3> QED BY <1>3, <3>1 DEF RowAdvances
  <2> QED BY <1>0, <1>2, <1>3, <2>1, CallFrame
<1>6. NoFutureRows'
  BY <1>3 DEF DeliveryInv, NoFutureRows
<1> QED BY <1>4, <1>5, <1>6 DEF DeliveryInv

\* A rebind keeps the invariant: the new generation has no row yet.
LEMMA SaveBindingInv ==
    ASSUME DeliveryInv, DeliveryTypeOK', rebindDelivery
    PROVE  DeliveryInv'
<1>0. boundGeneration \in Nat /\ delivery \in [Generations -> Row] /\ reader \in [Readers -> ReaderState]
  BY PointLemma DEF DeliveryInv, DeliveryTypeOK
<1>1. boundGeneration' = boundGeneration + 1 /\ UNCHANGED <<serverLog, delivery, reader, read>>
  BY DEF rebindDelivery
<1>2. ASSUME NEW g \in Generations PROVE RowInv(g)'
  BY <1>1, RowFrame DEF DeliveryInv
<1>3. ASSUME NEW c \in Readers PROVE CallInv(c)'
  <2>1. scanStart(delivery[reader[c].gen]) \in Nat
    BY <1>0, PointLemma DEF ReaderState, scanStart, later, Row
  <2>2. RowAdvances(reader[c].gen)
    BY <1>1, <2>1 DEF RowAdvances
  <2>3. LogGrows /\ boundGeneration <= boundGeneration'
    BY <1>0, <1>1 DEF LogGrows, DeliveryInv, DeliveryTypeOK
  <2> QED BY <1>1, <2>2, <2>3, CallFrame
<1>4. NoFutureRows'
  <2> SUFFICES ASSUME NEW g \in Generations, g > boundGeneration'
               PROVE  delivery[g] = NoRow /\ read[g] = {}
    BY <1>1 DEF NoFutureRows
  <2>1. g > boundGeneration
    BY <1>0, <1>1, PointLemma
  <2> QED BY <2>1 DEF DeliveryInv, NoFutureRows
<1> QED BY <1>2, <1>3, <1>4 DEF DeliveryInv

\* The invariant is inductive.
LEMMA NextInv == DeliveryInv /\ [DeliveryNext]_deliveryVars => DeliveryInv'
<1> SUFFICES ASSUME DeliveryInv, [DeliveryNext]_deliveryVars PROVE DeliveryInv'
  OBVIOUS
<1>0. DeliveryTypeOK'
  BY NextType DEF DeliveryInv
<1>1. ASSUME NEW c \in Readers, Ack(c) \/ Fail(c) PROVE DeliveryInv'
  <2>1. /\ reader'[c] = NoReader /\ UNCHANGED <<serverLog, boundGeneration, delivery, read>>
        /\ \A d \in Readers \ {c} : reader'[d] = reader[d]
    BY <1>1 DEF Ack, Fail, ReturnReplies, DeliveryInv, DeliveryTypeOK
  <2> QED BY <1>0, <2>1, CallReturned, ReadCallStep
<1>2. CASE UNCHANGED <<serverLog, boundGeneration, delivery, read, reader>>
  BY <1>0, <1>2 DEF DeliveryInv, NoFutureRows, RowInv, CoveredTo, CallInv, WindowIsPrefix, StartKnown
<1>3. CASE OtherGeneration
  BY <1>2, <1>3 DEF OtherGeneration
<1>4. CASE UNCHANGED deliveryVars
  BY <1>2, <1>4 DEF deliveryVars
<1> QED BY <1>0, <1>1, <1>3, <1>4, EnsureInv, ServerHeadInv, ResolveInv, ReadSnapshotInv,
           ReadScanInv, ReadWidenInv, DeliverInv, PostInv, SaveBindingInv DEF DeliveryNext

\* Reads cover the log without gaps in every state of the system.
THEOREM DeliveryInvariant == DeliverySpec => []DeliveryInv
  BY InitInv, NextInv, PTL DEF DeliverySpec

\* For any number of overlapping reads and deliveries, any log and any read
\* limit: the delivered checkpoint never passes over a direct reply that no
\* read of its generation returned.
THEOREM NoReplySkipped == DeliverySpec => []NothingSkipped
<1>1. DeliveryInv => NothingSkipped
  BY DEF DeliveryInv, RowInv, NothingSkipped
<1> QED BY <1>1, DeliveryInvariant, PTL

\* write() never has to refuse: the checkpoint stays within the read fence.
THEOREM FenceNeverRefuses == DeliverySpec => []FenceHolds
<1>1. DeliveryInv => FenceHolds
  BY DEF DeliveryInv, RowInv, FenceHolds
<1> QED BY <1>1, DeliveryInvariant, PTL

-----------------------------------------------------------------------------
(* What a step may do to the rows.                                         *)

\* RowsMoveForward of one row.
RowMoves(g) ==
    /\ g # boundGeneration => delivery'[g] = delivery[g]
    /\ delivery[g].checkpoint <= delivery'[g].checkpoint
    /\ Resolved(delivery[g]) =>
          delivery'[g].kind = delivery[g].kind /\ delivery'[g].start = delivery[g].start

\* A step that writes the current generation's row, if any, moves every row
\* forward when it moves that one forward.
LEMMA OneRowMoves ==
    ASSUME DeliveryTypeOK, NEW row,
           delivery' = [delivery EXCEPT ![boundGeneration] = row],
           delivery[boundGeneration].checkpoint <= row.checkpoint,
           Resolved(delivery[boundGeneration]) =>
              row.kind = delivery[boundGeneration].kind /\ row.start = delivery[boundGeneration].start,
           NEW g \in Generations
    PROVE  RowMoves(g)
<1>1. boundGeneration \in Generations /\ delivery \in [Generations -> Row]
  BY DEF DeliveryTypeOK
<1>2. CASE g = boundGeneration
  BY <1>1, <1>2 DEF RowMoves
<1>3. CASE g # boundGeneration
  <2>1. delivery'[g] = delivery[g] /\ delivery[g].checkpoint \in Nat
    BY <1>1, <1>3, PointLemma DEF Row
  <2> QED BY <1>3, <2>1 DEF RowMoves
<1> QED BY <1>2, <1>3

\* Every step moves every row forward.
LEMMA NextMoves ==
    ASSUME DeliveryInv, [DeliveryNext]_deliveryVars, NEW g \in Generations
    PROVE  RowMoves(g)
<1>0. /\ DeliveryTypeOK /\ boundGeneration \in Generations
      /\ delivery \in [Generations -> Row] /\ reader \in [Readers -> ReaderState]
  BY DEF DeliveryInv, DeliveryTypeOK
<1>1. CASE UNCHANGED delivery
  <2>1. delivery[g].checkpoint \in Nat
    BY <1>0, PointLemma DEF Row
  <2> QED BY <1>1, <2>1 DEF RowMoves
<1>2. ASSUME NEW c \in Readers, Ensure(c), ~ UNCHANGED delivery PROVE RowMoves(g)
  <2> DEFINE row == [NoRow EXCEPT !.kind = "binding", !.start = bound[boundGeneration]]
  <2>1. delivery' = [delivery EXCEPT ![boundGeneration] = row] /\ ~ Resolved(delivery[boundGeneration])
    BY <1>2 DEF Ensure, SetRow, Resolved
  <2>2. delivery[boundGeneration].checkpoint <= row.checkpoint
    BY <1>0, <2>1 DEF DeliveryInv, RowInv, NoRow
  <2> HIDE DEF row
  <2> QED BY <1>0, <2>1, <2>2, OneRowMoves
<1>3. ASSUME NEW c \in Readers, Resolve(c), ~ UNCHANGED delivery PROVE RowMoves(g)
  <2>1. PICK k, p : delivery' = [delivery EXCEPT ![boundGeneration] =
                                   [delivery[boundGeneration] EXCEPT !.kind = k, !.start = p]]
    <3>1. \E st : delivery' = [delivery EXCEPT ![reader[c].gen] =
                     [delivery[reader[c].gen] EXCEPT !.kind = st.kind, !.start = st.start]]
      BY <1>3 DEF Resolve, SetRow
    <3>2. reader[c].gen = boundGeneration
      BY <1>3 DEF Resolve, BoundNow
    <3> QED BY <3>1, <3>2
  <2>2. ~ Resolved(delivery[boundGeneration])
    BY <1>3 DEF Resolve, StillPending, Resolved, BoundNow
  <2>3. delivery[boundGeneration].checkpoint <=
          [delivery[boundGeneration] EXCEPT !.kind = k, !.start = p].checkpoint
    <3>1. delivery[boundGeneration] \in Row
      BY <1>0
    <3> QED BY <3>1, PointLemma DEF Row
  <2> QED BY <1>0, <2>1, <2>2, <2>3, OneRowMoves
<1>4. ASSUME NEW c \in Readers, ReadWiden(c), ~ UNCHANGED delivery PROVE RowMoves(g)
  <2> DEFINE row == delivery[boundGeneration]
             new == widenReadWindow(row, reader[c].window)
  <2>1. delivery' = [delivery EXCEPT ![boundGeneration] = new]
    BY <1>4 DEF ReadWiden, StillCurrent, BoundNow, SetRow
  <2>2. row \in Row /\ reader[c].window \subseteq 1 .. MaxLog
    BY <1>0 DEF ReaderState
  <2>3. new.kind = row.kind /\ new.start = row.start /\ new.checkpoint = row.checkpoint
    BY <2>2, WidenLemma
  <2>4. row.checkpoint <= new.checkpoint
    <3>1. row.checkpoint \in Nat
      BY <2>2, PointLemma DEF Row
    <3> HIDE DEF row, new
    <3> QED BY <2>3, <3>1
  <2> HIDE DEF new
  <2> QED BY <1>0, <2>1, <2>3, <2>4, OneRowMoves
<1>5. ASSUME NEW c \in Readers, NEW e \in 1 .. Len(serverLog), Deliver(c, e), ~ UNCHANGED delivery
      PROVE  RowMoves(g)
  <2> DEFINE row == delivery[boundGeneration]
             new == advanceCheckpoint(row, e)
  <2>1. delivery' = [delivery EXCEPT ![boundGeneration] = new] /\ e > row.checkpoint
    BY <1>5 DEF Deliver, BoundNow, SetRow
  <2>2. row \in Row /\ e \in 1 .. MaxLog
    <3>1. serverLog \in Seq(Kinds) /\ Len(serverLog) <= MaxLog
      BY <1>0 DEF DeliveryTypeOK
    <3>2. e \in 1 .. MaxLog
      BY <3>1, DeliveryBoundAssumption
    <3> QED BY <1>0, <3>2
  <2>3. new.kind = row.kind /\ new.start = row.start /\ new.checkpoint = e
    BY <2>1, <2>2, AdvanceLemma
  <2>4. row.checkpoint <= new.checkpoint
    <3>1. row.checkpoint \in Nat
      BY <2>2, PointLemma DEF Row
    <3> HIDE DEF row, new
    <3> QED BY <2>1, <2>2, <2>3, <3>1
  <2> HIDE DEF new
  <2> QED BY <1>0, <2>1, <2>3, <2>4, OneRowMoves
<1>6. ~ UNCHANGED delivery =>
         \E c \in Readers : \/ Ensure(c) \/ Resolve(c) \/ ReadWiden(c)
                          \/ \E e \in 1 .. Len(serverLog) : Deliver(c, e)
  BY DEF DeliveryNext, deliveryVars, serverHead, ReadSnapshot, ReadScan, Ack, Fail, PostReply, OtherGeneration, rebindDelivery
<1> QED BY <1>1, <1>2, <1>3, <1>4, <1>5, <1>6

\* A superseded generation's row never changes, a checkpoint never moves back
\* and a resolved start never moves, in any behaviour of the system.
THEOREM RowsForward == DeliverySpec => RowsMoveForward
<1>1. DeliveryInv /\ [DeliveryNext]_deliveryVars =>
        [\A g \in Generations :
           LET old == delivery[g]
               new == delivery'[g]
           IN  /\ g # boundGeneration => new = old
               /\ old.checkpoint <= new.checkpoint
               /\ Resolved(old) => new.kind = old.kind /\ new.start = old.start]_deliveryVars
  BY NextMoves DEF RowMoves
<1> QED BY <1>1, DeliveryInvariant, PTL DEF DeliverySpec, RowsMoveForward


-----------------------------------------------------------------------------
(* Why RETURNED_CAP is enough.                                             *)

\* The addressed entries between n and e, and the entries a scan from n may return: those
\* with fewer than ReadLimit addressed ones ahead of them.
Ahead(broadcast, n, e) == {f \in 1 .. e - 1 : f > n /\ Addressed(f, broadcast)}
First(broadcast, n) ==
    {e \in 1 .. Len(serverLog) : /\ e > n /\ Addressed(e, broadcast)
                                 /\ Cardinality(Ahead(broadcast, n, e)) < ReadLimit}

\* What a read returned and the checkpoint has not passed is in the membership and under the
\* fence, and is one of the oldest entries after the checkpoint, counted with or without the
\* broadcasts.  That makes at most two windows of them.
RowHoldsReads(g) ==
    \A e \in read[g] : e > delivery[g].checkpoint =>
        /\ Deliverable(delivery[g], e)
        /\ \E broadcast \in BOOLEAN : e \in First(broadcast, scanStart(delivery[g]))

\* A read under way started after the row's start and holds a window of the oldest entries.
WindowIsOldest(c) ==
    /\ reader[c].pc \in {"scanning", "widening"} => delivery[reader[c].gen].start <= reader[c].point
    /\ reader[c].pc = "widening" =>
          \E broadcast \in BOOLEAN : reader[c].window \subseteq First(broadcast, reader[c].point)

WindowInv ==
    /\ \A g \in Generations : RowHoldsReads(g)
    /\ \A c \in Readers : WindowIsOldest(c)

\* Entries are finitely many.
LEMMA EntriesFinite ==
    ASSUME NEW w, w \subseteq 1 .. MaxLog
    PROVE  IsFiniteSet(w) /\ Cardinality(w) \in Nat
<1>1. IsFiniteSet(1 .. MaxLog)
  <2>1. 1 \in Int /\ MaxLog \in Int
    BY DeliveryBoundAssumption
  <2> QED BY <2>1, FS_Interval
<1>2. w \in SUBSET (1 .. MaxLog)
  OBVIOUS
<1>3. IsFiniteSet(w)
  BY <1>1, <1>2, FS_Subset
<1> QED BY <1>3, FS_CardinalityType

\* The sets of entries have their types.
LEMMA FirstType ==
    ASSUME DeliveryTypeOK, NEW b \in BOOLEAN, NEW n \in Nat
    PROVE  /\ First(b, n) \subseteq 1 .. MaxLog
           /\ \A e \in 1 .. Len(serverLog) : Ahead(b, n, e) \subseteq 1 .. MaxLog
<1>1. Len(serverLog) \in Nat /\ Len(serverLog) <= MaxLog
  BY DEF DeliveryTypeOK
<1> QED BY <1>1, DeliveryBoundAssumption DEF First, Ahead

\* There are at most ReadLimit entries with fewer than ReadLimit ahead of them.
LEMMA FirstIsWindow ==
    ASSUME DeliveryTypeOK, NEW b \in BOOLEAN, NEW n \in Nat
    PROVE  Cardinality(First(b, n)) <= ReadLimit
<1>1. ReadLimit \in Nat /\ Len(serverLog) \in Nat /\ Len(serverLog) <= MaxLog
  BY CapAssumption DEF DeliveryTypeOK
<1>2. CASE First(b, n) = {}
  BY <1>1, <1>2, FS_EmptySet
<1>3. CASE First(b, n) # {}
  <2>1. PICK t \in First(b, n) : t = Top(First(b, n))
    BY <1>3, FirstType, TopLemma
  <2>2. t \in 1 .. Len(serverLog) /\ Cardinality(Ahead(b, n, t)) < ReadLimit
    BY DEF First
  <2>3. First(b, n) \ {t} \subseteq Ahead(b, n, t)
    <3> SUFFICES ASSUME NEW f \in First(b, n), f # t PROVE f \in Ahead(b, n, t)
      OBVIOUS
    <3>1. f <= t
      BY <1>3, <2>1, FirstType, TopLemma
    <3>2. f \in 1 .. Len(serverLog) /\ f > n /\ Addressed(f, b)
      BY DEF First
    <3>3. f \in 1 .. t - 1
      BY <1>1, <2>2, <3>1, <3>2
    <3> QED BY <3>2, <3>3 DEF Ahead
  <2>4. IsFiniteSet(Ahead(b, n, t)) /\ Cardinality(Ahead(b, n, t)) \in Nat
    BY <2>2, FirstType, EntriesFinite
  <2>5. Cardinality(First(b, n) \ {t}) <= Cardinality(Ahead(b, n, t))
    BY <2>3, <2>4, FS_Subset
  <2>6. IsFiniteSet(First(b, n)) /\ Cardinality(First(b, n)) \in Nat
    BY FirstType, EntriesFinite
  <2>7. Cardinality(First(b, n) \ {t}) = Cardinality(First(b, n)) - 1
    BY <2>1, <2>6, FS_RemoveElement
  <2> QED BY <1>1, <2>2, <2>4, <2>5, <2>6, <2>7
<1> QED BY <1>2, <1>3

\* From a later start the same entry has no more entries ahead of it.
LEMMA FirstFromLater ==
    ASSUME DeliveryTypeOK, NEW b \in BOOLEAN, NEW n \in Nat, NEW m \in Nat, n <= m,
           NEW e \in First(b, n), e > m
    PROVE  e \in First(b, m)
<1>1. e \in 1 .. Len(serverLog) /\ Addressed(e, b) /\ Cardinality(Ahead(b, n, e)) < ReadLimit
  BY DEF First
<1>2. Ahead(b, m, e) \in SUBSET Ahead(b, n, e)
  <2> SUFFICES ASSUME NEW f \in Ahead(b, m, e) PROVE f \in Ahead(b, n, e)
    OBVIOUS
  <2>1. f \in 1 .. e - 1 /\ f > m /\ Addressed(f, b) /\ f \in Nat
    BY DEF Ahead
  <2>2. f > n
    BY <2>1
  <2> QED BY <2>1, <2>2 DEF Ahead
<1>3. IsFiniteSet(Ahead(b, n, e)) /\ Cardinality(Ahead(b, n, e)) \in Nat
  BY <1>1, FirstType, EntriesFinite
<1>4. Cardinality(Ahead(b, m, e)) <= Cardinality(Ahead(b, n, e)) /\ Cardinality(Ahead(b, m, e)) \in Nat
  BY <1>1, <1>2, <1>3, FS_Subset, FirstType, EntriesFinite
<1>5. Cardinality(Ahead(b, m, e)) < ReadLimit
  BY <1>1, <1>3, <1>4, CapAssumption
<1> QED BY <1>1, <1>5 DEF First

\* Entries added to the log do not come before those that are there.
LEMMA FirstGrows ==
    ASSUME DeliveryTypeOK, DeliveryTypeOK', LogGrows, NEW b \in BOOLEAN, NEW n \in Nat
    PROVE  First(b, n) \subseteq First(b, n)'
<1> SUFFICES ASSUME NEW e \in First(b, n) PROVE e \in First(b, n)'
  OBVIOUS
<1>1. Len(serverLog) \in Nat /\ Len(serverLog') \in Nat /\ Len(serverLog) <= Len(serverLog')
  BY DEF DeliveryTypeOK, LogGrows
<1>2. e \in 1 .. Len(serverLog) /\ e > n /\ Addressed(e, b) /\ Cardinality(Ahead(b, n, e)) < ReadLimit
  BY DEF First
<1>3. \A f \in 1 .. Len(serverLog) : Addressed(f, b)' <=> Addressed(f, b)
  BY DEF LogGrows, Addressed
<1>4. \A f \in 1 .. e - 1 : f \in 1 .. Len(serverLog)
  BY <1>1, <1>2
<1>5. Ahead(b, n, e)' = Ahead(b, n, e)
  BY <1>3, <1>4 DEF Ahead
<1>6. e \in 1 .. Len(serverLog') /\ Addressed(e, b)'
  BY <1>1, <1>2, <1>3
<1> QED BY <1>2, <1>5, <1>6 DEF First

\* A set of entries each of which is among the first ones, with or without broadcasts, has
\* at most RETURNED_CAP members, and the cap keeps all of them.
LEMMA CapKeepsAll ==
    ASSUME DeliveryTypeOK, NEW n \in Nat, NEW s, s \subseteq First(TRUE, n) \cup First(FALSE, n)
    PROVE  Newest(s) = s
<1> DEFINE a == First(TRUE, n)
           d == First(FALSE, n)
<1>1. /\ a \subseteq 1 .. MaxLog /\ d \subseteq 1 .. MaxLog
      /\ Cardinality(a) <= ReadLimit /\ Cardinality(d) <= ReadLimit
  BY FirstType, FirstIsWindow
<1>2. /\ IsFiniteSet(a) /\ IsFiniteSet(d) /\ Cardinality(a) \in Nat /\ Cardinality(d) \in Nat
  BY <1>1, EntriesFinite
<1> HIDE DEF a, d
<1>3. IsFiniteSet(a \cup d) /\ Cardinality(a \cup d) <= Cardinality(a) + Cardinality(d)
  <2>1. a \cap d \subseteq 1 .. MaxLog
    BY <1>1
  <2>2. Cardinality(a \cap d) \in Nat
    BY <2>1, EntriesFinite
  <2>3. IsFiniteSet(a \cup d) /\ Cardinality(a \cup d) = Cardinality(a) + Cardinality(d) - Cardinality(a \cap d)
    BY <1>2, FS_Union, Zenon
  <2> QED BY <1>2, <2>2, <2>3
<1>4. s \in SUBSET (a \cup d) /\ s \subseteq 1 .. MaxLog
  BY <1>1 DEF a, d
<1>5. Cardinality(s) <= Cardinality(a \cup d) /\ IsFiniteSet(s) /\ Cardinality(s) \in Nat
  BY <1>3, <1>4, FS_Subset, EntriesFinite
<1>6. Cardinality(a \cup d) \in Nat
  BY <1>3, FS_CardinalityType
<1>7. Cardinality(s) <= ReturnedCap /\ ReturnedCap \in Nat
  BY <1>1, <1>2, <1>3, <1>5, <1>6, CapAssumption
<1>8. ASSUME NEW e \in s PROVE Cardinality({f \in s : f > e}) < ReturnedCap
  <2>1. {f \in s : f > e} \in SUBSET (s \ {e})
    BY <1>4, DeliveryBoundAssumption
  <2>2. IsFiniteSet(s \ {e}) /\ Cardinality(s \ {e}) = Cardinality(s) - 1
    BY <1>5, FS_RemoveElement
  <2>3. Cardinality({f \in s : f > e}) <= Cardinality(s \ {e})
    BY <2>1, <2>2, FS_Subset
  <2>4. Cardinality({f \in s : f > e}) \in Nat
    <3>1. {f \in s : f > e} \subseteq 1 .. MaxLog
      BY <1>4
    <3> QED BY <3>1, EntriesFinite
  <2> QED BY <1>5, <1>7, <2>2, <2>3, <2>4
<1> QED BY <1>8 DEF Newest

-----------------------------------------------------------------------------
(* Every step keeps it.                                                    *)

LEMMA StartOfScan ==
    ASSUME NEW row \in Row
    PROVE  /\ scanStart(row) \in Nat /\ row.start \in Nat /\ row.checkpoint \in Nat
           /\ row.start <= scanStart(row) /\ row.checkpoint <= scanStart(row)
           /\ scanStart(row) \in {row.start, row.checkpoint}
<1>1. row.start \in Nat /\ row.checkpoint \in Nat
  BY PointLemma DEF Row
<1> QED BY <1>1 DEF scanStart, later

\* A row that a step leaves alone keeps holding its reads while the log grows.
LEMMA HeldFrame ==
    ASSUME DeliveryTypeOK, DeliveryTypeOK', LogGrows, NEW g \in Generations, RowHoldsReads(g),
           delivery'[g] = delivery[g], read'[g] = read[g]
    PROVE  RowHoldsReads(g)'
<1>1. delivery[g] \in Row
  BY DEF DeliveryTypeOK
<1>2. PICK n \in Nat : n = scanStart(delivery[g])
  BY <1>1, StartOfScan
<1>3. scanStart(delivery'[g]) = n
  BY <1>2
<1>4. \A b \in BOOLEAN : First(b, n) \subseteq First(b, n)'
  BY FirstGrows
<1>5. ASSUME NEW e \in read'[g], e > delivery'[g].checkpoint
      PROVE  Deliverable(delivery'[g], e) /\ \E b \in BOOLEAN : e \in First(b, n)'
  BY <1>2, <1>4, <1>5 DEF RowHoldsReads
<1> QED BY <1>3, <1>5 DEF RowHoldsReads, Deliverable, First

\* A call that takes no step keeps its window, and the start of its row does not move.
LEMMA OldestFrame ==
    ASSUME DeliveryInv, DeliveryTypeOK', LogGrows, NEW c \in Readers, WindowIsOldest(c),
           reader'[c] = reader[c], \A g \in Generations : RowMoves(g)
    PROVE  WindowIsOldest(c)'
<1>1. reader[c] \in ReaderState /\ DeliveryTypeOK /\ CallInv(c)
  BY DEF DeliveryInv, DeliveryTypeOK
<1>2. PICK g \in Generations, n \in Nat : g = reader[c].gen /\ n = reader[c].point
  BY <1>1, PointLemma DEF ReaderState
<1>3. reader[c].pc \in {"scanning", "widening"} => delivery'[g].start = delivery[g].start
  BY <1>1, <1>2 DEF CallInv, StartKnown, RowMoves
<1>4. \A b \in BOOLEAN : First(b, n) \subseteq First(b, n)'
  BY <1>1, FirstGrows
<1>5. reader'[c].pc = reader[c].pc /\ reader'[c].gen = g /\ reader'[c].point = n
      /\ reader'[c].window = reader[c].window
  BY <1>2
<1>6. reader'[c].pc \in {"scanning", "widening"} => delivery'[g].start <= n
  BY <1>2, <1>3, <1>5 DEF WindowIsOldest
<1>7. reader'[c].pc = "widening" => \E b \in BOOLEAN : reader'[c].window \subseteq First(b, n)'
  BY <1>2, <1>4, <1>5 DEF WindowIsOldest
<1> QED BY <1>5, <1>6, <1>7 DEF WindowIsOldest, First

\* A row whose start becomes known had no reads.
LEMMA HeldFromStart ==
    ASSUME DeliveryInv, NEW g \in Generations, ~ Resolved(delivery[g]), read' = read
    PROVE  RowHoldsReads(g)'
BY DEF DeliveryInv, RowInv, RowHoldsReads

\* The scan takes the oldest candidates.
LEMMA ScanIsOldest ==
    ASSUME DeliveryTypeOK, NEW c \in Readers, NEW broadcast \in BOOLEAN,
           NEW w \in SUBSET Candidates(c, broadcast), PrefixOf(w, Candidates(c, broadcast)),
           Cardinality(w) <= ReadLimit
    PROVE  w \subseteq First(broadcast, reader[c].point)
<1> SUFFICES ASSUME NEW e \in w PROVE e \in First(broadcast, reader[c].point)
  OBVIOUS
<1>1. Len(serverLog) \in Nat /\ Len(serverLog) <= MaxLog /\ reader[c].point \in Nat
  <2>1. reader[c] \in ReaderState
    BY DEF DeliveryTypeOK
  <2>2. reader[c].point \in Nat
    BY <2>1, PointLemma DEF ReaderState
  <2> QED BY <2>2 DEF DeliveryTypeOK
<1>2. e \in 1 .. Len(serverLog) /\ e > reader[c].point /\ Addressed(e, broadcast)
  BY DEF Candidates
<1>3. Ahead(broadcast, reader[c].point, e) \in SUBSET (w \ {e})
  <2> SUFFICES ASSUME NEW f \in Ahead(broadcast, reader[c].point, e) PROVE f \in w \ {e}
    OBVIOUS
  <2>1. f \in 1 .. e - 1 /\ f > reader[c].point /\ Addressed(f, broadcast)
    BY DEF Ahead
  <2>2. f \in 1 .. Len(serverLog) /\ f < e
    BY <1>1, <1>2, <2>1
  <2>3. f \in Candidates(c, broadcast)
    BY <2>1, <2>2 DEF Candidates
  <2>4. ~ (e < f)
    BY <1>2, <2>2
  <2> QED BY <1>2, <2>2, <2>3, <2>4 DEF PrefixOf
<1>4. w \subseteq 1 .. MaxLog
  BY <1>1, DeliveryBoundAssumption DEF Candidates
<1>5. IsFiniteSet(w) /\ Cardinality(w) \in Nat
  BY <1>4, EntriesFinite
<1>6. IsFiniteSet(w \ {e}) /\ Cardinality(w \ {e}) = Cardinality(w) - 1
  BY <1>5, FS_RemoveElement
<1>7. Cardinality(Ahead(broadcast, reader[c].point, e)) <= Cardinality(w \ {e})
  BY <1>3, <1>6, FS_Subset
<1>8. Cardinality(Ahead(broadcast, reader[c].point, e)) \in Nat
  BY <1>1, <1>2, FirstType, EntriesFinite
<1>9. Cardinality(Ahead(broadcast, reader[c].point, e)) < ReadLimit
  BY <1>5, <1>6, <1>7, <1>8, CapAssumption
<1> QED BY <1>2, <1>9 DEF First

\* Widening keeps every reply that the checkpoint has not passed: what was returned before
\* and the new window are first entries after the checkpoint, so the cap evicts none.
LEMMA WidenHolds ==
    ASSUME DeliveryInv, NEW g \in Generations, RowHoldsReads(g), NEW w,
           w \subseteq 1 .. MaxLog, NEW n \in Nat, NEW b \in BOOLEAN, w \subseteq First(b, n),
           delivery[g].start <= n, n <= scanStart(delivery[g]),
           UNCHANGED serverLog, delivery'[g] = widenReadWindow(delivery[g], w),
           read'[g] = read[g] \cup w
    PROVE  RowHoldsReads(g)'
<1>1. /\ DeliveryTypeOK /\ delivery[g] \in Row /\ delivery[g].returned \subseteq read[g]
      /\ read[g] \subseteq 1 .. MaxLog
  BY DEF DeliveryInv, DeliveryTypeOK, RowInv
<1>2. PICK row \in Row : row = delivery[g]
  BY <1>1
<1>3. PICK m \in Nat : m = scanStart(row)
  BY StartOfScan
<1>5. ASSUME NEW e \in read[g] \cup w, e > row.checkpoint
      PROVE  e \in First(TRUE, m) \cup First(FALSE, m)
  <2>1. CASE e \in read[g]
    <3>1. PICK k \in BOOLEAN : e \in First(k, m)
      BY <1>2, <1>3, <1>5, <2>1 DEF RowHoldsReads
    <3>2. k = TRUE \/ k = FALSE
      OBVIOUS
    <3> QED BY <3>1, <3>2
  <2>2. CASE e \in w
    <3>1. e > n
      BY <2>2 DEF First
    <3>2. e > m
      <4>1. row.start <= n /\ n <= m /\ m \in {row.start, row.checkpoint} /\ row.start \in Nat
            /\ row.checkpoint \in Nat /\ e \in Nat
        <5>1. m \in {row.start, row.checkpoint} /\ row.start \in Nat /\ row.checkpoint \in Nat
          BY <1>3, StartOfScan
        <5>2. row.start <= n /\ n <= m
          BY <1>2, <1>3
        <5>3. e \in 1 .. MaxLog
          BY <1>1, <1>5
        <5> QED BY <5>1, <5>2, <5>3, DeliveryBoundAssumption
      <4> QED BY <1>5, <3>1, <4>1
    <3>3. e \in First(b, m)
      BY <1>1, <1>2, <1>3, <2>2, <3>2, FirstFromLater
    <3>4. b = TRUE \/ b = FALSE
      OBVIOUS
    <3> QED BY <3>3, <3>4
  <2> QED BY <1>5, <2>1, <2>2
<1>6. \A k \in BOOLEAN : First(k, m)' = First(k, m)
  BY DEF First, Ahead, Addressed
<1>7. CASE w = {}
  <2>1. delivery'[g] = row /\ read'[g] = read[g]
    BY <1>2, <1>7 DEF widenReadWindow
  <2>2. ASSUME NEW e \in read[g], e > row.checkpoint
        PROVE  Deliverable(row, e) /\ \E k \in BOOLEAN : e \in First(k, m)
    BY <1>2, <1>3, <2>2 DEF RowHoldsReads
  <2> QED BY <1>3, <1>6, <2>1, <2>2 DEF RowHoldsReads, Deliverable
<1>8. CASE w # {}
  <2> DEFINE s == {e \in row.returned \cup w : e > row.checkpoint}
             t == later(row.readThrough, Top(w))
  <2>1. s \subseteq First(TRUE, m) \cup First(FALSE, m)
    BY <1>1, <1>2, <1>5
  <2>2. Newest(s) = s
    <3> HIDE DEF s
    <3> QED BY <1>1, <2>1, CapKeepsAll
  <2>3. PICK new : new = [row EXCEPT !.returned = s, !.readThrough = t]
    OBVIOUS
  <2>4. delivery'[g] = new
    BY <1>2, <1>8, <2>2, <2>3 DEF widenReadWindow
  <2>5. /\ new.returned = s /\ new.readThrough = t /\ new.checkpoint = row.checkpoint
        /\ new.start = row.start
    BY <2>3 DEF Row
  <2>6. Top(w) \in Nat /\ row.readThrough \in Nat /\ \A e \in w : e <= Top(w)
    <3>1. Top(w) \in 1 .. MaxLog
      BY <1>8, TopLemma
    <3>2. row.readThrough \in Nat
      BY PointLemma DEF Row
    <3>3. \A e \in w : e <= Top(w)
      BY <1>8, TopLemma
    <3> QED BY <3>1, <3>2, <3>3, DeliveryBoundAssumption
  <2>7. t >= row.readThrough /\ t >= Top(w) /\ t \in Nat
    BY <2>6, LaterLemma
  <2>8. scanStart(new) = m
    BY <1>3, <2>5 DEF scanStart
  <2>9. ASSUME NEW e \in read[g] \cup w, e > row.checkpoint
        PROVE  Deliverable(new, e) /\ \E k \in BOOLEAN : e \in First(k, m)
    <3>1. \E k \in BOOLEAN : e \in First(k, m)
      BY <1>5, <2>9
    <3>2. e \in Nat
      <4>1. e \in 1 .. MaxLog
        BY <1>1, <2>9
      <4> QED BY <4>1, DeliveryBoundAssumption
    <3>3. CASE e \in w
      <4>1. e \in s /\ e <= Top(w)
        BY <2>6, <2>9, <3>3
      <4>2. e <= t
        <5> HIDE DEF t
        <5> QED BY <2>6, <2>7, <3>2, <4>1
      <4> QED BY <2>5, <3>1, <4>1, <4>2 DEF Deliverable
    <3>4. CASE e \in read[g]
      <4>1. e \in row.returned /\ e <= row.readThrough
        BY <1>2, <2>9, <3>4 DEF RowHoldsReads, Deliverable
      <4>2. e <= t
        <5> HIDE DEF t
        <5> QED BY <2>6, <2>7, <3>2, <4>1
      <4> QED BY <2>5, <2>9, <3>1, <4>1, <4>2 DEF Deliverable
    <3> QED BY <2>9, <3>3, <3>4
  <2>10. ASSUME NEW e \in read'[g], e > delivery'[g].checkpoint
         PROVE  Deliverable(delivery'[g], e) /\ \E k \in BOOLEAN : e \in First(k, m)'
    <3>1. e \in read[g] \cup w /\ e > row.checkpoint
      BY <2>4, <2>5, <2>10
    <3> HIDE DEF s, t
    <3> QED BY <1>6, <2>4, <2>9, <3>1 DEF Deliverable
  <2> HIDE DEF s, t
  <2>11. scanStart(delivery'[g]) = m
    BY <2>4, <2>8
  <2> QED BY <2>10, <2>11 DEF RowHoldsReads, Deliverable, First
<1> QED BY <1>7, <1>8

\* What every step does to the log and to the rows' starts.
LEMMA StepFacts ==
    ASSUME DeliveryInv, DeliveryInv', [DeliveryNext]_deliveryVars
    PROVE  /\ DeliveryTypeOK /\ DeliveryTypeOK' /\ LogGrows
           /\ \A g \in Generations : RowMoves(g)
<1>1. DeliveryTypeOK /\ DeliveryTypeOK'
  BY DEF DeliveryInv
<1>2. LogGrows
  <2>1. serverLog \in Seq(Kinds) /\ Len(serverLog) \in Nat
    BY <1>1 DEF DeliveryTypeOK
  <2>2. CASE UNCHANGED serverLog
    BY <2>1, <2>2 DEF LogGrows
  <2>3. CASE \E kind \in Kinds : PostReply(kind)
    BY <2>1, <2>3 DEF PostReply, LogGrows
  <2>4. UNCHANGED serverLog \/ \E kind \in Kinds : PostReply(kind)
    BY DEF DeliveryNext, deliveryVars, Ensure, serverHead, Resolve, ReadSnapshot, ReadWiden, Ack, Fail,
           ReadScan, Deliver, OtherGeneration, rebindDelivery
  <2> QED BY <2>2, <2>3, <2>4
<1>3. \A g \in Generations : RowMoves(g)
  BY NextMoves
<1> QED BY <1>1, <1>2, <1>3

\* A step of one call that leaves every row alone.
LEMMA HeldByCall ==
    ASSUME DeliveryInv, DeliveryTypeOK', LogGrows, \A g \in Generations : RowMoves(g), WindowInv,
           NEW c \in Readers, UNCHANGED <<delivery, read>>,
           \A d \in Readers \ {c} : reader'[d] = reader[d], WindowIsOldest(c)'
    PROVE  WindowInv'
<1>1. \A g \in Generations : RowHoldsReads(g)'
  BY HeldFrame DEF WindowInv, DeliveryInv
<1>2. \A d \in Readers \ {c} : WindowIsOldest(d)'
  BY OldestFrame DEF WindowInv
<1> QED BY <1>1, <1>2 DEF WindowInv

\* A step of one call that writes one row.
LEMMA HeldByRow ==
    ASSUME DeliveryInv, DeliveryTypeOK', LogGrows, \A g \in Generations : RowMoves(g), WindowInv,
           NEW c \in Readers, NEW g \in Generations,
           \A h \in Generations \ {g} : delivery'[h] = delivery[h] /\ read'[h] = read[h],
           \A d \in Readers \ {c} : reader'[d] = reader[d],
           RowHoldsReads(g)', WindowIsOldest(c)'
    PROVE  WindowInv'
<1>1. \A h \in Generations : RowHoldsReads(h)'
  BY HeldFrame DEF WindowInv, DeliveryInv
<1>2. \A d \in Readers \ {c} : WindowIsOldest(d)'
  BY OldestFrame DEF WindowInv
<1> QED BY <1>1, <1>2 DEF WindowInv

LEMMA WindowInitially == DeliveryInit => WindowInv
<1> SUFFICES ASSUME DeliveryInit PROVE WindowInv
  OBVIOUS
<1>1. \A g \in Generations : RowHoldsReads(g)
  BY DEF DeliveryInit, RowHoldsReads
<1>2. \A c \in Readers : WindowIsOldest(c)
  BY DEF DeliveryInit, WindowIsOldest, NoReader
<1> QED BY <1>1, <1>2 DEF WindowInv

LEMMA WindowNext ==
    ASSUME DeliveryInv, DeliveryInv', WindowInv, [DeliveryNext]_deliveryVars
    PROVE  WindowInv'
<1>0. /\ DeliveryTypeOK /\ DeliveryTypeOK' /\ LogGrows /\ \A g \in Generations : RowMoves(g)
      /\ reader \in [Readers -> ReaderState] /\ delivery \in [Generations -> Row]
      /\ read \in [Generations -> SUBSET (1 .. MaxLog)] /\ boundGeneration \in Generations
  <2>1. DeliveryTypeOK
    BY StepFacts
  <2> QED BY <2>1, StepFacts DEF DeliveryTypeOK
<1>1. ASSUME NEW c \in Readers, Ensure(c) PROVE WindowInv'
  <2>1. \A d \in Readers \ {c} : reader'[d] = reader[d]
    BY <1>0, <1>1 DEF Ensure
  <2>2. reader'[c].pc \in {"head", "ready"}
    BY <1>0, <1>1 DEF Ensure, NoReader
  <2>3. WindowIsOldest(c)'
    BY <2>2 DEF WindowIsOldest
  <2>4. CASE UNCHANGED delivery
    BY <1>0, <1>1, <2>1, <2>3, <2>4, HeldByCall DEF Ensure
  <2>5. CASE delivery[boundGeneration].kind = "absent"
    <3>1. ~ Resolved(delivery[boundGeneration]) /\ UNCHANGED read
      BY <1>1, <2>5 DEF Resolved, Ensure
    <3>2. \A h \in Generations \ {boundGeneration} : delivery'[h] = delivery[h] /\ read'[h] = read[h]
      <4>1. \E row : delivery' = [delivery EXCEPT ![boundGeneration] = row]
        BY <1>1, <2>5 DEF Ensure, SetRow, Resolved
      <4> QED BY <1>0, <3>1, <4>1
    <3>3. \A g \in Generations : g = boundGeneration => RowHoldsReads(g)'
      BY <3>1, HeldFromStart
    <3>4. PICK g \in Generations : g = boundGeneration
      BY <1>0
    <3> QED BY <1>0, <2>1, <2>3, <3>2, <3>3, <3>4, HeldByRow
  <2> QED BY <1>1, <2>4, <2>5 DEF Ensure
<1>2. ASSUME NEW c \in Readers, serverHead(c) PROVE WindowInv'
  <2>1. PICK head : reader' = [reader EXCEPT ![c] = [reader[c] EXCEPT !.pc = "resolving", !.point = head]]
    BY <1>2 DEF serverHead
  <2>2. reader'[c] = [reader[c] EXCEPT !.pc = "resolving", !.point = head]
    BY <1>0, <2>1
  <2>3. reader'[c].pc = "resolving"
    <3>1. reader[c] \in ReaderState
      BY <1>0
    <3> QED BY <2>2, <3>1 DEF ReaderState
  <2>4. WindowIsOldest(c)'
    BY <2>3 DEF WindowIsOldest
  <2> QED BY <1>0, <1>2, <2>1, <2>4, HeldByCall DEF serverHead
<1>3. ASSUME NEW c \in Readers, Resolve(c) PROVE WindowInv'
  <2>1. \A d \in Readers \ {c} : reader'[d] = reader[d]
    BY <1>0, <1>3 DEF Resolve, ReturnReplies
  <2>2. reader'[c].pc \in {"idle", "ready"}
    <3>1. reader'[c] = NoReader \/ reader'[c] = [reader[c] EXCEPT !.pc = "ready", !.point = 0]
      BY <1>0, <1>3 DEF Resolve, ReturnReplies
    <3>2. reader[c] \in ReaderState
      BY <1>0
    <3>3. NoReader.pc = "idle" /\ [reader[c] EXCEPT !.pc = "ready", !.point = 0].pc = "ready"
      BY <3>2 DEF NoReader, ReaderState
    <3> QED BY <3>1, <3>3
  <2>3. WindowIsOldest(c)' /\ UNCHANGED read
    BY <1>3, <2>2 DEF WindowIsOldest, Resolve
  <2>4. CASE UNCHANGED delivery
    BY <1>0, <2>1, <2>3, <2>4, HeldByCall
  <2>5. CASE ~ UNCHANGED delivery
    <3>1. PICK g \in Generations : g = reader[c].gen
      BY <1>0 DEF ReaderState
    <3>2. ~ Resolved(delivery[g]) /\ \E row : delivery' = [delivery EXCEPT ![g] = row]
      BY <1>3, <2>5, <3>1 DEF Resolve, SetRow, StillPending, Resolved
    <3>3. RowHoldsReads(g)'
      BY <2>3, <3>2, HeldFromStart
    <3>4. \A h \in Generations \ {g} : delivery'[h] = delivery[h] /\ read'[h] = read[h]
      BY <1>0, <2>3, <3>2
    <3> QED BY <1>0, <2>1, <2>3, <3>3, <3>4, HeldByRow
  <2> QED BY <2>4, <2>5
<1>4. ASSUME NEW c \in Readers, ReadSnapshot(c) PROVE WindowInv'
  <2>1. \A d \in Readers \ {c} : reader'[d] = reader[d]
    BY <1>0, <1>4 DEF ReadSnapshot, ReturnReplies
  <2>2. WindowIsOldest(c)'
    <3>1. CASE reader'[c] = NoReader
      BY <3>1 DEF WindowIsOldest, NoReader
    <3>2. CASE reader'[c] # NoReader
      <4>1. PICK g \in Generations : g = reader[c].gen /\ g = boundGeneration
        BY <1>0, <1>4, <3>2 DEF ReadSnapshot, ReturnReplies, BoundNow
      <4>2. PICK n \in Nat : n = scanStart(delivery[g]) /\ delivery[g].start <= n
        BY <1>0, StartOfScan
      <4>3. reader'[c] = [reader[c] EXCEPT !.pc = "scanning", !.point = n]
        BY <1>0, <1>4, <3>2, <4>1, <4>2 DEF ReadSnapshot, ReturnReplies
      <4>4. reader'[c].pc = "scanning" /\ reader'[c].point = n /\ reader'[c].gen = g
        <5>1. reader[c] \in ReaderState
          BY <1>0
        <5> QED BY <4>1, <4>3, <5>1 DEF ReaderState
      <4>5. delivery'[g].start = delivery[g].start
        BY <1>4 DEF ReadSnapshot
      <4> QED BY <4>2, <4>4, <4>5 DEF WindowIsOldest
    <3> QED BY <3>1, <3>2
  <2> QED BY <1>0, <1>4, <2>1, <2>2, HeldByCall DEF ReadSnapshot
<1>5. ASSUME NEW c \in Readers, NEW broadcast \in BOOLEAN, ReadScan(c, broadcast) PROVE WindowInv'
  <2>1. \A d \in Readers \ {c} : reader'[d] = reader[d]
    BY <1>0, <1>5 DEF ReadScan, ReturnReplies
  <2>2. CASE ReturnReplies(c)
    <3>1. reader'[c].pc = "idle"
      BY <1>0, <2>2 DEF ReturnReplies, NoReader
    <3>2. WindowIsOldest(c)'
      BY <3>1 DEF WindowIsOldest
    <3> QED BY <1>0, <1>5, <2>1, <3>2, HeldByCall DEF ReadScan
  <2>3. CASE ~ ReturnReplies(c)
    <3>1. PICK w \in SUBSET Candidates(c, broadcast) :
            /\ PrefixOf(w, Candidates(c, broadcast)) /\ Cardinality(w) <= ReadLimit
            /\ reader' = [reader EXCEPT ![c] = [reader[c] EXCEPT !.pc = "widening", !.window = w]]
      BY <1>5, <2>3 DEF ReadScan
    <3>2. w \subseteq First(broadcast, reader[c].point)
      BY <1>0, <3>1, ScanIsOldest
    <3>3. PICK n \in Nat : n = reader[c].point
      BY <1>0, PointLemma DEF ReaderState
    <3>4. First(broadcast, n)' = First(broadcast, n)
      BY <1>5 DEF ReadScan, First, Ahead, Addressed
    <3>5. /\ reader'[c].pc = "widening" /\ reader'[c].window = w /\ reader'[c].point = n
          /\ reader'[c].gen = reader[c].gen
      <4>1. reader'[c] = [reader[c] EXCEPT !.pc = "widening", !.window = w] /\ reader[c] \in ReaderState
        BY <1>0, <3>1
      <4> QED BY <3>3, <4>1 DEF ReaderState
    <3>6. delivery[reader[c].gen].start <= n /\ UNCHANGED delivery
      BY <1>5, <3>3 DEF WindowInv, WindowIsOldest, ReadScan
    <3>7. delivery'[reader'[c].gen].start <= reader'[c].point
      BY <3>5, <3>6
    <3>8. reader'[c].window \subseteq First(broadcast, n)'
      BY <3>2, <3>3, <3>4, <3>5
    <3>9. WindowIsOldest(c)'
      BY <3>5, <3>7, <3>8 DEF WindowIsOldest, First
    <3> QED BY <1>0, <1>5, <2>1, <3>9, HeldByCall DEF ReadScan
  <2> QED BY <2>2, <2>3
<1>6. ASSUME NEW c \in Readers, ReadWiden(c) PROVE WindowInv'
  <2>1. reader'[c] = NoReader /\ \A d \in Readers \ {c} : reader'[d] = reader[d]
    BY <1>0, <1>6 DEF ReadWiden, ReturnReplies
  <2>2. WindowIsOldest(c)'
    BY <2>1 DEF WindowIsOldest, NoReader
  <2>3. CASE ~ StillCurrent(c)
    BY <1>0, <1>6, <2>1, <2>2, <2>3, HeldByCall DEF ReadWiden
  <2>4. CASE StillCurrent(c)
    <3>1. PICK g \in Generations, n \in Nat, w \in SUBSET (1 .. MaxLog) :
            g = reader[c].gen /\ n = reader[c].point /\ w = reader[c].window
      BY <1>0, PointLemma DEF ReaderState
    <3>2. PICK b \in BOOLEAN : w \subseteq First(b, n)
      BY <1>6, <3>1 DEF WindowInv, WindowIsOldest, ReadWiden
    <3>3. delivery[g].start <= n /\ n <= scanStart(delivery[g])
      BY <1>6, <3>1 DEF WindowInv, WindowIsOldest, ReadWiden, DeliveryInv, CallInv, WindowIsPrefix
    <3>4. /\ delivery' = [delivery EXCEPT ![g] = widenReadWindow(delivery[g], w)]
          /\ read' = [read EXCEPT ![g] = read[g] \cup w] /\ UNCHANGED serverLog
      BY <1>6, <2>4, <3>1 DEF ReadWiden, SetRow
    <3>5. /\ delivery'[g] = widenReadWindow(delivery[g], w) /\ read'[g] = read[g] \cup w
          /\ \A h \in Generations \ {g} : delivery'[h] = delivery[h] /\ read'[h] = read[h]
      BY <1>0, <3>4
    <3>6. RowHoldsReads(g)'
      BY <3>2, <3>3, <3>4, <3>5, WidenHolds DEF WindowInv
    <3> QED BY <1>0, <2>1, <2>2, <3>5, <3>6, HeldByRow
  <2> QED BY <2>3, <2>4
<1>7. ASSUME NEW c \in Readers, NEW e \in 1 .. Len(serverLog), Deliver(c, e) PROVE WindowInv'
  <2>1. /\ reader'[c] = NoReader /\ \A d \in Readers \ {c} : reader'[d] = reader[d]
        /\ UNCHANGED <<serverLog, read>>
    BY <1>0, <1>7 DEF Deliver, ReturnReplies
  <2>2. WindowIsOldest(c)'
    BY <2>1 DEF WindowIsOldest, NoReader
  <2>3. CASE UNCHANGED delivery
    BY <1>0, <2>1, <2>2, <2>3, HeldByCall
  <2>4. CASE ~ UNCHANGED delivery
    <3>1. PICK g \in Generations, row \in Row : g = reader[c].gen /\ row = delivery[g]
      BY <1>0 DEF ReaderState
    <3>2. delivery' = [delivery EXCEPT ![g] = advanceCheckpoint(row, e)] /\ e > row.checkpoint
      BY <1>7, <2>4, <3>1 DEF Deliver, SetRow
    <3>3. delivery'[g] = advanceCheckpoint(row, e)
          /\ \A h \in Generations \ {g} : delivery'[h] = delivery[h] /\ read'[h] = read[h]
      BY <1>0, <2>1, <3>2
    <3>4. e \in Nat /\ row.checkpoint \in Nat /\ row.start \in Nat /\ e \in 1 .. MaxLog
      <4>1. Len(serverLog) \in Nat /\ Len(serverLog) <= MaxLog
        BY <1>0 DEF DeliveryTypeOK
      <4>2. e \in Nat /\ e \in 1 .. MaxLog
        BY <4>1, DeliveryBoundAssumption
      <4> QED BY <4>2, StartOfScan
    <3>5. PICK new \in Row : new = advanceCheckpoint(row, e)
      BY <3>2, <3>4, AdvanceLemma
    <3>6. /\ new.checkpoint = e /\ new.start = row.start /\ new.readThrough = row.readThrough
          /\ new.returned = {f \in row.returned : f > e}
      <4>1. later(row.checkpoint, e) = e
        BY <3>2, <3>4 DEF later
      <4>2. new = [row EXCEPT !.checkpoint = e, !.returned = {f \in row.returned : f > e}]
        BY <3>5, <4>1 DEF advanceCheckpoint
      <4> QED BY <4>2 DEF Row
    <3>7. PICK m \in Nat, k \in Nat : m = scanStart(row) /\ k = scanStart(new)
      BY StartOfScan
    <3>8. m <= k /\ \A f \in Nat : f > e /\ f > m => f > k
      BY <3>2, <3>4, <3>6, <3>7 DEF scanStart, later
    <3>9. ASSUME NEW f \in read[g], f > e
          PROVE  Deliverable(new, f) /\ \E b \in BOOLEAN : f \in First(b, k)
      <4>1. f \in 1 .. MaxLog
        BY <1>0
      <4>2. f > row.checkpoint /\ f \in Nat
        BY <3>2, <3>4, <3>9, <4>1, DeliveryBoundAssumption
      <4>3. Deliverable(row, f) /\ \E b \in BOOLEAN : f \in First(b, m)
        BY <3>1, <3>7, <4>2 DEF WindowInv, RowHoldsReads
      <4>4. PICK b \in BOOLEAN : f \in First(b, m)
        BY <4>3
      <4>5. f > m
        BY <4>4 DEF First
      <4>6. f \in First(b, k)
        BY <1>0, <3>8, <3>9, <4>2, <4>4, <4>5, FirstFromLater
      <4> QED BY <3>6, <3>9, <4>3, <4>6 DEF Deliverable
    <3>10. \A b \in BOOLEAN : First(b, k)' = First(b, k)
      BY <2>1 DEF First, Ahead, Addressed
    <3>11. ASSUME NEW f \in read'[g], f > delivery'[g].checkpoint
           PROVE  Deliverable(delivery'[g], f) /\ \E b \in BOOLEAN : f \in First(b, k)'
      BY <2>1, <3>3, <3>5, <3>6, <3>9, <3>10, <3>11
    <3>12. scanStart(delivery'[g]) = k
      BY <3>3, <3>5, <3>7
    <3>13. RowHoldsReads(g)'
      BY <3>11, <3>12 DEF RowHoldsReads, Deliverable, First
    <3> QED BY <1>0, <2>1, <2>2, <3>3, <3>13, HeldByRow
  <2> QED BY <2>3, <2>4
<1>8. ASSUME NEW c \in Readers, Ack(c) \/ Fail(c) PROVE WindowInv'
  <2>1. reader'[c] = NoReader /\ \A d \in Readers \ {c} : reader'[d] = reader[d]
    BY <1>0, <1>8 DEF Ack, Fail, ReturnReplies
  <2>2. WindowIsOldest(c)'
    BY <2>1 DEF WindowIsOldest, NoReader
  <2> QED BY <1>0, <1>8, <2>1, <2>2, HeldByCall DEF Ack, Fail
<1>9. CASE UNCHANGED <<delivery, reader, read>>
  <2>1. \A g \in Generations : RowHoldsReads(g)'
    BY <1>0, <1>9, HeldFrame DEF WindowInv
  <2>2. \A c \in Readers : WindowIsOldest(c)'
    BY <1>0, <1>9, OldestFrame DEF WindowInv
  <2> QED BY <2>1, <2>2 DEF WindowInv
<1>10. CASE UNCHANGED deliveryVars \/ OtherGeneration \/ rebindDelivery \/ \E kind \in Kinds : PostReply(kind)
  BY <1>9, <1>10 DEF deliveryVars, OtherGeneration, rebindDelivery, PostReply
<1> QED BY <1>1, <1>2, <1>3, <1>4, <1>5, <1>6, <1>7, <1>8, <1>10 DEF DeliveryNext

\* What the row holds is always among the oldest entries after the checkpoint, counted with
\* and without broadcasts: two windows of them, which is what RETURNED_CAP leaves room for
\* (representative-delivery-store.ts).
THEOREM WindowInvariant == DeliverySpec => []WindowInv
<1>1. DeliveryInv /\ DeliveryInv' /\ WindowInv /\ [DeliveryNext]_deliveryVars => WindowInv'
  BY WindowNext
<1> QED BY <1>1, WindowInitially, DeliveryInvariant, PTL DEF DeliverySpec

\* For any read limit, any log, any number of overlapping reads with and without broadcasts
\* and any deliveries between them: what a read returned stays deliverable until the
\* checkpoint passes it, so the membership cap never evicts a reply the host is about to
\* deliver.
THEOREM ReadsStayDeliverable == DeliverySpec => []ReadStaysDeliverable
<1>1. WindowInv => ReadStaysDeliverable
  BY DEF WindowInv, RowHoldsReads, ReadStaysDeliverable
<1> QED BY <1>1, WindowInvariant, PTL
=============================================================================
