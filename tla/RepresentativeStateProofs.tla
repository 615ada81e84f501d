---------------------- MODULE RepresentativeStateProofs ----------------------
(***************************************************************************)
(* Proofs about what the representative keeps in its state database, for    *)
(* every value of the constants.                                            *)
(*                                                                         *)
(* First the database itself (RepresentativeState): with any number of      *)
(* processes, rows, generations, operations and faults no commit is lost.   *)
(* Then the wake state the listener keeps in it (RepresentativePush): with  *)
(* any log, page, waits and faults no reply is forgotten.                   *)
(***************************************************************************)
EXTENDS RepresentativeState, RepresentativePush, TLAPS, WellFoundedInduction

\* The steps under the publish mutex, and those whose copy is to replace CURRENT's rows.
Publishing == {"lock", "salvage", "name", "fill", "point", "clean"}
Copying == {"name", "fill", "point"}
Places == {"idle", "find", "open", "begin", "check", "commit", "read", "mutex", "reset"} \cup Publishing

\* The database's parts, typed.
Generation == [stage : {"absent", "empty", "filled"}, rows : SUBSET Rows,
               health : {"ok", "damaged", "unreadable"}]
Operation == [pc : Places, row : SUBSET Rows, target : 0..MaxStamp, handle : 0..MaxStamp,
              attempt : {0, 1}, fill : SUBSET Rows]

\* Rows that CURRENT's generation has, or that are accounted for outside of it.
CurrentRows == IF current = 0 THEN {} ELSE gens[current].rows
Elsewhere == forfeited \cup stray

\* What is copied is fenced off: its writer is the one that copies, or it is no database.
Fenced(p, g) == writer[g] = p \/ gens[g].health = "unreadable"

\* Only what found nothing published goes on to create.  A transaction that may commit does
\* so in CURRENT's generation, or in a file that is no database any more.
TransactionOk(p, c) ==
  /\ c.target # 0 => current # 0
  /\ c.pc = "mutex" => c.target = 0
  /\ c.pc = "open" => c.target \in Stamps
  /\ c.pc = "begin" => c.handle \in Stamps
  /\ c.pc \in {"check", "commit"} => c.handle \in Stamps /\ writer[c.handle] = p
  /\ c.pc = "commit" => /\ c.handle <= current
                        /\ c.handle = current \/ gens[c.handle].health = "unreadable"

\* A publication replaces the generation it looked at under the mutex by one of a newer
\* stamp, which nobody else writes and which has everything CURRENT had.
PublicationOk(p, c) ==
  /\ c.pc \in Publishing <=> mutex = p
  /\ c.pc \in Publishing \ {"clean"} => current = c.target
  /\ c.pc \in {"lock", "salvage"} => c.target # 0
  /\ c.pc \in {"salvage", "name", "fill", "point"} /\ c.target # 0 => Fenced(p, c.target)
  /\ c.pc \in Copying /\ c.target # 0 => gens[c.target].rows \subseteq c.fill \cup Elsewhere
  /\ c.pc \in {"fill", "point"} => c.handle \in Stamps /\ c.handle > current
  /\ c.pc = "fill" => gens[c.handle].stage = "empty"
  /\ c.pc = "point" => gens[c.handle].stage = "filled" /\ gens[c.handle].rows = c.fill
  /\ c.pc = "clean" => current = c.handle /\ c.handle \in Stamps

\* An operation is at a step that what it knows of the disk allows.
OperationOk(p, c) == TransactionOk(p, c) /\ PublicationOk(p, c)

\* Types.
DatabaseTypeOK ==
  /\ current \in 0..MaxStamp /\ gens \in [Stamps -> Generation]
  /\ writer \in [Stamps -> DbProcs \cup {Nobody}] /\ proc \in [DbProcs -> Operation]
  /\ acked \subseteq Rows

\* The inductive invariant of the database: whatever was acknowledged is in CURRENT's rows, or
\* counted as forfeited or stray, and every operation is where it may be.
DatabaseInv ==
  /\ DatabaseTypeOK
  /\ CurrentIsComplete
  /\ acked \subseteq CurrentRows \cup Elsewhere
  /\ \A p \in DbProcs : OperationOk(p, proc[p])

-----------------------------------------------------------------------------
(* What the steps have in common.                                          *)

\* The start: an empty state directory.
LEMMA DatabaseInitially == StateInit => DatabaseInv
<1> SUFFICES ASSUME StateInit PROVE DatabaseInv
  OBVIOUS
<1>1. NoGen \in Generation /\ Idle(0) \in Operation
  BY StateAssumption DEF NoGen, Generation, Idle, Operation, Places, Publishing
<1>2. DatabaseTypeOK
  BY <1>1, StateAssumption DEF StateInit, DatabaseTypeOK
<1>3. \A p \in DbProcs : OperationOk(p, Idle(0))
  BY StateAssumption DEF StateInit, OperationOk, TransactionOk, PublicationOk, Idle, Publishing, Copying
<1> QED BY <1>2, <1>3 DEF StateInit, DatabaseInv, CurrentIsComplete

\* The records of operations.
LEMMA UpdatedOperation ==
    ASSUME NEW c \in Operation, NEW t \in 0..MaxStamp, NEW g \in 0..MaxStamp, NEW n \in {0, 1}
    PROVE  /\ [c EXCEPT !.attempt = n, !.handle = g] \in Operation
           /\ [c EXCEPT !.target = t, !.handle = g] \in Operation
BY DEF Operation

\* The records of generations.
LEMMA FilledGeneration ==
    ASSUME NEW x \in Generation
    PROVE  [x EXCEPT !.stage = "filled"] \in Generation /\ [x EXCEPT !.stage = "filled"].stage = "filled"
<1>1. x.rows \in SUBSET Rows /\ x.health \in {"ok", "damaged", "unreadable"}
  BY DEF Generation
<1> QED BY <1>1 DEF Generation

\* A generation with other rows, and one with another health.
LEMMA GenerationRows ==
    ASSUME NEW x \in Generation, NEW r \in SUBSET Rows
    PROVE  /\ [x EXCEPT !.rows = r] \in Generation /\ [x EXCEPT !.rows = r].rows = r
           /\ [x EXCEPT !.rows = r].stage = x.stage /\ [x EXCEPT !.rows = r].health = x.health
<1>1. [x EXCEPT !.rows = r] \in Generation
  BY DEF Generation
<1>2. /\ [x EXCEPT !.rows = r].rows = r
      /\ [x EXCEPT !.rows = r].stage = x.stage /\ [x EXCEPT !.rows = r].health = x.health
  BY DEF Generation
<1> QED BY <1>1, <1>2

LEMMA GenerationHealth ==
    ASSUME NEW x \in Generation, NEW h \in {"ok", "damaged", "unreadable"}
    PROVE  /\ [x EXCEPT !.health = h] \in Generation
           /\ [x EXCEPT !.health = h].stage = x.stage /\ [x EXCEPT !.health = h].rows = x.rows
<1>1. [x EXCEPT !.health = h] \in Generation
  BY DEF Generation
<1>2. [x EXCEPT !.health = h].stage = x.stage /\ [x EXCEPT !.health = h].rows = x.rows
  BY DEF Generation
<1> QED BY <1>1, <1>2

\* The stamp of no generation.
LEMMA ZeroStamp == 0 \in 0..MaxStamp
BY StateAssumption

\* A step of one process that leaves the generations alone.  What it does to the locks, to
\* its own ones or to free ones, and to what a reset reports disturbs nobody else.
LEMMA StepOfOne ==
    ASSUME DatabaseInv, NEW p \in DbProcs, NEW o \in Operation,
           proc' = [proc EXCEPT ![p] = o],
           UNCHANGED <<current, gens, acked, stray>>, forfeited \subseteq forfeited',
           writer' \in [Stamps -> DbProcs \cup {Nobody}],
           \A q \in DbProcs \ {p}, g \in Stamps : writer[g] = q => writer'[g] = q,
           \A q \in DbProcs \ {p} : mutex' = q <=> mutex = q,
           OperationOk(p, o)'
    PROVE  DatabaseInv'
<1>1. DatabaseTypeOK' /\ CurrentIsComplete'
  BY DEF DatabaseInv, DatabaseTypeOK, CurrentIsComplete
<1>2. acked' \subseteq (CurrentRows \cup Elsewhere)'
  BY DEF DatabaseInv, CurrentRows, Elsewhere
<1>3. ASSUME NEW q \in DbProcs PROVE OperationOk(q, proc[q])' 
  <2>1. CASE q = p
    BY <2>1 DEF DatabaseInv, DatabaseTypeOK
  <2>2. CASE q # p
    <3>1. PICK c \in Operation : c = proc[q]
      BY DEF DatabaseInv, DatabaseTypeOK
    <3>2. proc'[q] = c /\ OperationOk(q, c)
      BY <2>2, <3>1 DEF DatabaseInv, DatabaseTypeOK
    <3>3. TransactionOk(q, c)'
      BY <2>2, <3>2 DEF OperationOk, TransactionOk
    <3>4. Elsewhere \subseteq Elsewhere'
      BY DEF Elsewhere
    <3>5. c.target # 0 => c.target \in Stamps
      BY <3>1, StateAssumption DEF Operation, Stamps
    <3>6. c.target # 0 /\ Fenced(q, c.target) => Fenced(q, c.target)'
      BY <2>2, <3>5 DEF Fenced
    <3>7. PublicationOk(q, c)'
      BY <2>2, <3>2, <3>4, <3>6 DEF OperationOk, PublicationOk
    <3> QED BY <3>2, <3>3, <3>7 DEF OperationOk
  <2> QED BY <2>1, <2>2
<1> QED BY <1>1, <1>2, <1>3 DEF DatabaseInv

\* An operation that has ended relies on nothing, as long as it does not hold the mutex.
LEMMA EndedOk ==
    ASSUME DatabaseInv, NEW p \in DbProcs, NEW handle \in 0..MaxStamp
    PROVE  /\ Idle(handle) \in Operation
           /\ mutex' # p => OperationOk(p, Idle(handle))'
<1>1. Idle(handle) \in Operation
  BY StateAssumption DEF Idle, Operation, Places, Publishing
<1>2. mutex' # p => OperationOk(p, Idle(handle))'
  BY StateAssumption DEF OperationOk, TransactionOk, PublicationOk, Idle, Publishing, Copying
<1> QED BY <1>1, <1>2

\* Letting go of one's write locks.
LEMMA UnlockedType ==
    ASSUME DatabaseInv, NEW p \in DbProcs, writer' = Unlocked(p)
    PROVE  /\ writer' \in [Stamps -> DbProcs \cup {Nobody}]
           /\ \A q \in DbProcs \ {p}, g \in Stamps : writer[g] = q => writer'[g] = q
BY DEF DatabaseInv, DatabaseTypeOK, Unlocked

\* Who found a generation found one published.
LEMMA TargetIsOfCurrent ==
    ASSUME DatabaseInv, NEW p \in DbProcs
    PROVE  proc[p].target # 0 => current # 0
BY DEF DatabaseInv, OperationOk, TransactionOk

\* Another attempt, or the end of the operation.
LEMMA RetargetsOk ==
    ASSUME DatabaseInv, NEW p \in DbProcs, Retargets(p), proc[p].pc \in {"open", "begin"},
           UNCHANGED <<Disk, mutex, writer, Ghosts>>
    PROVE  DatabaseInv'
<1>0. /\ proc \in [DbProcs -> Operation] /\ writer \in [Stamps -> DbProcs \cup {Nobody}]
      /\ UNCHANGED <<current, gens, writer, mutex, acked, stray, forfeited>>
  BY DEF DatabaseInv, DatabaseTypeOK, Disk, Ghosts
<1>1. mutex # p
  BY DEF DatabaseInv, OperationOk, PublicationOk, Publishing
<1>2. CASE proc' = [proc EXCEPT ![p] = Idle(0)]
  <2>1. Idle(0) \in Operation /\ OperationOk(p, Idle(0))'
    BY <1>0, <1>1, EndedOk, StateAssumption
  <2> QED BY <1>0, <1>2, <2>1, StepOfOne
<1>3. CASE Goes(p, "find", [proc[p] EXCEPT !.attempt = 1, !.handle = 0])
  <2>1. PICK o : o = [[proc[p] EXCEPT !.attempt = 1, !.handle = 0] EXCEPT !.pc = "find"]
    OBVIOUS
  <2>2. o \in Operation /\ o.pc = "find" /\ o.target = proc[p].target
    <3>1. [proc[p] EXCEPT !.attempt = 1, !.handle = 0] \in Operation
      BY <1>0, ZeroStamp, UpdatedOperation
    <3> QED BY <2>1, <3>1 DEF Operation, Places
  <2>3. OperationOk(p, o)'
    BY <1>0, <1>1, <2>2, TargetIsOfCurrent DEF OperationOk, TransactionOk, PublicationOk, Publishing, Copying
  <2> QED BY <1>0, <1>3, <2>1, <2>2, <2>3, StepOfOne DEF Goes
<1> QED BY <1>2, <1>3 DEF Retargets, Ends

-----------------------------------------------------------------------------
(* Transactions and read-only views.                                       *)

\* One lemma per step of the database, from here on.
LEMMA StartTransactInv ==
    ASSUME DatabaseInv, NEW p \in DbProcs, NEW r \in Rows, StartTransact(p, r)
    PROVE  DatabaseInv'
<1>0. /\ proc \in [DbProcs -> Operation] /\ writer \in [Stamps -> DbProcs \cup {Nobody}]
      /\ UNCHANGED <<current, gens, writer, mutex, acked, stray, forfeited>>
  BY DEF DatabaseInv, DatabaseTypeOK, Disk, Ghosts, StartTransact
<1>1. PICK o : o = [[proc[p] EXCEPT !.row = {r}] EXCEPT !.pc = "find"]
  OBVIOUS
<1>2. o \in Operation /\ o.pc = "find" /\ o.target = proc[p].target /\ proc' = [proc EXCEPT ![p] = o]
  <2>1. [proc[p] EXCEPT !.row = {r}] \in Operation
    BY <1>0 DEF Operation
  <2> QED BY <1>1, <2>1 DEF Operation, Places, StartTransact, Goes
<1>3. mutex # p
  BY DEF DatabaseInv, OperationOk, PublicationOk, Publishing, StartTransact
<1>4. OperationOk(p, o)'
  BY <1>0, <1>2, <1>3, TargetIsOfCurrent DEF OperationOk, TransactionOk, PublicationOk, Publishing, Copying
<1> QED BY <1>0, <1>2, <1>4, StepOfOne

LEMMA FindGenerationInv ==
    ASSUME DatabaseInv, NEW p \in DbProcs, FindGeneration(p)
    PROVE  DatabaseInv'
<1>0. /\ proc \in [DbProcs -> Operation] /\ writer \in [Stamps -> DbProcs \cup {Nobody}]
      /\ UNCHANGED <<current, gens, writer, mutex, acked, stray, forfeited>> /\ current \in 0..MaxStamp
  BY DEF DatabaseInv, DatabaseTypeOK, Disk, Ghosts, FindGeneration
<1>1. mutex # p
  BY DEF DatabaseInv, OperationOk, PublicationOk, Publishing, FindGeneration
<1>2. CASE current = 0
  <2>1. PICK seed \in SUBSET Rows : Goes(p, "mutex", [proc[p] EXCEPT !.fill = seed])
    BY <1>2, StateAssumption DEF FindGeneration
  <2>2. PICK o : o = [[proc[p] EXCEPT !.fill = seed] EXCEPT !.pc = "mutex"]
    OBVIOUS
  <2>3. o \in Operation /\ o.pc = "mutex" /\ o.target = proc[p].target /\ proc' = [proc EXCEPT ![p] = o]
    <3>1. [proc[p] EXCEPT !.fill = seed] \in Operation
      BY <1>0 DEF Operation
    <3> QED BY <2>1, <2>2, <3>1 DEF Operation, Places, Goes
  <2>4. OperationOk(p, o)'
    BY <1>0, <1>1, <1>2, <2>3, TargetIsOfCurrent DEF OperationOk, TransactionOk, PublicationOk, Publishing, Copying
  <2> QED BY <1>0, <2>3, <2>4, StepOfOne
<1>3. CASE current # 0
  <2> DEFINE held == proc[p].handle = current
             after == IF held THEN "begin" ELSE "open"
             kept == IF held THEN proc[p].handle ELSE 0
  <2>1. PICK o : o = [[proc[p] EXCEPT !.target = current, !.handle = kept] EXCEPT !.pc = after]
    OBVIOUS
  <2>2. /\ o \in Operation /\ o.pc = after /\ o.handle = kept /\ o.target = current
        /\ proc' = [proc EXCEPT ![p] = o]
    <3>1. [proc[p] EXCEPT !.target = current, !.handle = kept] \in Operation
      <4>1. kept \in 0..MaxStamp
        BY <1>0, ZeroStamp
      <4> QED BY <1>0, <4>1, UpdatedOperation
    <3>2. after \in Places
      BY DEF Places
    <3>3. Goes(p, after, [proc[p] EXCEPT !.target = current, !.handle = kept])
      BY <1>0, <1>3 DEF FindGeneration
    <3>4. proc' = [proc EXCEPT ![p] = o]
      BY <2>1, <3>3 DEF Goes
    <3> HIDE DEF after
    <3>5. o \in Operation /\ o.pc = after
      BY <2>1, <3>1, <3>2 DEF Operation
    <3>6. o.handle = kept /\ o.target = current
      BY <1>0, <2>1 DEF Operation
    <3> QED BY <3>4, <3>5, <3>6
  <2>3. current \in Stamps
    BY <1>0, <1>3, StateAssumption DEF Stamps
  <2>4. OperationOk(p, o)'
    BY <1>0, <1>1, <2>2, <2>3, TargetIsOfCurrent DEF OperationOk, TransactionOk, PublicationOk, Publishing, Copying
  <2> QED BY <1>0, <2>2, <2>4, StepOfOne
<1> QED BY <1>2, <1>3

LEMMA OpenGenerationInv ==
    ASSUME DatabaseInv, NEW p \in DbProcs, OpenGeneration(p)
    PROVE  DatabaseInv'
<1>0. /\ proc \in [DbProcs -> Operation] /\ writer \in [Stamps -> DbProcs \cup {Nobody}]
      /\ UNCHANGED <<current, gens, writer, mutex, acked, stray, forfeited>> /\ proc[p].pc = "open"
  BY DEF DatabaseInv, DatabaseTypeOK, Disk, Ghosts, OpenGeneration
<1>1. CASE Opens(proc[p].target)
  <2>1. PICK o : o = [[proc[p] EXCEPT !.handle = proc[p].target] EXCEPT !.pc = "begin"]
    OBVIOUS
  <2>2. /\ o \in Operation /\ o.pc = "begin" /\ o.target = proc[p].target /\ o.handle = proc[p].target
        /\ proc' = [proc EXCEPT ![p] = o]
    <3>1. [proc[p] EXCEPT !.handle = proc[p].target] \in Operation
      BY <1>0 DEF Operation
    <3> QED BY <1>1, <2>1, <3>1 DEF Operation, Places, Goes, OpenGeneration
  <2>3. proc[p].target \in Stamps /\ mutex # p
    BY <1>0 DEF DatabaseInv, OperationOk, TransactionOk, PublicationOk, Publishing
  <2>4. OperationOk(p, o)'
    BY <1>0, <2>2, <2>3, TargetIsOfCurrent DEF OperationOk, TransactionOk, PublicationOk, Publishing, Copying
  <2> QED BY <1>0, <2>2, <2>4, StepOfOne
<1>2. CASE ~ Opens(proc[p].target)
  BY <1>0, <1>2, RetargetsOk DEF OpenGeneration
<1> QED BY <1>1, <1>2

LEMMA BeginImmediateInv ==
    ASSUME DatabaseInv, NEW p \in DbProcs, BeginImmediate(p)
    PROVE  DatabaseInv'
<1>0. /\ proc \in [DbProcs -> Operation] /\ writer \in [Stamps -> DbProcs \cup {Nobody}]
      /\ UNCHANGED <<current, gens, mutex, acked, stray, forfeited>> /\ proc[p].handle \in Stamps
      /\ mutex # p
  BY DEF DatabaseInv, DatabaseTypeOK, Disk, Ghosts, BeginImmediate, OperationOk, TransactionOk,
         PublicationOk, Publishing
<1>1. PICK o : o = [proc[p] EXCEPT !.pc = "check"]
  OBVIOUS
<1>2. o \in Operation /\ o.pc = "check" /\ o.target = proc[p].target /\ o.handle = proc[p].handle /\ proc' = [proc EXCEPT ![p] = o]
  BY <1>0, <1>1 DEF Operation, Places, Goes, BeginImmediate
<1>3. /\ writer' \in [Stamps -> DbProcs \cup {Nobody}] /\ writer'[proc[p].handle] = p
      /\ \A q \in DbProcs \ {p}, g \in Stamps : writer[g] = q => writer'[g] = q
  BY <1>0, StateAssumption DEF BeginImmediate
<1>4. OperationOk(p, o)'
  BY <1>0, <1>2, <1>3, TargetIsOfCurrent DEF OperationOk, TransactionOk, PublicationOk, Publishing, Copying
<1> QED BY <1>0, <1>2, <1>3, <1>4, StepOfOne

LEMMA BeginFailsInv ==
    ASSUME DatabaseInv, NEW p \in DbProcs, BeginFails(p)
    PROVE  DatabaseInv'
BY RetargetsOk DEF BeginFails

LEMMA CheckCurrentInv ==
    ASSUME DatabaseInv, NEW p \in DbProcs, CheckCurrent(p)
    PROVE  DatabaseInv'
<1>0. /\ proc \in [DbProcs -> Operation] /\ writer \in [Stamps -> DbProcs \cup {Nobody}]
      /\ UNCHANGED <<current, gens, mutex, acked, stray, forfeited>> /\ proc[p].handle \in Stamps
      /\ mutex # p /\ writer[proc[p].handle] = p
  BY DEF DatabaseInv, DatabaseTypeOK, Disk, Ghosts, CheckCurrent, OperationOk, TransactionOk,
         PublicationOk, Publishing
<1>1. CASE current = proc[p].handle
  <2>1. PICK o : o = [proc[p] EXCEPT !.pc = "commit"]
    OBVIOUS
  <2>2. o \in Operation /\ o.pc = "commit" /\ o.target = proc[p].target /\ o.handle = proc[p].handle /\ proc' = [proc EXCEPT ![p] = o]
    BY <1>0, <1>1, <2>1 DEF Operation, Places, Goes, CheckCurrent
  <2>3. UNCHANGED writer /\ proc[p].handle <= current
    BY <1>0, <1>1 DEF CheckCurrent, Stamps
  <2>4. OperationOk(p, o)'
    BY <1>0, <1>1, <2>2, <2>3, TargetIsOfCurrent DEF OperationOk, TransactionOk, PublicationOk, Publishing, Copying
  <2> QED BY <1>0, <2>2, <2>3, <2>4, StepOfOne
<1>2. CASE current # proc[p].handle
  <2>0. writer' = Unlocked(p)
    BY <1>2 DEF CheckCurrent
  <2>1. CASE proc' = [proc EXCEPT ![p] = Idle(0)]
    <3>1. Idle(0) \in Operation /\ OperationOk(p, Idle(0))'
      BY <1>0, EndedOk, StateAssumption
    <3> QED BY <1>0, <2>0, <2>1, <3>1, UnlockedType, StepOfOne
  <2>2. CASE Goes(p, "find", [proc[p] EXCEPT !.attempt = 1, !.handle = 0])
    <3>1. PICK o : o = [[proc[p] EXCEPT !.attempt = 1, !.handle = 0] EXCEPT !.pc = "find"]
      OBVIOUS
    <3>2. o \in Operation /\ o.pc = "find" /\ o.target = proc[p].target /\ proc' = [proc EXCEPT ![p] = o]
      <4>1. [proc[p] EXCEPT !.attempt = 1, !.handle = 0] \in Operation
        BY <1>0, ZeroStamp, UpdatedOperation
      <4> QED BY <2>2, <3>1, <4>1 DEF Operation, Places, Goes
    <3>3. OperationOk(p, o)'
      BY <1>0, <3>2, TargetIsOfCurrent DEF OperationOk, TransactionOk, PublicationOk, Publishing, Copying
    <3> QED BY <1>0, <2>0, <3>2, <3>3, UnlockedType, StepOfOne
  <2> QED BY <1>2, <2>1, <2>2 DEF CheckCurrent, Ends
<1> QED BY <1>1, <1>2

LEMMA CommitFailsInv ==
    ASSUME DatabaseInv, NEW p \in DbProcs, CommitFails(p)
    PROVE  DatabaseInv'
<1>1. /\ UNCHANGED <<current, gens, mutex, acked, stray, forfeited>> /\ mutex # p
      /\ writer' = Unlocked(p) /\ proc' = [proc EXCEPT ![p] = Idle(0)]
  BY DEF DatabaseInv, Disk, Ghosts, CommitFails, Ends, OperationOk, PublicationOk, Publishing
<1>2. Idle(0) \in Operation /\ OperationOk(p, Idle(0))'
  BY <1>1, EndedOk, ZeroStamp
<1> QED BY <1>1, <1>2, UnlockedType, StepOfOne

LEMMA ReadOnlyInv ==
    ASSUME DatabaseInv, NEW p \in DbProcs, ReadOnly(p)
    PROVE  DatabaseInv'
<1>0. /\ proc \in [DbProcs -> Operation] /\ writer \in [Stamps -> DbProcs \cup {Nobody}]
      /\ UNCHANGED <<current, gens, writer, mutex, acked, stray, forfeited>> /\ mutex # p
      /\ current \in 0..MaxStamp
  BY DEF DatabaseInv, DatabaseTypeOK, Disk, Ghosts, ReadOnly, OperationOk, PublicationOk, Publishing
<1>1. PICK o : o = [[proc[p] EXCEPT !.target = current] EXCEPT !.pc = "read"]
  OBVIOUS
<1>2. o \in Operation /\ o.pc = "read" /\ o.target = current /\ proc' = [proc EXCEPT ![p] = o]
  <2>1. [proc[p] EXCEPT !.target = current] \in Operation
    BY <1>0 DEF Operation
  <2> QED BY <1>1, <2>1 DEF Operation, Places, ReadOnly, Goes
<1>3. OperationOk(p, o)'
  BY <1>0, <1>2, TargetIsOfCurrent DEF OperationOk, TransactionOk, PublicationOk, Publishing, Copying
<1> QED BY <1>0, <1>2, <1>3, StepOfOne

LEMMA ReadOnlyBodyInv ==
    ASSUME DatabaseInv, NEW p \in DbProcs, ReadOnlyBody(p)
    PROVE  DatabaseInv'
<1>0. /\ proc \in [DbProcs -> Operation] /\ writer \in [Stamps -> DbProcs \cup {Nobody}]
      /\ UNCHANGED <<current, gens, writer, mutex, acked, stray, forfeited>> /\ mutex # p
  BY DEF DatabaseInv, DatabaseTypeOK, Disk, Ghosts, ReadOnlyBody, OperationOk, PublicationOk, Publishing
<1>1. PICK handle \in 0..MaxStamp : handle = proc[p].handle
  BY <1>0 DEF Operation
<1>2. Idle(handle) \in Operation /\ OperationOk(p, Idle(handle))'
  BY <1>0, EndedOk
<1>3. proc' = [proc EXCEPT ![p] = Idle(handle)]
  BY <1>1 DEF ReadOnlyBody, Ends
<1> QED BY <1>0, <1>2, <1>3, StepOfOne

-----------------------------------------------------------------------------
(* Up to the copy: the mutex, the lock on what is replaced, what is kept.   *)

LEMMA StartResetInv ==
    ASSUME DatabaseInv, NEW p \in DbProcs, StartReset(p)
    PROVE  DatabaseInv'
<1>0. /\ proc \in [DbProcs -> Operation] /\ writer \in [Stamps -> DbProcs \cup {Nobody}]
      /\ UNCHANGED <<current, gens, writer, mutex, acked, stray, forfeited>> /\ mutex # p
  BY DEF DatabaseInv, DatabaseTypeOK, Disk, Ghosts, StartReset, OperationOk, PublicationOk, Publishing
<1>1. PICK o : o = [proc[p] EXCEPT !.pc = "reset"]
  OBVIOUS
<1>2. o \in Operation /\ o.pc = "reset" /\ o.target = proc[p].target /\ proc' = [proc EXCEPT ![p] = o]
  BY <1>0, <1>1 DEF Operation, Places, StartReset, Goes
<1>3. OperationOk(p, o)'
  BY <1>0, <1>2, TargetIsOfCurrent DEF OperationOk, TransactionOk, PublicationOk, Publishing, Copying
<1> QED BY <1>0, <1>2, <1>3, StepOfOne

\* The target of a first creation is 0: what put an operation into "mutex" found nothing.
LEMMA TakeToCreateInv ==
    ASSUME DatabaseInv, NEW p \in DbProcs, TakeToCreate(p)
    PROVE  DatabaseInv'
<1>0. /\ proc \in [DbProcs -> Operation] /\ writer \in [Stamps -> DbProcs \cup {Nobody}]
      /\ UNCHANGED <<current, gens, writer, acked, stray, forfeited>> /\ mutex # p
      /\ mutex = Nobody /\ proc[p].pc = "mutex"
  BY StateAssumption DEF DatabaseInv, DatabaseTypeOK, Disk, Ghosts, TakeToCreate
<1>1. CASE current = 0
  <2>1. PICK o : o = [proc[p] EXCEPT !.pc = "name"]
    OBVIOUS
  <2>2. /\ o \in Operation /\ o.pc = "name" /\ o.target = proc[p].target
        /\ proc' = [proc EXCEPT ![p] = o] /\ mutex' = p
    <3>1. mutex' = p /\ Goes(p, "name", proc[p])
      BY <1>1 DEF TakeToCreate
    <3> QED BY <1>0, <2>1, <3>1 DEF Operation, Places, Publishing, Goes
  <2>3. proc[p].target = 0
    BY <1>0 DEF DatabaseInv, OperationOk, TransactionOk
  <2>4. OperationOk(p, o)'
    BY <1>0, <1>1, <2>2, <2>3, TargetIsOfCurrent DEF OperationOk, TransactionOk, PublicationOk, Publishing, Copying
  <2> QED BY <1>0, <2>2, <2>4, StateAssumption, StepOfOne
<1>2. CASE current # 0
  <2>1. PICK o : o = [[proc[p] EXCEPT !.fill = {}] EXCEPT !.pc = "find"]
    OBVIOUS
  <2>2. o \in Operation /\ o.pc = "find" /\ o.target = proc[p].target /\ proc' = [proc EXCEPT ![p] = o] /\ UNCHANGED mutex
    <3>1. [proc[p] EXCEPT !.fill = {}] \in Operation
      BY <1>0 DEF Operation
    <3> QED BY <1>2, <2>1, <3>1 DEF Operation, Places, TakeToCreate, Goes
  <2>3. OperationOk(p, o)'
    BY <1>0, <2>2, TargetIsOfCurrent DEF OperationOk, TransactionOk, PublicationOk, Publishing, Copying
  <2> QED BY <1>0, <2>2, <2>3, StepOfOne
<1> QED BY <1>1, <1>2

LEMMA TakeToResetInv ==
    ASSUME DatabaseInv, NEW p \in DbProcs, TakeToReset(p)
    PROVE  DatabaseInv'
<1>0. /\ proc \in [DbProcs -> Operation] /\ writer \in [Stamps -> DbProcs \cup {Nobody}]
      /\ UNCHANGED <<current, gens, writer, acked, stray, forfeited>> /\ mutex # p
      /\ mutex = Nobody /\ current \in 0..MaxStamp /\ gens \in [Stamps -> Generation]
  BY StateAssumption DEF DatabaseInv, DatabaseTypeOK, Disk, Ghosts, TakeToReset
<1> DEFINE damaged == gens[current].health = "damaged"
           after == IF damaged THEN "lock" ELSE "salvage"
           over == current = 0 \/ Opens(current) \/ gens[current].stage # "filled"
<1>1. CASE over
  <2>1. PICK handle \in 0..MaxStamp : handle = proc[p].handle
    BY <1>0 DEF Operation
  <2>2. proc' = [proc EXCEPT ![p] = Idle(handle)] /\ UNCHANGED mutex
    BY <1>1, <2>1 DEF TakeToReset, Ends
  <2>3. Idle(handle) \in Operation /\ OperationOk(p, Idle(handle))'
    BY <1>0, <2>2, EndedOk
  <2> QED BY <1>0, <2>2, <2>3, StepOfOne
<1>2. CASE ~ over
  <2>1. mutex' = p /\ Goes(p, after, [proc[p] EXCEPT !.target = current])
    BY <1>2 DEF TakeToReset
  <2>2. current \in Stamps /\ (~ damaged => gens[current].health = "unreadable")
    BY <1>0, <1>2, StateAssumption DEF Opens, Stamps, Generation
  <2>3. after \in {"lock", "salvage"} /\ (after = "salvage" => ~ damaged)
    OBVIOUS
  <2> HIDE DEF after, damaged, over
  <2>4. PICK o : o = [[proc[p] EXCEPT !.target = current] EXCEPT !.pc = after]
    OBVIOUS
  <2>5. o \in Operation /\ o.pc = after /\ o.target = current /\ proc' = [proc EXCEPT ![p] = o]
    <3>1. [proc[p] EXCEPT !.target = current] \in Operation
      BY <1>0 DEF Operation
    <3> QED BY <2>1, <2>3, <2>4, <3>1 DEF Operation, Places, Publishing, Goes
  <2>6. current # 0
    BY <1>2 DEF over
  <2>7. OperationOk(p, o)'
    <3>1. TransactionOk(p, o)'
      BY <1>0, <2>3, <2>5, <2>6 DEF TransactionOk
    <3>2. o.pc = "salvage" => Fenced(p, o.target)'
      BY <1>0, <2>2, <2>3, <2>5 DEF Fenced
    <3>3. PublicationOk(p, o)'
      BY <1>0, <2>1, <2>3, <2>5, <2>6, <3>2 DEF PublicationOk, Publishing, Copying
    <3> QED BY <3>1, <3>3 DEF OperationOk
  <2> QED BY <1>0, <2>1, <2>5, <2>7, StateAssumption, StepOfOne
<1> QED BY <1>1, <1>2

LEMMA LockExclusiveInv ==
    ASSUME DatabaseInv, NEW p \in DbProcs, LockExclusive(p)
    PROVE  DatabaseInv'
<1>0. /\ proc \in [DbProcs -> Operation] /\ writer \in [Stamps -> DbProcs \cup {Nobody}]
      /\ UNCHANGED <<current, gens, acked, stray, forfeited>> /\ mutex = p
      /\ proc[p].pc = "lock" /\ proc[p].target \in Stamps /\ proc[p].target = current
  <2>1. proc[p].pc = "lock" /\ proc[p] \in Operation /\ PublicationOk(p, proc[p])
    BY DEF DatabaseInv, DatabaseTypeOK, LockExclusive, OperationOk
  <2>2. proc[p].target \in Stamps
    BY <2>1, StateAssumption DEF PublicationOk, Operation, Stamps
  <2> QED BY <2>1, <2>2 DEF DatabaseInv, DatabaseTypeOK, Disk, Ghosts, LockExclusive, PublicationOk, Publishing
<1>1. CASE writer[proc[p].target] = Nobody
  <2>1. PICK o : o = [proc[p] EXCEPT !.pc = "salvage"]
    OBVIOUS
  <2>2. o \in Operation /\ o.pc = "salvage" /\ o.target = proc[p].target
    BY <1>0, <2>1 DEF Operation, Places, Publishing
  <2>3. proc' = [proc EXCEPT ![p] = o] /\ UNCHANGED mutex
        /\ writer' = [writer EXCEPT ![proc[p].target] = p]
    BY <1>1, <2>1 DEF LockExclusive, Goes
  <2>4. /\ writer' \in [Stamps -> DbProcs \cup {Nobody}] /\ writer'[o.target] = p
        /\ \A q \in DbProcs \ {p}, g \in Stamps : writer[g] = q => writer'[g] = q
    BY <1>0, <1>1, <2>2, <2>3, StateAssumption
  <2>5. OperationOk(p, o)'
    <3>1. o.target # 0 /\ current # 0
      BY <1>0, <2>2, StateAssumption DEF Stamps
    <3>2. TransactionOk(p, o)'
      BY <1>0, <2>2, <3>1 DEF TransactionOk
    <3>3. PublicationOk(p, o)'
      BY <1>0, <2>2, <2>3, <2>4, <3>1 DEF PublicationOk, Publishing, Copying, Fenced
    <3> QED BY <3>2, <3>3 DEF OperationOk
  <2> QED BY <1>0, <2>2, <2>3, <2>4, <2>5, StepOfOne
<1>2. CASE writer[proc[p].target] # Nobody
  <2>1. PICK handle \in 0..MaxStamp : handle = proc[p].handle
    BY <1>0 DEF Operation
  <2>2. proc' = [proc EXCEPT ![p] = Idle(handle)] /\ UNCHANGED writer /\ mutex' = Nobody
    BY <1>2, <2>1 DEF LockExclusive, Ends
  <2>3. Idle(handle) \in Operation /\ OperationOk(p, Idle(handle))'
    BY <2>2, EndedOk, StateAssumption
  <2> QED BY <1>0, <2>2, <2>3, StateAssumption, StepOfOne
<1> QED BY <1>1, <1>2

\* What is not copied is reported as dropped.
LEMMA SalvageInv ==
    ASSUME DatabaseInv, NEW p \in DbProcs, Salvage(p)
    PROVE  DatabaseInv'
<1>0. /\ proc \in [DbProcs -> Operation] /\ writer \in [Stamps -> DbProcs \cup {Nobody}]
      /\ UNCHANGED <<current, gens, mutex, writer, acked, stray>> /\ mutex = p
      /\ gens \in [Stamps -> Generation]
      /\ proc[p].target \in Stamps /\ proc[p].target = current /\ Fenced(p, proc[p].target)
  <2>1. proc[p].pc = "salvage" /\ proc[p] \in Operation /\ PublicationOk(p, proc[p])
    BY DEF DatabaseInv, DatabaseTypeOK, Salvage, OperationOk
  <2>2. proc[p].target \in Stamps
    BY <2>1, StateAssumption DEF PublicationOk, Operation, Stamps
  <2> QED BY <2>1, <2>2 DEF DatabaseInv, DatabaseTypeOK, Disk, Ghosts, Salvage, PublicationOk, Publishing
<1>1. PICK old : old = gens[proc[p].target]
  OBVIOUS
<1>2. old.rows \subseteq Rows
  BY <1>0, <1>1 DEF Generation
<1>3. PICK kept \in SUBSET old.rows :
         /\ forfeited' = forfeited \cup (old.rows \ kept)
         /\ Goes(p, "name", [proc[p] EXCEPT !.fill = kept])
  BY <1>1 DEF Salvage
<1>4. PICK o : o = [[proc[p] EXCEPT !.fill = kept] EXCEPT !.pc = "name"]
  OBVIOUS
<1>5. /\ o \in Operation /\ o.pc = "name" /\ o.target = proc[p].target /\ o.fill = kept
      /\ proc' = [proc EXCEPT ![p] = o]
  <2>1. [proc[p] EXCEPT !.fill = kept] \in Operation
    BY <1>0, <1>2 DEF Operation
  <2>2. [proc[p] EXCEPT !.fill = kept].fill = kept /\ [proc[p] EXCEPT !.fill = kept].target = proc[p].target
    BY <1>0 DEF Operation
  <2> QED BY <1>3, <1>4, <2>1, <2>2 DEF Operation, Places, Publishing, Goes
<1>6. forfeited \subseteq forfeited' /\ gens'[o.target].rows \subseteq o.fill \cup Elsewhere'
  BY <1>0, <1>1, <1>3, <1>5 DEF Elsewhere
<1>7. OperationOk(p, o)'
  <2>1. TransactionOk(p, o)'
    BY <1>0, <1>5, TargetIsOfCurrent DEF TransactionOk
  <2>2. PublicationOk(p, o)'
    BY <1>0, <1>5, <1>6 DEF PublicationOk, Publishing, Copying, Fenced
  <2> QED BY <2>1, <2>2 DEF OperationOk
<1> QED BY <1>0, <1>5, <1>6, <1>7, StepOfOne

LEMMA PublishFailsInv ==
    ASSUME DatabaseInv, NEW p \in DbProcs, PublishFails(p)
    PROVE  DatabaseInv'
<1>1. /\ UNCHANGED <<current, gens, acked, stray, forfeited>> /\ mutex = p /\ mutex' = Nobody
      /\ writer' = Unlocked(p) /\ proc' = [proc EXCEPT ![p] = Idle(0)]
  BY DEF DatabaseInv, Disk, Ghosts, PublishFails, Ends, OperationOk, PublicationOk, Publishing
<1>2. Idle(0) \in Operation /\ OperationOk(p, Idle(0))'
  BY <1>1, EndedOk, ZeroStamp, StateAssumption
<1> QED BY <1>1, <1>2, UnlockedType, StepOfOne, StateAssumption

LEMMA CrashDbInv ==
    ASSUME DatabaseInv, NEW p \in DbProcs, CrashDb(p)
    PROVE  DatabaseInv'
<1>1. /\ UNCHANGED <<current, gens, acked, stray, forfeited>>
      /\ mutex' = (IF mutex = p THEN Nobody ELSE mutex)
      /\ writer' = Unlocked(p) /\ proc' = [proc EXCEPT ![p] = Idle(0)]
  BY DEF Disk, Ghosts, CrashDb, Ends
<1>2. mutex' # p
  BY <1>1, StateAssumption
<1>3. Idle(0) \in Operation /\ OperationOk(p, Idle(0))'
  BY <1>2, EndedOk, ZeroStamp
<1>4. \A q \in DbProcs \ {p} : mutex' = q <=> mutex = q
  BY <1>1, StateAssumption
<1> QED BY <1>1, <1>3, <1>4, UnlockedType, StepOfOne

-----------------------------------------------------------------------------
(* The copy and its publication.                                           *)

\* A step of the one that holds the publish mutex.  The others are in their transactions:
\* one that may commit has CURRENT's generation locked against a copy of it, or writes to
\* what is no database any more.
LEMMA StepOfPublisher ==
    ASSUME DatabaseInv, NEW p \in DbProcs, mutex = p, NEW o \in Operation,
           proc' = [proc EXCEPT ![p] = o],
           current' = current \/ (current' \in Stamps /\ current' > current
                                  /\ (current # 0 => Fenced(p, current))),
           gens' \in [Stamps -> Generation],
           \A g \in Stamps : g <= current /\ gens[g].health = "unreadable"
                               => gens'[g].health = "unreadable",
           writer' \in [Stamps -> DbProcs \cup {Nobody}],
           \A q \in DbProcs \ {p}, g \in Stamps : writer[g] = q => writer'[g] = q,
           mutex' \in {p, Nobody}, UNCHANGED <<acked, forfeited, stray>>,
           CurrentIsComplete', acked \subseteq (CurrentRows \cup Elsewhere)',
           OperationOk(p, o)'
    PROVE  DatabaseInv'
<1>1. DatabaseTypeOK'
  BY StateAssumption DEF DatabaseInv, DatabaseTypeOK, Stamps
<1>2. ASSUME NEW q \in DbProcs PROVE OperationOk(q, proc[q])'
  <2>1. CASE q = p
    BY <2>1 DEF DatabaseInv, DatabaseTypeOK
  <2>2. CASE q # p
    <3>1. PICK c \in Operation : c = proc[q]
      BY DEF DatabaseInv, DatabaseTypeOK
    <3>2. proc'[q] = c /\ TransactionOk(q, c) /\ PublicationOk(q, c)
      BY <2>2, <3>1 DEF DatabaseInv, DatabaseTypeOK, OperationOk
    <3>3. c.pc \notin Publishing /\ mutex' # q
      BY <2>2, <3>2, StateAssumption DEF PublicationOk
    <3>4. PublicationOk(q, c)'
      BY <3>3 DEF PublicationOk, Publishing, Copying
    <3>5. current \in Nat /\ current' \in Nat /\ current <= current' /\ (current # 0 => current' # 0)
      BY StateAssumption DEF DatabaseInv, DatabaseTypeOK, Stamps
    <3>6. c.pc \in {"check", "commit"} => c.handle \in Stamps /\ writer[c.handle] = q /\ writer'[c.handle] = q
      BY <2>2, <3>2 DEF TransactionOk
    <3>7. ASSUME c.pc = "commit"
          PROVE  c.handle <= current' /\ (c.handle = current' \/ gens'[c.handle].health = "unreadable")
      <4>1. c.handle \in Stamps /\ writer[c.handle] = q /\ c.handle <= current
            /\ (c.handle = current \/ gens[c.handle].health = "unreadable")
        BY <3>2, <3>6, <3>7 DEF TransactionOk
      <4>2. c.handle \in Nat /\ c.handle # 0
        BY <4>1, StateAssumption DEF Stamps
      <4>3. c.handle <= current'
        BY <3>5, <4>1, <4>2
      <4>4. CASE current' = current
        BY <4>1, <4>3, <4>4
      <4>5. CASE current' # current
        <5>1. c.handle = current => gens[c.handle].health = "unreadable"
          BY <2>2, <4>1, <4>2, <4>5 DEF Fenced
        <5> QED BY <4>1, <4>3, <5>1
      <4> QED BY <4>4, <4>5
    <3>8. TransactionOk(q, c)'
      BY <3>2, <3>5, <3>6, <3>7 DEF TransactionOk
    <3> QED BY <3>2, <3>4, <3>8 DEF OperationOk
  <2> QED BY <2>1, <2>2
<1> QED BY <1>1, <1>2 DEF DatabaseInv

\* The stamps on disk have a newest one.
LEMMA NewestOnDisk ==
    ASSUME Existing # {}
    PROVE  Max(Existing) \in Existing /\ \A g \in Existing : g <= Max(Existing)
<1> DEFINE T == {MaxStamp - e : e \in Existing}
<1>1. T \subseteq Nat /\ T # {}
  <2>1. \A e \in Existing : MaxStamp - e \in Nat
    BY StateAssumption DEF Existing, Stamps
  <2> QED BY <2>1
<1>2. PICK x \in T : \A y \in T : ~ (<<y, x>> \in OpToRel(<, Nat))
  <2> HIDE DEF T
  <2> QED BY <1>1, WFMin, NatLessThanWellFounded, Zenon
<1>3. \A y \in T : ~ (y < x)
  BY <1>1, <1>2 DEF OpToRel
<1>4. PICK e \in Existing : x = MaxStamp - e
  OBVIOUS
<1>5. \A f \in Existing : f <= e
  <2> SUFFICES ASSUME NEW f \in Existing PROVE f <= e
    OBVIOUS
  <2>1. MaxStamp - f \in T
    OBVIOUS
  <2>2. ~ (MaxStamp - f < MaxStamp - e)
    BY <1>3, <1>4, <2>1
  <2> HIDE DEF T
  <2> QED BY <2>2, StateAssumption DEF Existing, Stamps
<1>6. \A f \in Existing : e >= f
  BY <1>5, StateAssumption DEF Existing, Stamps
<1>7. Max(Existing) \in Existing /\ \A f \in Existing : Max(Existing) >= f
  BY <1>6 DEF Max
<1> QED BY <1>7, StateAssumption DEF Existing, Stamps

\* A new generation is newer than CURRENT's, whatever the clock says.
LEMMA NewNameIsNewer ==
    ASSUME DatabaseInv, NEW clock \in 0..MaxStamp, newGenerationName(clock) \in Stamps
    PROVE  newGenerationName(clock) > current
<1>0. current \in 0..MaxStamp /\ clock \in Nat /\ MaxStamp \in Nat
  BY StateAssumption DEF DatabaseInv, DatabaseTypeOK
<1>1. CASE current = 0
  BY <1>1, StateAssumption DEF Stamps
<1>2. CASE current # 0
  <2>1. current \in Existing
    BY <1>0, <1>2 DEF DatabaseInv, CurrentIsComplete, Existing, Stamps
  <2>2. Max(Existing) \in Nat /\ current <= Max(Existing) /\ Existing # {}
    BY <2>1, NewestOnDisk, StateAssumption DEF Existing, Stamps
  <2>3. PICK newest \in Nat : newest = Max(Existing)
    BY <2>2
  <2>4. newGenerationName(clock) = IF clock > newest THEN clock ELSE newest + 1
    BY <2>2, <2>3 DEF newGenerationName
  <2> QED BY <1>0, <2>2, <2>3, <2>4
<1> QED BY <1>1, <1>2

\* What a publisher knows.
LEMMA PublisherFacts ==
    ASSUME DatabaseInv, NEW p \in DbProcs, proc[p].pc \in Publishing
    PROVE  /\ proc \in [DbProcs -> Operation] /\ gens \in [Stamps -> Generation]
           /\ writer \in [Stamps -> DbProcs \cup {Nobody}] /\ current \in 0..MaxStamp
           /\ acked \subseteq CurrentRows \cup Elsewhere
           /\ mutex = p /\ proc[p] \in Operation
           /\ TransactionOk(p, proc[p]) /\ PublicationOk(p, proc[p])
<1>1. TransactionOk(p, proc[p]) /\ PublicationOk(p, proc[p])
  BY DEF DatabaseInv, OperationOk
<1>2. mutex = p
  BY <1>1 DEF PublicationOk
<1> QED BY <1>1, <1>2 DEF DatabaseInv, DatabaseTypeOK

LEMMA MakeDirectoryInv ==
    ASSUME DatabaseInv, NEW p \in DbProcs, MakeDirectory(p)
    PROVE  DatabaseInv'
<1>0. /\ proc \in [DbProcs -> Operation] /\ gens \in [Stamps -> Generation]
      /\ writer \in [Stamps -> DbProcs \cup {Nobody}] /\ current \in 0..MaxStamp
      /\ acked \subseteq CurrentRows \cup Elsewhere /\ mutex = p /\ proc[p] \in Operation
      /\ TransactionOk(p, proc[p]) /\ PublicationOk(p, proc[p]) /\ proc[p].pc = "name"
  BY PublisherFacts DEF MakeDirectory, Publishing
<1>1. UNCHANGED <<current, mutex, writer, acked, forfeited, stray>>
  BY DEF MakeDirectory, Ghosts
<1>2. PICK clock \in 0..MaxStamp :
         LET g == newGenerationName(clock)
         IN  /\ g \in Stamps
             /\ gens' = [gens EXCEPT ![g] = [NoGen EXCEPT !.stage = "empty"]]
             /\ Goes(p, "fill", [proc[p] EXCEPT !.handle = g])
  BY DEF MakeDirectory
<1>3. PICK g \in Stamps : g = newGenerationName(clock)
  BY <1>2
<1>4. g > current /\ g \in 0..MaxStamp
  BY <1>3, NewNameIsNewer, StateAssumption DEF Stamps
<1>5. PICK d \in Generation : d = [NoGen EXCEPT !.stage = "empty"] /\ d.stage = "empty"
  <2>1. [NoGen EXCEPT !.stage = "empty"] = [stage |-> "empty", rows |-> {}, health |-> "ok"]
    BY DEF NoGen
  <2>2. [stage |-> "empty", rows |-> {}, health |-> "ok"] \in Generation
    BY DEF Generation
  <2> QED BY <2>1, <2>2
<1>6. /\ gens' = [gens EXCEPT ![g] = d] /\ gens' \in [Stamps -> Generation]
      /\ \A x \in Stamps : x <= current => gens'[x] = gens[x]
  <2>1. gens' = [gens EXCEPT ![g] = d]
    BY <1>2, <1>3, <1>5
  <2>2. \A x \in Stamps : x <= current => x # g
    BY <1>0, <1>4, StateAssumption DEF Stamps
  <2> QED BY <1>0, <1>5, <2>1, <2>2
<1>7. PICK o : o = [[proc[p] EXCEPT !.handle = g] EXCEPT !.pc = "fill"]
  OBVIOUS
<1>8. /\ o \in Operation /\ o.pc = "fill" /\ o.handle = g /\ o.target = proc[p].target
      /\ o.fill = proc[p].fill /\ proc' = [proc EXCEPT ![p] = o]
  <2>1. PICK c : c = [proc[p] EXCEPT !.handle = g]
    OBVIOUS
  <2>2. c \in Operation /\ c.handle = g /\ c.target = proc[p].target /\ c.fill = proc[p].fill
    BY <1>0, <1>4, <2>1 DEF Operation
  <2>3. o = [c EXCEPT !.pc = "fill"]
    BY <1>7, <2>1
  <2>4. proc' = [proc EXCEPT ![p] = o]
    BY <1>2, <1>3, <1>7 DEF Goes
  <2> QED BY <2>2, <2>3, <2>4 DEF Operation, Places, Publishing
<1>9. current # 0 => current \in Stamps /\ current <= current
  BY <1>0, StateAssumption DEF Stamps
<1>10. CurrentIsComplete' /\ CurrentRows' = CurrentRows /\ Elsewhere' = Elsewhere
  BY <1>1, <1>6, <1>9 DEF DatabaseInv, CurrentIsComplete, CurrentRows, Elsewhere
<1>11. o.target # 0 => o.target \in Stamps /\ gens'[o.target] = gens[o.target]
  BY <1>0, <1>6, <1>8, <1>9 DEF PublicationOk, Publishing
<1>12. TransactionOk(p, o)'
  BY <1>0, <1>1, <1>8 DEF TransactionOk
<1>13. PublicationOk(p, o)'
  <2>1. gens'[g].stage = "empty"
    BY <1>0, <1>5, <1>6
  <2> QED BY <1>0, <1>1, <1>4, <1>8, <1>10, <1>11, <2>1 DEF PublicationOk, Publishing, Copying, Fenced
<1>14. \A x \in Stamps : x <= current /\ gens[x].health = "unreadable" => gens'[x].health = "unreadable"
  BY <1>6
<1> QED BY <1>0, <1>1, <1>6, <1>8, <1>10, <1>12, <1>13, <1>14, StepOfPublisher DEF OperationOk

LEMMA FillGenerationInv ==
    ASSUME DatabaseInv, NEW p \in DbProcs, FillGeneration(p)
    PROVE  DatabaseInv'
<1>0. /\ proc \in [DbProcs -> Operation] /\ gens \in [Stamps -> Generation]
      /\ writer \in [Stamps -> DbProcs \cup {Nobody}] /\ current \in 0..MaxStamp
      /\ acked \subseteq CurrentRows \cup Elsewhere /\ mutex = p /\ proc[p] \in Operation
      /\ TransactionOk(p, proc[p]) /\ PublicationOk(p, proc[p]) /\ proc[p].pc = "fill"
  BY PublisherFacts DEF FillGeneration, Publishing
<1>1. UNCHANGED <<current, mutex, writer, acked, forfeited, stray>>
  BY DEF FillGeneration, Ghosts
<1>2. PICK g \in Stamps : g = proc[p].handle
  BY <1>0 DEF PublicationOk
<1>3. g > current
  BY <1>0, <1>2 DEF PublicationOk
<1>4. PICK d \in Generation : d = [gens[g] EXCEPT !.stage = "filled", !.rows = proc[p].fill]
                              /\ d.stage = "filled" /\ d.rows = proc[p].fill
  <2>1. proc[p].fill \subseteq Rows /\ gens[g] \in Generation
    BY <1>0 DEF Operation
  <2>2. PICK x \in Generation : x = gens[g]
    BY <2>1
  <2>3. PICK y \in Generation : y = [x EXCEPT !.stage = "filled"] /\ y.stage = "filled"
    BY FilledGeneration
  <2>4. /\ [y EXCEPT !.rows = proc[p].fill] \in Generation
        /\ [y EXCEPT !.rows = proc[p].fill].stage = "filled"
        /\ [y EXCEPT !.rows = proc[p].fill].rows = proc[p].fill
    <3>1. proc[p].fill \in SUBSET Rows
      BY <2>1
    <3>2. PICK f \in SUBSET Rows : f = proc[p].fill
      BY <3>1
    <3>3. [y EXCEPT !.rows = f] \in Generation /\ [y EXCEPT !.rows = f].rows = f
          /\ [y EXCEPT !.rows = f].stage = y.stage
      BY GenerationRows
    <3> QED BY <2>3, <3>2, <3>3
  <2> QED BY <2>2, <2>3, <2>4
<1>5. /\ gens' = [gens EXCEPT ![g] = d] /\ gens' \in [Stamps -> Generation]
      /\ \A x \in Stamps : x <= current => gens'[x] = gens[x]
  <2>1. gens' = [gens EXCEPT ![g] = d]
    <3>1. gens' = [gens EXCEPT ![g].stage = "filled", ![g].rows = proc[p].fill]
      BY <1>2 DEF FillGeneration
    <3> QED BY <1>0, <1>4, <3>1
  <2>2. \A x \in Stamps : x <= current => x # g
    BY <1>0, <1>3, StateAssumption DEF Stamps
  <2> QED BY <1>0, <2>1, <2>2
<1>6. PICK o : o = [proc[p] EXCEPT !.pc = "point"]
  OBVIOUS
<1>7. /\ o \in Operation /\ o.pc = "point" /\ o.handle = g /\ o.target = proc[p].target
      /\ o.fill = proc[p].fill /\ proc' = [proc EXCEPT ![p] = o]
  BY <1>0, <1>2, <1>6 DEF Operation, Places, Publishing, FillGeneration, Goes
<1>8. current # 0 => current \in Stamps /\ current <= current
  BY <1>0, StateAssumption DEF Stamps
<1>9. CurrentIsComplete' /\ CurrentRows' = CurrentRows /\ Elsewhere' = Elsewhere
  BY <1>1, <1>5, <1>8 DEF DatabaseInv, CurrentIsComplete, CurrentRows, Elsewhere
<1>10. o.target # 0 => o.target \in Stamps /\ gens'[o.target] = gens[o.target]
  BY <1>0, <1>5, <1>7, <1>8 DEF PublicationOk, Publishing
<1>11. TransactionOk(p, o)'
  BY <1>0, <1>1, <1>7 DEF TransactionOk
<1>12. PublicationOk(p, o)'
  <2>1. gens'[g].stage = "filled" /\ gens'[g].rows = o.fill
    BY <1>0, <1>4, <1>5, <1>7
  <2> QED BY <1>0, <1>1, <1>3, <1>7, <1>9, <1>10, <2>1 DEF PublicationOk, Publishing, Copying, Fenced
<1>13. \A x \in Stamps : x <= current /\ gens[x].health = "unreadable" => gens'[x].health = "unreadable"
  BY <1>5
<1> QED BY <1>0, <1>1, <1>5, <1>7, <1>9, <1>11, <1>12, <1>13, StepOfPublisher DEF OperationOk

\* The new generation has what CURRENT's had, or what was dropped from it has been reported.
LEMMA PublishPointerInv ==
    ASSUME DatabaseInv, NEW p \in DbProcs, PublishPointer(p)
    PROVE  DatabaseInv'
<1>0. /\ proc \in [DbProcs -> Operation] /\ gens \in [Stamps -> Generation]
      /\ writer \in [Stamps -> DbProcs \cup {Nobody}] /\ current \in 0..MaxStamp
      /\ acked \subseteq CurrentRows \cup Elsewhere /\ mutex = p /\ proc[p] \in Operation
      /\ TransactionOk(p, proc[p]) /\ PublicationOk(p, proc[p]) /\ proc[p].pc = "point"
  BY PublisherFacts DEF PublishPointer, Publishing
<1>1. UNCHANGED <<gens, mutex, writer, acked, forfeited, stray>>
  BY DEF PublishPointer, Ghosts
<1>2. PICK g \in Stamps : g = proc[p].handle
  BY <1>0 DEF PublicationOk
<1>3. /\ g > current /\ current' = g /\ gens[g].stage = "filled" /\ gens[g].rows = proc[p].fill
      /\ current = proc[p].target /\ (current # 0 => Fenced(p, current))
      /\ (current # 0 => gens[current].rows \subseteq proc[p].fill \cup Elsewhere)
  BY <1>0, <1>2 DEF PublicationOk, PublishPointer, Publishing, Copying
<1>4. g # 0 /\ g \in Nat /\ g \in 0..MaxStamp
  BY StateAssumption DEF Stamps
<1>5. PICK o : o = [proc[p] EXCEPT !.pc = "clean"]
  OBVIOUS
<1>6. /\ o \in Operation /\ o.pc = "clean" /\ o.handle = g /\ proc' = [proc EXCEPT ![p] = o]
  BY <1>0, <1>2, <1>5 DEF Operation, Places, Publishing, PublishPointer, Goes
<1>7. CurrentIsComplete' /\ CurrentRows' = proc[p].fill /\ Elsewhere' = Elsewhere
  BY <1>1, <1>3, <1>4 DEF CurrentIsComplete, CurrentRows, Elsewhere
<1>8. acked \subseteq (CurrentRows \cup Elsewhere)'
  <2>1. CurrentRows \subseteq proc[p].fill \cup Elsewhere
    BY <1>3 DEF CurrentRows
  <2> QED BY <1>0, <1>7, <2>1
<1>9. TransactionOk(p, o)'
  BY <1>3, <1>4, <1>6 DEF TransactionOk
<1>10. PublicationOk(p, o)'
  BY <1>0, <1>1, <1>3, <1>6 DEF PublicationOk, Publishing, Copying
<1> QED BY <1>0, <1>1, <1>3, <1>6, <1>7, <1>8, <1>9, <1>10, StepOfPublisher DEF OperationOk

\* Retention keeps what was just published.
LEMMA CleanupGenerationsInv ==
    ASSUME DatabaseInv, NEW p \in DbProcs, CleanupGenerations(p)
    PROVE  DatabaseInv'
<1>0. /\ proc \in [DbProcs -> Operation] /\ gens \in [Stamps -> Generation]
      /\ writer \in [Stamps -> DbProcs \cup {Nobody}] /\ current \in 0..MaxStamp
      /\ acked \subseteq CurrentRows \cup Elsewhere /\ mutex = p /\ proc[p] \in Operation
      /\ TransactionOk(p, proc[p]) /\ PublicationOk(p, proc[p]) /\ proc[p].pc = "clean"
  BY PublisherFacts DEF CleanupGenerations, Publishing
<1>1. UNCHANGED <<current, acked, forfeited, stray>> /\ mutex' = Nobody /\ writer' = Unlocked(p)
  BY DEF CleanupGenerations, Ghosts
<1>2. current = proc[p].handle /\ current \in Stamps /\ current # 0
  BY <1>0, StateAssumption DEF PublicationOk, Stamps
<1>3. gens' = [g \in Stamps |-> IF g \in Kept(current) THEN gens[g]
                                ELSE [NoGen EXCEPT !.health = gens[g].health]]
  BY <1>2 DEF CleanupGenerations
<1>4. \A g \in Stamps : /\ [NoGen EXCEPT !.health = gens[g].health] \in Generation
                        /\ [NoGen EXCEPT !.health = gens[g].health].health = gens[g].health
  BY <1>0 DEF NoGen, Generation
<1>5. current \in Kept(current)
  BY <1>2 DEF Kept, Existing, DatabaseInv, CurrentIsComplete
<1>6. /\ gens' \in [Stamps -> Generation] /\ gens'[current] = gens[current]
      /\ \A g \in Stamps : gens'[g].health = gens[g].health
  BY <1>0, <1>2, <1>3, <1>4, <1>5
<1>7. CurrentIsComplete' /\ acked \subseteq (CurrentRows \cup Elsewhere)'
  BY <1>0, <1>1, <1>2, <1>6 DEF DatabaseInv, CurrentIsComplete, CurrentRows, Elsewhere
<1>8. PICK o \in Operation : proc' = [proc EXCEPT ![p] = o] /\ o.pc \in {"idle", "find"} /\ o.target = 0
  <2>1. CASE proc[p].target = 0
    <3>1. PICK c : c = [proc[p] EXCEPT !.handle = 0, !.fill = {}]
      OBVIOUS
    <3>2. c \in Operation /\ c.target = 0
      BY <1>0, <2>1, <3>1, ZeroStamp DEF Operation
    <3>3. proc' = [proc EXCEPT ![p] = [c EXCEPT !.pc = "find"]]
      BY <2>1, <3>1 DEF CleanupGenerations, Goes
    <3>4. [c EXCEPT !.pc = "find"] \in Operation /\ [c EXCEPT !.pc = "find"].pc = "find"
          /\ [c EXCEPT !.pc = "find"].target = 0
      BY <3>2 DEF Operation, Places
    <3> QED BY <3>3, <3>4
  <2>2. CASE proc[p].target # 0
    <3>1. proc' = [proc EXCEPT ![p] = Idle(0)]
      BY <2>2 DEF CleanupGenerations, Ends
    <3>2. Idle(0) \in Operation /\ Idle(0).pc = "idle" /\ Idle(0).target = 0
      BY ZeroStamp, EndedOk DEF Idle
    <3> QED BY <3>1, <3>2
  <2> QED BY <2>1, <2>2
<1>9. OperationOk(p, o)'
  BY <1>1, <1>8, StateAssumption DEF OperationOk, TransactionOk, PublicationOk, Publishing, Copying
<1>10. \A g \in Stamps : g <= current /\ gens[g].health = "unreadable" => gens'[g].health = "unreadable"
  BY <1>6
<1> QED BY <1>0, <1>1, <1>6, <1>7, <1>8, <1>9, <1>10, StepOfPublisher, UnlockedType

-----------------------------------------------------------------------------
(* What changes a generation's rows or health outside of a publication.    *)

\* A step that leaves the stages alone, adds rows only at or below CURRENT's stamp and heals
\* nothing does not disturb an operation that keeps its locks.
LEMMA StillOk ==
    ASSUME DatabaseInv, NEW q \in DbProcs, NEW c \in Operation, OperationOk(q, c),
           UNCHANGED <<current, mutex, forfeited>>, stray \subseteq stray',
           \A g \in Stamps : /\ writer[g] = q => writer'[g] = q
                             /\ gens'[g].stage = gens[g].stage
                             /\ gens[g].health = "unreadable" => gens'[g].health = "unreadable"
                             /\ g > current => gens'[g].rows = gens[g].rows
                             /\ gens'[g].rows \subseteq gens[g].rows \cup stray'
                                  \/ gens'[g].rows = gens[g].rows \/ ~ Fenced(q, g)
    PROVE  OperationOk(q, c)'
<1>1. c.target # 0 => c.target \in Stamps
  BY StateAssumption DEF Operation, Stamps
<1>2. Elsewhere \subseteq Elsewhere' /\ stray' \subseteq Elsewhere'
  BY DEF Elsewhere
<1>3. c.target # 0 /\ Fenced(q, c.target) => Fenced(q, c.target)'
  BY <1>1 DEF Fenced
<1>4. TransactionOk(q, c)'
  BY DEF OperationOk, TransactionOk
<1>5. ASSUME c.pc \in Copying, c.target # 0
      PROVE  gens'[c.target].rows \subseteq c.fill \cup Elsewhere'
  <2>1. Fenced(q, c.target) /\ gens[c.target].rows \subseteq c.fill \cup Elsewhere
    BY <1>5 DEF OperationOk, PublicationOk, Copying
  <2> QED BY <1>1, <1>2, <1>5, <2>1
<1>6. PublicationOk(q, c)'
  BY <1>3, <1>5 DEF OperationOk, PublicationOk
<1> QED BY <1>4, <1>6 DEF OperationOk

LEMMA CommitRowInv ==
    ASSUME DatabaseInv, NEW p \in DbProcs, CommitRow(p)
    PROVE  DatabaseInv'
<1>0. /\ proc \in [DbProcs -> Operation] /\ gens \in [Stamps -> Generation]
      /\ writer \in [Stamps -> DbProcs \cup {Nobody}] /\ current \in 0..MaxStamp
      /\ acked \subseteq CurrentRows \cup Elsewhere /\ acked \subseteq Rows
      /\ proc[p].pc = "commit" /\ mutex # p
  BY DEF DatabaseInv, DatabaseTypeOK, CommitRow, OperationOk, PublicationOk, Publishing
<1>1. PICK g \in Stamps : g = proc[p].handle
  BY <1>0 DEF DatabaseInv, OperationOk, TransactionOk
<1>2. /\ writer[g] = p /\ g <= current /\ g \in 0..MaxStamp
      /\ g = current \/ gens[g].health = "unreadable"
  BY <1>0, <1>1, StateAssumption DEF DatabaseInv, OperationOk, TransactionOk, Stamps
<1>3. PICK new \in SUBSET Rows : new = proc[p].row
  BY <1>0 DEF Operation
<1>4. /\ gens' = [gens EXCEPT ![g].rows = @ \cup new] /\ acked' = acked \cup new
      /\ stray' = (IF gens[g].health = "unreadable" THEN stray \cup new ELSE stray)
      /\ proc' = [proc EXCEPT ![p] = Idle(g)] /\ writer' = Unlocked(p)
      /\ UNCHANGED <<current, mutex, forfeited>>
  BY <1>1, <1>3 DEF CommitRow, Ends
<1>5. PICK d \in Generation : /\ d = [gens[g] EXCEPT !.rows = gens[g].rows \cup new]
                              /\ d.stage = gens[g].stage /\ d.health = gens[g].health
                              /\ d.rows = gens[g].rows \cup new
  <2>1. gens[g] \in Generation /\ gens[g].rows \cup new \in SUBSET Rows
    BY <1>0 DEF Generation
  <2>2. PICK x \in Generation, r \in SUBSET Rows : x = gens[g] /\ r = gens[g].rows \cup new
    BY <2>1
  <2>3. /\ [x EXCEPT !.rows = r] \in Generation /\ [x EXCEPT !.rows = r].rows = r
        /\ [x EXCEPT !.rows = r].stage = x.stage /\ [x EXCEPT !.rows = r].health = x.health
    BY GenerationRows
  <2> QED BY <2>2, <2>3
<1>6. gens' = [gens EXCEPT ![g] = d] /\ gens' \in [Stamps -> Generation]
  BY <1>0, <1>4, <1>5
<1>7. /\ writer' \in [Stamps -> DbProcs \cup {Nobody}]
      /\ \A q \in DbProcs \ {p}, x \in Stamps : writer[x] = q => writer'[x] = q
  BY <1>4, UnlockedType
<1>8. CurrentIsComplete'
  <2>1. \A x \in Stamps : gens'[x].stage = gens[x].stage
    BY <1>0, <1>5, <1>6
  <2>2. current # 0 => current \in Stamps
    BY <1>0, StateAssumption DEF Stamps
  <2> QED BY <1>4, <2>1, <2>2 DEF DatabaseInv, CurrentIsComplete
<1>9. acked' \subseteq (CurrentRows \cup Elsewhere)'
  <2>1. Elsewhere \subseteq Elsewhere' /\ (gens[g].health = "unreadable" => new \subseteq Elsewhere')
    BY <1>4 DEF Elsewhere
  <2>2. CurrentRows \subseteq CurrentRows'
    <3>1. \A x \in Stamps : gens[x].rows \subseteq gens'[x].rows
      BY <1>0, <1>5, <1>6
    <3>2. current # 0 => current \in Stamps
      BY <1>0, StateAssumption DEF Stamps
    <3> QED BY <1>4, <3>1, <3>2 DEF CurrentRows
  <2>3. g = current => new \subseteq CurrentRows'
    <3>1. g # 0
      BY StateAssumption DEF Stamps
    <3> QED BY <1>0, <1>4, <1>5, <1>6, <3>1 DEF CurrentRows
  <2> QED BY <1>0, <1>2, <1>4, <2>1, <2>2, <2>3
<1>10. ASSUME NEW q \in DbProcs PROVE OperationOk(q, proc[q])'
  <2>1. CASE q = p
    <3>1. mutex' # p /\ proc'[p] = Idle(g)
      BY <1>0, <1>4
    <3> QED BY <1>2, <2>1, <3>1, EndedOk
  <2>2. CASE q # p
    <3>1. PICK c \in Operation : c = proc[q]
      BY <1>0
    <3>2. proc'[q] = c /\ OperationOk(q, c)
      BY <1>0, <1>4, <2>2, <3>1 DEF DatabaseInv
    <3>3. stray \subseteq stray'
      BY <1>4
    <3>4. ASSUME NEW x \in Stamps
          PROVE  /\ writer[x] = q => writer'[x] = q
                 /\ gens'[x].stage = gens[x].stage
                 /\ gens[x].health = "unreadable" => gens'[x].health = "unreadable"
                 /\ x > current => gens'[x].rows = gens[x].rows
                 /\ gens'[x].rows \subseteq gens[x].rows \cup stray'
                      \/ gens'[x].rows = gens[x].rows \/ ~ Fenced(q, x)
      <4>1. CASE x # g
        BY <1>0, <1>6, <1>7, <2>2, <4>1
      <4>2. CASE x = g
        <5>1. ~ (x > current)
          BY <1>0, <1>2, <4>2, StateAssumption DEF Stamps
        <5>2. gens[g].health = "unreadable" => new \subseteq stray'
          BY <1>4
        <5>3. gens[g].health # "unreadable" => ~ Fenced(q, g)
          BY <1>2, <2>2 DEF Fenced
        <5> QED BY <1>0, <1>5, <1>6, <1>7, <2>2, <4>2, <5>1, <5>2, <5>3
      <4> QED BY <4>1, <4>2
    <3>5. OperationOk(q, c)'
      BY <1>4, <3>2, <3>3, <3>4, StillOk
    <3> QED BY <3>2, <3>5
  <2> QED BY <2>1, <2>2
<1>11. Idle(g) \in Operation
  BY <1>2, EndedOk
<1>12. DatabaseTypeOK'
  BY <1>0, <1>4, <1>6, <1>7, <1>11 DEF DatabaseTypeOK
<1> QED BY <1>8, <1>9, <1>10, <1>12 DEF DatabaseInv

LEMMA CorruptInv ==
    ASSUME DatabaseInv, NEW g \in Stamps, NEW how \in {"damaged", "unreadable"}, Corrupt(g, how)
    PROVE  DatabaseInv'
<1>0. /\ proc \in [DbProcs -> Operation] /\ gens \in [Stamps -> Generation] /\ current \in 0..MaxStamp
      /\ UNCHANGED <<current, mutex, writer, proc, acked, forfeited, stray>>
      /\ gens' = [gens EXCEPT ![g].health = how] /\ gens[g].health = "ok"
  BY DEF DatabaseInv, DatabaseTypeOK, Corrupt, Ghosts
<1>1. PICK d \in Generation : /\ d = [gens[g] EXCEPT !.health = how]
                              /\ d.stage = gens[g].stage /\ d.rows = gens[g].rows
  <2>1. gens[g] \in Generation
    BY <1>0
  <2> QED BY <2>1, GenerationHealth
<1>2. gens' = [gens EXCEPT ![g] = d] /\ gens' \in [Stamps -> Generation]
  BY <1>0, <1>1
<1>3. \A x \in Stamps : /\ gens'[x].stage = gens[x].stage /\ gens'[x].rows = gens[x].rows
                        /\ gens[x].health = "unreadable" => gens'[x].health = "unreadable"
  BY <1>0, <1>1, <1>2
<1>4. current # 0 => current \in Stamps
  BY <1>0, StateAssumption DEF Stamps
<1>5. DatabaseTypeOK' /\ CurrentIsComplete' /\ acked' \subseteq (CurrentRows \cup Elsewhere)'
  BY <1>0, <1>2, <1>3, <1>4 DEF DatabaseInv, DatabaseTypeOK, CurrentIsComplete, CurrentRows, Elsewhere
<1>6. ASSUME NEW q \in DbProcs PROVE OperationOk(q, proc[q])'
  <2>1. PICK c \in Operation : c = proc[q]
    BY <1>0
  <2>2. proc'[q] = c /\ OperationOk(q, c)
    BY <1>0, <2>1 DEF DatabaseInv
  <2>3. OperationOk(q, c)'
    BY <1>0, <1>3, <2>2, StillOk
  <2> QED BY <2>2, <2>3
<1> QED BY <1>5, <1>6 DEF DatabaseInv

-----------------------------------------------------------------------------
(* The theorems.                                                           *)

LEMMA DatabaseStep == DatabaseInv /\ [StateNext]_stateVars => DatabaseInv'
<1> SUFFICES ASSUME DatabaseInv, [StateNext]_stateVars PROVE DatabaseInv'
  OBVIOUS
<1>1. CASE UNCHANGED stateVars
  BY <1>1 DEF stateVars, DatabaseInv, DatabaseTypeOK, CurrentIsComplete, CurrentRows, Elsewhere,
              OperationOk, TransactionOk, PublicationOk, Fenced
<1>2. ASSUME NEW p \in DbProcs, NEW r \in Rows, StartTransact(p, r) PROVE DatabaseInv'
  BY <1>2, StartTransactInv
<1>3. ASSUME NEW p \in DbProcs,
             FindGeneration(p) \/ OpenGeneration(p) \/ BeginImmediate(p) \/ BeginFails(p)
             \/ CheckCurrent(p) \/ CommitRow(p) \/ CommitFails(p)
      PROVE DatabaseInv'
  BY <1>3, FindGenerationInv, OpenGenerationInv, BeginImmediateInv, BeginFailsInv, CheckCurrentInv,
     CommitRowInv, CommitFailsInv
<1>4. ASSUME NEW p \in DbProcs, ReadOnly(p) \/ ReadOnlyBody(p) \/ StartReset(p) PROVE DatabaseInv'
  BY <1>4, ReadOnlyInv, ReadOnlyBodyInv, StartResetInv
<1>5. ASSUME NEW p \in DbProcs,
             TakeToCreate(p) \/ TakeToReset(p) \/ LockExclusive(p) \/ Salvage(p)
             \/ MakeDirectory(p) \/ FillGeneration(p) \/ PublishPointer(p) \/ CleanupGenerations(p)
      PROVE DatabaseInv'
  BY <1>5, TakeToCreateInv, TakeToResetInv, LockExclusiveInv, SalvageInv, MakeDirectoryInv,
     FillGenerationInv, PublishPointerInv, CleanupGenerationsInv
<1>6. ASSUME NEW p \in DbProcs, PublishFails(p) \/ CrashDb(p) PROVE DatabaseInv'
  BY <1>6, PublishFailsInv, CrashDbInv
<1>7. ASSUME NEW g \in Stamps, NEW how \in {"damaged", "unreadable"}, Corrupt(g, how) PROVE DatabaseInv'
  BY <1>7, CorruptInv
<1> QED BY <1>1, <1>2, <1>3, <1>4, <1>5, <1>6, <1>7 DEF StateNext

\* What every operation relies on at every one of its steps, through creations, resets,
\* crashes and damage: the publish mutex has one holder, what is being copied is fenced off
\* from writers, and a transaction commits into CURRENT's generation
\* (representative-db.ts:373-389 and 616-619).
THEOREM DatabaseIsInductive == StateSpec => []DatabaseInv
BY DatabaseInitially, DatabaseStep, PTL DEF StateSpec

\* Nothing that transact returned for is lost without a reset saying so
\* (representative-db.ts:373-389), for any number of processes and generations.
THEOREM CommitsAreKept == StateSpec => []NoLostCommit
<1>1. DatabaseInv => NoLostCommit
  BY DEF DatabaseInv, NoLostCommit, CurrentRows, Elsewhere
<1> QED BY <1>1, DatabaseIsInductive, PTL

\* CURRENT names a complete generation through every crash and clock
\* (representative-db.ts:465-470).
THEOREM CurrentStaysComplete == StateSpec => []CurrentIsComplete
<1>1. DatabaseInv => CurrentIsComplete
  BY DEF DatabaseInv
<1> QED BY <1>1, DatabaseIsInductive, PTL

-----------------------------------------------------------------------------
(* The push engine.                                                         *)

\* A page is read from behind where discovery has got to, as long as the wake state has not
\* been discarded since; it ends within the log, and once merged discovery is past it.
PageBehind(s) ==
    /\ s.sep <= doc.epoch /\ s.ep <= doc.epoch
    /\ s.at <= Len(log) /\ s.cur <= Len(log)
    /\ s.up = "persist" => s.at + s.count <= Len(log)
    /\ s.scan \in {"merge", "tick", "paged"} => s.cur + s.n <= Len(log)
    /\ s.scan \in {"read", "merge"} /\ s.sep = doc.epoch => s.cur <= ScanFrom
    /\ s.scan \in {"tick", "paged"} /\ s.sep = doc.epoch => s.cur + s.n <= ScanFrom

\* Discovery passes no direct reply without a wake record, and none is for what was delivered.
FoundKept == \A e \in Entries : Direct(e) /\ e > checkpoint /\ e <= doc.frontier => e \in Known
OnlyUndelivered == \A e \in Known : Direct(e) /\ e > checkpoint

\* The inductive invariant of discovery, for any number of listeners.
DiscoveryInv ==
    /\ TypeOK
    /\ doc.frontier <= Len(log) /\ checkpoint <= Len(log) /\ doc.epoch <= faults
    /\ FoundKept /\ OnlyUndelivered
    /\ \A p \in Engines : PageBehind(engine[p])

-----------------------------------------------------------------------------
\* What the constants are.
LEMMA Numbers == /\ Page \in Nat \ {0} /\ Captures \in Nat \ {0} /\ MaxLog \in Nat /\ MaxFaults \in Nat
                 /\ None \notin Engines /\ None \notin Nat
                 /\ Debounce \in 1 .. Horizon /\ RefusalWait \in 1 .. Horizon /\ AckDeadline \in 1 .. Horizon
                 /\ Rewake \in 1 .. Horizon /\ Horizon \in Nat \ {0}
                 /\ Posted \subseteq {"direct", "other"}
BY PushAssumption, WaitAssumption

\* A listener that is down.
LEMMA DownState == Down \in EngineState
BY Numbers DEF Down, EngineState, Points

\* The start: no document, no listener.
LEMMA DiscoveryInitially == Init => DiscoveryInv
<1> SUFFICES ASSUME Init PROVE DiscoveryInv
  OBVIOUS
<1>1. emptyDocument \in Document
  BY Numbers DEF emptyDocument, Document, Points, Instants, Far
<1>2. TypeOK
  <2>1. log \in Seq({"direct", "other"}) /\ Len(log) <= MaxLog /\ checkpoint \in Points /\ cohortEnd \in Points
        /\ bound \in BOOLEAN /\ faults \in 0 .. MaxFaults /\ asker \in Engines \cup {None}
    BY Numbers DEF Init, Points
  <2>2. next \in [Entries -> Instants \cup {None}] /\ quiet \in [Entries -> 0 .. Rewake]
    BY Numbers DEF Init
  <2> QED BY <1>1, <2>1, <2>2, DownState DEF Init, TypeOK
<1>3. PageBehind(Down)
  BY DEF Init, PageBehind, Down, emptyDocument
<1>4. FoundKept /\ OnlyUndelivered
  BY DEF Init, FoundKept, OnlyUndelivered, Direct, Known, Entries
<1> QED BY <1>2, <1>3, <1>4 DEF Init, DiscoveryInv, emptyDocument

\* What a step that finds and delivers nothing leaves true, whatever it does to the schedules.
LEMMA CalmStep ==
    ASSUME DiscoveryInv, log' = log, checkpoint' = checkpoint, TypeOK',
           faults <= faults', doc'.frontier = doc.frontier, doc'.epoch = doc.epoch,
           Known' = Known, \A p \in Engines : PageBehind(engine'[p])
    PROVE  DiscoveryInv'
<1>1. faults \in Nat /\ faults' \in Nat /\ doc.epoch \in Nat /\ doc.epoch <= faults
  BY Numbers DEF DiscoveryInv, TypeOK, Document
<1>2. doc'.epoch <= faults'
  BY <1>1
<1>3. ScanFrom' = ScanFrom
  BY DEF ScanFrom
<1>4. \A p \in Engines : PageBehind(engine[p])'
  BY <1>3 DEF PageBehind
<1>5. FoundKept' /\ OnlyUndelivered'
  BY DEF DiscoveryInv, FoundKept, OnlyUndelivered, Direct
<1> QED BY <1>2, <1>4, <1>5 DEF DiscoveryInv

\* The same for a step of one engine, which becomes s.
LEMMA CalmEngine ==
    ASSUME DiscoveryInv, NEW p \in Engines, NEW s \in EngineState, PageBehind(s), Set(p, s)
    PROVE  /\ engine' \in [Engines -> EngineState]
           /\ \A q \in Engines : PageBehind(engine'[q])
<1>1. engine \in [Engines -> EngineState]
  BY DEF DiscoveryInv, TypeOK
<1>2. engine' \in [Engines -> EngineState]
  BY <1>1 DEF Set
<1>3. \A q \in Engines : engine'[q] = IF q = p THEN s ELSE engine[q]
  BY <1>1 DEF Set
<1> QED BY <1>2, <1>3 DEF DiscoveryInv

\* A step that moves one listener alone.
LEMMA CalmEngineOnly ==
    ASSUME DiscoveryInv, NEW p \in Engines, NEW s \in EngineState, PageBehind(s), Set(p, s),
           UNCHANGED <<log, bound, checkpoint, next, doc, asker, faults, quiet, cohortEnd>>
    PROVE  DiscoveryInv'
<1>1. /\ engine' \in [Engines -> EngineState]
      /\ \A q \in Engines : PageBehind(engine'[q])
  BY CalmEngine
<1>2. TypeOK' /\ Known' = Known /\ faults <= faults'
  BY <1>1, Numbers DEF DiscoveryInv, TypeOK, Known
<1> QED BY <1>1, <1>2, CalmStep

\* The engine of an index, and what it says of the log.
LEMMA EngineFacts ==
    ASSUME DiscoveryInv, NEW p \in Engines
    PROVE  /\ engine[p] \in EngineState /\ PageBehind(engine[p])
           /\ Len(log) \in 0 .. MaxLog /\ checkpoint \in Nat /\ doc \in Document
           /\ doc.frontier \in Nat /\ doc.epoch \in 0 .. MaxFaults
           /\ ScanFrom \in Nat /\ ScanFrom <= Len(log)
           /\ checkpoint <= ScanFrom /\ doc.frontier <= ScanFrom
<1>1. engine[p] \in EngineState /\ PageBehind(engine[p]) /\ doc \in Document
  BY DEF DiscoveryInv, TypeOK
<1>2. Len(log) \in 0 .. MaxLog /\ checkpoint \in Nat /\ doc.frontier \in Nat /\ doc.epoch \in 0 .. MaxFaults
  BY Numbers DEF DiscoveryInv, TypeOK, Document, Points
<1>3. doc.frontier <= Len(log) /\ checkpoint <= Len(log)
  BY DEF DiscoveryInv
<1> QED BY <1>1, <1>2, <1>3 DEF ScanFrom, later

-----------------------------------------------------------------------------
\* A listener starts.
LEMMA StartCalm ==
    ASSUME DiscoveryInv, NEW p \in Engines, Start(p)
    PROVE  DiscoveryInv'
<1> DEFINE s == [Down EXCEPT !.up = "start"]
<1>1. s \in EngineState
  BY DownState DEF EngineState, Down
<1>2. PageBehind(s)
  BY EngineFacts DEF PageBehind, Down
<1> QED BY <1>1, <1>2, CalmEngineOnly DEF Start

\* A cohort captured, in memory.
LEMMA CapturedState ==
    ASSUME DiscoveryInv, NEW p \in Engines
    PROVE  Captured \in EngineState /\ PageBehind(Captured)
<1>1. Captured = [up |-> "up", tries |-> 0, at |-> 0, ep |-> 0, count |-> 0,
         scan |-> "begin", rescan |-> FALSE, cur |-> 0, sep |-> 0, n |-> 0,
         more |-> FALSE, emitting |-> {}, timer |-> None, resched |-> TRUE]
  BY DEF Captured, discover, Down
<1>2. Captured \in EngineState
  BY <1>1, Numbers DEF EngineState, Points
<1> QED BY <1>1, <1>2, EngineFacts DEF PageBehind

\* Its steps up to the scan, and the scan itself, each with its guards and faults.
LEMMA CaptureCalm ==
    ASSUME DiscoveryInv, NEW p \in Engines, captureCohort(p)
    PROVE  DiscoveryInv'
<1>1. CASE doc.open
  BY <1>1, CapturedState, CalmEngineOnly DEF captureCohort
<1>2. CASE ~ doc.open
  <2> DEFINE s == [engine[p] EXCEPT !.up = "probe", !.at = ScanFrom, !.ep = doc.epoch]
  <2>1. engine[p] \in EngineState /\ ScanFrom \in Points /\ doc.epoch \in 0 .. MaxFaults
    BY EngineFacts, Numbers DEF Points
  <2>2. s \in EngineState
    BY <2>1 DEF EngineState
  <2>3. PageBehind(s)
    BY <2>1, EngineFacts DEF PageBehind, EngineState
  <2> QED BY <1>2, <2>2, <2>3, CalmEngineOnly DEF captureCohort
<1> QED BY <1>1, <1>2

LEMMA ProbeCalm ==
    ASSUME DiscoveryInv, NEW p \in Engines, CaptureProbe(p)
    PROVE  DiscoveryInv'
<1> DEFINE s(c) == [engine[p] EXCEPT !.up = "persist", !.count = c]
<1>1. PICK c \in {Len(log) - engine[p].at, 0} : Set(p, s(c))
  BY DEF CaptureProbe
<1>2. engine[p] \in EngineState /\ engine[p].at \in Nat /\ engine[p].at <= Len(log)
  BY EngineFacts DEF PageBehind, EngineState, Points
<1>3. c \in Points /\ engine[p].at + c <= Len(log)
  <2>1. Len(log) \in Nat /\ Len(log) <= MaxLog /\ c \in {Len(log) - engine[p].at, 0}
    BY EngineFacts, Numbers
  <2>2. c \in 0 .. Len(log) /\ engine[p].at + c <= Len(log)
    BY <1>2, <2>1
  <2> QED BY <2>1, <2>2, Numbers DEF Points
<1>4. s(c) \in EngineState
  BY <1>2, <1>3 DEF EngineState
<1>5. PageBehind(s(c))
  BY <1>2, <1>3, EngineFacts DEF PageBehind, EngineState
<1> QED BY <1>1, <1>4, <1>5, CalmEngineOnly DEF CaptureProbe

LEMMA TriggerCalm ==
    ASSUME DiscoveryInv, NEW p \in Engines, Trigger(p)
    PROVE  DiscoveryInv'
<1>1. engine[p] \in EngineState /\ PageBehind(engine[p])
  BY EngineFacts
<1>2. discover(engine[p]) \in EngineState
  BY <1>1 DEF discover, EngineState
<1>3. PageBehind(discover(engine[p]))
  BY <1>1 DEF PageBehind, discover, EngineState
<1> QED BY <1>2, <1>3, CalmEngineOnly DEF Trigger

LEMMA ScanOnceCalm ==
    ASSUME DiscoveryInv, NEW p \in Engines, scanOnce(p)
    PROVE  DiscoveryInv'
<1> DEFINE s == [engine[p] EXCEPT !.scan = "read", !.cur = ScanFrom, !.sep = doc.epoch]
<1>1. engine[p] \in EngineState /\ ScanFrom \in Points /\ doc.epoch \in 0 .. MaxFaults
  BY EngineFacts, Numbers DEF Points
<1>2. s \in EngineState
  BY <1>1 DEF EngineState
<1>3. PageBehind(s)
  BY <1>1, EngineFacts DEF PageBehind, EngineState
<1> QED BY <1>2, <1>3, CalmEngineOnly DEF scanOnce

LEMMA ReadCalm ==
    ASSUME DiscoveryInv, NEW p \in Engines, readAfter(p)
    PROVE  DiscoveryInv'
<1> DEFINE n == earlier(Page, Len(log) - engine[p].cur)
           s == [engine[p] EXCEPT !.scan = "merge", !.n = n, !.more = Len(log) > engine[p].cur + n]
<1>1. engine[p] \in EngineState /\ engine[p].cur \in Nat /\ engine[p].cur <= Len(log) /\ Len(log) \in Nat
  BY EngineFacts DEF PageBehind, EngineState, Points
<1>2. n \in 0 .. Page /\ engine[p].cur + n <= Len(log)
  BY <1>1, Numbers DEF earlier
<1>3. s \in EngineState
  <2> HIDE DEF n
  <2>1. (Len(log) > engine[p].cur + n) \in BOOLEAN
    OBVIOUS
  <2> QED BY <1>1, <1>2, <2>1 DEF EngineState
<1>4. PageBehind(s)
  <2> HIDE DEF n
  <2> QED BY <1>1, <1>2, EngineFacts DEF PageBehind, EngineState, readAfter
<1> QED BY <1>3, <1>4, CalmEngineOnly DEF readAfter

\* A listener whose page was dropped.
LEMMA NoPageState ==
    ASSUME NEW s \in EngineState
    PROVE  /\ NoPage(s) \in EngineState
           /\ NoPage(s).sep = 0 /\ NoPage(s).cur = 0 /\ NoPage(s).n = 0 /\ NoPage(s).more = FALSE
           /\ NoPage(s).up = s.up /\ NoPage(s).ep = s.ep /\ NoPage(s).at = s.at /\ NoPage(s).count = s.count
<1>1. 0 \in Points /\ 0 \in 0 .. MaxFaults /\ 0 \in 0 .. Page
  BY Numbers DEF Points
<1>2. NoPage(s) \in EngineState
  BY <1>1 DEF NoPage, EngineState
<1> QED BY <1>2 DEF NoPage, EngineState

LEMMA ScanNextCalm ==
    ASSUME DiscoveryInv, NEW p \in Engines, ScanNext(p)
    PROVE  DiscoveryInv'
<1>1. engine[p] \in EngineState /\ engine[p].cur \in Nat /\ engine[p].n \in Nat /\ engine[p].scan = "paged"
      /\ engine[p].cur + engine[p].n <= Len(log) /\ Len(log) \in 0 .. MaxLog
      /\ (engine[p].sep = doc.epoch => engine[p].cur + engine[p].n <= ScanFrom)
  BY EngineFacts DEF PageBehind, EngineState, Points, ScanNext
<1>2. CASE engine[p].more /\ engine[p].n > 0
  <2> DEFINE s == [engine[p] EXCEPT !.scan = "read", !.cur = engine[p].cur + engine[p].n]
  <2>1. engine[p].cur + engine[p].n \in Points
    BY <1>1, Numbers DEF Points
  <2>2. s \in EngineState
    BY <1>1, <2>1 DEF EngineState
  <2>3. PageBehind(s)
    BY <1>1, EngineFacts DEF PageBehind, EngineState
  <2> QED BY <1>2, <2>2, <2>3, CalmEngineOnly DEF ScanNext
<1>3. CASE ~ (engine[p].more /\ engine[p].n > 0) /\ engine[p].rescan
  <2> DEFINE s == [NoPage(engine[p]) EXCEPT !.scan = "begin", !.rescan = FALSE]
  <2>1. s \in EngineState
    BY <1>1, NoPageState DEF EngineState
  <2>2. PageBehind(s)
    <3>1. /\ s.sep = 0 /\ s.cur = 0 /\ s.scan = "begin" /\ s.up = engine[p].up
          /\ s.ep = engine[p].ep /\ s.at = engine[p].at /\ s.count = engine[p].count
      BY <1>1, NoPageState DEF EngineState
    <3> HIDE DEF s
    <3> QED BY <3>1, EngineFacts DEF PageBehind
  <2> QED BY <1>3, <2>1, <2>2, CalmEngineOnly DEF ScanNext
<1>4. CASE ~ (engine[p].more /\ engine[p].n > 0) /\ ~ engine[p].rescan
  <2> DEFINE s == [NoPage(engine[p]) EXCEPT !.scan = "idle", !.resched = TRUE]
  <2>1. s \in EngineState
    BY <1>1, NoPageState DEF EngineState
  <2>2. PageBehind(s)
    <3>1. /\ s.sep = 0 /\ s.cur = 0 /\ s.scan = "idle" /\ s.up = engine[p].up
          /\ s.ep = engine[p].ep /\ s.at = engine[p].at /\ s.count = engine[p].count
      BY <1>1, NoPageState DEF EngineState
    <3> HIDE DEF s
    <3> QED BY <3>1, EngineFacts DEF PageBehind
  <2> QED BY <1>4, <2>1, <2>2, CalmEngineOnly DEF ScanNext
<1> QED BY <1>2, <1>3, <1>4

LEMMA EmitCalm ==
    ASSUME DiscoveryInv, NEW p \in Engines, Emit(p)
    PROVE  DiscoveryInv'
<1> DEFINE s == [engine[p] EXCEPT !.emitting = {}]
<1>1. s \in EngineState
  BY EngineFacts DEF EngineState
<1>2. PageBehind(s)
  BY EngineFacts DEF PageBehind, EngineState
<1> QED BY <1>1, <1>2, CalmEngineOnly DEF Emit

-----------------------------------------------------------------------------
(* The scheduler.                                                          *)

\* The instants of the wake document.
LEMMA InstantFacts ==
    /\ 0 \in Instants /\ Far \in Instants /\ Instants \subseteq Nat /\ None \notin Instants
    /\ {Debounce, RefusalWait, AckDeadline, Rewake} \subseteq Instants
    /\ 0 .. Horizon \subseteq Instants
    /\ \A t \in Instants : clamp(t) \in 0 .. Horizon /\ clamp(t) \in Instants /\ Past(t) \in Instants
BY Numbers DEF Instants, Far, clamp, earlier, Past

\* What the scheduler leaves of the wake document.
SameScan(d) == /\ d.frontier = doc.frontier /\ d.epoch = doc.epoch
               /\ d.open = doc.open /\ d.remaining = doc.remaining

\* Clamping, clearing and expiring a wake document leave what discovery reads.
LEMMA ClampedDocument ==
    ASSUME doc \in Document
    PROVE  Clamped(doc) \in Document /\ SameScan(Clamped(doc))
<1>1. /\ clamp(doc.deadline) \in Instants /\ clamp(doc.retry) \in Instants
      /\ (IF doc.debounce = None THEN None ELSE clamp(doc.debounce)) \in Instants \cup {None}
  BY InstantFacts DEF Document
<1>2. Clamped(doc) \in Document
  BY <1>1 DEF Clamped, Document
<1> QED BY <1>2 DEF Clamped, Document, SameScan

LEMMA ExpiredDocument ==
    ASSUME NEW d \in Document, SameScan(d)
    PROVE  /\ Cleared(d) \in Document /\ SameScan(Cleared(d))
           /\ Expired(d) \in Document /\ SameScan(Expired(d))
<1>1. Cleared(d) \in Document
  BY InstantFacts DEF Cleared, Document
<1>2. SameScan(Cleared(d))
  BY <1>1 DEF Cleared, Document, SameScan
<1> QED BY <1>1, <1>2 DEF Expired

\* A schedule has the same replies as before.
LEMMA SameSchedule ==
    ASSUME TypeOK, NEW due, due \subseteq Known
    PROVE  /\ Scheduled(due) \in [Entries -> Instants \cup {None}]
           /\ \A e \in Entries : Scheduled(due)[e] # None <=> e \in Known
<1>1. \A e \in Known : next[e] \in Instants /\ clamp(next[e]) \in Instants
  BY InstantFacts DEF TypeOK, Known
<1> QED BY <1>1, InstantFacts DEF Scheduled

\* Records are known by their time.
LEMMA SameKnown ==
    ASSUME \A e \in Entries : next'[e] # None <=> e \in Known
    PROVE  Known' = Known
BY DEF Known

\* What tick and ack do to all that discovery does not depend on.
SchedulerStep ==
    /\ doc' \in Document /\ SameScan(doc')
    /\ next' \in [Entries -> Instants \cup {None}] /\ Known' = Known
    /\ quiet' \in [Entries -> 0 .. Rewake] /\ asker' \in Engines \cup {None}

\* A step of the scheduler keeps discovery's invariant.
LEMMA SchedulerCalm ==
    ASSUME DiscoveryInv, NEW p \in Engines, NEW s \in EngineState, PageBehind(s), Set(p, s),
           SchedulerStep, UNCHANGED <<log, bound, checkpoint, faults, cohortEnd>>
    PROVE  DiscoveryInv'
<1>1. /\ engine' \in [Engines -> EngineState]
      /\ \A q \in Engines : PageBehind(engine'[q])
  BY CalmEngine
<1>2. TypeOK' /\ faults <= faults'
  BY <1>1, Numbers DEF DiscoveryInv, TypeOK, SchedulerStep
<1> QED BY <1>1, <1>2, CalmStep DEF SchedulerStep, SameScan

\* A tick, an acknowledgement, the clock and time's passing are such steps.
LEMMA TickSchedules ==
    ASSUME DiscoveryInv, NEW p \in Engines, NEW s, tick(p, s)
    PROVE  /\ SchedulerStep
           /\ \E due \in SUBSET Known : Set(p, [s EXCEPT !.emitting = due])
<1> DEFINE d == Expired(Clamped(doc))
           due == IF Blocked(d) THEN {} ELSE Due
           out == [d EXCEPT !.out = due, !.deadline = AckDeadline, !.debounce = None]
<1>0. TypeOK /\ doc \in Document
  BY DEF DiscoveryInv, TypeOK
<1>1. d \in Document /\ SameScan(d)
  BY <1>0, ClampedDocument, ExpiredDocument
<1>2. due \subseteq Known /\ due \subseteq Entries
  BY DEF Due, Known
<1>3. /\ next' = Scheduled(due) /\ doc' = (IF due = {} THEN d ELSE out)
      /\ asker' = (IF due # {} THEN p ELSE IF d.out = {} THEN None ELSE asker)
      /\ quiet' = [e \in Entries |-> IF e \in due THEN Rewake ELSE quiet[e]]
      /\ Set(p, [s EXCEPT !.emitting = due])
  BY DEF tick
<1> HIDE DEF d, due
<1>4. out \in Document /\ SameScan(out)
  <2>1. out \in Document
    BY <1>1, <1>2, InstantFacts DEF Document
  <2>2. out.frontier = d.frontier /\ out.epoch = d.epoch /\ out.open = d.open /\ out.remaining = d.remaining
    BY <1>1 DEF Document
  <2> QED BY <1>1, <2>1, <2>2 DEF SameScan
<1>5. doc' \in Document /\ SameScan(doc')
  BY <1>1, <1>3, <1>4
<1>6. next' \in [Entries -> Instants \cup {None}] /\ Known' = Known
  BY <1>0, <1>2, <1>3, SameSchedule, SameKnown
<1>7. quiet' \in [Entries -> 0 .. Rewake] /\ asker' \in Engines \cup {None}
  <2>1. Rewake \in 0 .. Rewake
    BY Numbers
  <2> QED BY <1>0, <1>3, <2>1 DEF TypeOK
<1> QED BY <1>2, <1>3, <1>5, <1>6, <1>7 DEF SchedulerStep

LEMMA TickCalm ==
    ASSUME DiscoveryInv, NEW p \in Engines, NEW s \in EngineState, PageBehind(s), tick(p, s)
    PROVE  DiscoveryInv'
<1>1. PICK due \in SUBSET Known : Set(p, [s EXCEPT !.emitting = due])
  BY TickSchedules
<1>2. [s EXCEPT !.emitting = due] \in EngineState
  BY DEF EngineState, Known
<1>3. PageBehind([s EXCEPT !.emitting = due])
  BY DEF PageBehind, EngineState
<1> QED BY <1>1, <1>2, <1>3, TickSchedules, SchedulerCalm DEF tick

LEMMA PageTickCalm ==
    ASSUME DiscoveryInv, NEW p \in Engines, PageTick(p)
    PROVE  DiscoveryInv'
<1> DEFINE s == [engine[p] EXCEPT !.scan = "paged"]
<1>1. s \in EngineState
  BY EngineFacts DEF EngineState
<1>2. PageBehind(s)
  BY EngineFacts DEF PageBehind, EngineState, PageTick
<1> QED BY <1>1, <1>2, TickCalm DEF PageTick

LEMMA TimerTickCalm ==
    ASSUME DiscoveryInv, NEW p \in Engines, TimerTick(p)
    PROVE  DiscoveryInv'
<1> DEFINE s == [engine[p] EXCEPT !.timer = None, !.resched = TRUE]
<1>1. s \in EngineState
  BY EngineFacts DEF EngineState
<1>2. PageBehind(s)
  BY EngineFacts DEF PageBehind, EngineState
<1> QED BY <1>1, <1>2, TickCalm DEF TimerTick

LEMMA AckSchedules ==
    ASSUME DiscoveryInv, NEW p \in Engines, NEW matches \in BOOLEAN, NEW accepted \in BOOLEAN,
           ack(p, matches, accepted)
    PROVE  SchedulerStep
<1> DEFINE late == doc.out # {} /\ doc.deadline = 0
           refused == ~ late /\ matches /\ ~ accepted
           back(t) == [Cleared(doc) EXCEPT !.retry = t]
<1>0. TypeOK /\ doc \in Document /\ SameScan(doc)
  BY DEF DiscoveryInv, TypeOK, SameScan
<1>1. Cleared(doc) \in Document /\ SameScan(Cleared(doc))
  BY <1>0, ExpiredDocument
<1>2. \A t \in Instants : back(t) \in Document /\ SameScan(back(t))
  <2> SUFFICES ASSUME NEW t \in Instants PROVE back(t) \in Document /\ SameScan(back(t))
    OBVIOUS
  <2>1. back(t) \in Document
    BY <1>1 DEF Document
  <2>2. /\ back(t).frontier = Cleared(doc).frontier /\ back(t).epoch = Cleared(doc).epoch
        /\ back(t).open = Cleared(doc).open /\ back(t).remaining = Cleared(doc).remaining
    BY <1>1 DEF Document
  <2> QED BY <1>1, <2>1, <2>2 DEF SameScan
<1>3. /\ doc' = (IF refused THEN back(RefusalWait) ELSE IF late THEN Cleared(doc) ELSE back(0))
      /\ next' = [e \in Entries |-> IF refused /\ e \in doc.out \cap Known THEN RefusalWait ELSE next[e]]
      /\ quiet' = [e \in Entries |-> IF refused /\ e \in doc.out THEN 0 ELSE quiet[e]]
      /\ asker' = None
  BY DEF ack
<1> HIDE DEF back, refused, late
<1>4. doc' \in Document /\ SameScan(doc')
  BY <1>1, <1>2, <1>3, InstantFacts
<1>5. next' \in [Entries -> Instants \cup {None}]
  BY <1>0, <1>3, InstantFacts DEF TypeOK
<1>6. \A e \in Entries : next'[e] # None <=> e \in Known
  BY <1>3, InstantFacts DEF Known
<1>7. quiet' \in [Entries -> 0 .. Rewake]
  <2>1. 0 \in 0 .. Rewake
    BY Numbers
  <2> QED BY <1>0, <1>3, <2>1 DEF TypeOK
<1> QED BY <1>3, <1>4, <1>5, <1>6, <1>7, SameKnown DEF SchedulerStep

LEMMA AckCalm ==
    ASSUME DiscoveryInv, NEW p \in Engines, NEW matches \in BOOLEAN, NEW accepted \in BOOLEAN,
           ack(p, matches, accepted)
    PROVE  DiscoveryInv'
<1> DEFINE s == [engine[p] EXCEPT !.resched = TRUE]
<1>1. s \in EngineState
  BY EngineFacts DEF EngineState
<1>2. PageBehind(s)
  BY EngineFacts DEF PageBehind, EngineState
<1>3. Set(p, s) /\ UNCHANGED <<log, bound, checkpoint, faults, cohortEnd>>
  BY DEF ack
<1> QED BY <1>1, <1>2, <1>3, AckSchedules, SchedulerCalm

\* The schedule has an earliest instant.
LEMMA EarliestExists ==
    ASSUME TypeOK, Known # {}
    PROVE  EarliestDue \in Instants
<1> DEFINE T == {next[e] : e \in Known}
<1>1. T \subseteq Instants
  BY DEF TypeOK, Known
<1>2. T \subseteq Nat /\ T # {}
  BY <1>1, InstantFacts
<1>3. PICK x \in T : \A y \in T : ~ (<<y, x>> \in OpToRel(<, Nat))
  <2> HIDE DEF T
  <2> QED BY <1>2, WFMin, NatLessThanWellFounded, Zenon
<1>4. \A y \in T : ~ (y < x)
  BY <1>2, <1>3 DEF OpToRel
<1>5. x \in Instants /\ \E e \in Known : next[e] = x
  BY <1>1
<1>6. \A e \in Known : next[e] \in T
  OBVIOUS
<1>7. \A e \in Known : x <= next[e]
  <2> SUFFICES ASSUME NEW e \in Known PROVE x <= next[e]
    OBVIOUS
  <2>1. next[e] \in T
    BY <1>6
  <2> HIDE DEF T
  <2>2. ~ (next[e] < x) /\ next[e] \in Nat /\ x \in Nat
    BY <1>2, <1>4, <1>5, <2>1, InstantFacts
  <2> QED BY <2>2
<1> QED BY <1>5, <1>7 DEF EarliestDue

LEMMA RescheduleCalm ==
    ASSUME DiscoveryInv, NEW p \in Engines, reschedule(p)
    PROVE  DiscoveryInv'
<1> DEFINE s == [engine[p] EXCEPT !.timer = nextDueAt, !.resched = FALSE]
<1>1. nextDueAt \in (0 .. Horizon) \cup {None}
  <2>0. TypeOK /\ doc \in Document
    BY DEF DiscoveryInv, TypeOK
  <2>1. clamp(doc.deadline) \in 0 .. Horizon /\ clamp(doc.retry) \in 0 .. Horizon
        /\ (doc.debounce # None => clamp(doc.debounce) \in 0 .. Horizon)
    BY <2>0, InstantFacts DEF Document
  <2>2. Known # {} => clamp(EarliestDue) \in 0 .. Horizon
    BY <2>0, EarliestExists, InstantFacts
  <2> QED BY <2>1, <2>2 DEF nextDueAt, later
<1>2. s \in EngineState
  <2> HIDE DEF nextDueAt
  <2> QED BY <1>1, EngineFacts DEF EngineState
<1>3. PageBehind(s)
  BY EngineFacts DEF PageBehind, EngineState
<1> QED BY <1>2, <1>3, CalmEngineOnly DEF reschedule

-----------------------------------------------------------------------------
(* The environment.                                                        *)

\* An engine ends.
LEMMA DownCalm ==
    ASSUME DiscoveryInv, NEW p \in Engines, Stop(p) \/ Rebound(p)
    PROVE  DiscoveryInv'
<1>1. PageBehind(Down)
  BY EngineFacts DEF PageBehind, Down
<1>2. Set(p, Down) /\ UNCHANGED <<log, bound, checkpoint, next, doc, quiet, cohortEnd>>
      /\ asker' \in {asker, None} /\ (UNCHANGED faults \/ Fault)
  BY DEF Stop, Rebound
<1>3. /\ engine' \in [Engines -> EngineState]
      /\ \A q \in Engines : PageBehind(engine'[q])
  BY <1>1, <1>2, DownState, CalmEngine
<1>4. faults' \in 0 .. MaxFaults /\ faults <= faults'
  BY <1>2, Numbers DEF Fault, DiscoveryInv, TypeOK
<1>5. TypeOK' /\ Known' = Known
  BY <1>2, <1>3, <1>4 DEF DiscoveryInv, TypeOK, Known
<1> QED BY <1>2, <1>3, <1>4, <1>5, CalmStep

\* A fault is counted.
LEMMA FaultCounts ==
    ASSUME DiscoveryInv, Fault
    PROVE  faults' \in 0 .. MaxFaults /\ faults' = faults + 1 /\ faults <= faults' /\ faults \in Nat
BY Numbers DEF Fault, DiscoveryInv, TypeOK

LEMMA ClockSchedules ==
    ASSUME DiscoveryInv, ClockBack
    PROVE  SchedulerStep
<1> DEFINE d == [doc EXCEPT !.deadline = IF doc.out # {} THEN Far ELSE 0,
                            !.retry = IF doc.retry > 0 THEN Far ELSE 0,
                            !.debounce = IF doc.debounce = None THEN None ELSE Far]
<1>1. doc \in Document /\ TypeOK
  BY DEF DiscoveryInv, TypeOK
<1>2. d \in Document
  BY <1>1, InstantFacts DEF Document
<1>3. SameScan(d)
  BY <1>1 DEF Document, SameScan
<1>4. next' \in [Entries -> Instants \cup {None}]
  BY InstantFacts DEF ClockBack
<1>5. \A e \in Entries : next'[e] # None <=> e \in Known
  BY InstantFacts DEF ClockBack, Known
<1> QED BY <1>1, <1>2, <1>3, <1>4, <1>5, SameKnown DEF ClockBack, SchedulerStep, TypeOK

LEMMA ClockBackCalm ==
    ASSUME DiscoveryInv, ClockBack
    PROVE  DiscoveryInv'
<1>1. SchedulerStep /\ faults' \in 0 .. MaxFaults /\ faults <= faults'
  BY ClockSchedules, FaultCounts DEF ClockBack
<1>2. TypeOK'
  BY <1>1 DEF ClockBack, DiscoveryInv, TypeOK, SchedulerStep
<1>3. \A p \in Engines : PageBehind(engine'[p])
  BY DEF ClockBack, DiscoveryInv
<1> QED BY <1>1, <1>2, <1>3, CalmStep DEF ClockBack, SchedulerStep, SameScan

LEMMA SaveBindingCalm ==
    ASSUME DiscoveryInv, saveBinding
    PROVE  DiscoveryInv'
<1>1. faults' \in 0 .. MaxFaults /\ faults <= faults'
  BY FaultCounts DEF saveBinding
<1>2. TypeOK' /\ Known' = Known
  BY <1>1 DEF saveBinding, DiscoveryInv, TypeOK, Known
<1>3. \A p \in Engines : PageBehind(engine'[p])
  BY DEF saveBinding, DiscoveryInv
<1> QED BY <1>1, <1>2, <1>3, CalmStep DEF saveBinding

LEMMA TimeSchedules ==
    ASSUME DiscoveryInv, Tick
    PROVE  SchedulerStep
<1> DEFINE d == [doc EXCEPT !.deadline = Past(doc.deadline), !.retry = Past(doc.retry),
                            !.debounce = IF doc.debounce = None THEN None ELSE Past(doc.debounce)]
<1>1. doc \in Document /\ TypeOK
  BY DEF DiscoveryInv, TypeOK
<1>2. /\ Past(doc.deadline) \in Instants /\ Past(doc.retry) \in Instants
      /\ (IF doc.debounce = None THEN None ELSE Past(doc.debounce)) \in Instants \cup {None}
  BY <1>1, InstantFacts DEF Document
<1>3. d \in Document
  BY <1>1, <1>2 DEF Document
<1>4. SameScan(d)
  BY <1>1 DEF Document, SameScan
<1>5. \A e \in Known : Past(next[e]) \in Instants
  BY <1>1, InstantFacts DEF TypeOK, Known
<1>6. next' \in [Entries -> Instants \cup {None}]
  BY <1>5, InstantFacts DEF Tick
<1>7. \A e \in Entries : next'[e] # None <=> e \in Known
  BY <1>5, InstantFacts DEF Tick, Known
<1>8. quiet' \in [Entries -> 0 .. Rewake]
  <2>1. \A t \in 0 .. Rewake : Past(t) \in 0 .. Rewake
    BY Numbers DEF Past
  <2> QED BY <1>1, <2>1 DEF Tick, TypeOK
<1> QED BY <1>1, <1>3, <1>4, <1>6, <1>7, <1>8, SameKnown DEF Tick, SchedulerStep, TypeOK

\* Time changes nothing of an engine but its timer.
LEMMA TimePassesForEngines ==
    ASSUME DiscoveryInv, Tick, NEW p \in Engines
    PROVE  /\ engine'[p] \in EngineState
           /\ \/ engine'[p] = engine[p]
              \/ \E t : engine'[p] = [engine[p] EXCEPT !.timer = t]
<1>1. engine[p] \in EngineState
  BY EngineFacts
<1>2. engine'[p] = IF engine[p].timer = None THEN engine[p]
                   ELSE [engine[p] EXCEPT !.timer = Past(engine[p].timer)]
  BY DEF Tick
<1>3. engine[p].timer # None => Past(engine[p].timer) \in 0 .. Horizon
  BY <1>1, Numbers DEF EngineState, Past
<1> QED BY <1>1, <1>2, <1>3 DEF EngineState

LEMMA TimeCalm ==
    ASSUME DiscoveryInv, Tick
    PROVE  DiscoveryInv'
<1>1. SchedulerStep
  BY TimeSchedules
<1>2. \A p \in Engines : PageBehind(engine'[p])
  <2> SUFFICES ASSUME NEW p \in Engines PROVE PageBehind(engine'[p])
    OBVIOUS
  <2>1. CASE engine'[p] = engine[p]
    BY <2>1, EngineFacts
  <2>2. CASE \E t : engine'[p] = [engine[p] EXCEPT !.timer = t]
    BY <2>2, EngineFacts DEF PageBehind, EngineState
  <2> QED BY <2>1, <2>2, TimePassesForEngines
<1>3. engine' \in [Engines -> EngineState]
  BY TimePassesForEngines DEF Tick
<1>4. TypeOK' /\ faults <= faults'
  BY <1>1, <1>3, Numbers DEF Tick, DiscoveryInv, TypeOK, SchedulerStep
<1> QED BY <1>1, <1>2, <1>4, CalmStep DEF Tick, SchedulerStep, SameScan

-----------------------------------------------------------------------------
(* The steps of discovery.                                                 *)

\* The capture written down: the cohort ends at the log's end, discovery stays.
LEMMA PersistFacts ==
    ASSUME DiscoveryInv, NEW p \in Engines, CapturePersist(p)
    PROVE  /\ \E s \in EngineState : PageBehind(s) /\ Set(p, s)
           /\ doc' \in Document /\ doc'.frontier = doc.frontier /\ doc'.epoch = doc.epoch
           /\ cohortEnd' \in Points
<1> DEFINE s == engine[p]
           t == [s EXCEPT !.up = "start", !.tries = s.tries + 1]
           d == [doc EXCEPT !.remaining = s.count, !.open = s.count > 0]
<1>1. /\ s \in EngineState /\ PageBehind(s) /\ doc \in Document /\ cohortEnd \in Points
      /\ s.up = "persist"
  BY EngineFacts DEF DiscoveryInv, TypeOK, CapturePersist
<1>2. s.count \in Points /\ s.at + s.count \in Points /\ s.tries \in 0 .. Captures
  <2>1. s.count \in Nat /\ s.at \in Nat /\ s.count \in Points /\ s.tries \in 0 .. Captures
    BY <1>1 DEF EngineState, Points
  <2>2. s.at + s.count <= Len(log) /\ Len(log) \in 0 .. MaxLog
    BY <1>1, EngineFacts DEF PageBehind
  <2> QED BY <2>1, <2>2, Numbers DEF Points
<1>3. s.tries + 1 < Captures => t \in EngineState /\ PageBehind(t)
  <2> SUFFICES ASSUME s.tries + 1 < Captures PROVE t \in EngineState /\ PageBehind(t)
    OBVIOUS
  <2>1. s.tries + 1 \in 0 .. Captures
    BY <1>2, Numbers
  <2>2. t \in EngineState
    BY <1>1, <2>1 DEF EngineState
  <2> QED BY <1>1, <2>2 DEF PageBehind, EngineState
<1>4. d \in Document /\ d.frontier = doc.frontier /\ d.epoch = doc.epoch
  <2>1. (s.count > 0) \in BOOLEAN
    OBVIOUS
  <2> HIDE DEF s
  <2> QED BY <1>1, <1>2, <2>1 DEF Document
<1>5. Captured \in EngineState /\ PageBehind(Captured)
  BY CapturedState
<1>6. \E x \in EngineState : PageBehind(x) /\ Set(p, x)
  BY <1>3, <1>5 DEF CapturePersist
<1>7. \/ doc' = doc /\ cohortEnd' = cohortEnd
      \/ doc' = d /\ cohortEnd' = s.at + s.count
  BY DEF CapturePersist
<1> QED BY <1>1, <1>2, <1>4, <1>6, <1>7

LEMMA PersistCalm ==
    ASSUME DiscoveryInv, NEW p \in Engines, CapturePersist(p)
    PROVE  DiscoveryInv'
<1>1. PICK s \in EngineState : PageBehind(s) /\ Set(p, s)
  BY PersistFacts
<1>2. /\ engine' \in [Engines -> EngineState]
      /\ \A q \in Engines : PageBehind(engine'[q])
  BY <1>1, CalmEngine
<1>3. UNCHANGED <<log, bound, checkpoint, next, asker, faults, quiet>>
  BY DEF CapturePersist
<1>4. TypeOK' /\ Known' = Known /\ faults <= faults'
  BY <1>2, <1>3, PersistFacts, Numbers DEF DiscoveryInv, TypeOK, Known
<1> QED BY <1>2, <1>3, <1>4, PersistFacts, CalmStep

\* What a page leaves of the wake document.
LEMMA MergedDocument ==
    ASSUME NEW s \in EngineState, doc \in Document, doc.frontier \in Nat, s.cur + s.n \in Points
    PROVE  /\ MergedDoc(s) \in Document
           /\ MergedDoc(s).frontier = later(doc.frontier, s.cur + s.n)
           /\ MergedDoc(s).epoch = doc.epoch
<1> DEFINE left == IF doc.remaining >= s.n THEN doc.remaining - s.n ELSE 0
           rem == IF doc.open THEN left ELSE doc.remaining
           front == later(doc.frontier, s.cur + s.n)
           d == [doc EXCEPT !.frontier = front, !.remaining = rem]
           closed == [d EXCEPT !.open = FALSE, !.debounce = None]
           waits == [d EXCEPT !.debounce = Debounce]
<1>1. rem \in Points /\ front \in Points
  <2>1. doc.remaining \in Points /\ s.n \in Nat /\ doc.frontier \in Points
    BY DEF Document, EngineState
  <2> QED BY <2>1, Numbers DEF Points, later
<1>2. MergedDoc(s) \in {d, closed, waits}
  BY DEF MergedDoc
<1> HIDE DEF rem, front
<1>3. d \in Document /\ d.frontier = front /\ d.epoch = doc.epoch
  BY <1>1 DEF Document
<1> HIDE DEF d
<1>4. /\ closed \in Document /\ closed.frontier = front /\ closed.epoch = doc.epoch
      /\ waits \in Document /\ waits.frontier = front /\ waits.epoch = doc.epoch
  BY <1>3, InstantFacts DEF Document
<1> QED BY <1>2, <1>3, <1>4 DEF front

\* The merge of a page: it moves the frontier over what it records.
LEMMA MergeInv ==
    ASSUME DiscoveryInv, NEW p \in Engines, merge(p)
    PROVE  DiscoveryInv'
<1> DEFINE s == engine[p]
<1>1. /\ s \in EngineState /\ PageBehind(s) /\ doc \in Document /\ TypeOK /\ s.scan = "merge"
      /\ Len(log) \in 0 .. MaxLog /\ MaxLog \in Nat
  BY EngineFacts, Numbers DEF DiscoveryInv, TypeOK, merge
<1>2. CASE ~ SameEpoch(s)
  <2> DEFINE x == [NoPage(s) EXCEPT !.scan = "begin", !.rescan = FALSE]
  <2>1. x \in EngineState
    BY <1>1, NoPageState DEF EngineState
  <2>2. PageBehind(x)
    <3>1. /\ x.sep = 0 /\ x.cur = 0 /\ x.scan = "begin" /\ x.up = s.up
          /\ x.ep = s.ep /\ x.at = s.at /\ x.count = s.count
      BY <1>1, NoPageState DEF EngineState
    <3> HIDE DEF x
    <3> QED BY <3>1, EngineFacts DEF PageBehind
  <2> QED BY <1>2, <2>1, <2>2, CalmEngineOnly DEF merge
<1>3. CASE SameEpoch(s)
  <2> DEFINE x == [s EXCEPT !.scan = "tick"]
             end == s.cur + s.n
  <2>1. s.cur \in Nat /\ s.n \in Nat /\ end \in Points /\ end <= Len(log) /\ s.cur <= ScanFrom
    BY <1>1, <1>3, EngineFacts DEF PageBehind, EngineState, Points, SameEpoch
  <2>2. /\ doc' \in Document /\ doc'.frontier = later(doc.frontier, end) /\ doc'.epoch = doc.epoch
    BY <1>1, <1>3, <2>1, EngineFacts, MergedDocument DEF merge
  <2>3. /\ Set(p, x) /\ UNCHANGED <<log, bound, checkpoint, asker, faults, quiet, cohortEnd>>
        /\ next' = [e \in Entries |-> IF e <= checkpoint THEN None
                                      ELSE IF e \in Inserted(s) THEN 0 ELSE next[e]]
    BY <1>3 DEF merge
  <2>4. x \in EngineState /\ engine' \in [Engines -> EngineState]
        /\ \A q \in Engines : engine'[q] = IF q = p THEN x ELSE engine[q]
    BY <1>1, <2>3 DEF EngineState, Set, TypeOK
  <2>5. next' \in [Entries -> Instants \cup {None}]
    BY <1>1, <2>3, InstantFacts DEF TypeOK
  <2>6. TypeOK'
    BY <1>1, <2>2, <2>3, <2>4, <2>5 DEF TypeOK
  <2>7. /\ doc.frontier <= doc'.frontier /\ end <= doc'.frontier /\ doc'.frontier <= Len(log)
        /\ doc'.frontier \in {doc.frontier, end}
    BY <2>1, <2>2, EngineFacts DEF later, DiscoveryInv
  <2>8. ScanFrom <= ScanFrom' /\ end <= ScanFrom' /\ ScanFrom \in Nat /\ ScanFrom' \in Nat
    BY <2>1, <2>3, <2>7, EngineFacts DEF ScanFrom, later
  <2>9. \A e \in Entries : e \in Known' <=> e > checkpoint /\ (e \in Inserted(s) \/ e \in Known)
    <3> SUFFICES ASSUME NEW e \in Entries
                 PROVE  e \in Known' <=> e > checkpoint /\ (e \in Inserted(s) \/ e \in Known)
      OBVIOUS
    <3>1. e \in Nat /\ checkpoint \in Nat
      BY <1>1, EngineFacts DEF Entries
    <3> QED BY <2>3, <3>1, InstantFacts DEF Known
  <2>10. FoundKept'
    <3> SUFFICES ASSUME NEW e \in Entries, Direct(e), e > checkpoint, e <= doc'.frontier
                 PROVE  e \in Known'
      BY <2>3 DEF FoundKept, Direct
    <3>1. e \in Nat /\ checkpoint \in Nat /\ doc.frontier \in Nat
      BY EngineFacts DEF Entries
    <3>2. CASE e <= doc.frontier
      BY <2>9, <3>2 DEF DiscoveryInv, FoundKept
    <3>3. CASE ~ (e <= doc.frontier)
      <4>1. e <= end /\ e > s.cur
        BY <2>1, <2>7, <3>1, <3>3, EngineFacts DEF ScanFrom, later
      <4>2. e \in Found(s)
        BY <2>1, <3>1, <4>1 DEF Found
      <4> QED BY <2>9, <4>2 DEF Inserted
    <3> QED BY <3>2, <3>3
  <2>11. OnlyUndelivered'
    <3> SUFFICES ASSUME NEW e \in Known' PROVE Direct(e) /\ e > checkpoint
      BY <2>3 DEF OnlyUndelivered, Direct
    <3>1. e \in Entries
      BY DEF Known
    <3>2. e > checkpoint /\ (e \in Inserted(s) \/ e \in Known)
      BY <2>9, <3>1
    <3> QED BY <3>2 DEF Inserted, Found, DiscoveryInv, OnlyUndelivered
  <2>12. \A q \in Engines : PageBehind(engine[q])'
    <3> SUFFICES ASSUME NEW q \in Engines PROVE PageBehind(engine[q])'
      OBVIOUS
    <3>1. CASE q = p
      <4>1. /\ x.sep = s.sep /\ x.ep = s.ep /\ x.at = s.at /\ x.cur = s.cur /\ x.n = s.n
            /\ x.up = s.up /\ x.count = s.count /\ x.scan = "tick"
        BY <1>1 DEF EngineState
      <4> HIDE DEF x
      <4> QED BY <1>1, <2>1, <2>2, <2>3, <2>4, <2>8, <3>1, <4>1 DEF PageBehind
    <3>2. CASE q # p
      <4>1. engine'[q] = engine[q] /\ PageBehind(engine[q]) /\ engine[q].cur \in Nat /\ engine[q].n \in Nat
        <5>1. engine[q] \in EngineState /\ PageBehind(engine[q])
          BY EngineFacts
        <5> QED BY <2>4, <3>2, <5>1 DEF EngineState, Points
      <4> QED BY <2>2, <2>3, <2>8, <4>1 DEF PageBehind
    <3> QED BY <3>1, <3>2
  <2>13. doc'.frontier <= Len(log') /\ checkpoint' <= Len(log') /\ doc'.epoch <= faults'
    BY <2>2, <2>3, <2>7 DEF DiscoveryInv
  <2> QED BY <2>6, <2>10, <2>11, <2>12, <2>13 DEF DiscoveryInv
<1> QED BY <1>2, <1>3

\* A wake state discarded as invalid starts over, in a new epoch.
LEMMA DiscardInv ==
    ASSUME DiscoveryInv, discardInvalidWakeState
    PROVE  DiscoveryInv'
<1>1. TypeOK /\ doc.epoch \in 0 .. MaxFaults /\ doc.epoch <= faults /\ checkpoint \in Points
      /\ checkpoint <= Len(log) /\ checkpoint \in Nat
  BY Numbers DEF DiscoveryInv, TypeOK, Document, Points
<1>2. faults' \in 0 .. MaxFaults /\ faults' = faults + 1 /\ faults \in Nat
  BY FaultCounts DEF discardInvalidWakeState
<1>3. doc.epoch + 1 \in 0 .. MaxFaults /\ doc.epoch + 1 <= faults'
  BY <1>1, <1>2, Numbers
<1>4. doc' = [frontier |-> checkpoint, out |-> {}, deadline |-> 0, retry |-> 0,
              remaining |-> 0, open |-> FALSE, debounce |-> None, epoch |-> doc.epoch + 1]
  BY DEF discardInvalidWakeState, emptyDocument
<1>5. doc' \in Document /\ doc'.frontier = checkpoint /\ doc'.epoch = doc.epoch + 1
  BY <1>1, <1>3, <1>4, InstantFacts, Numbers DEF Document, Points
<1>6. TypeOK'
  <2>1. next' \in [Entries -> Instants \cup {None}] /\ quiet' \in [Entries -> 0 .. Rewake]
        /\ cohortEnd' \in Points /\ asker' \in Engines \cup {None}
    BY Numbers DEF discardInvalidWakeState, Points
  <2> QED BY <1>1, <1>2, <1>5, <2>1 DEF discardInvalidWakeState, TypeOK
<1>7. Known' = {}
  BY DEF discardInvalidWakeState, Known
<1>8. FoundKept' /\ OnlyUndelivered'
  <2>1. \A e \in Entries : ~ (e > checkpoint' /\ e <= doc'.frontier)
    BY <1>1, <1>5 DEF Entries, discardInvalidWakeState
  <2> QED BY <1>7, <2>1 DEF FoundKept, OnlyUndelivered
<1>9. \A p \in Engines : PageBehind(engine[p])'
  <2> SUFFICES ASSUME NEW p \in Engines PROVE PageBehind(engine[p])'
    OBVIOUS
  <2>1. /\ PageBehind(engine[p]) /\ engine[p].sep \in Nat /\ engine[p].ep \in Nat
        /\ engine'[p] = engine[p] /\ log' = log
    BY EngineFacts DEF EngineState, discardInvalidWakeState
  <2>2. /\ engine[p].sep <= doc.epoch + 1 /\ engine[p].ep <= doc.epoch + 1
        /\ engine[p].sep # doc.epoch + 1
    BY <1>1, <2>1 DEF PageBehind
  <2> QED BY <1>5, <2>1, <2>2 DEF PageBehind
<1> QED BY <1>1, <1>3, <1>5, <1>6, <1>8, <1>9 DEF DiscoveryInv, discardInvalidWakeState

\* A reply arrives at the end of the log.
LEMMA PostInv ==
    ASSUME DiscoveryInv, NEW kind \in Posted, Post(kind)
    PROVE  DiscoveryInv'
<1>1. TypeOK /\ log \in Seq({"direct", "other"}) /\ Len(log) \in Nat /\ kind \in {"direct", "other"}
      /\ doc.frontier \in Nat /\ checkpoint \in Nat /\ doc.frontier <= Len(log) /\ checkpoint <= Len(log)
  BY Numbers DEF DiscoveryInv, TypeOK, Document, Points
<1>2. /\ log' \in Seq({"direct", "other"}) /\ Len(log') = Len(log) + 1
      /\ \A i \in 1 .. Len(log) : log'[i] = log[i]
  BY <1>1 DEF Post
<1>3. TypeOK'
  BY <1>1, <1>2, Numbers DEF Post, TypeOK
<1>4. \A e \in Entries : e <= Len(log) => (Direct(e)' <=> Direct(e))
  BY <1>1, <1>2 DEF Direct, Entries
<1>5. Known' = Known /\ checkpoint' = checkpoint /\ doc' = doc /\ engine' = engine /\ faults' = faults
  BY DEF Post, Known
<1>6. FoundKept'
  <2> SUFFICES ASSUME NEW e \in Entries, Direct(e)', e > checkpoint, e <= doc.frontier
               PROVE  e \in Known
    BY <1>5 DEF FoundKept
  <2>1. e <= Len(log)
    BY <1>1 DEF Entries
  <2> QED BY <1>4, <2>1 DEF DiscoveryInv, FoundKept
<1>7. OnlyUndelivered'
  <2> SUFFICES ASSUME NEW e \in Known PROVE Direct(e)' /\ e > checkpoint
    BY <1>5 DEF OnlyUndelivered
  <2>1. e \in Entries /\ Direct(e) /\ e > checkpoint
    BY DEF Known, DiscoveryInv, OnlyUndelivered
  <2> QED BY <1>4, <2>1 DEF Direct
<1>8. \A p \in Engines : PageBehind(engine[p])'
  <2> SUFFICES ASSUME NEW p \in Engines PROVE PageBehind(engine[p])'
    OBVIOUS
  <2>1. /\ PageBehind(engine[p]) /\ engine[p].cur \in Nat /\ engine[p].n \in Nat
        /\ engine[p].at \in Nat /\ engine[p].count \in Nat
    BY EngineFacts DEF EngineState, Points
  <2>2. ScanFrom' = ScanFrom
    BY <1>5 DEF ScanFrom
  <2> QED BY <1>1, <1>2, <1>5, <2>1, <2>2 DEF PageBehind
<1> QED BY <1>1, <1>2, <1>3, <1>5, <1>6, <1>7, <1>8 DEF DiscoveryInv

\* A reply is delivered, and its record goes.
LEMMA AdvanceInv ==
    ASSUME DiscoveryInv, NEW e \in Entries, advanceCheckpoint(e)
    PROVE  DiscoveryInv'
<1>1. TypeOK /\ e \in Nat /\ e \in Points /\ e <= Len(log) /\ e > checkpoint /\ checkpoint \in Nat
      /\ doc.frontier \in Nat /\ Len(log) \in Nat
  <2>1. TypeOK /\ e <= Len(log) /\ e > checkpoint
    BY DEF DiscoveryInv, advanceCheckpoint, Direct
  <2>2. checkpoint \in Nat /\ doc.frontier \in Nat /\ Len(log) \in Nat
    BY <2>1, Numbers DEF TypeOK, Document, Points
  <2>3. e \in Nat /\ e \in Points
    BY Numbers DEF Entries, Points
  <2> QED BY <2>1, <2>2, <2>3
<1>2. /\ checkpoint' = e /\ next' = [f \in Entries |-> IF f <= e THEN None ELSE next[f]]
      /\ UNCHANGED <<log, bound, doc, asker, engine, faults, quiet, cohortEnd>>
  BY DEF advanceCheckpoint
<1>3. TypeOK'
  BY <1>1, <1>2 DEF TypeOK
<1>4. \A f \in Entries : f \in Known' <=> f > e /\ f \in Known
  <2> SUFFICES ASSUME NEW f \in Entries PROVE f \in Known' <=> f > e /\ f \in Known
    OBVIOUS
  <2>1. f \in Nat
    BY DEF Entries
  <2> QED BY <1>1, <1>2, <2>1 DEF Known
<1>5. FoundKept' /\ OnlyUndelivered'
  <2>1. FoundKept'
    <3> SUFFICES ASSUME NEW f \in Entries, Direct(f), f > e, f <= doc.frontier PROVE f \in Known'
      BY <1>2 DEF FoundKept, Direct
    <3>1. f \in Nat /\ f > checkpoint
      BY <1>1 DEF Entries
    <3> QED BY <1>4, <3>1 DEF DiscoveryInv, FoundKept
  <2>2. OnlyUndelivered'
    <3> SUFFICES ASSUME NEW f \in Known' PROVE Direct(f) /\ f > e
      BY <1>2 DEF OnlyUndelivered, Direct
    <3>1. f \in Entries
      BY DEF Known
    <3> QED BY <1>4, <3>1 DEF DiscoveryInv, OnlyUndelivered
  <2> QED BY <2>1, <2>2
<1>6. ScanFrom <= ScanFrom' /\ ScanFrom \in Nat /\ ScanFrom' \in Nat
  BY <1>1, <1>2 DEF ScanFrom, later
<1>7. \A p \in Engines : PageBehind(engine[p])'
  <2> SUFFICES ASSUME NEW p \in Engines PROVE PageBehind(engine[p])'
    OBVIOUS
  <2>1. PageBehind(engine[p]) /\ engine[p].cur \in Nat /\ engine[p].n \in Nat
    BY EngineFacts DEF EngineState, Points
  <2> QED BY <1>2, <1>6, <2>1 DEF PageBehind
<1> QED BY <1>1, <1>2, <1>3, <1>5, <1>7 DEF DiscoveryInv

-----------------------------------------------------------------------------
\* Every step keeps the invariant.
LEMMA DiscoveryStep == DiscoveryInv /\ [Next]_vars => DiscoveryInv'
<1> SUFFICES ASSUME DiscoveryInv, [Next]_vars PROVE DiscoveryInv'
  OBVIOUS
<1>1. ASSUME NEW p \in Engines, Start(p) PROVE DiscoveryInv'
  BY <1>1, StartCalm
<1>2. ASSUME NEW p \in Engines, CaptureStep(p) PROVE DiscoveryInv'
  BY <1>2, CaptureCalm, ProbeCalm, PersistCalm DEF CaptureStep
<1>3. ASSUME NEW p \in Engines, ScanStep(p) PROVE DiscoveryInv'
  BY <1>3, ScanOnceCalm, ReadCalm, MergeInv, PageTickCalm, ScanNextCalm DEF ScanStep
<1>4. ASSUME NEW p \in Engines, Trigger(p) \/ TimerTick(p) \/ Emit(p) \/ reschedule(p) PROVE DiscoveryInv'
  BY <1>4, TriggerCalm, TimerTickCalm, EmitCalm, RescheduleCalm
<1>5. ASSUME NEW p \in Engines, NEW m \in BOOLEAN, NEW a \in BOOLEAN, ack(p, m, a) PROVE DiscoveryInv'
  BY <1>5, AckCalm
<1>6. ASSUME NEW p \in Engines, Stop(p) \/ Rebound(p) PROVE DiscoveryInv'
  BY <1>6, DownCalm
<1>7. ASSUME discardInvalidWakeState \/ ClockBack \/ saveBinding \/ Tick PROVE DiscoveryInv'
  BY <1>7, DiscardInv, ClockBackCalm, SaveBindingCalm, TimeCalm
<1>8. ASSUME NEW k \in Posted, Post(k) PROVE DiscoveryInv'
  BY <1>8, PostInv
<1>9. ASSUME NEW e \in Entries, advanceCheckpoint(e) PROVE DiscoveryInv'
  BY <1>9, AdvanceInv
<1>10. CASE UNCHANGED vars
  <2>1. UNCHANGED <<log, bound, checkpoint, next, doc, asker, engine, faults, quiet, cohortEnd>>
    BY <1>10 DEF vars
  <2>2. TypeOK' /\ Known' = Known /\ faults <= faults'
    BY <2>1, Numbers DEF DiscoveryInv, TypeOK, Known
  <2>3. \A p \in Engines : PageBehind(engine'[p])
    BY <2>1 DEF DiscoveryInv
  <2> QED BY <2>1, <2>2, <2>3, CalmStep
<1> QED BY <1>1, <1>2, <1>3, <1>4, <1>5, <1>6, <1>7, <1>8, <1>9, <1>10 DEF Next

\* For any number of listeners: no reply is passed over by discovery without a wake record,
\* and only undelivered direct replies have one.
THEOREM DiscoveryIsInductive == Spec => []DiscoveryInv
BY DiscoveryInitially, DiscoveryStep, PTL DEF Spec

-----------------------------------------------------------------------------
(* The startup cohort, under one listener.                                  *)

\* The lease's promise: at most one process listens.
OneListener == \A p, q \in Engines : p = q

\* Where a listener is in its scan, the rest of the startup cohort is within what is left to
\* count, and a last page ends it.
CohortAhead(s) ==
    /\ s.up # "up" => s.scan = "idle"
    /\ s.up \in {"probe", "persist"} /\ s.ep = doc.epoch => s.at <= ScanFrom
    /\ s.scan \in {"read", "merge"} /\ s.sep = doc.epoch /\ doc.open
       => cohortEnd <= s.cur + doc.remaining
    /\ s.scan \in {"tick", "paged"} /\ s.sep = doc.epoch /\ doc.open
       => cohortEnd <= s.cur + s.n + doc.remaining
    /\ s.scan = "merge" /\ s.sep = doc.epoch /\ doc.open /\ ~ s.more
       => cohortEnd <= s.cur + s.n

\* The cohort's invariant: while it is open, its end is within reach of the count; closed,
\* discovery is past its end.
CohortInv ==
    /\ cohortEnd <= Len(log)
    /\ doc.open => cohortEnd <= ScanFrom + doc.remaining
    /\ ~ doc.open => cohortEnd <= ScanFrom
    /\ \A p \in Engines : CohortAhead(engine[p])

\* The start has no cohort.
LEMMA CohortInitially == Init => CohortInv
<1> SUFFICES ASSUME Init PROVE CohortInv
  OBVIOUS
<1>1. CohortAhead(Down)
  BY DEF CohortAhead, Down
<1>2. ScanFrom = 0 /\ Len(log) = 0
  BY DEF Init, ScanFrom, emptyDocument, later
<1> QED BY <1>1, <1>2 DEF Init, CohortInv, emptyDocument

\* A step that leaves what is scanned.
LEMMA CohortCalm ==
    ASSUME CohortInv, UNCHANGED <<log, checkpoint, cohortEnd>>, SameScan(doc'),
           \A p \in Engines : CohortAhead(engine'[p])
    PROVE  CohortInv'
<1>1. ScanFrom' = ScanFrom
  BY DEF ScanFrom, SameScan
<1>2. \A p \in Engines : CohortAhead(engine[p])'
  BY <1>1 DEF CohortAhead, SameScan
<1> QED BY <1>1, <1>2 DEF CohortInv, SameScan

\* Such a step of one listener.
LEMMA CohortEngine ==
    ASSUME DiscoveryInv, CohortInv, NEW p \in Engines, NEW s, CohortAhead(s), Set(p, s),
           UNCHANGED <<log, checkpoint, cohortEnd>>, SameScan(doc')
    PROVE  CohortInv'
<1>1. \A q \in Engines : engine'[q] = IF q = p THEN s ELSE engine[q]
  BY DEF Set, DiscoveryInv, TypeOK
<1>2. \A q \in Engines : CohortAhead(engine'[q])
  BY <1>1 DEF CohortInv
<1> QED BY <1>2, CohortCalm

\* The types the cohort's arithmetic needs.
LEMMA CohortFacts ==
    ASSUME DiscoveryInv, CohortInv, NEW p \in Engines
    PROVE  /\ CohortAhead(engine[p]) /\ cohortEnd \in Nat /\ cohortEnd <= Len(log)
           /\ doc.remaining \in Nat /\ doc.open \in BOOLEAN /\ doc.epoch \in Nat
           /\ engine[p] \in EngineState
           /\ engine[p].cur \in Nat /\ engine[p].n \in Nat /\ engine[p].at \in Nat /\ engine[p].count \in Nat
<1>1. CohortAhead(engine[p]) /\ cohortEnd <= Len(log) /\ cohortEnd \in Nat
  BY Numbers DEF CohortInv, DiscoveryInv, TypeOK, Points
<1>2. engine[p] \in EngineState /\ doc \in Document
  BY EngineFacts
<1>3. doc.remaining \in Nat /\ doc.open \in BOOLEAN /\ doc.epoch \in Nat
  BY <1>2 DEF Document, Points
<1>4. engine[p].cur \in Nat /\ engine[p].n \in Nat /\ engine[p].at \in Nat /\ engine[p].count \in Nat
  BY <1>2 DEF EngineState, Points
<1> QED BY <1>1, <1>2, <1>3, <1>4

\* The steps of an engine that leave the wake document alone.
LEMMA CohortByEngine ==
    ASSUME DiscoveryInv, CohortInv, NEW p \in Engines,
           \/ Start(p) \/ captureCohort(p) \/ CaptureProbe(p) \/ scanOnce(p) \/ readAfter(p)
           \/ ScanNext(p) \/ Trigger(p) \/ Emit(p) \/ reschedule(p) \/ Stop(p) \/ Rebound(p)
    PROVE  CohortInv'
<1> DEFINE s == engine[p]
<1>0. /\ UNCHANGED <<log, checkpoint, cohortEnd, doc>> /\ SameScan(doc')
      /\ s \in EngineState /\ CohortAhead(s)
  BY CohortFacts DEF Start, captureCohort, CaptureProbe, scanOnce, readAfter, ScanNext, Trigger,
                     Emit, reschedule, Stop, Rebound, SameScan
<1>1. CASE Start(p)
  <2>1. CohortAhead([Down EXCEPT !.up = "start"])
    BY DEF CohortAhead, Down
  <2> QED BY <1>0, <1>1, <2>1, CohortEngine DEF Start
<1>2. CASE captureCohort(p)
  <2>1. CohortAhead(Captured)
    BY DEF CohortAhead, Captured, discover, Down
  <2>2. CohortAhead([s EXCEPT !.up = "probe", !.at = ScanFrom, !.ep = doc.epoch])
    BY <1>0, <1>2, EngineFacts DEF CohortAhead, EngineState, captureCohort
  <2> QED BY <1>0, <1>2, <2>1, <2>2, CohortEngine DEF captureCohort
<1>3. CASE CaptureProbe(p)
  <2>1. PICK c \in {Len(log) - engine[p].at, 0} : Set(p, [s EXCEPT !.up = "persist", !.count = c])
    BY <1>3 DEF CaptureProbe
  <2>2. CohortAhead([s EXCEPT !.up = "persist", !.count = c])
    BY <1>0, <1>3 DEF CohortAhead, EngineState, CaptureProbe
  <2> QED BY <1>0, <2>1, <2>2, CohortEngine
<1>4. CASE scanOnce(p)
  <2>1. CohortAhead([s EXCEPT !.scan = "read", !.cur = ScanFrom, !.sep = doc.epoch])
    BY <1>0, <1>4, CohortFacts DEF CohortAhead, EngineState, scanOnce, CohortInv
  <2> QED BY <1>0, <1>4, <2>1, CohortEngine DEF scanOnce
<1>5. CASE readAfter(p)
  <2> DEFINE n == earlier(Page, Len(log) - s.cur)
             m == Len(log) > s.cur + n
             x == [s EXCEPT !.scan = "merge", !.n = n, !.more = m]
  <2>1. n \in Nat /\ s.cur \in Nat /\ Len(log) \in Nat
    <3>1. s.cur \in Nat /\ s.cur <= Len(log) /\ Len(log) \in Nat
      BY CohortFacts, EngineFacts DEF PageBehind
    <3> QED BY <3>1, Numbers DEF earlier
  <2>2. ~ m => cohortEnd <= s.cur + n
    BY <2>1, CohortFacts
  <2> HIDE DEF n, m
  <2>3. /\ x.up = s.up /\ x.scan = "merge" /\ x.ep = s.ep /\ x.at = s.at /\ x.sep = s.sep
        /\ x.cur = s.cur /\ x.n = n /\ (x.more <=> m)
    BY <1>0 DEF EngineState
  <2> HIDE DEF x
  <2>4. s.scan = "read"
    BY <1>5 DEF readAfter
  <2>5. CohortAhead(x)
    BY <1>0, <2>2, <2>3, <2>4 DEF CohortAhead
  <2>6. Set(p, x)
    BY <1>5 DEF readAfter, x, n, m
  <2> QED BY <1>0, <2>5, <2>6, CohortEngine
<1>6. CASE ScanNext(p)
  <2>1. s.scan = "paged" /\ s.up = "up"
    BY <1>0, <1>6 DEF ScanNext, CohortAhead
  <2>2. CohortAhead([s EXCEPT !.scan = "read", !.cur = s.cur + s.n])
    BY <1>0, <2>1 DEF CohortAhead, EngineState
  <2>3. NoPage(s) \in EngineState /\ NoPage(s).up = s.up
    BY <1>0, NoPageState
  <2>4. CohortAhead([NoPage(s) EXCEPT !.scan = "begin", !.rescan = FALSE])
    BY <2>1, <2>3 DEF CohortAhead, EngineState
  <2>5. CohortAhead([NoPage(s) EXCEPT !.scan = "idle", !.resched = TRUE])
    BY <2>1, <2>3 DEF CohortAhead, EngineState
  <2> QED BY <1>0, <1>6, <2>2, <2>4, <2>5, CohortEngine DEF ScanNext
<1>7. CASE Trigger(p)
  <2>1. CohortAhead(discover(s))
    BY <1>0, <1>7 DEF CohortAhead, EngineState, Trigger, discover
  <2> QED BY <1>0, <1>7, <2>1, CohortEngine DEF Trigger
<1>8. CASE Emit(p)
  <2>1. CohortAhead([s EXCEPT !.emitting = {}])
    BY <1>0 DEF CohortAhead, EngineState
  <2> QED BY <1>0, <1>8, <2>1, CohortEngine DEF Emit
<1>9. CASE reschedule(p)
  <2>1. CohortAhead([s EXCEPT !.timer = nextDueAt, !.resched = FALSE])
    <3> HIDE DEF nextDueAt
    <3> QED BY <1>0 DEF CohortAhead, EngineState
  <2> QED BY <1>0, <1>9, <2>1, CohortEngine DEF reschedule
<1>10. CASE Stop(p) \/ Rebound(p)
  <2>1. CohortAhead(Down)
    BY DEF CohortAhead, Down
  <2> QED BY <1>0, <1>10, <2>1, CohortEngine DEF Stop, Rebound
<1> QED BY <1>1, <1>2, <1>3, <1>4, <1>5, <1>6, <1>7, <1>8, <1>9, <1>10

\* The scheduler, the host's answers, faults of the clock, rebinding and time.
LEMMA CohortByScheduler ==
    ASSUME DiscoveryInv, CohortInv, NEW p \in Engines,
           \/ PageTick(p) \/ TimerTick(p)
           \/ \E m, a \in BOOLEAN : ack(p, m, a)
    PROVE  CohortInv'
<1> DEFINE s == engine[p]
<1>0. s \in EngineState /\ CohortAhead(s)
  BY CohortFacts
<1>1. ASSUME NEW t, t \in EngineState, CohortAhead(t), tick(p, t) PROVE CohortInv'
  <2>1. PICK due \in SUBSET Known : Set(p, [t EXCEPT !.emitting = due])
    BY <1>1, TickSchedules
  <2>2. CohortAhead([t EXCEPT !.emitting = due])
    BY <1>1 DEF CohortAhead, EngineState
  <2>3. SameScan(doc')
    BY <1>1, TickSchedules DEF SchedulerStep
  <2> QED BY <1>1, <2>1, <2>2, <2>3, CohortEngine DEF tick
<1>2. CASE PageTick(p)
  <2>1. [s EXCEPT !.scan = "paged"] \in EngineState /\ CohortAhead([s EXCEPT !.scan = "paged"])
    BY <1>0, <1>2 DEF CohortAhead, EngineState, PageTick
  <2> QED BY <1>1, <1>2, <2>1 DEF PageTick
<1>3. CASE TimerTick(p)
  <2>1. /\ [s EXCEPT !.timer = None, !.resched = TRUE] \in EngineState
        /\ CohortAhead([s EXCEPT !.timer = None, !.resched = TRUE])
    BY <1>0 DEF CohortAhead, EngineState
  <2> QED BY <1>1, <1>3, <2>1 DEF TimerTick
<1>4. ASSUME NEW m \in BOOLEAN, NEW a \in BOOLEAN, ack(p, m, a) PROVE CohortInv'
  <2>1. CohortAhead([s EXCEPT !.resched = TRUE])
    BY <1>0 DEF CohortAhead, EngineState
  <2>2. SameScan(doc')
    BY <1>4, AckSchedules DEF SchedulerStep
  <2>3. Set(p, [s EXCEPT !.resched = TRUE]) /\ UNCHANGED <<log, checkpoint, cohortEnd>>
    BY <1>4 DEF ack
  <2> QED BY <2>1, <2>2, <2>3, CohortEngine
<1> QED BY <1>2, <1>3, <1>4

\* Clock, binding and time leave the cohort.
LEMMA CohortByEnvironment ==
    ASSUME DiscoveryInv, CohortInv, ClockBack \/ saveBinding \/ Tick \/ UNCHANGED vars
    PROVE  CohortInv'
<1>1. UNCHANGED <<log, checkpoint, cohortEnd>>
  BY DEF ClockBack, saveBinding, Tick, vars
<1>2. SameScan(doc')
  BY ClockSchedules, TimeSchedules DEF saveBinding, vars, SameScan, SchedulerStep
<1>3. \A p \in Engines : CohortAhead(engine'[p])
  <2> SUFFICES ASSUME NEW p \in Engines PROVE CohortAhead(engine'[p])
    OBVIOUS
  <2>1. engine[p] \in EngineState /\ CohortAhead(engine[p])
    BY CohortFacts
  <2>2. \/ engine'[p] = engine[p]
        \/ \E t : engine'[p] = [engine[p] EXCEPT !.timer = t]
    BY TimePassesForEngines DEF ClockBack, saveBinding, vars
  <2>3. ASSUME NEW t PROVE CohortAhead([engine[p] EXCEPT !.timer = t])
    BY <2>1 DEF CohortAhead, EngineState
  <2> QED BY <2>1, <2>2, <2>3
<1> QED BY <1>1, <1>2, <1>3, CohortCalm

\* The capture sets how many entries are left to scan, counted from where discovery starts.
LEMMA CohortCaptured ==
    ASSUME DiscoveryInv, CohortInv, OneListener, NEW p \in Engines, CapturePersist(p)
    PROVE  CohortInv'
<1> DEFINE s == engine[p]
<1>0. /\ s \in EngineState /\ CohortAhead(s) /\ PageBehind(s) /\ s.up = "persist" /\ doc \in Document
      /\ s.at \in Nat /\ s.count \in Nat /\ ScanFrom \in Nat
  BY CohortFacts, EngineFacts DEF CapturePersist
<1>1. CASE doc.epoch # s.ep \/ doc.open
  <2>1. UNCHANGED <<log, checkpoint, cohortEnd, doc>> /\ SameScan(doc')
    BY <1>1 DEF CapturePersist, SameScan
  <2>2. CohortAhead([s EXCEPT !.up = "start", !.tries = s.tries + 1])
    BY <1>0 DEF CohortAhead, EngineState
  <2>3. CohortAhead(Captured)
    BY DEF CohortAhead, Captured, discover, Down
  <2> QED BY <1>1, <2>1, <2>2, <2>3, CohortEngine DEF CapturePersist
<1>2. CASE doc.epoch = s.ep /\ ~ doc.open
  <2>1. /\ Set(p, Captured) /\ cohortEnd' = s.at + s.count /\ UNCHANGED <<log, checkpoint>>
        /\ doc' = [doc EXCEPT !.remaining = s.count, !.open = s.count > 0]
    BY <1>2 DEF CapturePersist
  <2>2. /\ doc'.remaining = s.count /\ (doc'.open <=> s.count > 0)
        /\ doc'.frontier = doc.frontier
    BY <1>0, <2>1 DEF Document
  <2>3. ScanFrom' = ScanFrom /\ s.at <= ScanFrom /\ s.at + s.count <= Len(log)
    BY <1>0, <1>2, <2>1, <2>2 DEF ScanFrom, CohortAhead, PageBehind
  <2>4. \A q \in Engines : engine'[q] = Captured
    BY <2>1 DEF OneListener, Set, DiscoveryInv, TypeOK
  <2>5. CohortAhead(Captured)'
    BY DEF CohortAhead, Captured, discover, Down
  <2>6. \A q \in Engines : CohortAhead(engine[q])'
    BY <2>4, <2>5
  <2>7. /\ cohortEnd' <= Len(log')
        /\ doc'.open => cohortEnd' <= ScanFrom' + doc'.remaining
        /\ ~ doc'.open => cohortEnd' <= ScanFrom'
    BY <1>0, <2>1, <2>2, <2>3
  <2> QED BY <2>6, <2>7 DEF CohortInv
<1> QED BY <1>1, <1>2

\* What the merge of a page leaves to count, and when it closes the cohort.
LEMMA MergedCohort ==
    ASSUME NEW s \in EngineState, doc \in Document
    PROVE  LET left == IF doc.remaining >= s.n THEN doc.remaining - s.n ELSE 0
           IN  /\ MergedDoc(s).remaining = IF doc.open THEN left ELSE doc.remaining
               /\ MergedDoc(s).open <=> doc.open /\ ~ CohortDone(s, left)
<1> DEFINE left == IF doc.remaining >= s.n THEN doc.remaining - s.n ELSE 0
           rem == IF doc.open THEN left ELSE doc.remaining
           front == later(doc.frontier, s.cur + s.n)
           d == [doc EXCEPT !.frontier = front, !.remaining = rem]
           closed == [d EXCEPT !.open = FALSE, !.debounce = None]
           waits == [d EXCEPT !.debounce = Debounce]
<1>1. MergedDoc(s) = IF doc.open /\ CohortDone(s, left) THEN closed
                     ELSE IF Inserted(s) # {} /\ ~ doc.open /\ doc.debounce = None THEN waits ELSE d
  <2>1. d.open = doc.open /\ d.debounce = doc.debounce
    BY DEF Document
  <2> QED BY <2>1 DEF MergedDoc
<1> HIDE DEF left, rem, front
<1>2. /\ d.remaining = rem /\ d.open = doc.open
      /\ DOMAIN d = {"frontier", "out", "deadline", "retry", "remaining", "open", "debounce", "epoch"}
  BY DEF Document
<1> HIDE DEF d
<1>3. /\ closed.remaining = rem /\ closed.open = FALSE
      /\ waits.remaining = rem /\ waits.open = doc.open
  BY <1>2
<1> HIDE DEF closed, waits
<1>4. doc.open \in BOOLEAN
  BY DEF Document
<1> QED BY <1>1, <1>2, <1>3, <1>4 DEF left, rem

\* The merge of a page under one listener.
LEMMA CohortMerged ==
    ASSUME DiscoveryInv, CohortInv, OneListener, NEW p \in Engines, merge(p)
    PROVE  CohortInv'
<1> DEFINE s == engine[p]
           left == IF doc.remaining >= s.n THEN doc.remaining - s.n ELSE 0
           end == s.cur + s.n
           x == [s EXCEPT !.scan = "tick"]
<1>0. /\ s \in EngineState /\ CohortAhead(s) /\ PageBehind(s) /\ doc \in Document
      /\ s.scan = "merge" /\ s.up = "up" /\ doc.open \in BOOLEAN
      /\ s.cur \in Nat /\ s.n \in Nat /\ cohortEnd \in Nat /\ doc.remaining \in Nat
      /\ end \in Points /\ doc.frontier \in Nat /\ checkpoint \in Nat
  <2>1. s.scan = "merge"
    BY DEF merge
  <2>2. s \in EngineState /\ CohortAhead(s) /\ PageBehind(s) /\ s.cur \in Nat /\ s.n \in Nat
    BY CohortFacts, EngineFacts
  <2>3. s.up = "up" /\ end \in Points
    BY <2>1, <2>2, EngineFacts, Numbers DEF CohortAhead, PageBehind, Points
  <2> QED BY <2>1, <2>2, <2>3, CohortFacts, EngineFacts
<1>1. CASE ~ SameEpoch(s)
  <2> DEFINE y == [NoPage(s) EXCEPT !.scan = "begin", !.rescan = FALSE]
  <2>1. NoPage(s) \in EngineState /\ NoPage(s).up = s.up
    BY <1>0, NoPageState
  <2>2. CohortAhead(y)
    BY <1>0, <2>1 DEF CohortAhead, EngineState
  <2>3. Set(p, y) /\ UNCHANGED <<log, checkpoint, cohortEnd, doc>> /\ SameScan(doc')
    BY <1>1 DEF merge, SameScan
  <2> QED BY <2>2, <2>3, CohortEngine
<1>2. CASE SameEpoch(s)
  <2>1. /\ Set(p, x) /\ UNCHANGED <<log, checkpoint, cohortEnd>> /\ doc' = MergedDoc(s)
    BY <1>2 DEF merge
  <2>2. /\ doc'.remaining = (IF doc.open THEN left ELSE doc.remaining)
        /\ doc'.open <=> doc.open /\ ~ CohortDone(s, left)
        /\ doc'.frontier = later(doc.frontier, end)
    BY <1>0, <2>1, MergedCohort, MergedDocument
  <2>3. /\ doc.open => cohortEnd <= s.cur + doc.remaining
        /\ doc.open /\ ~ s.more => cohortEnd <= end
        /\ s.sep = doc.epoch
    BY <1>0, <1>2 DEF CohortAhead, SameEpoch
  <2>4. left \in Nat /\ doc.remaining <= left + s.n
    BY <1>0
  <2>5. end \in Nat /\ end <= ScanFrom' /\ ScanFrom <= ScanFrom' /\ ScanFrom' \in Nat /\ ScanFrom \in Nat
    BY <1>0, <2>1, <2>2, Numbers DEF ScanFrom, later
  <2> HIDE DEF left
  <2>6. doc'.open => doc.open /\ doc'.remaining = left /\ cohortEnd <= end + left
    BY <1>0, <2>2, <2>3, <2>4
  <2>7. ~ doc'.open => cohortEnd <= ScanFrom'
    <3>1. CASE ~ doc.open
      BY <1>0, <2>5, <3>1 DEF CohortInv
    <3>2. CASE doc.open /\ CohortDone(s, left)
      <4>1. cohortEnd <= end
        BY <1>0, <2>3, <2>4, <3>2 DEF CohortDone
      <4> QED BY <1>0, <2>5, <4>1
    <3> QED BY <2>2, <3>1, <3>2
  <2>8. \A q \in Engines : engine'[q] = x
    BY <2>1 DEF OneListener, Set, DiscoveryInv, TypeOK
  <2>9. PICK y : y = x
    OBVIOUS
  <2>10. /\ y.scan = "tick" /\ y.up = "up" /\ y.cur = s.cur /\ y.n = s.n
    BY <1>0, <2>9 DEF EngineState
  <2>11. \A q \in Engines : CohortAhead(engine[q])'
    <3> SUFFICES ASSUME NEW q \in Engines PROVE CohortAhead(engine[q])'
      OBVIOUS
    <3>1. engine'[q] = y
      BY <2>8, <2>9
    <3> HIDE DEF x
    <3> QED BY <2>1, <2>6, <2>10, <3>1 DEF CohortAhead
  <2>12. doc'.open => cohortEnd' <= ScanFrom' + doc'.remaining
    BY <1>0, <2>1, <2>4, <2>5, <2>6
  <2> QED BY <2>1, <2>7, <2>11, <2>12 DEF CohortInv
<1> QED BY <1>1, <1>2

\* Discarded state, replies and deliveries.
LEMMA CohortElsewhere ==
    ASSUME DiscoveryInv, CohortInv,
           \/ discardInvalidWakeState
           \/ \E k \in Posted : Post(k)
           \/ \E e \in Entries : advanceCheckpoint(e)
    PROVE  CohortInv'
<1>0. doc \in Document /\ Len(log) \in Nat /\ checkpoint \in Nat /\ doc.frontier \in Nat
      /\ doc.epoch \in Nat /\ cohortEnd \in Nat /\ doc.remaining \in Nat /\ checkpoint <= Len(log)
  BY Numbers DEF DiscoveryInv, TypeOK, Document, Points
<1>1. CASE discardInvalidWakeState
  <2>1. /\ cohortEnd' = 0 /\ UNCHANGED <<log, checkpoint, engine>>
        /\ doc' = [emptyDocument EXCEPT !.frontier = checkpoint, !.epoch = doc.epoch + 1]
    BY <1>1 DEF discardInvalidWakeState
  <2>2. doc'.open = FALSE /\ doc'.epoch = doc.epoch + 1 /\ doc'.frontier = checkpoint
    BY <2>1 DEF emptyDocument
  <2>3. \A p \in Engines : CohortAhead(engine[p])'
    <3> SUFFICES ASSUME NEW p \in Engines PROVE CohortAhead(engine[p])'
      OBVIOUS
    <3>1. engine[p].sep \in Nat /\ engine[p].ep \in Nat /\ PageBehind(engine[p]) /\ CohortAhead(engine[p])
      BY EngineFacts, CohortFacts DEF EngineState
    <3>2. engine[p].sep # doc.epoch + 1 /\ engine[p].ep # doc.epoch + 1
      BY <1>0, <3>1 DEF PageBehind
    <3> QED BY <2>1, <2>2, <3>1, <3>2 DEF CohortAhead
  <2>4. ScanFrom' \in Nat
    BY <1>0, <2>1, <2>2 DEF ScanFrom, later
  <2> QED BY <1>0, <2>1, <2>2, <2>3, <2>4 DEF CohortInv
<1>2. CASE \E k \in Posted : Post(k)
  <2>1. Len(log') = Len(log) + 1 /\ UNCHANGED <<checkpoint, cohortEnd, doc, engine>>
    BY <1>2, Numbers DEF Post, DiscoveryInv, TypeOK
  <2>2. ScanFrom' = ScanFrom
    BY <2>1 DEF ScanFrom
  <2>3. \A p \in Engines : CohortAhead(engine[p])'
    BY <2>1, <2>2 DEF CohortInv, CohortAhead
  <2> QED BY <1>0, <2>1, <2>2, <2>3 DEF CohortInv
<1>3. ASSUME NEW e \in Entries, advanceCheckpoint(e) PROVE CohortInv'
  <2>1. checkpoint' = e /\ e > checkpoint /\ e \in Nat /\ UNCHANGED <<log, cohortEnd, doc, engine>>
    BY <1>3 DEF advanceCheckpoint, Entries
  <2>2. ScanFrom <= ScanFrom' /\ ScanFrom \in Nat /\ ScanFrom' \in Nat
    BY <1>0, <2>1 DEF ScanFrom, later
  <2>3. \A p \in Engines : CohortAhead(engine[p])'
    <3> SUFFICES ASSUME NEW p \in Engines PROVE CohortAhead(engine[p])'
      OBVIOUS
    <3>1. engine[p].at \in Nat /\ CohortAhead(engine[p])
      BY CohortFacts
    <3> QED BY <2>1, <2>2, <3>1 DEF CohortAhead
  <2> QED BY <1>0, <2>1, <2>2, <2>3 DEF CohortInv
<1> QED BY <1>1, <1>2, <1>3

\* Every step keeps the cohort's invariant.
LEMMA CohortStep == OneListener /\ DiscoveryInv /\ CohortInv /\ [Next]_vars => CohortInv'
<1> SUFFICES ASSUME OneListener, DiscoveryInv, CohortInv, [Next]_vars PROVE CohortInv'
  OBVIOUS
<1>1. ASSUME NEW p \in Engines,
             \/ Start(p) \/ CaptureStep(p) \/ ScanStep(p) \/ Trigger(p) \/ TimerTick(p) \/ Emit(p)
             \/ reschedule(p) \/ Stop(p) \/ Rebound(p)
             \/ \E m, a \in BOOLEAN : ack(p, m, a)
      PROVE  CohortInv'
  BY <1>1, CohortByEngine, CohortByScheduler, CohortCaptured, CohortMerged DEF CaptureStep, ScanStep
<1>2. CASE \/ discardInvalidWakeState
           \/ \E k \in Posted : Post(k)
           \/ \E e \in Entries : advanceCheckpoint(e)
  BY <1>2, CohortElsewhere
<1>3. CASE ClockBack \/ saveBinding \/ Tick \/ UNCHANGED vars
  BY <1>3, CohortByEnvironment
<1> QED BY <1>1, <1>2, <1>3 DEF Next

\* The three parts of the property.
LEMMA NothingIsForgotten == DiscoveryInv /\ CohortInv => NothingForgotten
<1> SUFFICES ASSUME DiscoveryInv, CohortInv PROVE NothingForgotten
  OBVIOUS
<1>1. ~ doc.open => ScanFrom >= cohortEnd
  BY Numbers DEF CohortInv, DiscoveryInv, TypeOK, Document, Points, ScanFrom, later
<1> QED BY <1>1 DEF DiscoveryInv, FoundKept, OnlyUndelivered, NothingForgotten

\* The lease lets one listener run.
THEOREM NoReplyIsForgotten == ASSUME OneListener PROVE Spec => []NothingForgotten
<1>1. Init => CohortInv
  BY CohortInitially
<1>2. DiscoveryInv /\ CohortInv /\ [Next]_vars => CohortInv'
  BY CohortStep
<1>3. DiscoveryInv /\ CohortInv => NothingForgotten
  BY NothingIsForgotten
<1> QED BY <1>1, <1>2, <1>3, DiscoveryInitially, DiscoveryStep, PTL DEF Spec

=============================================================================
