----------------------------- MODULE SeatProofs -----------------------------
(***************************************************************************)
(* Proofs about the seats of a machine.  SeatStore, for any number of      *)
(* processes, transactions, restarts and errors: the lock file gives       *)
(* mutual exclusion, an owner is reported as stale only when it is, and    *)
(* the store implements AtomicStore.  SeatLifecycle, for any worktrees,    *)
(* commands and faults: a worktree has one seat, a live drone has its      *)
(* credential in the store, an agent starts as the drone that was picked.  *)
(***************************************************************************)
EXTENDS SeatStore, SeatLifecycle, FiniteSetTheorems, WellFoundedInduction, TLAPS

(***************************************************************************)
(* The store's lock: the inductive invariant.                              *)
(***************************************************************************)

\* Only a live process is in withStore, and who is inside owns the lock.
OwnsLock ==
    \A p \in Procs : /\ pc[p] # "idle" => alive[p]
                     /\ pc[p] \in Inside => lock = Me(p)

\* An attempt is left for a waiter that met a lock.
Counted == \A p \in Procs : pc[p] \in {"see", "probe", "recheck"} => tries[p] < MaxTries

\* What the holder read is what the file holds until it commits.
SnapIsFile == \A p \in Procs : pc[p] = "op" => snap[p] = file

\* A transaction is in the file only once its process has committed it.
NotYet(p) == pc[p] \in {"link", "see", "probe", "recheck", "read", "op"}

OncePerTxn ==
    /\ \A t \in file : t[2] <= count[t[1]]
    /\ \A p \in Procs : NotYet(p) => Txn(p) \notin file
    /\ \A p \in Procs : pc[p] # "idle" => count[p] >= 1
    /\ \A p \in Procs : pc[p] = "committed" => Txn(p) \in file
    /\ done \subseteq file

\* Start times only grow, so an owner that stopped running never runs again.
Past(o) == o[2] <= start[o[1]]

OwnersArePast ==
    /\ lock # None => Past(lock)
    /\ \A p \in Procs : /\ raw[p] # None => Past(raw[p])
                        /\ pc[p] \in {"probe", "recheck"} => raw[p] # None
                        /\ pc[p] = "recheck" => ~Running(raw[p])

IInv == TypeOK /\ OwnsLock /\ Counted /\ SnapIsFile /\ OncePerTxn /\ OwnersArePast /\ StaleIsReal

LEMMA OwnerFacts ==
    ASSUME NEW o \in Owners
    PROVE  /\ o # None /\ o[1] \in Procs /\ o[2] \in 1 .. MaxStarts /\ o = <<o[1], o[2]>>
BY StoreAssumption DEF Owners

LEMMA InitInv == Init => IInv
<1>1. SUFFICES ASSUME Init PROVE IInv
  OBVIOUS
<1>2. TypeOK
  BY <1>1, StoreAssumption DEF Init, TypeOK, Outside, Inside, Txns, Owners
<1>3. OwnsLock /\ Counted /\ SnapIsFile /\ OncePerTxn /\ OwnersArePast /\ StaleIsReal
  BY <1>1 DEF Init, OwnsLock, Counted, SnapIsFile, OncePerTxn, NotYet, OwnersArePast,
              StaleIsReal, Inside
<1> QED BY <1>2, <1>3 DEF IInv

LEMMA withStoreInv ==
    ASSUME IInv, NEW p \in Procs, withStore(p)
    PROVE  IInv'
<1> USE StoreAssumption, OwnerFacts DEF IInv, withStore, Goto
<1>1. TypeOK'
  BY DEF TypeOK, Counted, OncePerTxn, Outside, Inside, Txns, Owners, Txn, Me
<1>2. OwnsLock'
  BY DEF TypeOK, OwnsLock, Me, Inside, Outside
<1>3. SnapIsFile'
  BY DEF TypeOK, OwnsLock, SnapIsFile, Me, Inside, Outside
<1>4. OncePerTxn'
  BY DEF TypeOK, OwnsLock, SnapIsFile, OncePerTxn, NotYet, Txn, Txns, Me, Inside, Outside
<1>5. OwnersArePast'
  BY DEF TypeOK, OwnsLock, OwnersArePast, Past, Running, Me, Outside, Inside
<1>6. StaleIsReal'
  BY DEF TypeOK, OwnsLock, OwnersArePast, StaleIsReal, Past, Running, Me, Outside, Inside
<1>7. Counted'
  BY DEF TypeOK, Counted, Outside, Inside
<1> QED BY <1>1, <1>2, <1>3, <1>4, <1>5, <1>6, <1>7 DEF IInv

LEMMA linkInv ==
    ASSUME IInv, NEW p \in Procs, link(p)
    PROVE  IInv'
<1> USE StoreAssumption, OwnerFacts DEF IInv, link, Goto, Leave, Free
<1>1. TypeOK'
  BY DEF TypeOK, Counted, OncePerTxn, Outside, Inside, Txns, Owners, Txn, Me
<1>2. OwnsLock'
  BY DEF TypeOK, OwnsLock, Me, Inside, Outside
<1>3. SnapIsFile'
  BY DEF TypeOK, OwnsLock, SnapIsFile, Me, Inside, Outside
<1>4. OncePerTxn'
  BY DEF TypeOK, OwnsLock, SnapIsFile, OncePerTxn, NotYet, Txn, Txns, Me, Inside, Outside
<1>5. OwnersArePast'
  BY DEF TypeOK, OwnsLock, OwnersArePast, Past, Running, Me, Outside, Inside
<1>6. StaleIsReal'
  BY DEF TypeOK, OwnsLock, OwnersArePast, StaleIsReal, Past, Running, Me, Outside, Inside
<1>7. Counted'
  BY DEF TypeOK, Counted, Outside, Inside
<1> QED BY <1>1, <1>2, <1>3, <1>4, <1>5, <1>6, <1>7 DEF IInv

LEMMA seeInv ==
    ASSUME IInv, NEW p \in Procs, see(p)
    PROVE  IInv'
<1> USE StoreAssumption, OwnerFacts DEF IInv, see, Goto, Retry
<1>1. TypeOK'
  BY DEF TypeOK, Counted, OncePerTxn, Outside, Inside, Txns, Owners, Txn, Me
<1>2. OwnsLock'
  BY DEF TypeOK, OwnsLock, Me, Inside, Outside
<1>3. SnapIsFile'
  BY DEF TypeOK, OwnsLock, SnapIsFile, Me, Inside, Outside
<1>4. OncePerTxn'
  BY DEF TypeOK, OwnsLock, SnapIsFile, OncePerTxn, NotYet, Txn, Txns, Me, Inside, Outside
<1>5. OwnersArePast'
  BY DEF TypeOK, OwnsLock, OwnersArePast, Past, Running, Me, Outside, Inside
<1>6. StaleIsReal'
  BY DEF TypeOK, OwnsLock, OwnersArePast, StaleIsReal, Past, Running, Me, Outside, Inside
<1>7. Counted'
  BY DEF TypeOK, Counted, Outside, Inside
<1> QED BY <1>1, <1>2, <1>3, <1>4, <1>5, <1>6, <1>7 DEF IInv

LEMMA probeInv ==
    ASSUME IInv, NEW p \in Procs, probe(p)
    PROVE  IInv'
<1> USE StoreAssumption, OwnerFacts DEF IInv, probe, Goto, Retry, isProcessAlive
<1>1. TypeOK'
  BY DEF TypeOK, Counted, OncePerTxn, Outside, Inside, Txns, Owners, Txn, Me
<1>2. OwnsLock'
  BY DEF TypeOK, OwnsLock, Me, Inside, Outside
<1>3. SnapIsFile'
  BY DEF TypeOK, OwnsLock, SnapIsFile, Me, Inside, Outside
<1>4. OncePerTxn'
  BY DEF TypeOK, OwnsLock, SnapIsFile, OncePerTxn, NotYet, Txn, Txns, Me, Inside, Outside
<1>5. OwnersArePast'
  BY DEF TypeOK, OwnsLock, OwnersArePast, Past, Running, Me, Outside, Inside
<1>6. StaleIsReal'
  BY DEF TypeOK, OwnsLock, OwnersArePast, StaleIsReal, Past, Running, Me, Outside, Inside
<1>7. Counted'
  BY DEF TypeOK, Counted, Outside, Inside
<1> QED BY <1>1, <1>2, <1>3, <1>4, <1>5, <1>6, <1>7 DEF IInv

LEMMA recheckInv ==
    ASSUME IInv, NEW p \in Procs, recheck(p)
    PROVE  IInv'
<1> USE StoreAssumption, OwnerFacts DEF IInv, recheck, Goto, Retry, Leave, StillThere
<1>1. TypeOK'
  BY DEF TypeOK, OwnersArePast, Counted, OncePerTxn, Outside, Inside, Txns, Owners, Txn, Me
<1>2. OwnsLock'
  BY DEF TypeOK, OwnsLock, Me, Inside, Outside
<1>3. SnapIsFile'
  BY DEF TypeOK, OwnsLock, SnapIsFile, Me, Inside, Outside
<1>4. OncePerTxn'
  BY DEF TypeOK, OwnsLock, SnapIsFile, OncePerTxn, NotYet, Txn, Txns, Me, Inside, Outside
<1>5. OwnersArePast'
  BY DEF TypeOK, OwnsLock, OwnersArePast, Past, Running, Me, Outside, Inside
<1>6. StaleIsReal'
  BY DEF TypeOK, OwnsLock, OwnersArePast, StaleIsReal, Past, Running, Me, Outside, Inside
<1>7. Counted'
  BY DEF TypeOK, Counted, Outside, Inside
<1> QED BY <1>1, <1>2, <1>3, <1>4, <1>5, <1>6, <1>7 DEF IInv

LEMMA readStoreFileInv ==
    ASSUME IInv, NEW p \in Procs, readStoreFile(p)
    PROVE  IInv'
<1> USE StoreAssumption, OwnerFacts DEF IInv, readStoreFile, Goto
<1>1. TypeOK'
  BY DEF TypeOK, Counted, OncePerTxn, Outside, Inside, Txns, Owners, Txn, Me
<1>2. OwnsLock'
  BY DEF TypeOK, OwnsLock, Me, Inside, Outside
<1>3. SnapIsFile'
  BY DEF TypeOK, OwnsLock, SnapIsFile, Me, Inside, Outside
<1>4. OncePerTxn'
  BY DEF TypeOK, OwnsLock, SnapIsFile, OncePerTxn, NotYet, Txn, Txns, Me, Inside, Outside
<1>5. OwnersArePast'
  BY DEF TypeOK, OwnsLock, OwnersArePast, Past, Running, Me, Outside, Inside
<1>6. StaleIsReal'
  BY DEF TypeOK, OwnsLock, OwnersArePast, StaleIsReal, Past, Running, Me, Outside, Inside
<1>7. Counted'
  BY DEF TypeOK, Counted, Outside, Inside
<1> QED BY <1>1, <1>2, <1>3, <1>4, <1>5, <1>6, <1>7 DEF IInv

LEMMA atomicWrite0600Inv ==
    ASSUME IInv, NEW p \in Procs, atomicWrite0600(p)
    PROVE  IInv'
<1> USE StoreAssumption, OwnerFacts DEF IInv, atomicWrite0600, Goto, Fault
<1>1. TypeOK'
  BY DEF TypeOK, Counted, OncePerTxn, Outside, Inside, Txns, Owners, Txn, Me
<1>2. OwnsLock'
  BY DEF TypeOK, OwnsLock, Me, Inside, Outside
<1>3. SnapIsFile'
  BY DEF TypeOK, OwnsLock, SnapIsFile, Me, Inside, Outside
<1>4. OncePerTxn'
  BY DEF TypeOK, OwnsLock, SnapIsFile, OncePerTxn, NotYet, Txn, Txns, Me, Inside, Outside
<1>5. OwnersArePast'
  BY DEF TypeOK, OwnsLock, OwnersArePast, Past, Running, Me, Outside, Inside
<1>6. StaleIsReal'
  BY DEF TypeOK, OwnsLock, OwnersArePast, StaleIsReal, Past, Running, Me, Outside, Inside
<1>7. Counted'
  BY DEF TypeOK, Counted, Outside, Inside
<1> QED BY <1>1, <1>2, <1>3, <1>4, <1>5, <1>6, <1>7 DEF IInv

LEMMA releaseInv ==
    ASSUME IInv, NEW p \in Procs, release(p)
    PROVE  IInv'
<1> USE StoreAssumption, OwnerFacts DEF IInv, release, Goto, Leave, Succeeded, Fault
<1>1. TypeOK'
  BY DEF TypeOK, Counted, OncePerTxn, Outside, Inside, Txns, Owners, Txn, Me
<1>2. OwnsLock'
  BY DEF TypeOK, OwnsLock, Me, Inside, Outside
<1>3. SnapIsFile'
  BY DEF TypeOK, OwnsLock, SnapIsFile, Me, Inside, Outside
<1>4. OncePerTxn'
  BY DEF TypeOK, OwnsLock, SnapIsFile, OncePerTxn, NotYet, Txn, Txns, Me, Inside, Outside
<1>5. OwnersArePast'
  BY DEF TypeOK, OwnsLock, OwnersArePast, Past, Running, Me, Outside, Inside
<1>6. StaleIsReal'
  BY DEF TypeOK, OwnsLock, OwnersArePast, StaleIsReal, Past, Running, Me, Outside, Inside
<1>7. Counted'
  BY DEF TypeOK, Counted, Outside, Inside
<1> QED BY <1>1, <1>2, <1>3, <1>4, <1>5, <1>6, <1>7 DEF IInv

LEMMA ThrowInv ==
    ASSUME IInv, NEW p \in Procs, Throw(p)
    PROVE  IInv'
<1> USE StoreAssumption, OwnerFacts DEF IInv, Throw, Goto, Leave, Fault, Outside
<1>1. TypeOK'
  BY DEF TypeOK, Counted, OncePerTxn, Outside, Inside, Txns, Owners, Txn, Me
<1>2. OwnsLock'
  BY DEF TypeOK, OwnsLock, Me, Inside, Outside
<1>3. SnapIsFile'
  BY DEF TypeOK, OwnsLock, SnapIsFile, Me, Inside, Outside
<1>4. OncePerTxn'
  BY DEF TypeOK, OwnsLock, SnapIsFile, OncePerTxn, NotYet, Txn, Txns, Me, Inside, Outside
<1>5. OwnersArePast'
  BY DEF TypeOK, OwnsLock, OwnersArePast, Past, Running, Me, Outside, Inside
<1>6. StaleIsReal'
  BY DEF TypeOK, OwnsLock, OwnersArePast, StaleIsReal, Past, Running, Me, Outside, Inside
<1>7. Counted'
  BY DEF TypeOK, Counted, Outside, Inside
<1> QED BY <1>1, <1>2, <1>3, <1>4, <1>5, <1>6, <1>7 DEF IInv

LEMMA ExitInv ==
    ASSUME IInv, NEW p \in Procs, Exit(p)
    PROVE  IInv'
<1> USE StoreAssumption, OwnerFacts DEF IInv, Exit, Goto, Leave
<1>1. TypeOK'
  BY DEF TypeOK, Counted, OncePerTxn, Outside, Inside, Txns, Owners, Txn, Me
<1>2. OwnsLock'
  BY DEF TypeOK, OwnsLock, Me, Inside, Outside
<1>3. SnapIsFile'
  BY DEF TypeOK, OwnsLock, SnapIsFile, Me, Inside, Outside
<1>4. OncePerTxn'
  BY DEF TypeOK, OwnsLock, SnapIsFile, OncePerTxn, NotYet, Txn, Txns, Me, Inside, Outside
<1>5. OwnersArePast'
  BY DEF TypeOK, OwnsLock, OwnersArePast, Past, Running, Me, Outside, Inside
<1>6. StaleIsReal'
  BY DEF TypeOK, OwnsLock, OwnersArePast, StaleIsReal, Past, Running, Me, Outside, Inside
<1>7. Counted'
  BY DEF TypeOK, Counted, Outside, Inside
<1> QED BY <1>1, <1>2, <1>3, <1>4, <1>5, <1>6, <1>7 DEF IInv

LEMMA RestartInv ==
    ASSUME IInv, NEW p \in Procs, Restart(p)
    PROVE  IInv'
<1> USE StoreAssumption, OwnerFacts DEF IInv, Restart, Goto
<1>1. TypeOK'
  BY DEF TypeOK, Counted, OncePerTxn, Outside, Inside, Txns, Owners, Txn, Me
<1>2. OwnsLock'
  BY DEF TypeOK, OwnsLock, Me, Inside, Outside
<1>3. SnapIsFile'
  BY DEF TypeOK, OwnsLock, SnapIsFile, Me, Inside, Outside
<1>4. OncePerTxn'
  BY DEF TypeOK, OwnsLock, SnapIsFile, OncePerTxn, NotYet, Txn, Txns, Me, Inside, Outside
<1>5. OwnersArePast'
  BY DEF TypeOK, OwnsLock, OwnersArePast, Past, Running, Me, Outside, Inside
<1>6. StaleIsReal'
  BY DEF TypeOK, OwnsLock, OwnersArePast, StaleIsReal, Past, Running, Me, Outside, Inside
<1>7. Counted'
  BY DEF TypeOK, Counted, Outside, Inside
<1> QED BY <1>1, <1>2, <1>3, <1>4, <1>5, <1>6, <1>7 DEF IInv

LEMMA operatorRemovesLockInv ==
    ASSUME IInv, operatorRemovesLock
    PROVE  IInv'
BY DEF IInv, operatorRemovesLock, TypeOK, OwnsLock, Counted, SnapIsFile, OncePerTxn, NotYet, Txn, Me,
       OwnersArePast, Past, Running, StaleIsReal, Inside

LEMMA NextInv == IInv /\ [Next]_vars => IInv'
<1> SUFFICES ASSUME IInv, [Next]_vars PROVE IInv'
  OBVIOUS
<1>1. CASE UNCHANGED vars
  BY <1>1 DEF vars, IInv, TypeOK, OwnsLock, Counted, SnapIsFile, OncePerTxn, NotYet, Txn, Me,
              OwnersArePast, Past, Running, StaleIsReal
<1>2. CASE operatorRemovesLock
  BY <1>2, operatorRemovesLockInv
<1>3. ASSUME NEW p \in Procs, Step(p) \/ withStore(p) \/ Throw(p) \/ Exit(p) \/ Restart(p)
      PROVE  IInv'
  BY <1>3, withStoreInv, linkInv, seeInv, probeInv, recheckInv, readStoreFileInv,
     atomicWrite0600Inv, releaseInv, ThrowInv, ExitInv, RestartInv DEF Step
<1> QED BY <1>1, <1>2, <1>3 DEF Next

\* The invariant holds for every number of processes, attempts and faults.
THEOREM Invariance == Spec => []IInv
BY InitInv, NextInv, PTL DEF Spec

\* Type correctness of the store's state.
THEOREM TypeCorrect == Spec => []TypeOK
BY Invariance, PTL DEF IInv

\* The lock file excludes: at most one process is between its link and its
\* unlink, however the others crashed, threw or came back under a used pid.
THEOREM MutualExclusion == Spec => []OneWriter
<1>1. IInv => OneWriter
  BY DEF IInv, TypeOK, OwnsLock, OneWriter, Me
<1> QED BY <1>1, Invariance, PTL

\* staleLockError names a lock that is there and whose process is gone.
THEOREM StaleReportIsReal == Spec => []StaleIsReal
BY Invariance, PTL DEF IInv

(***************************************************************************)
(* The refinement: commit is Apply, release after a commit is Report, and  *)
(* every other step leaves the abstract store as it is.                    *)
(***************************************************************************)
LEMMA StepRefines == IInv /\ [Next]_vars => [Abstract!Next]_<<file, done>>
<1> SUFFICES ASSUME IInv, [Next]_vars PROVE [Abstract!Next]_<<file, done>>
  OBVIOUS
<1>1. CASE UNCHANGED vars \/ operatorRemovesLock
  BY <1>1 DEF vars, operatorRemovesLock
<1>2. ASSUME NEW p \in Procs, Step(p) \/ withStore(p) \/ Throw(p) \/ Exit(p) \/ Restart(p)
      PROVE  [Abstract!Next]_<<file, done>>
  <2>1. CASE atomicWrite0600(p)
    <3>1. Txn(p) \in Txns \/ UNCHANGED file
      BY <2>1 DEF atomicWrite0600, IInv, TypeOK, OncePerTxn, Txn, Txns
    <3>2. CASE file' = snap[p] \cup {Txn(p)}
      <4>1. file' = file \cup {Txn(p)} /\ Txn(p) \notin file /\ UNCHANGED done
        BY <2>1, <3>2 DEF atomicWrite0600, IInv, SnapIsFile, OncePerTxn, NotYet
      <4>2. Txn(p) \in Txns
        BY <3>1, <4>1
      <4> QED BY <4>1, <4>2 DEF Abstract!Next, Abstract!Apply
    <3> QED BY <2>1, <3>2 DEF atomicWrite0600
  <2>2. CASE release(p)
    <3>1. CASE pc[p] = "committed"
      <4>1. Txn(p) \in file /\ Txn(p) \in Txns
        BY <3>1 DEF IInv, TypeOK, OncePerTxn
      <4>2. UNCHANGED file /\ (done' = done \cup {Txn(p)} \/ UNCHANGED done)
        BY <2>2, <3>1 DEF release, Succeeded
      <4> QED BY <4>1, <4>2 DEF Abstract!Next, Abstract!Report
    <3> QED BY <2>2, <3>1 DEF release, Succeeded
  <2>3. CASE withStore(p) \/ link(p) \/ see(p) \/ probe(p) \/ recheck(p)
             \/ readStoreFile(p) \/ Throw(p) \/ Exit(p) \/ Restart(p)
    BY <2>3 DEF withStore, link, see, probe, recheck, readStoreFile, Throw, Exit, Restart
  <2> QED BY <1>2, <2>1, <2>2, <2>3 DEF Step
<1> QED BY <1>1, <1>2 DEF Next

\* withStore implements the atomic store: every transaction takes effect at
\* most once, on top of all the earlier ones, before its caller hears of it.
THEOREM ImplementsAtomicStore == Spec => Refines
<1>1. Init => Abstract!Init
  BY DEF Init, Abstract!Init
<1> QED BY <1>1, StepRefines, Invariance, PTL DEF Spec, Refines, Abstract!Spec

-----------------------------------------------------------------------------
(***************************************************************************)
(* The seats: where a command is that asks for a seat and has not tried to *)
(* activate it; where it has the bearer it asked with; and where an agent  *)
(* is started.                                                             *)
(***************************************************************************)
BeforeBinding == {"choose", "prepare", "attach", "spawn", "activate"}
WithBearer    == {"attach", "spawn", "activate", "bind"}
Starting      == {"child", "hydrate", "recheck", "session"}
CommandPlaces == BeforeBinding \cup WithBearer \cup Starting \cup
                 {"idle", "reset", "prune", "launch-all", "dispatch", "launch"}

Expectations == [ref : Refs, rec : Seats]

Commands ==
    [at : CommandPlaces, cmd : {"plain", "named", "here", Nil}, root : Paths \cup {Nil},
     ref : Refs \cup {Nil}, sibling : BOOLEAN, remint : BOOLEAN,
     expect : Expectations \cup {Nil}, bearer : Bearers \cup {Nil},
     drone : Bearers \cup {Nil}, tree : Paths \cup {Nil}, want : Bearers \cup {Nil},
     todo : (SUBSET Worktrees) \cup SUBSET [tree : Worktrees, drone : Bearers]]

\* A bearer somebody accounts for: it is in the store, was let go of, or its
\* drone was evicted.
Known == {Store[r].bearer : r \in DOMAIN Store} \cup dropped \cup evicted

(***************************************************************************)
(* What a command knows, place by place.                                   *)
(***************************************************************************)
Placed(c) ==
    /\ c.at \in BeforeBinding \cup WithBearer \cup Starting \cup {"reset"} =>
           c.root \in Paths /\ c.ref \in Refs
    /\ c.at \in Starting \cup {"reset"} => c.expect \in Expectations
    /\ c.at = "prune" => c.todo \in SUBSET Worktrees
    /\ c.at \in {"launch-all", "dispatch"} =>
           c.todo \in SUBSET [tree : Worktrees, drone : Bearers]
    /\ c.at = "launch" => c.want \in Bearers

\* A re-mint is of a seat whose drone the server evicted, and which shares its
\* worktree with no other.
Settled(r) == \A w : r \in ActiveAt(Store, w) => ActiveAt(Store, w) = {r}

Reminted(c) ==
    /\ c.at \in {"choose", "launch"} => ~c.remint
    /\ c.at = "choose" /\ c.expect # Nil => Settled(c.expect.ref)
    /\ c.at = "prepare" /\ c.remint => Settled(c.ref)
    /\ c.at = "choose" /\ c.expect # Nil => c.expect.rec.drone = c.expect.rec.bearer
    /\ c.remint => c.expect # Nil /\ c.expect.rec.drone \in evicted

\* The bearer a command asks with is accounted for before the server hears it.
Asked(c) ==
    /\ c.at \in WithBearer => c.bearer \in Bearers \cap Known
    /\ c.at \in {"spawn", "activate", "bind"} => c.drone = c.bearer
    /\ c.at \in {"activate", "bind"} =>
           c.tree \in Paths /\ (c.sibling => c.tree \in Worktrees)

\* The bearers of one reference only grow, so the credential read between two
\* looks at the same drone is that drone's.
Picked(c) ==
    /\ c.at \in Starting => c.want \in {Nil, c.expect.rec.drone}
    /\ c.at = "hydrate" =>
           /\ c.expect.rec.drone \in 1 .. minted
           /\ c.ref \in DOMAIN Store => c.expect.rec.drone <= Store[c.ref].bearer
    /\ c.at = "recheck" =>
           /\ c.bearer \in 1 .. minted /\ c.expect.rec.drone \in 1 .. c.bearer
           /\ c.ref \in DOMAIN Store => c.bearer <= Store[c.ref].bearer
    /\ c.at = "session" => c.bearer = c.expect.rec.drone

CommandInv(c) == Placed(c) /\ Reminted(c) /\ Asked(c) /\ Picked(c)

(***************************************************************************)
(* The store.                                                              *)
(***************************************************************************)
\* A step leaves a path one active seat, or none it did not have.
OnlyLeave ==
    \A w : \/ \A r, q \in ActiveAt(Store', w) : r = q
           \/ ActiveAt(Store', w) \subseteq ActiveAt(Store, w)

RecordsSound ==
    \A r \in DOMAIN seats :
        /\ seats[r].bearer <= minted
        /\ seats[r].state = "active" => /\ seats[r].drone = seats[r].bearer
                                        /\ seats[r].worktree \in Paths

LiveIsKnown ==
    /\ live \cap evicted = {}
    /\ live \subseteq Known

\* Every activation numbers its binding one higher, and every command
\* activates once.
Binding == {p \in Runners : proc[p].at \in BeforeBinding}

OrdersCounted ==
    /\ IsFiniteSet(Binding) /\ Cardinality(Binding) <= runs
    /\ \A r \in DOMAIN seats : seats[r].bindingOrder + Cardinality(Binding) <= runs + 2

SeatInv ==
    /\ SeatTypeOK /\ seats = [r \in DOMAIN seats |-> seats[r]]
    /\ proc \in [Runners -> Commands]
    /\ RecordsSound /\ LiveIsKnown /\ OrdersCounted
    /\ \A p \in Runners : CommandInv(proc[p])

(***************************************************************************)
(* Reading the store.                                                      *)
(***************************************************************************)
LEMMA LessThanIsWellFounded == IsWellFoundedOn({x \in Nat \X Nat : x[1] < x[2]}, Nat)
BY NatLessThanWellFounded DEF OpToRel

\* A bounded set of numbers has a greatest one.
LEMMA GreatestExists ==
  ASSUME NEW S \in SUBSET Nat, S # {}, NEW b \in Nat, \A x \in S : x <= b
  PROVE  \E n \in S : \A x \in S : x <= n
<1> DEFINE R == {x \in Nat \X Nat : x[1] < x[2]}
           T == {b - x : x \in S}
<1>1. T \in SUBSET Nat /\ T # {}
  <2>1. \A x \in S : b - x \in Nat
    OBVIOUS
  <2>2. PICK x \in S : TRUE
    OBVIOUS
  <2>3. b - x \in T
    OBVIOUS
  <2> QED BY <2>1, <2>3
<1>2. \E m \in T : \A y \in T : <<y, m>> \notin R
  <2> HIDE DEF R, T
  <2>1. IsWellFoundedOn(R, Nat)
    BY LessThanIsWellFounded DEF R
  <2> QED BY <1>1, <2>1, WFMin
<1>3. PICK x \in S : \A y \in T : <<y, b - x>> \notin R
  BY <1>2
<1>4. ASSUME NEW z \in S PROVE z <= x
  <2>1. <<b - z, b - x>> \notin R
    BY <1>3
  <2>2. b - z \in Nat /\ b - x \in Nat
    OBVIOUS
  <2>3. ~(b - z < b - x)
    BY <2>1, <2>2
  <2> QED BY <2>3
<1> QED BY <1>4

LEMMA HighestOrderFacts ==
  ASSUME NEW s, NEW b \in Nat,
         \A r \in DOMAIN s : s[r].bindingOrder \in Nat /\ s[r].bindingOrder <= b
  PROVE  /\ HighestOrder(s) \in Nat /\ HighestOrder(s) <= b
         /\ \A r \in DOMAIN s : s[r].bindingOrder <= HighestOrder(s)
<1> DEFINE S == {0} \cup {s[r].bindingOrder : r \in DOMAIN s}
           Top(n) == \A r \in DOMAIN s : s[r].bindingOrder <= n
<1>1. S \in SUBSET Nat /\ S # {} /\ \A x \in S : x <= b
  OBVIOUS
<1>2. \E n \in S : Top(n)
  <2>1. PICK n \in S : \A x \in S : x <= n
    <3> HIDE DEF S
    <3> QED BY <1>1, GreatestExists
  <2> QED BY <2>1
<1>3. HighestOrder(s) = CHOOSE n \in S : Top(n)
  BY DEF HighestOrder
<1> HIDE DEF S
<1>4. HighestOrder(s) \in S /\ Top(HighestOrder(s))
  <2> HIDE DEF Top
  <2> QED BY <1>2, <1>3
<1> QED BY <1>1, <1>4

LEMMA LoadedFacts ==
  ASSUME NEW s
  PROVE  /\ Loaded(s) = [r \in DOMAIN Loaded(s) |-> s[r]]
         /\ DOMAIN Loaded(s) = DOMAIN s \ Superseded(s)
         /\ \A w : ActiveAt(Loaded(s), w) = ActiveAt(s, w) \ Superseded(s)
<1>1. /\ Loaded(s) = [r \in DOMAIN Loaded(s) |-> s[r]]
      /\ DOMAIN Loaded(s) = DOMAIN s \ Superseded(s)
  BY DEF Loaded
<1>2. \A r \in DOMAIN Loaded(s) : Loaded(s)[r] = s[r]
  BY <1>1
<1> QED BY <1>1, <1>2 DEF ActiveAt

\* Which binding of a path is the newest is told by its active seats alone.
LEMMA NewestAlike ==
  ASSUME NEW s, NEW t, NEW w, ActiveAt(s, w) = ActiveAt(t, w),
         \A r \in ActiveAt(s, w) : s[r] = t[r]
  PROVE  Newest(s, w) = Newest(t, w)
<1>1. {r \in ActiveAt(s, w) : s[r].bindingOrder # 0} = {r \in ActiveAt(t, w) : t[r].bindingOrder # 0}
  OBVIOUS
<1>2. PICK ordered : ordered = {r \in ActiveAt(s, w) : s[r].bindingOrder # 0}
  OBVIOUS
<1>3. \A r \in ordered : s[r] = t[r]
  BY <1>2
<1>4. Newest(s, w) = {n \in ordered :
          /\ \A r, q \in ordered : r = q \/ s[r].bindingOrder # s[q].bindingOrder
          /\ \A r \in ordered : s[r].bindingOrder <= s[n].bindingOrder}
  BY <1>2 DEF Newest
<1>5. Newest(t, w) = {n \in ordered :
          /\ \A r, q \in ordered : r = q \/ t[r].bindingOrder # t[q].bindingOrder
          /\ \A r \in ordered : t[r].bindingOrder <= t[n].bindingOrder}
  BY <1>1, <1>2 DEF Newest
<1> QED BY <1>3, <1>4, <1>5

\* A store that was read is read as it is: a path is left the one newest
\* binding, or all of its seats because none is the newest.
LEMMA LoadedAgain ==
  ASSUME NEW s
  PROVE  Superseded(Loaded(s)) = {}
<1> SUFFICES ASSUME NEW r \in Superseded(Loaded(s)) PROVE FALSE
  OBVIOUS
<1>1. PICK t : t = Loaded(s)
  OBVIOUS
<1>2. /\ r \in DOMAIN t /\ t[r].state = "active"
      /\ \E n \in Newest(t, t[r].worktree) : r # n
  BY <1>1 DEF Superseded
<1>3. PICK w : w = t[r].worktree
  OBVIOUS
<1>4. PICK n \in Newest(t, w) : r # n
  BY <1>2, <1>3
<1>5. r \in ActiveAt(t, w) /\ n \in ActiveAt(t, w)
  BY <1>2, <1>3 DEF ActiveAt, Newest
<1>6. /\ ActiveAt(t, w) = ActiveAt(s, w) \ Superseded(s)
      /\ \A x \in ActiveAt(t, w) : t[x] = s[x]
  <2>1. ActiveAt(t, w) = ActiveAt(s, w) \ Superseded(s)
    BY <1>1, LoadedFacts
  <2>2. \A x \in DOMAIN t : t[x] = s[x]
    BY <1>1 DEF Loaded
  <2>3. ActiveAt(t, w) \subseteq DOMAIN t
    BY DEF ActiveAt
  <2> QED BY <2>1, <2>2, <2>3
<1>7. \A x \in ActiveAt(s, w) : x \in DOMAIN s /\ s[x].state = "active" /\ s[x].worktree = w
  BY DEF ActiveAt
<1>8. CASE Newest(s, w) = {}
  <2>1. \A x \in ActiveAt(s, w) : x \notin Superseded(s)
    BY <1>7, <1>8 DEF Superseded
  <2>2. ActiveAt(t, w) = ActiveAt(s, w)
    BY <1>6, <2>1
  <2>3. Newest(t, w) = Newest(s, w)
    BY <1>6, <2>2, NewestAlike
  <2> QED BY <1>8, <2>3
<1>9. ASSUME NEW m \in Newest(s, w) PROVE FALSE
  <2>1. \A x \in ActiveAt(s, w) : x # m => x \in Superseded(s)
    BY <1>7 DEF Superseded
  <2> QED BY <1>4, <1>5, <1>6, <2>1
<1> QED BY <1>8, <1>9

LEMMA StoreFacts ==
  ASSUME SeatInv
  PROVE  /\ \A r \in DOMAIN Store : /\ r \in Refs /\ Store[r] \in Seats
                                    /\ Store[r].bearer \in 1 .. minted
                                    /\ Store[r].bearer \in Known
                                    /\ Store[r].state = "active" =>
                                         /\ Store[r].drone = Store[r].bearer
                                         /\ Store[r].worktree \in Paths
                                    /\ Store[r].bindingOrder + Cardinality(Binding) <= runs + 2
         /\ Superseded(Store) = {} /\ Store = [r \in DOMAIN Store |-> Store[r]]
<1>1. /\ Store = [r \in DOMAIN Store |-> seats[r]] /\ DOMAIN Store \subseteq DOMAIN seats
      /\ Superseded(Store) = {}
  BY LoadedFacts, LoadedAgain DEF Store
<1>2. ASSUME NEW r \in DOMAIN Store
      PROVE  /\ r \in Refs /\ Store[r] \in Seats /\ Store[r].bearer \in 1 .. minted
             /\ Store[r].bearer \in Known
             /\ Store[r].state = "active" => /\ Store[r].drone = Store[r].bearer
                                             /\ Store[r].worktree \in Paths
             /\ Store[r].bindingOrder + Cardinality(Binding) <= runs + 2
  <2>1. Store[r] = seats[r] /\ r \in DOMAIN seats
    BY <1>1
  <2>2. seats[r].bearer \in 1 .. minted /\ seats[r] \in Seats /\ r \in Refs
    <3>1. seats[r] \in Seats /\ r \in Refs /\ seats[r].bearer <= minted /\ minted \in 0 .. MaxBearers
      BY <2>1 DEF SeatInv, SeatTypeOK, RecordsSound
    <3>2. seats[r].bearer \in 1 .. MaxBearers
      BY <3>1 DEF Seats, Bearers
    <3> QED BY <3>1, <3>2, SeatAssumption
  <2>3. Store[r].bearer \in Known
    BY DEF Known
  <2> QED BY <2>1, <2>2, <2>3 DEF SeatInv, RecordsSound, OrdersCounted
<1> QED BY <1>1, <1>2

(***************************************************************************)
(* Steps.                                                                  *)
(***************************************************************************)

\* What a step may do to what commands know: a reference keeps its bearer or
\* gets the next one, and no bearer is forgotten.
Grows ==
    /\ minted \in 0 .. MaxBearers /\ minted' \in 0 .. MaxBearers /\ minted <= minted'
    /\ Known \subseteq Known' /\ evicted \subseteq evicted'
    /\ \A r \in DOMAIN Store : Store[r].bearer \in 1 .. minted
    /\ \A r \in DOMAIN Store' : \/ r \in DOMAIN Store /\ Store'[r].bearer = Store[r].bearer
                                \/ Store'[r].bearer = minted + 1
    /\ OnlyLeave

LEMMA SettledKept ==
  ASSUME NEW r, Settled(r), OnlyLeave
  PROVE  Settled(r)'
BY DEF Settled, OnlyLeave, ActiveAt

LEMMA CommandKept ==
  ASSUME NEW c, CommandInv(c), Grows
  PROVE  CommandInv(c)'
<1>1. Placed(c)'
  BY DEF CommandInv, Placed
<1>2. Reminted(c)'
  BY SettledKept DEF CommandInv, Reminted, Grows
<1>3. Asked(c)'
  BY DEF CommandInv, Asked, Grows
<1>4. Picked(c)'
  <2>1. c.at \in Starting => c.want \in {Nil, c.expect.rec.drone}
    BY DEF CommandInv, Picked
  <2>2. c.at = "hydrate" =>
           /\ c.expect.rec.drone \in 1 .. minted'
           /\ c.ref \in DOMAIN Store' => c.expect.rec.drone <= Store'[c.ref].bearer
    BY SeatAssumption DEF CommandInv, Picked, Grows
  <2>3. c.at = "recheck" =>
           /\ c.bearer \in 1 .. minted' /\ c.expect.rec.drone \in 1 .. c.bearer
           /\ c.ref \in DOMAIN Store' => c.bearer <= Store'[c.ref].bearer
    BY SeatAssumption DEF CommandInv, Picked, Grows
  <2>4. c.at = "session" => c.bearer = c.expect.rec.drone
    BY DEF CommandInv, Picked
  <2> QED BY <2>1, <2>2, <2>3, <2>4 DEF Picked
<1> QED BY <1>1, <1>2, <1>3, <1>4 DEF CommandInv

\* The count of commands that may still activate.
LEMMA CountKept ==
  ASSUME SeatInv, NEW p \in Runners, NEW c, proc' = [proc EXCEPT ![p] = c],
         c.at \in BeforeBinding => proc[p].at \in BeforeBinding
  PROVE  /\ IsFiniteSet(Binding') /\ Cardinality(Binding') \in Nat
         /\ Cardinality(Binding') <= Cardinality(Binding)
         /\ proc[p].at \in BeforeBinding /\ c.at \notin BeforeBinding
              => Cardinality(Binding') + 1 = Cardinality(Binding)
<1>1. IsFiniteSet(Binding) /\ Cardinality(Binding) \in Nat /\ proc \in [Runners -> Commands]
  BY FS_CardinalityType DEF SeatInv, OrdersCounted
<1>2. \A q \in Runners : proc'[q] = IF q = p THEN c ELSE proc[q]
  BY <1>1
<1>3. CASE c.at \in BeforeBinding
  <2>1. Binding' = Binding
    BY <1>2, <1>3 DEF Binding
  <2> QED BY <1>1, <1>3, <2>1
<1>4. CASE c.at \notin BeforeBinding
  <2>1. Binding' = Binding \ {p}
    BY <1>2, <1>4 DEF Binding
  <2>2. /\ IsFiniteSet(Binding \ {p})
        /\ Cardinality(Binding \ {p}) = IF p \in Binding THEN Cardinality(Binding) - 1
                                        ELSE Cardinality(Binding)
    BY <1>1, FS_RemoveElement
  <2>3. Cardinality(Binding \ {p}) \in Nat
    BY <2>2, FS_CardinalityType
  <2>4. proc[p].at \in BeforeBinding => p \in Binding
    BY DEF Binding
  <2> QED BY <1>1, <2>1, <2>2, <2>3, <2>4
<1> QED BY <1>3, <1>4

LEMMA CountStarted ==
  ASSUME SeatInv, NEW p \in Runners, NEW c, proc' = [proc EXCEPT ![p] = c]
  PROVE  /\ IsFiniteSet(Binding') /\ Cardinality(Binding') \in Nat
         /\ Cardinality(Binding') <= Cardinality(Binding) + 1
<1>1. IsFiniteSet(Binding) /\ Cardinality(Binding) \in Nat /\ proc \in [Runners -> Commands]
  BY FS_CardinalityType DEF SeatInv, OrdersCounted
<1>2. \A q \in Runners : proc'[q] = IF q = p THEN c ELSE proc[q]
  BY <1>1
<1>3. /\ IsFiniteSet(Binding \cup {p})
      /\ Cardinality(Binding \cup {p}) = IF p \in Binding THEN Cardinality(Binding)
                                         ELSE Cardinality(Binding) + 1
  BY <1>1, FS_AddElement
<1>4. Binding' \in SUBSET (Binding \cup {p})
  BY <1>2 DEF Binding
<1>5. IsFiniteSet(Binding') /\ Cardinality(Binding') <= Cardinality(Binding \cup {p})
  BY <1>3, <1>4, FS_Subset
<1>6. Cardinality(Binding') \in Nat
  BY <1>5, FS_CardinalityType
<1> QED BY <1>1, <1>3, <1>5, <1>6

\* A step of p that leaves the store, the server and the bearers alone.
LEMMA QuietStep ==
  ASSUME SeatInv, NEW p \in Runners, NEW c \in Commands, CommandInv(c),
         proc' = [proc EXCEPT ![p] = c],
         UNCHANGED <<seats, live, evicted, dropped, minted>>,
         \/ UNCHANGED runs /\ (c.at \in BeforeBinding => proc[p].at \in BeforeBinding)
         \/ runs < MaxRuns /\ runs' = runs + 1,
         trees' \subseteq Paths, Home \in trees', markers' \subseteq Worktrees,
         seatFaults' \in 0 .. MaxSeatFaults
  PROVE  SeatInv'
<1>1. Store' = Store /\ Known' = Known
  BY DEF Store, Known
<1>2. Grows
  BY <1>1, StoreFacts DEF Grows, OnlyLeave, SeatInv, SeatTypeOK
<1>3. proc \in [Runners -> Commands] /\ runs \in 0 .. MaxRuns
  BY DEF SeatInv, SeatTypeOK
<1>4. proc' \in [Runners -> Commands]
  BY <1>3
<1>5. \A q \in Runners : CommandInv(proc[q])'
  <2> SUFFICES ASSUME NEW q \in Runners PROVE CommandInv(proc[q])'
    OBVIOUS
  <2>1. PICK d : d = proc'[q]
    OBVIOUS
  <2>2. CommandInv(d)
    <3>1. CASE q = p
      BY <1>3, <2>1, <3>1
    <3>2. CASE q # p
      BY <1>3, <2>1, <3>2 DEF SeatInv
    <3> QED BY <3>1, <3>2
  <2>3. CommandInv(d)'
    BY <1>2, <2>2, CommandKept
  <2> QED BY <2>1, <2>3
<1>6. SeatTypeOK'
  BY SeatAssumption DEF SeatInv, SeatTypeOK
<1>7. OrdersCounted'
  <2>1. Cardinality(Binding) \in Nat /\ Cardinality(Binding) <= runs
    BY FS_CardinalityType DEF SeatInv, OrdersCounted
  <2>2. \A r \in DOMAIN seats : /\ seats[r].bindingOrder \in Nat
                                /\ seats[r].bindingOrder + Cardinality(Binding) <= runs + 2
    BY SeatAssumption DEF SeatInv, SeatTypeOK, Seats, OrdersCounted
  <2>3. CASE UNCHANGED runs /\ (c.at \in BeforeBinding => proc[p].at \in BeforeBinding)
    <3>1. /\ IsFiniteSet(Binding') /\ Cardinality(Binding') \in Nat
          /\ Cardinality(Binding') <= Cardinality(Binding)
      BY <2>3, CountKept
    <3> QED BY <1>3, <2>1, <2>2, <2>3, <3>1, SeatAssumption DEF OrdersCounted
  <2>4. CASE runs' = runs + 1
    <3>1. /\ IsFiniteSet(Binding') /\ Cardinality(Binding') \in Nat
          /\ Cardinality(Binding') <= Cardinality(Binding) + 1
      BY CountStarted
    <3> QED BY <1>3, <2>1, <2>2, <2>4, <3>1, SeatAssumption DEF OrdersCounted
  <2> QED BY <2>3, <2>4
<1>8. RecordsSound' /\ LiveIsKnown'
  BY <1>1 DEF SeatInv, RecordsSound, LiveIsKnown
<1>9. (seats = [r \in DOMAIN seats |-> seats[r]])'
  BY DEF SeatInv
<1> QED BY <1>4, <1>5, <1>6, <1>7, <1>8, <1>9 DEF SeatInv

\* Every place of the model is one of the command's.
LEMMA PlaceFacts ==
  CommandPlaces = {"idle", "choose", "prepare", "attach", "spawn", "activate", "bind", "reset",
                   "prune", "child", "hydrate", "recheck", "session", "launch-all", "dispatch",
                   "launch"}
BY DEF CommandPlaces, BeforeBinding, WithBearer, Starting

LEMMA IdleFacts ==
  Idle \in Commands /\ Idle.at = "idle" /\ (SeatTypeOK => CommandInv(Idle))
<1>1. Idle \in Commands /\ Idle.at = "idle"
  BY DEF Idle, Commands, CommandPlaces
<1>2. Placed(Idle) /\ Reminted(Idle) /\ Asked(Idle) /\ Picked(Idle)
  BY DEF Idle, Placed, Reminted, Asked, Picked, BeforeBinding, WithBearer, Starting
<1> QED BY <1>1, <1>2 DEF CommandInv

LEMMA HereFacts ==
  ASSUME SeatInv, NEW p \in Runners
  PROVE  /\ proc[p] \in Commands /\ CommandInv(proc[p])
         /\ trees \subseteq Paths /\ Home \in trees /\ markers \subseteq Worktrees
         /\ seatFaults \in 0 .. MaxSeatFaults /\ runs \in 0 .. MaxRuns
         /\ minted \in 0 .. MaxBearers
BY DEF SeatInv, SeatTypeOK

\* A fault is counted, and one is only had while the budget lasts.
LEMMA FaultCounted ==
  ASSUME SeatInv, SeatFault \/ UNCHANGED seatFaults
  PROVE  seatFaults' \in 0 .. MaxSeatFaults
BY SeatAssumption DEF SeatInv, SeatTypeOK, SeatFault

\* A command that ends, whatever it did to the worktrees.
LEMMA StopStep ==
  ASSUME SeatInv, NEW p \in Runners, Stop(p),
         UNCHANGED <<seats, live, evicted, dropped, minted, runs>>,
         trees' \subseteq Paths, Home \in trees', markers' \subseteq Worktrees,
         SeatFault \/ UNCHANGED seatFaults
  PROVE  SeatInv'
<1>1. Idle \in Commands /\ CommandInv(Idle) /\ Idle.at \notin BeforeBinding
  BY IdleFacts DEF SeatInv, BeforeBinding
<1> QED BY <1>1, QuietStep, FaultCounted DEF Stop, Set

LEMMA BeginInv ==
  ASSUME SeatInv, NEW p \in Runners, NEW cmd \in {"plain", "named", "here"}, NEW w \in Paths,
         Begin(p, cmd, w)
  PROVE  SeatInv'
<1> DEFINE here == ActiveAt(Store, w)
           sib  == cmd = "named" \/ (cmd = "plain" /\ ~(here = {} /\ BoundTo(w) # {}))
           one == CHOOSE r \in here : TRUE
<1>1. PICK c : /\ c = [Idle EXCEPT !.at = "choose", !.cmd = cmd, !.root = w, !.sibling = sib,
                               !.ref = [root |-> w,
                                        key |-> IF cmd = "named" THEN Named ELSE runs + 1],
                               !.expect = IF here = {} THEN Nil
                                          ELSE [ref |-> one, rec |-> Store[one]]]
               /\ proc' = [proc EXCEPT ![p] = c]
  BY DEF Begin, Set
<1>2. runs < MaxRuns /\ runs' = runs + 1 /\ runs \in 0 .. MaxRuns
  BY HereFacts DEF Begin
<1>3. [root |-> w, key |-> IF cmd = "named" THEN Named ELSE runs + 1] \in Refs
  BY <1>2, SeatAssumption DEF Refs, Named
<1>4. PICK e : e = IF here = {} THEN Nil ELSE [ref |-> one, rec |-> Store[one]]
  OBVIOUS
<1>5. /\ e \in Expectations \cup {Nil}
      /\ e # Nil => e.rec.drone = e.rec.bearer /\ Settled(e.ref)
  <2>1. CASE here = {}
    BY <1>4, <2>1
  <2>2. CASE here # {}
    <3>1. one \in here
      BY <2>2
    <3>2. one \in DOMAIN Store /\ Store[one].state = "active"
      BY <3>1 DEF ActiveAt
    <3>3. one \in Refs /\ Store[one] \in Seats /\ Store[one].drone = Store[one].bearer
      BY <3>2, StoreFacts
    <3>4. here = {one}
      BY <3>1 DEF Begin
    <3>5. Settled(one)
      BY <3>2, <3>4 DEF Settled, ActiveAt
    <3> QED BY <1>4, <2>2, <3>3, <3>5 DEF Expectations
  <2> QED BY <2>1, <2>2
<1> HIDE DEF here, sib, one
<1>6. sib \in BOOLEAN
  BY DEF sib
<1>7. /\ c \in Commands /\ c.at = "choose" /\ c.root = w /\ c.ref \in Refs /\ c.expect = e
      /\ c.remint = FALSE
  BY <1>1, <1>3, <1>4, <1>5, <1>6 DEF Idle, Commands, CommandPlaces, BeforeBinding
<1>8. CommandInv(c)
  BY <1>5, <1>7 DEF CommandInv, Placed, Reminted, Asked, Picked, BeforeBinding, WithBearer, Starting
<1>9. UNCHANGED <<seats, trees, live, evicted, dropped, minted, seatFaults, markers>>
  BY DEF Begin
<1> QED BY <1>1, <1>2, <1>7, <1>8, <1>9, QuietStep, HereFacts

LEMMA chooseSiblingInv ==
  ASSUME SeatInv, NEW p \in Runners, chooseSibling(p)
  PROVE  SeatInv'
<1>1. proc[p].at = "choose" /\ UNCHANGED <<seats, trees, live, evicted, dropped, minted, runs, seatFaults, markers>>
  BY DEF chooseSibling
<1>2. \E r \in Refs : proc' = [proc EXCEPT ![p] = [proc[p] EXCEPT !.at = "prepare", !.expect = Nil, !.ref = r]]
  <2>1. CASE Set(p, [proc[p] EXCEPT !.at = "prepare", !.expect = Nil])
    <3>1. proc[p].ref \in Refs /\ proc[p] \in Commands
      BY <1>1, HereFacts DEF CommandInv, Placed, BeforeBinding
    <3>2. [proc[p] EXCEPT !.at = "prepare", !.expect = Nil, !.ref = proc[p].ref]
            = [proc[p] EXCEPT !.at = "prepare", !.expect = Nil]
      BY <3>1 DEF Commands
    <3> QED BY <2>1, <3>1, <3>2 DEF Set
  <2>2. ASSUME NEW r \in findIncompleteSiblingAttempt(proc[p].root),
               Set(p, [proc[p] EXCEPT !.at = "prepare", !.expect = Nil, !.ref = r])
        PROVE  r \in Refs
    BY StoreFacts DEF findIncompleteSiblingAttempt
  <2> QED BY <2>1, <2>2 DEF chooseSibling, Set
<1>3. PICK r \in Refs : proc' = [proc EXCEPT ![p] = [proc[p] EXCEPT !.at = "prepare", !.expect = Nil, !.ref = r]]
  BY <1>2
<1>4. PICK c : c = [proc[p] EXCEPT !.at = "prepare", !.expect = Nil, !.ref = r]
  OBVIOUS
<1>a. proc[p] \in Commands /\ proc[p].root \in Paths
  BY <1>1, HereFacts DEF CommandInv, Placed, BeforeBinding
<1>5. /\ c \in Commands /\ c.at = "prepare" /\ c.root \in Paths /\ c.ref \in Refs
      /\ c.remint = proc[p].remint
  BY <1>a, <1>4, PlaceFacts DEF Commands
<1>6. proc[p].remint = FALSE
  BY <1>1, HereFacts DEF CommandInv, Reminted, Commands
<1>7. CommandInv(c)
  BY <1>5, <1>6 DEF CommandInv, Placed, Reminted, Asked, Picked, BeforeBinding, WithBearer, Starting
<1> QED BY <1>1, <1>3, <1>4, <1>5, <1>7, QuietStep, HereFacts DEF BeforeBinding

LEMMA resumePersistedInv ==
  ASSUME SeatInv, NEW p \in Runners, resumePersisted(p)
  PROVE  SeatInv'
<1>1. /\ proc[p].at = "choose"
      /\ UNCHANGED <<seats, trees, live, evicted, dropped, minted, runs, seatFaults, markers>>
  BY DEF resumePersisted
<1>2. CASE Stop(p)
  BY <1>1, <1>2, StopStep, HereFacts
<1>3. ASSUME NEW r \in BoundTo(proc[p].root),
             Set(p, [proc[p] EXCEPT !.at = "prepare", !.ref = r,
                        !.expect = IF Store[r].state = "pending" THEN Nil
                                   ELSE [ref |-> r, rec |-> Store[r]]])
      PROVE  SeatInv'
  <2>1. PICK e : e = IF Store[r].state = "pending" THEN Nil ELSE [ref |-> r, rec |-> Store[r]]
    OBVIOUS
  <2>2. r \in Refs /\ e \in Expectations \cup {Nil}
    BY <2>1, StoreFacts DEF BoundTo, Expectations
  <2>3. PICK c : c = [proc[p] EXCEPT !.at = "prepare", !.ref = r, !.expect = e]
    OBVIOUS
  <2>a. proc[p] \in Commands /\ proc[p].root \in Paths
    BY <1>1, HereFacts DEF CommandInv, Placed, BeforeBinding
  <2>4. /\ c \in Commands /\ c.at = "prepare" /\ c.root \in Paths /\ c.ref \in Refs
        /\ c.remint = proc[p].remint
    BY <2>a, <2>2, <2>3, PlaceFacts DEF Commands
  <2>5. proc[p].remint = FALSE
    BY <1>1, HereFacts DEF CommandInv, Reminted, Commands
  <2>6. CommandInv(c)
    BY <2>4, <2>5 DEF CommandInv, Placed, Reminted, Asked, Picked, BeforeBinding, WithBearer, Starting
  <2> QED BY <1>1, <1>3, <2>1, <2>3, <2>4, <2>6, QuietStep, HereFacts DEF BeforeBinding, Set
<1> QED BY <1>2, <1>3 DEF resumePersisted

LEMMA probeSeatInv ==
  ASSUME SeatInv, NEW p \in Runners, probeSeat(p)
  PROVE  SeatInv'
<1>1. /\ proc[p].at = "choose" /\ proc[p].expect # Nil
      /\ UNCHANGED <<seats, trees, live, evicted, dropped, minted, runs, markers>>
  BY DEF probeSeat
<1>2. CASE SeatFault /\ Stop(p)
  BY <1>1, <1>2, StopStep, HereFacts
<1>3. CASE /\ Status(proc[p].expect.rec.bearer) \in {"live", "evicted"}
           /\ Set(p, [proc[p] EXCEPT !.at = "prepare", !.ref = proc[p].expect.ref,
                         !.remint = Status(proc[p].expect.rec.bearer) = "evicted"])
           /\ UNCHANGED seatFaults
  <2>1. proc[p].expect \in Expectations /\ proc[p].expect.rec.drone = proc[p].expect.rec.bearer
    BY <1>1, HereFacts DEF Commands, CommandInv, Reminted
  <2>2. PICK e, m : e = proc[p].expect /\ m = (Status(e.rec.bearer) = "evicted")
    OBVIOUS
  <2>3. m \in BOOLEAN /\ (m => e.rec.drone \in evicted) /\ Settled(e.ref)
    BY <1>1, <2>1, <2>2, HereFacts DEF Status, CommandInv, Reminted
  <2>4. PICK c : c = [proc[p] EXCEPT !.at = "prepare", !.ref = e.ref, !.remint = m]
    OBVIOUS
  <2>a. proc[p] \in Commands /\ proc[p].root \in Paths
    BY <1>1, HereFacts DEF CommandInv, Placed, BeforeBinding
  <2>b. e.ref \in Refs
    BY <2>1, <2>2 DEF Expectations
  <2>5. /\ c \in Commands /\ c.at = "prepare" /\ c.root \in Paths /\ c.ref \in Refs
        /\ c.remint = m /\ c.expect = e /\ c.ref = e.ref
    <3>1. m = TRUE \/ m = FALSE
      BY <2>3
    <3>2. CASE m = TRUE
      BY <2>a, <2>b, <2>2, <2>4, <3>2, PlaceFacts DEF Commands
    <3>3. CASE m = FALSE
      BY <2>a, <2>b, <2>2, <2>4, <3>3, PlaceFacts DEF Commands
    <3> QED BY <3>1, <3>2, <3>3
  <2>6. CommandInv(c)
    BY <1>1, <2>2, <2>3, <2>5
       DEF CommandInv, Placed, Reminted, Asked, Picked, BeforeBinding, WithBearer, Starting
  <2> QED BY <1>1, <1>3, <2>2, <2>4, <2>5, <2>6, QuietStep, HereFacts DEF BeforeBinding, Set
<1> QED BY <1>2, <1>3 DEF probeSeat

LEMMA prepareAssimilationWorktreeInv ==
  ASSUME SeatInv, NEW p \in Runners, prepareAssimilationWorktree(p)
  PROVE  SeatInv'
<1>1. /\ proc[p].at = "spawn"
      /\ UNCHANGED <<seats, live, evicted, dropped, minted, runs, markers>>
  BY DEF prepareAssimilationWorktree
<1>2. CASE Stop(p) /\ UNCHANGED trees /\ (SeatFault \/ UNCHANGED seatFaults)
  BY <1>1, <1>2, StopStep, HereFacts
<1>3. ASSUME NEW w \in Worktrees, trees' = trees \cup {w}, UNCHANGED seatFaults,
             Set(p, [proc[p] EXCEPT !.at = "activate", !.tree = w])
      PROVE  SeatInv'
  <2>1. PICK c : c = [proc[p] EXCEPT !.at = "activate", !.tree = w]
    OBVIOUS
  <2>a. proc[p] \in Commands /\ proc[p].root \in Paths /\ proc[p].ref \in Refs
    BY <1>1, HereFacts DEF CommandInv, Placed, BeforeBinding
  <2>b. w \in Paths
    BY DEF Paths
  <2>2. /\ c \in Commands /\ c.at = "activate" /\ c.tree = w /\ c.root \in Paths /\ c.ref \in Refs
        /\ c.remint = proc[p].remint /\ c.expect = proc[p].expect
        /\ c.bearer = proc[p].bearer /\ c.drone = proc[p].drone
    BY <2>a, <2>b, <2>1, PlaceFacts DEF Commands
  <2>3. CommandInv(c)
    BY <1>1, <2>2, HereFacts
       DEF CommandInv, Placed, Reminted, Asked, Picked, BeforeBinding, WithBearer, Starting, Paths
  <2>4. trees' \subseteq Paths /\ Home \in trees'
    BY <1>3, HereFacts DEF Paths
  <2> QED BY <1>1, <1>3, <2>1, <2>2, <2>3, <2>4, QuietStep, HereFacts DEF BeforeBinding, Set
<1> QED BY <1>2, <1>3 DEF prepareAssimilationWorktree

LEMMA launchAccessFailsInv ==
  ASSUME SeatInv, NEW p \in Runners, launchAccessFails(p)
  PROVE  SeatInv'
<1>1. trees' \subseteq Paths /\ Home \in trees'
  BY HereFacts, SeatAssumption
     DEF launchAccessFails, Rollback, CommandInv, Asked
<1> QED BY <1>1, StopStep, HereFacts DEF launchAccessFails

LEMMA snapshotLocalSeatInv ==
  ASSUME SeatInv, NEW p \in Runners, NEW w \in Paths, snapshotLocalSeat(p, w)
  PROVE  SeatInv'
<1>1. PICK r \in BoundTo(w) :
        Set(p, [Idle EXCEPT !.at = "reset", !.root = w, !.ref = r,
                            !.expect = [ref |-> r, rec |-> Store[r]]])
  BY DEF snapshotLocalSeat
<1>2. r \in Refs /\ Store[r] \in Seats
  BY StoreFacts DEF BoundTo
<1>3. PICK c : c = [Idle EXCEPT !.at = "reset", !.root = w, !.ref = r,
                                !.expect = [ref |-> r, rec |-> Store[r]]]
  OBVIOUS
<1>4. /\ c \in Commands /\ c.at = "reset" /\ c.root = w /\ c.ref = r /\ c.remint = FALSE
      /\ c.expect \in Expectations
  BY <1>2, <1>3 DEF Idle, Commands, CommandPlaces, Expectations
<1>5. CommandInv(c)
  BY <1>2, <1>4
     DEF CommandInv, Placed, Reminted, Asked, Picked, BeforeBinding, WithBearer, Starting
<1>6. /\ runs < MaxRuns /\ runs' = runs + 1
      /\ UNCHANGED <<seats, trees, live, evicted, dropped, minted, seatFaults, markers>>
  BY DEF snapshotLocalSeat
<1> QED BY <1>1, <1>3, <1>4, <1>5, <1>6, QuietStep, HereFacts DEF Set

LEMMA buildCleanupReportInv ==
  ASSUME SeatInv, NEW p \in Runners, buildCleanupReport(p)
  PROVE  SeatInv'
<1>1. PICK gone \in SUBSET Worktrees : Set(p, [Idle EXCEPT !.at = "prune", !.todo = gone])
  <2>1. trees \ {Home} \subseteq Worktrees
    BY HereFacts DEF Paths
  <2> QED BY <2>1 DEF buildCleanupReport
<1>2. PICK c : c = [Idle EXCEPT !.at = "prune", !.todo = gone]
  OBVIOUS
<1>3. c \in Commands /\ c.at = "prune" /\ c.todo = gone /\ c.remint = FALSE
  BY <1>2, PlaceFacts DEF Idle, Commands
<1>4. CommandInv(c)
  BY <1>3 DEF CommandInv, Placed, Reminted, Asked, Picked, BeforeBinding, WithBearer, Starting
<1>5. /\ runs < MaxRuns /\ runs' = runs + 1
      /\ UNCHANGED <<seats, trees, live, evicted, dropped, minted, seatFaults, markers>>
  BY DEF buildCleanupReport
<1> QED BY <1>1, <1>2, <1>3, <1>4, <1>5, QuietStep, HereFacts DEF Set

LEMMA pruneWorktreeInv ==
  ASSUME SeatInv, NEW p \in Runners, pruneWorktree(p)
  PROVE  SeatInv'
<1>1. /\ proc[p].at = "prune" /\ proc[p] \in Commands /\ proc[p].todo \in SUBSET Worktrees
      /\ UNCHANGED <<seats, live, evicted, dropped, minted, runs, seatFaults, markers>>
  BY HereFacts DEF pruneWorktree, CommandInv, Placed
<1>2. CASE Stop(p) /\ UNCHANGED trees
  BY <1>1, <1>2, StopStep, HereFacts
<1>3. ASSUME NEW w \in proc[p].todo, trees' = trees \ {w},
             Set(p, [proc[p] EXCEPT !.todo = @ \ {w}])
      PROVE  SeatInv'
  <2>1. PICK left \in SUBSET Worktrees : left = proc[p].todo \ {w}
    BY <1>1
  <2>2. PICK c : c = [proc[p] EXCEPT !.todo = left]
    OBVIOUS
  <2>3. /\ c \in Commands /\ c.at = "prune" /\ c.todo = left /\ c.remint = proc[p].remint
        /\ c.expect = proc[p].expect
    BY <1>1, <2>1, <2>2 DEF Commands
  <2>4. CommandInv(c)
    BY <1>1, <2>3, HereFacts
       DEF CommandInv, Placed, Reminted, Asked, Picked, BeforeBinding, WithBearer, Starting
  <2>5. trees' \subseteq Paths /\ Home \in trees'
    BY <1>1, <1>3, HereFacts, SeatAssumption
  <2> QED BY <1>1, <1>3, <2>1, <2>2, <2>3, <2>4, <2>5, QuietStep, HereFacts DEF BeforeBinding, Set
<1> QED BY <1>2, <1>3 DEF pruneWorktree

\* A launch is given an active seat to expect.
LEMMA StartFacts ==
  ASSUME SeatInv, NEW b \in Commands, b.remint = FALSE, NEW w \in Paths, NEW r \in ActiveAt(Store, w),
         b.want \in {Nil, Store[r].drone}, NEW c,
         c = [b EXCEPT !.at = "child", !.root = w, !.ref = r,
                       !.expect = [ref |-> r, rec |-> Store[r]]]
  PROVE  c \in Commands /\ CommandInv(c) /\ c.at = "child"
<1>1. r \in Refs /\ Store[r] \in Seats
  BY StoreFacts DEF ActiveAt
<1>2. PICK e : e = [ref |-> r, rec |-> Store[r]]
  OBVIOUS
<1>3. e \in Expectations /\ e.rec = Store[r]
  BY <1>1, <1>2 DEF Expectations
<1>4. /\ c \in Commands /\ c.at = "child" /\ c.root = w /\ c.ref = r /\ c.expect = e
      /\ c.want = b.want /\ c.remint = b.remint
  BY <1>1, <1>2, <1>3, PlaceFacts DEF Commands
<1> QED BY <1>1, <1>3, <1>4
        DEF CommandInv, Placed, Reminted, Asked, Picked, BeforeBinding, WithBearer, Starting

LEMMA runLaunchSeatInv ==
  ASSUME SeatInv, NEW p \in Runners, NEW w \in Paths, runLaunchSeat(p, w)
  PROVE  SeatInv'
<1>1. PICK r \in ActiveAt(Store, w) :
        Set(p, [Idle EXCEPT !.at = "child", !.root = w, !.ref = r,
                            !.expect = [ref |-> r, rec |-> Store[r]]])
  BY DEF runLaunchSeat
<1>2. PICK c : c = [Idle EXCEPT !.at = "child", !.root = w, !.ref = r,
                                !.expect = [ref |-> r, rec |-> Store[r]]]
  OBVIOUS
<1>3. Idle \in Commands /\ Idle.remint = FALSE /\ Idle.want = Nil
  BY IdleFacts DEF Idle
<1>4. c \in Commands /\ CommandInv(c)
  BY <1>2, <1>3, StartFacts
<1>5. /\ runs < MaxRuns /\ runs' = runs + 1
      /\ UNCHANGED <<seats, trees, live, evicted, dropped, minted, seatFaults, markers>>
  BY DEF runLaunchSeat
<1> QED BY <1>1, <1>2, <1>4, <1>5, QuietStep, HereFacts DEF Set

\* The drone of the seat that was expected is the one its bearer stands for.
LEMMA ExpectedFacts ==
  ASSUME SeatInv, NEW c, Expected(c)
  PROVE  /\ c.ref \in DOMAIN Store /\ c.expect.rec.drone = Store[c.ref].bearer
         /\ c.expect.rec.drone \in 1 .. minted
<1>1. c.ref \in ActiveAt(Store, c.root)
  BY DEF Expected
<1>2. c.ref \in DOMAIN Store /\ Store[c.ref].state = "active"
  BY <1>1 DEF ActiveAt
<1> QED BY <1>2, StoreFacts DEF Expected

LEMMA readActiveSeatInv ==
  ASSUME SeatInv, NEW p \in Runners, readActiveSeat(p)
  PROVE  SeatInv'
<1>1. /\ proc[p].at = "child" /\ proc[p] \in Commands
      /\ UNCHANGED <<seats, trees, live, evicted, dropped, minted, runs, seatFaults, markers>>
  BY HereFacts DEF readActiveSeat
<1>2. CASE Stop(p)
  BY <1>1, <1>2, StopStep, HereFacts
<1>3. CASE Expected(proc[p]) /\ Set(p, [proc[p] EXCEPT !.at = "hydrate"])
  <2>1. PICK c : c = [proc[p] EXCEPT !.at = "hydrate"]
    OBVIOUS
  <2>2. /\ c \in Commands /\ c.at = "hydrate" /\ c.root = proc[p].root /\ c.ref = proc[p].ref
        /\ c.expect = proc[p].expect /\ c.want = proc[p].want /\ c.remint = proc[p].remint
    BY <1>1, <2>1, PlaceFacts DEF Commands
  <2>3. /\ c.ref \in DOMAIN Store /\ c.expect.rec.drone = Store[c.ref].bearer
        /\ c.expect.rec.drone \in 1 .. minted
    BY <1>3, <2>2, ExpectedFacts
  <2>4. CommandInv(c)
    BY <1>1, <2>2, <2>3, HereFacts
       DEF CommandInv, Placed, Reminted, Asked, Picked, BeforeBinding, WithBearer, Starting
  <2> QED BY <1>1, <1>3, <2>1, <2>2, <2>4, QuietStep, HereFacts DEF BeforeBinding, Set
<1> QED BY <1>2, <1>3 DEF readActiveSeat

LEMMA hydrateActiveCubeInv ==
  ASSUME SeatInv, NEW p \in Runners, hydrateActiveCube(p)
  PROVE  SeatInv'
<1>1. /\ proc[p].at = "hydrate" /\ proc[p] \in Commands
      /\ UNCHANGED <<seats, trees, live, evicted, dropped, minted, runs, seatFaults, markers>>
  BY HereFacts DEF hydrateActiveCube
<1>2. CASE Stop(p)
  BY <1>1, <1>2, StopStep, HereFacts
<1>3. CASE /\ proc[p].ref \in DOMAIN Store
           /\ Set(p, [proc[p] EXCEPT !.at = "recheck", !.bearer = Store[proc[p].ref].bearer])
  <2>1. PICK b : b = Store[proc[p].ref].bearer
    OBVIOUS
  <2>2. b \in Bearers /\ b \in 1 .. minted /\ minted \in Nat
    BY <1>3, <2>1, StoreFacts, HereFacts, SeatAssumption DEF Seats
  <2>3. PICK c : c = [proc[p] EXCEPT !.at = "recheck", !.bearer = b]
    OBVIOUS
  <2>4. /\ c \in Commands /\ c.at = "recheck" /\ c.root = proc[p].root /\ c.ref = proc[p].ref
        /\ c.expect = proc[p].expect /\ c.want = proc[p].want /\ c.remint = proc[p].remint
        /\ c.bearer = b
    BY <1>1, <2>2, <2>3, PlaceFacts DEF Commands
  <2>5. c.expect.rec.drone \in 1 .. minted /\ c.expect.rec.drone <= b
    BY <1>1, <1>3, <2>1, <2>4, HereFacts DEF CommandInv, Picked
  <2>6. CommandInv(c)
    <3>1. Placed(c) /\ Reminted(c) /\ Asked(c)
      BY <1>1, <2>4, HereFacts
         DEF CommandInv, Placed, Reminted, Asked, BeforeBinding, WithBearer, Starting
    <3>2. c.want \in {Nil, c.expect.rec.drone}
      BY <1>1, <2>4, HereFacts DEF CommandInv, Picked, Starting
    <3>3. c.bearer <= Store[c.ref].bearer /\ c.expect.rec.drone \in 1 .. c.bearer
      BY <1>3, <2>1, <2>2, <2>4, <2>5
    <3> QED BY <2>2, <2>4, <3>1, <3>2, <3>3 DEF CommandInv, Picked
  <2> QED BY <1>1, <1>3, <2>1, <2>3, <2>4, <2>6, QuietStep, HereFacts DEF BeforeBinding, Set
<1> QED BY <1>2, <1>3 DEF hydrateActiveCube

LEMMA assertLaunchSeatExpectationInv ==
  ASSUME SeatInv, NEW p \in Runners, assertLaunchSeatExpectation(p)
  PROVE  SeatInv'
<1>1. /\ proc[p].at = "recheck" /\ proc[p] \in Commands
      /\ UNCHANGED <<seats, trees, live, evicted, dropped, minted, runs, seatFaults, markers>>
  BY HereFacts DEF assertLaunchSeatExpectation
<1>2. CASE Stop(p)
  BY <1>1, <1>2, StopStep, HereFacts
<1>3. CASE Expected(proc[p]) /\ Set(p, [proc[p] EXCEPT !.at = "session"])
  <2>1. PICK c : c = [proc[p] EXCEPT !.at = "session"]
    OBVIOUS
  <2>2. /\ c \in Commands /\ c.at = "session" /\ c.root = proc[p].root /\ c.ref = proc[p].ref
        /\ c.expect = proc[p].expect /\ c.want = proc[p].want /\ c.remint = proc[p].remint
        /\ c.bearer = proc[p].bearer
    BY <1>1, <2>1, PlaceFacts DEF Commands
  <2>3. /\ proc[p].ref \in DOMAIN Store /\ c.expect.rec.drone = Store[proc[p].ref].bearer
    BY <1>3, <2>2, ExpectedFacts
  <2>4. /\ c.bearer \in 1 .. minted /\ c.expect.rec.drone \in 1 .. c.bearer /\ minted \in Nat
        /\ c.bearer <= Store[proc[p].ref].bearer
    BY <1>1, <2>2, <2>3, HereFacts DEF CommandInv, Picked
  <2>5. c.bearer = c.expect.rec.drone
    BY <2>3, <2>4
  <2>6. CommandInv(c)
    BY <1>1, <2>2, <2>5, HereFacts
       DEF CommandInv, Placed, Reminted, Asked, Picked, BeforeBinding, WithBearer, Starting
  <2> QED BY <1>1, <1>3, <2>1, <2>2, <2>6, QuietStep, HereFacts DEF BeforeBinding, Set
<1> QED BY <1>2, <1>3 DEF assertLaunchSeatExpectation, StillExpected

\* What launch-all found: linked worktrees, and the drones of their seats.
LEMMA CandidateFacts ==
  ASSUME SeatInv
  PROVE  discoverDroneCandidates \in SUBSET [tree : Worktrees, drone : Bearers]
<1>1. trees \ {Home} \subseteq Worktrees
  BY DEF SeatInv, SeatTypeOK, Paths
<1>2. \A r \in DOMAIN Store : Store[r].state = "active" => Store[r].drone \in Bearers
  BY StoreFacts DEF Seats
<1> QED BY <1>1, <1>2 DEF discoverDroneCandidates

LEMMA runLaunchAllInv ==
  ASSUME SeatInv, NEW p \in Runners, NEW force \in BOOLEAN, runLaunchAll(p, force)
  PROVE  SeatInv'
<1>1. /\ proc[p].at = "idle" /\ runs < MaxRuns /\ runs' = runs + 1
      /\ markers' \subseteq Worktrees
      /\ UNCHANGED <<seats, trees, live, evicted, dropped, minted, seatFaults>>
  BY HereFacts DEF runLaunchAll
<1>2. \/ UNCHANGED proc
      \/ \E todo \in SUBSET discoverDroneCandidates :
           Set(p, [Idle EXCEPT !.at = "launch-all", !.todo = todo])
  BY DEF runLaunchAll
<1>3. CASE UNCHANGED proc
  <2>1. proc' = [proc EXCEPT ![p] = proc[p]]
    BY <1>3 DEF SeatInv
  <2>2. PICK c : c = proc[p]
    OBVIOUS
  <2> QED BY <1>1, <2>1, <2>2, QuietStep, HereFacts
<1>4. ASSUME NEW todo \in SUBSET discoverDroneCandidates,
             Set(p, [Idle EXCEPT !.at = "launch-all", !.todo = todo])
      PROVE  SeatInv'
  <2>1. PICK c : c = [Idle EXCEPT !.at = "launch-all", !.todo = todo]
    OBVIOUS
  <2>2. PICK t \in SUBSET [tree : Worktrees, drone : Bearers] : t = todo
    BY CandidateFacts
  <2>3. c \in Commands /\ c.at = "launch-all" /\ c.todo = t /\ c.remint = FALSE
    BY <2>1, <2>2, PlaceFacts DEF Idle, Commands
  <2>4. CommandInv(c)
    BY <2>3 DEF CommandInv, Placed, Reminted, Asked, Picked, BeforeBinding, WithBearer, Starting
  <2> QED BY <1>1, <1>4, <2>1, <2>3, <2>4, QuietStep, HereFacts DEF Set
<1> QED BY <1>2, <1>3, <1>4

LEMMA probeAllInv ==
  ASSUME SeatInv, NEW p \in Runners, probeAll(p)
  PROVE  SeatInv'
<1>1. /\ proc[p].at = "launch-all" /\ proc[p] \in Commands
      /\ proc[p].todo \in SUBSET [tree : Worktrees, drone : Bearers]
      /\ UNCHANGED <<seats, trees, live, evicted, dropped, minted, runs, markers>>
      /\ SeatFault \/ UNCHANGED seatFaults
  BY HereFacts DEF probeAll, CommandInv, Placed
<1>2. CASE Stop(p)
  BY <1>1, <1>2, StopStep, HereFacts
<1>3. ASSUME NEW t \in SUBSET [tree : Worktrees, drone : Bearers],
             Set(p, [proc[p] EXCEPT !.at = "dispatch", !.todo = t])
      PROVE  SeatInv'
  <2>1. PICK c : c = [proc[p] EXCEPT !.at = "dispatch", !.todo = t]
    OBVIOUS
  <2>2. /\ c \in Commands /\ c.at = "dispatch" /\ c.todo = t /\ c.remint = proc[p].remint
        /\ c.expect = proc[p].expect
    BY <1>1, <2>1, PlaceFacts DEF Commands
  <2>3. CommandInv(c)
    BY <1>1, <2>2, HereFacts
       DEF CommandInv, Placed, Reminted, Asked, Picked, BeforeBinding, WithBearer, Starting
  <2> QED BY <1>1, <1>3, <2>1, <2>2, <2>3, QuietStep, FaultCounted, HereFacts DEF BeforeBinding, Set
<1>4. \/ Stop(p)
      \/ \E t \in SUBSET [tree : Worktrees, drone : Bearers] :
           Set(p, [proc[p] EXCEPT !.at = "dispatch", !.todo = t])
  <2> DEFINE good == {x \in proc[p].todo : Status(x.drone) = "live"}
  <2>1. good \in SUBSET [tree : Worktrees, drone : Bearers]
    BY <1>1
  <2>2. [proc[p] EXCEPT !.at = "dispatch"] = [proc[p] EXCEPT !.at = "dispatch", !.todo = proc[p].todo]
    BY <1>1 DEF Commands
  <2>3. CASE Set(p, IF good = {} THEN Idle ELSE [proc[p] EXCEPT !.at = "dispatch", !.todo = good])
    <3> HIDE DEF good
    <3> QED BY <2>1, <2>3 DEF Stop
  <2>4. CASE Set(p, [proc[p] EXCEPT !.at = "dispatch"])
    BY <1>1, <2>2, <2>4
  <2> QED BY <2>3, <2>4 DEF probeAll
<1> QED BY <1>2, <1>3, <1>4

\* launch-all gives another process its command.
LEMMA runTmuxBackendInv ==
  ASSUME SeatInv, NEW p \in Runners, NEW q \in Runners, runTmuxBackend(p, q)
  PROVE  SeatInv'
<1>1. /\ proc[p].at = "dispatch" /\ q # p /\ proc[q].at = "idle" /\ proc[p] \in Commands
      /\ proc[p].todo \in SUBSET [tree : Worktrees, drone : Bearers]
      /\ UNCHANGED <<seats, trees, live, evicted, dropped, minted, runs>>
  BY HereFacts DEF runTmuxBackend, CommandInv, Placed
<1>2. PICK x \in proc[p].todo :
        /\ \E left \in {Idle, [proc[p] EXCEPT !.todo = @ \ {x}]} :
             proc' = [proc EXCEPT ![p] = left,
                                  ![q] = [Idle EXCEPT !.at = "launch", !.want = x.drone]]
        /\ markers' \in {markers, markers \cup {x.tree}} /\ (SeatFault \/ UNCHANGED seatFaults)
  BY DEF runTmuxBackend
<1>a. PICK left \in {Idle, [proc[p] EXCEPT !.todo = @ \ {x}]} :
        proc' = [proc EXCEPT ![p] = left,
                             ![q] = [Idle EXCEPT !.at = "launch", !.want = x.drone]]
  BY <1>2
<1>b. PICK child : child = [Idle EXCEPT !.at = "launch", !.want = x.drone]
  OBVIOUS
<1>3. x.drone \in Bearers /\ x.tree \in Worktrees
  BY <1>1
<1>4. Idle \in Commands /\ CommandInv(Idle) /\ Idle.at = "idle"
  BY IdleFacts DEF SeatInv
<1>5. left \in Commands /\ CommandInv(left) /\ left.at \in {"idle", "dispatch"}
  <2>1. CASE left = Idle
    BY <1>4, <2>1
  <2>2. CASE left = [proc[p] EXCEPT !.todo = @ \ {x}]
    <3>1. PICK t \in SUBSET [tree : Worktrees, drone : Bearers] : t = proc[p].todo \ {x}
      BY <1>1
    <3>2. left = [proc[p] EXCEPT !.todo = t]
      BY <2>2, <3>1
    <3>3. /\ left \in Commands /\ left.at = "dispatch" /\ left.todo = t
          /\ left.remint = proc[p].remint /\ left.expect = proc[p].expect
      BY <1>1, <3>2 DEF Commands
    <3>4. CommandInv(left)
      BY <1>1, <3>3, HereFacts
         DEF CommandInv, Placed, Reminted, Asked, Picked, BeforeBinding, WithBearer, Starting
    <3> QED BY <3>3, <3>4
  <2> QED BY <1>a, <2>1, <2>2
<1>6. child \in Commands /\ CommandInv(child) /\ child.at = "launch"
  <2>1. child \in Commands /\ child.at = "launch" /\ child.want \in Bearers /\ child.remint = FALSE
    BY <1>b, <1>3, PlaceFacts DEF Idle, Commands
  <2> QED BY <2>1 DEF CommandInv, Placed, Reminted, Asked, Picked, BeforeBinding, WithBearer, Starting
<1>7. proc \in [Runners -> Commands]
  BY DEF SeatInv
<1>8. \A d \in Runners : proc'[d] = IF d = q THEN child ELSE IF d = p THEN left ELSE proc[d]
  BY <1>1, <1>a, <1>b, <1>7
<1>9. proc' \in [Runners -> Commands]
  BY <1>a, <1>b, <1>5, <1>6, <1>7
<1>10. Store' = Store /\ Known' = Known
  BY <1>1 DEF Store, Known
<1>11. Grows
  BY <1>1, <1>10, StoreFacts DEF Grows, OnlyLeave, SeatInv, SeatTypeOK
<1>12. \A d \in Runners : CommandInv(proc[d])'
  <2> SUFFICES ASSUME NEW d \in Runners PROVE CommandInv(proc[d])'
    OBVIOUS
  <2>1. PICK e : e = proc'[d]
    OBVIOUS
  <2>2. CommandInv(e)
    <3>1. CASE d = q
      BY <1>6, <1>8, <2>1, <3>1
    <3>2. CASE d = p
      BY <1>1, <1>5, <1>8, <2>1, <3>2
    <3>3. CASE d # q /\ d # p
      BY <1>8, <2>1, <3>3 DEF SeatInv
    <3> QED BY <3>1, <3>2, <3>3
  <2>3. CommandInv(e)'
    BY <1>11, <2>2, CommandKept
  <2> QED BY <2>1, <2>3
<1>13. OrdersCounted'
  <2>1. Binding' = Binding
    BY <1>1, <1>5, <1>6, <1>8 DEF Binding, BeforeBinding
  <2> QED BY <1>1, <2>1 DEF OrdersCounted, SeatInv
<1>14. SeatTypeOK'
  <2>1. markers' \subseteq Worktrees /\ seatFaults' \in 0 .. MaxSeatFaults
    BY <1>2, <1>3, FaultCounted, HereFacts
  <2> QED BY <1>1, <2>1 DEF SeatInv, SeatTypeOK
<1>15. RecordsSound' /\ LiveIsKnown' /\ (seats = [r \in DOMAIN seats |-> seats[r]])'
  BY <1>1, <1>10 DEF SeatInv, RecordsSound, LiveIsKnown
<1> QED BY <1>9, <1>12, <1>13, <1>14, <1>15 DEF SeatInv

LEMMA launchPickedInv ==
  ASSUME SeatInv, NEW p \in Runners, launchPicked(p)
  PROVE  SeatInv'
<1>1. /\ proc[p].at = "launch" /\ proc[p] \in Commands
      /\ UNCHANGED <<seats, trees, live, evicted, dropped, minted, runs, seatFaults, markers>>
  BY HereFacts DEF launchPicked
<1>2. CASE Stop(p)
  BY <1>1, <1>2, StopStep, HereFacts
<1>3. ASSUME NEW r \in DOMAIN Store, Store[r].drone = proc[p].want, Store[r].worktree \in trees,
             ActiveAt(Store, Store[r].worktree) = {r},
             Set(p, [proc[p] EXCEPT !.at = "child", !.root = Store[r].worktree, !.ref = r,
                                    !.expect = [ref |-> r, rec |-> Store[r]]])
      PROVE  SeatInv'
  <2>1. PICK w \in Paths : w = Store[r].worktree
    BY <1>3, HereFacts
  <2>2. PICK c : c = [proc[p] EXCEPT !.at = "child", !.root = w, !.ref = r,
                                     !.expect = [ref |-> r, rec |-> Store[r]]]
    OBVIOUS
  <2>3. c \in Commands /\ CommandInv(c) /\ c.at = "child"
    <3>1. r \in ActiveAt(Store, w) /\ proc[p].want \in {Nil, Store[r].drone}
      BY <1>3, <2>1
    <3>2. proc[p].remint = FALSE
      BY <1>1, HereFacts DEF CommandInv, Reminted, Commands
    <3>3. PICK b : b = proc[p]
      OBVIOUS
    <3>4. b \in Commands /\ b.remint = FALSE /\ b.want \in {Nil, Store[r].drone}
      BY <1>1, <3>1, <3>2, <3>3
    <3>5. c = [b EXCEPT !.at = "child", !.root = w, !.ref = r, !.expect = [ref |-> r, rec |-> Store[r]]]
      BY <2>2, <3>3
    <3> QED BY <3>1, <3>4, <3>5, StartFacts
  <2> QED BY <1>1, <1>3, <2>1, <2>2, <2>3, QuietStep, HereFacts DEF BeforeBinding, Set
<1>4. \/ Stop(p)
      \/ \E r \in DOMAIN Store :
           /\ Store[r].drone = proc[p].want /\ Store[r].worktree \in trees
           /\ ActiveAt(Store, Store[r].worktree) = {r}
           /\ Set(p, [proc[p] EXCEPT !.at = "child", !.root = Store[r].worktree, !.ref = r,
                                     !.expect = [ref |-> r, rec |-> Store[r]]])
  BY DEF launchPicked
<1> QED BY <1>2, <1>3, <1>4

LEMMA EndInv ==
  ASSUME SeatInv, NEW p \in Runners, sessionEnds(p) \/ Crash(p)
  PROVE  SeatInv'
BY StopStep, HereFacts DEF sessionEnds, Crash

\* The commands after a step of p that changes the store, the server or the
\* bearers.
LEMMA CommandsKept ==
  ASSUME SeatInv, Grows, NEW p \in Runners, NEW c \in Commands, CommandInv(c)',
         proc' = [proc EXCEPT ![p] = c]
  PROVE  proc' \in [Runners -> Commands] /\ \A q \in Runners : CommandInv(proc[q])'
<1>1. proc \in [Runners -> Commands]
  BY DEF SeatInv
<1>2. proc' \in [Runners -> Commands]
  BY <1>1
<1>3. SUFFICES ASSUME NEW q \in Runners PROVE CommandInv(proc[q])'
  BY <1>2
<1>4. PICK d : d = proc'[q]
  OBVIOUS
<1>5. CASE q = p
  BY <1>1, <1>4, <1>5
<1>6. CASE q # p
  <2>1. CommandInv(d)
    BY <1>1, <1>4, <1>6 DEF SeatInv
  <2>2. CommandInv(d)'
    BY <2>1, CommandKept
  <2> QED BY <1>4, <2>2
<1> QED BY <1>5, <1>6

LEMMA EvictInv ==
  ASSUME SeatInv, Evict
  PROVE  SeatInv'
<1>1. PICK b \in live : live' = live \ {b} /\ evicted' = evicted \cup {b}
  BY DEF Evict
<1>2. UNCHANGED <<seats, trees, dropped, minted, runs, proc, markers>> /\ SeatFault
  BY DEF Evict
<1>3. Store' = Store /\ Known \subseteq Known'
  BY <1>1, <1>2 DEF Store, Known
<1>4. Grows
  BY <1>1, <1>2, <1>3, StoreFacts DEF Grows, OnlyLeave, SeatInv, SeatTypeOK
<1>5. \A p \in Runners : CommandInv(proc[p])'
  <2> SUFFICES ASSUME NEW p \in Runners PROVE CommandInv(proc[p])'
    OBVIOUS
  <2>1. PICK d : d = proc[p]
    OBVIOUS
  <2>2. CommandInv(d)'
    BY <1>4, <2>1, CommandKept DEF SeatInv
  <2> QED BY <1>2, <2>1, <2>2
<1>6. LiveIsKnown'
  BY <1>1, <1>3 DEF SeatInv, LiveIsKnown
<1>7. SeatTypeOK'
  BY <1>1, <1>2, FaultCounted DEF SeatInv, SeatTypeOK
<1>8. Binding' = Binding
  BY <1>2 DEF Binding
<1> QED BY <1>2, <1>5, <1>6, <1>7, <1>8 DEF SeatInv, RecordsSound, OrdersCounted

LEMMA attachInv ==
  ASSUME SeatInv, NEW p \in Runners, attach(p)
  PROVE  SeatInv'
<1>1. /\ proc[p].at = "attach" /\ proc[p] \in Commands
      /\ UNCHANGED <<seats, trees, evicted, dropped, minted, runs, markers>>
      /\ SeatFault \/ UNCHANGED seatFaults
  BY HereFacts DEF attach
<1>2. CASE Stop(p) /\ UNCHANGED live
  BY <1>1, <1>2, StopStep, HereFacts
<1>3. CASE proc[p].bearer \notin evicted /\ live' = live \cup {proc[p].bearer}
  <2>1. proc[p].bearer \in Bearers /\ proc[p].bearer \in Known /\ proc[p].root \in Paths /\ proc[p].ref \in Refs
    BY <1>1, HereFacts DEF CommandInv, Asked, Placed, WithBearer
  <2>2. Store' = Store /\ Known' = Known
    BY <1>1 DEF Store, Known
  <2>3. Grows
    BY <1>1, <2>2, StoreFacts DEF Grows, OnlyLeave, SeatInv, SeatTypeOK
  <2>4. LiveIsKnown' /\ SeatTypeOK'
    <3>1. LiveIsKnown'
      BY <1>1, <1>3, <2>1, <2>2 DEF SeatInv, LiveIsKnown
    <3>2. SeatTypeOK'
      BY <1>1, <1>3, <2>1, FaultCounted DEF SeatInv, SeatTypeOK
    <3> QED BY <3>1, <3>2
  <2>5. ASSUME NEW c \in Commands, CommandInv(c)', proc' = [proc EXCEPT ![p] = c]
        PROVE  SeatInv'
    <3>1. proc' \in [Runners -> Commands] /\ \A q \in Runners : CommandInv(proc[q])'
      BY <2>3, <2>5, CommandsKept
    <3>2. /\ IsFiniteSet(Binding') /\ Cardinality(Binding') \in Nat
          /\ Cardinality(Binding') <= Cardinality(Binding)
      BY <1>1, <2>5, CountKept DEF BeforeBinding
    <3>3. OrdersCounted'
      <4>1. Cardinality(Binding) \in Nat /\ Cardinality(Binding) <= runs /\ runs \in Nat
        BY FS_CardinalityType, HereFacts, SeatAssumption DEF SeatInv, OrdersCounted
      <4>2. \A r \in DOMAIN seats : /\ seats[r].bindingOrder \in Nat
                                    /\ seats[r].bindingOrder + Cardinality(Binding) <= runs + 2
        BY SeatAssumption DEF SeatInv, SeatTypeOK, Seats, OrdersCounted
      <4> QED BY <1>1, <3>2, <4>1, <4>2 DEF OrdersCounted
    <3> QED BY <1>1, <2>4, <3>1, <3>3 DEF SeatInv, RecordsSound
  <2>6. CASE Stop(p)
    <3>1. Idle \in Commands /\ CommandInv(Idle)
      BY IdleFacts DEF SeatInv
    <3>2. PICK c : c = Idle
      OBVIOUS
    <3>3. CommandInv(c)'
      BY <2>3, <3>1, <3>2, CommandKept
    <3> QED BY <2>5, <2>6, <3>1, <3>2, <3>3 DEF Stop, Set
  <2>7. CASE Set(p, [proc[p] EXCEPT !.at = IF proc[p].sibling THEN "spawn" ELSE "activate",
                                    !.drone = proc[p].bearer,
                                    !.tree = IF proc[p].sibling THEN Nil ELSE proc[p].root])
    <3>1. PICK a, t : /\ a = IF proc[p].sibling THEN "spawn" ELSE "activate"
                      /\ t = IF proc[p].sibling THEN Nil ELSE proc[p].root
      OBVIOUS
    <3>2. a \in {"spawn", "activate"} /\ t \in Paths \cup {Nil}
      BY <2>1, <3>1
    <3>3. PICK c : c = [proc[p] EXCEPT !.at = a, !.drone = proc[p].bearer, !.tree = t]
      OBVIOUS
    <3>4. /\ c \in Commands /\ c.at = a /\ c.tree = t /\ c.root = proc[p].root /\ c.ref = proc[p].ref
          /\ c.drone = proc[p].bearer /\ c.bearer = proc[p].bearer
          /\ c.expect = proc[p].expect
      BY <1>1, <2>1, <3>2, <3>3, PlaceFacts DEF Commands
    <3>5. c.sibling = proc[p].sibling /\ c.remint = proc[p].remint
      BY <1>1, <3>3 DEF Commands
    <3>6. Placed(c) /\ Reminted(c) /\ Picked(c)
      BY <1>1, <2>1, <3>2, <3>4, <3>5, HereFacts
         DEF CommandInv, Placed, Reminted, Picked, BeforeBinding, WithBearer, Starting
    <3>7. Asked(c)
      BY <2>1, <3>1, <3>4, <3>5 DEF Asked
    <3>8. CommandInv(c)'
      BY <2>3, <3>6, <3>7, CommandKept DEF CommandInv
    <3> QED BY <2>5, <2>7, <3>1, <3>3, <3>4, <3>8 DEF Set
  <2> QED BY <1>1, <1>3, <2>6, <2>7 DEF attach
<1> QED BY <1>2, <1>3 DEF attach

\* What the next read finds of a store that was written.
LEMMA StoreWritten ==
  ASSUME NEW s, seats' = s
  PROVE  /\ DOMAIN Store' = DOMAIN s \ Superseded(s)
         /\ \A r \in DOMAIN Store' : Store'[r] = s[r]
         /\ \A w : ActiveAt(Store', w) = ActiveAt(s, w) \ Superseded(s)
         /\ \A w : ActiveAt(Store', w) \subseteq ActiveAt(s, w)
         /\ s = [r \in DOMAIN s |-> s[r]] /\ Superseded(s) = {} => Store' = s
<1>1. Store' = Loaded(s)
  BY DEF Store, Loaded, Superseded, Newest, ActiveAt
<1>2. PICK t : t = Loaded(s)
  OBVIOUS
<1>3. /\ t = [r \in DOMAIN t |-> s[r]] /\ DOMAIN t = DOMAIN s \ Superseded(s)
      /\ \A w : ActiveAt(t, w) = ActiveAt(s, w) \ Superseded(s)
  BY <1>2, LoadedFacts
<1> QED BY <1>1, <1>2, <1>3

LEMMA WithFacts ==
  ASSUME NEW s, NEW r, NEW rec
  PROVE  /\ With(s, r, rec) = [q \in DOMAIN With(s, r, rec) |-> With(s, r, rec)[q]]
         /\ DOMAIN With(s, r, rec) = DOMAIN s \cup {r}
         /\ With(s, r, rec)[r] = rec
         /\ \A q \in DOMAIN s : q # r => With(s, r, rec)[q] = s[q]
BY DEF With

LEMMA WithoutFacts ==
  ASSUME NEW s, NEW rs
  PROVE  /\ Without(s, rs) = [q \in DOMAIN Without(s, rs) |-> Without(s, rs)[q]]
         /\ DOMAIN Without(s, rs) = DOMAIN s \ rs
         /\ \A q \in DOMAIN s \ rs : Without(s, rs)[q] = s[q]
BY DEF Without

LEMMA WithActive ==
  ASSUME NEW s, NEW r, NEW rec, NEW w
  PROVE  /\ r \in ActiveAt(With(s, r, rec), w) <=> rec.state = "active" /\ rec.worktree = w
         /\ \A q : q # r => (q \in ActiveAt(With(s, r, rec), w) <=> q \in ActiveAt(s, w))
<1>1. PICK f : f = With(s, r, rec)
  OBVIOUS
<1>2. DOMAIN f = DOMAIN s \cup {r} /\ f[r] = rec /\ \A q \in DOMAIN s : q # r => f[q] = s[q]
  BY <1>1 DEF With
<1>3. \A q : q \in ActiveAt(f, w) <=> q \in DOMAIN f /\ f[q].state = "active" /\ f[q].worktree = w
  BY DEF ActiveAt
<1>4. \A q : q \in ActiveAt(s, w) <=> q \in DOMAIN s /\ s[q].state = "active" /\ s[q].worktree = w
  BY DEF ActiveAt
<1> QED BY <1>1, <1>2, <1>3, <1>4

\* A record that is not active takes the place of one that shares its path with
\* no other: the next read finds the store as it was written.
LEMMA PendingWritten ==
  ASSUME SeatInv, NEW r, NEW rec, rec.state # "active", Settled(r), NEW s,
         s = With(Store, r, rec), seats' = s
  PROVE  Store' = s /\ OnlyLeave
<1>1. /\ s = [q \in DOMAIN s |-> s[q]]
      /\ \A q \in DOMAIN Store : q # r => s[q] = Store[q]
  BY DEF With
<1>2. \A w : ActiveAt(s, w) = ActiveAt(Store, w) \ {r}
  BY WithActive
<1>3. Superseded(s) = {}
  <2> SUFFICES ASSUME NEW x \in Superseded(s) PROVE FALSE
    OBVIOUS
  <2>1. /\ x \in DOMAIN s /\ s[x].state = "active"
        /\ \E n \in Newest(s, s[x].worktree) : x # n
    BY DEF Superseded
  <2>2. PICK w : w = s[x].worktree
    OBVIOUS
  <2>3. PICK n \in Newest(s, w) : x # n
    BY <2>1, <2>2
  <2>4. x \in ActiveAt(s, w)
    BY <2>1, <2>2 DEF ActiveAt
  <2>5. r \notin ActiveAt(Store, w)
    BY <1>2, <2>4 DEF Settled
  <2>6. ActiveAt(s, w) = ActiveAt(Store, w)
    BY <1>2, <2>5
  <2>7. \A q \in ActiveAt(s, w) : s[q] = Store[q] /\ q \in DOMAIN Store
    BY <1>1, <1>2, <2>6 DEF ActiveAt
  <2>8. Newest(s, w) = Newest(Store, w)
    BY <2>6, <2>7, NewestAlike
  <2>9. x \in Superseded(Store)
    BY <2>1, <2>2, <2>3, <2>4, <2>7, <2>8 DEF Superseded
  <2> QED BY <2>9, StoreFacts
<1>4. Store' = s
  BY <1>1, <1>3, StoreWritten
<1> QED BY <1>2, <1>4 DEF OnlyLeave

\* A step of a command that writes the store, one record at most being new.
LEMMA WriteStep ==
  ASSUME SeatInv, NEW p \in Runners, NEW c \in Commands, CommandInv(c)',
         proc' = [proc EXCEPT ![p] = c],
         c.at \in BeforeBinding => proc[p].at \in BeforeBinding,
         NEW s, s = [r \in DOMAIN s |-> s[r]], seats' = s,
         UNCHANGED <<live, evicted, trees, runs, markers>>, SeatFault \/ UNCHANGED seatFaults,
         Grows, dropped' \subseteq Bearers,
         \A r \in DOMAIN s :
            /\ r \in Refs /\ s[r] \in Seats /\ s[r].bearer <= minted'
            /\ s[r].state = "active" => s[r].drone = s[r].bearer /\ s[r].worktree \in Paths
            /\ s[r].bindingOrder + Cardinality(Binding') <= runs + 2
  PROVE  SeatInv'
<1>1. (seats = [r \in DOMAIN seats |-> seats[r]])'
  OBVIOUS
<1>2. proc' \in [Runners -> Commands] /\ \A q \in Runners : CommandInv(proc[q])'
  BY CommandsKept
<1>3. /\ IsFiniteSet(Binding') /\ Cardinality(Binding') \in Nat
      /\ Cardinality(Binding') <= Cardinality(Binding)
  BY CountKept
<1>4. OrdersCounted'
  <2>1. Cardinality(Binding) \in Nat /\ Cardinality(Binding) <= runs /\ runs \in Nat
    BY FS_CardinalityType, HereFacts, SeatAssumption DEF SeatInv, OrdersCounted
  <2> QED BY <1>3, <2>1 DEF OrdersCounted
<1>5. LiveIsKnown'
  BY DEF SeatInv, LiveIsKnown, Grows
<1>6. RecordsSound'
  BY DEF RecordsSound
<1>7. SeatTypeOK'
  <2>1. seatFaults' \in 0 .. MaxSeatFaults /\ minted' \in 0 .. MaxBearers
    BY FaultCounted DEF Grows
  <2> QED BY <2>1 DEF SeatInv, SeatTypeOK
<1> QED BY <1>1, <1>2, <1>4, <1>5, <1>6, <1>7 DEF SeatInv

LEMMA prepareSeatInv ==
  ASSUME SeatInv, NEW p \in Runners, prepareSeat(p)
  PROVE  SeatInv'
<1>1. /\ proc[p].at = "prepare" /\ proc[p] \in Commands
      /\ proc[p].root \in Paths /\ proc[p].ref \in Refs
      /\ UNCHANGED <<trees, live, evicted, dropped, runs, seatFaults, markers>>
  BY HereFacts DEF prepareSeat, CommandInv, Placed, BeforeBinding
<1>2. CASE Stop(p) /\ UNCHANGED <<seats, minted>>
  BY <1>1, <1>2, StopStep, HereFacts
<1>3. CASE /\ Reuses(proc[p]) /\ UNCHANGED <<seats, minted>>
           /\ Set(p, [proc[p] EXCEPT !.at = "attach", !.bearer = Store[proc[p].ref].bearer])
  <2>1. PICK b : b = Store[proc[p].ref].bearer
    OBVIOUS
  <2>2. b \in Bearers /\ b \in Known
    BY <1>3, <2>1, StoreFacts DEF Reuses, Seats
  <2>3. PICK c : c = [proc[p] EXCEPT !.at = "attach", !.bearer = b]
    OBVIOUS
  <2>4. /\ c \in Commands /\ c.at = "attach" /\ c.bearer = b /\ c.root = proc[p].root
        /\ c.ref = proc[p].ref /\ c.remint = proc[p].remint /\ c.expect = proc[p].expect
    BY <1>1, <2>2, <2>3, PlaceFacts DEF Commands
  <2>5. CommandInv(c)
    BY <1>1, <2>2, <2>4, HereFacts
       DEF CommandInv, Placed, Reminted, Asked, Picked, BeforeBinding, WithBearer, Starting
  <2> QED BY <1>1, <1>3, <2>1, <2>3, <2>4, <2>5, QuietStep, HereFacts DEF BeforeBinding, Set
<1>4. CASE /\ Holds(proc[p]) /\ ~Reuses(proc[p]) /\ minted < MaxBearers /\ minted' = minted + 1
           /\ seats' = With(Store, proc[p].ref,
                            [state |-> "pending", bearer |-> minted + 1, drone |-> Nil,
                             worktree |-> Nil, bindingOrder |-> 0])
           /\ Set(p, [proc[p] EXCEPT !.at = "attach", !.bearer = minted + 1])
  <2>1. PICK ref, rec, s : /\ ref = proc[p].ref
                           /\ rec = [state |-> "pending", bearer |-> minted + 1, drone |-> Nil,
                                     worktree |-> Nil, bindingOrder |-> 0]
                           /\ s = With(Store, ref, rec)
    OBVIOUS
  <2>2. minted \in 0 .. MaxBearers /\ minted' \in 0 .. MaxBearers /\ minted + 1 \in Bearers
    BY <1>4, HereFacts, SeatAssumption DEF Bearers
  <2>3. /\ s = [r \in DOMAIN s |-> s[r]] /\ DOMAIN s = DOMAIN Store \cup {ref} /\ s[ref] = rec
        /\ \A q \in DOMAIN Store : q # ref => s[q] = Store[q]
    BY <2>1 DEF With
  <2>4. Settled(ref)
    BY <1>1, <1>4, <2>1, HereFacts DEF Reuses, Holds, CommandInv, Reminted, Settled, ActiveAt
  <2>5. seats' = s /\ Store' = s /\ OnlyLeave
    BY <1>4, <2>1, <2>4, PendingWritten
  <2>6. Known \subseteq Known' /\ minted + 1 \in Known'
    <3>1. ASSUME NEW r \in DOMAIN Store PROVE Store[r].bearer \in Known'
      <4>1. CASE r # ref
        BY <2>3, <2>5, <4>1 DEF Known
      <4>2. CASE r = ref
        <5>1. proc[p].remint /\ proc[p].expect # Nil /\ proc[p].expect.rec.drone \in evicted
          BY <1>4, <2>1, <4>2, HereFacts DEF Reuses, CommandInv, Reminted
        <5>2. Store[r].state = "active" /\ Store[r].drone = proc[p].expect.rec.drone
          BY <1>4, <2>1, <4>2, <5>1 DEF Holds
        <5>3. Store[r].bearer \in evicted
          BY <5>1, <5>2, StoreFacts
        <5> QED BY <1>1, <5>3 DEF Known
      <4> QED BY <4>1, <4>2
    <3>2. minted + 1 \in Known'
      BY <2>1, <2>3, <2>5 DEF Known
    <3> QED BY <1>1, <3>1, <3>2 DEF Known
  <2>7. Grows
    BY <1>1, <1>4, <2>1, <2>2, <2>3, <2>5, <2>6, StoreFacts, SeatAssumption DEF Grows
  <2>8. PICK c : c = [proc[p] EXCEPT !.at = "attach", !.bearer = minted + 1]
    OBVIOUS
  <2>9. /\ c \in Commands /\ c.at = "attach" /\ c.bearer = minted + 1 /\ c.root = proc[p].root
        /\ c.ref = proc[p].ref /\ c.remint = proc[p].remint /\ c.expect = proc[p].expect
    BY <1>1, <2>2, <2>8, PlaceFacts DEF Commands
  <2>10. CommandInv(c)'
    <3>1. Placed(c)' /\ Picked(c)'
      BY <1>1, <2>9 DEF Placed, Picked, BeforeBinding, WithBearer, Starting
    <3>2. Reminted(c)'
      BY <1>1, <2>9, HereFacts DEF CommandInv, Reminted
    <3>3. Asked(c)'
      BY <2>2, <2>6, <2>9 DEF Asked
    <3> QED BY <3>1, <3>2, <3>3 DEF CommandInv
  <2>11. proc' = [proc EXCEPT ![p] = c] /\ proc[p].at \in BeforeBinding
    BY <1>1, <1>4, <2>8 DEF Set, BeforeBinding
  <2>12. Cardinality(Binding') \in Nat /\ Cardinality(Binding') <= Cardinality(Binding)
         /\ Cardinality(Binding) \in Nat /\ Cardinality(Binding) <= runs /\ runs \in Nat
    <3>1. Cardinality(Binding') \in Nat /\ Cardinality(Binding') <= Cardinality(Binding)
      BY <2>11, CountKept
    <3>2. Cardinality(Binding) \in Nat /\ Cardinality(Binding) <= runs /\ runs \in Nat
      BY FS_CardinalityType, HereFacts, SeatAssumption DEF SeatInv, OrdersCounted
    <3> QED BY <3>1, <3>2
  <2>13. rec \in Seats /\ rec.state = "pending" /\ rec.bearer = minted + 1 /\ rec.bindingOrder = 0
    BY <2>1, <2>2, SeatAssumption DEF Seats
  <2>14. ASSUME NEW r \in DOMAIN s
         PROVE  /\ r \in Refs /\ s[r] \in Seats /\ s[r].bearer <= minted'
                /\ s[r].state = "active" => s[r].drone = s[r].bearer /\ s[r].worktree \in Paths
                /\ s[r].bindingOrder + Cardinality(Binding') <= runs + 2
    <3>1. CASE r = ref
      BY <1>1, <1>4, <2>1, <2>2, <2>3, <2>12, <2>13, <3>1, SeatAssumption
    <3>2. CASE r # ref
      <4>1. r \in DOMAIN Store /\ s[r] = Store[r]
        BY <2>3, <3>2
      <4>2. Store[r].bearer \in 1 .. minted /\ Store[r].bindingOrder \in Nat
        BY <4>1, StoreFacts, SeatAssumption DEF Seats
      <4>3. Store[r].bearer <= minted'
        BY <1>4, <2>2, <4>2, SeatAssumption
      <4> QED BY <2>12, <4>1, <4>2, <4>3, StoreFacts
    <3> QED BY <3>1, <3>2
  <2>15. dropped' \subseteq Bearers
    BY <1>1 DEF SeatInv, SeatTypeOK
  <2> QED BY <1>1, <2>3, <2>5, <2>7, <2>9, <2>10, <2>11, <2>14, <2>15, WriteStep
<1> QED BY <1>2, <1>3, <1>4 DEF prepareSeat

LEMMA activateAndBindSeatInv ==
  ASSUME SeatInv, NEW p \in Runners, activateAndBindSeat(p)
  PROVE  SeatInv'
<1>1. /\ proc[p].at = "activate" /\ proc[p] \in Commands
      /\ proc[p].root \in Paths /\ proc[p].ref \in Refs
      /\ proc[p].drone = proc[p].bearer /\ proc[p].tree \in Paths
      /\ UNCHANGED <<trees, live, evicted, minted, runs, markers>>
      /\ SeatFault \/ UNCHANGED seatFaults
  BY HereFacts DEF activateAndBindSeat, CommandInv, Placed, Asked, BeforeBinding
<1>2. PICK bind : bind = [proc[p] EXCEPT !.at = "bind"]
  OBVIOUS
<1>3. bind \in Commands /\ bind.at = "bind" /\ CommandInv(bind)
  <2>1. /\ bind \in Commands /\ bind.at = "bind" /\ bind.root = proc[p].root /\ bind.ref = proc[p].ref
        /\ bind.remint = proc[p].remint /\ bind.expect = proc[p].expect /\ bind.tree = proc[p].tree
        /\ bind.bearer = proc[p].bearer /\ bind.drone = proc[p].drone
        /\ bind.sibling = proc[p].sibling
    BY <1>1, <1>2, PlaceFacts DEF Commands
  <2>2. CommandInv(bind)
    BY <1>1, <2>1, HereFacts
       DEF CommandInv, Placed, Reminted, Asked, Picked, BeforeBinding, WithBearer, Starting
  <2> QED BY <2>1, <2>2
<1>4. Idle \in Commands /\ Idle.at = "idle" /\ CommandInv(Idle)
  BY IdleFacts DEF SeatInv
<1>5. CASE Set(p, [proc[p] EXCEPT !.at = "bind"]) /\ UNCHANGED <<seats, dropped>>
  BY <1>1, <1>2, <1>3, <1>5, QuietStep, FaultCounted, HereFacts DEF BeforeBinding, Set
<1>6. ASSUME NEW c \in {Idle, bind}, Set(p, c), SameBearer(proc[p]),
             seats' = Activated(proc[p]),
             dropped' = dropped \cup {Store[r].bearer : r \in Retired(proc[p])}
                                  \cup LetGo(Activated(proc[p]))
      PROVE  SeatInv'
  <2>1. PICK ref, tree : ref = proc[p].ref /\ tree = proc[p].tree
    OBVIOUS
  <2>2. /\ ref \in DOMAIN Store /\ Store[ref].bearer = proc[p].bearer
        /\ Store[ref] \in Seats /\ ref \in Refs /\ tree \in Paths
    BY <1>1, <1>6, <2>1, StoreFacts DEF SameBearer
  <2>3. PICK order :
          order = IF /\ Store[ref].state = "active" /\ Store[ref].worktree = tree
                     /\ Store[ref].bindingOrder # 0
                  THEN Store[ref].bindingOrder ELSE HighestOrder(Store) + 1
    OBVIOUS
  <2>4. PICK gone, rest : gone = ActiveAt(Store, tree) \ {ref} /\ rest = Without(Store, gone)
    OBVIOUS
  <2>5. PICK rec : rec = [Store[ref] EXCEPT !.state = "active", !.drone = proc[p].drone,
                                            !.worktree = tree, !.bindingOrder = order]
    OBVIOUS
  <2>6. PICK s : s = With(rest, ref, rec)
    OBVIOUS
  <2>7. seats' = s
    BY <1>6, <2>1, <2>3, <2>4, <2>5, <2>6 DEF Activated, Retired
  <2>8. proc' = [proc EXCEPT ![p] = c] /\ c \in Commands /\ c.at \notin BeforeBinding
        /\ proc[p].at \in BeforeBinding /\ CommandInv(c)
    BY <1>1, <1>3, <1>4, <1>6 DEF Set, BeforeBinding
  <2>9. runs \in Nat /\ Cardinality(Binding) \in Nat /\ Cardinality(Binding) <= runs
        /\ Cardinality(Binding') \in Nat /\ Cardinality(Binding') + 1 = Cardinality(Binding)
    <3>1. Cardinality(Binding') \in Nat /\ Cardinality(Binding') + 1 = Cardinality(Binding)
      BY <2>8, CountKept
    <3>2. Cardinality(Binding) \in Nat /\ Cardinality(Binding) <= runs /\ runs \in Nat
      BY FS_CardinalityType, HereFacts, SeatAssumption DEF SeatInv, OrdersCounted
    <3> QED BY <3>1, <3>2
  <2>10. order \in Nat /\ order + Cardinality(Binding') <= runs + 2
    <3>1. \A r \in DOMAIN Store : Store[r].bindingOrder \in Nat
                                  /\ Store[r].bindingOrder + Cardinality(Binding) <= runs + 2
      BY StoreFacts, SeatAssumption DEF Seats
    <3>2. CASE order = Store[ref].bindingOrder
      BY <2>2, <2>3, <2>9, <3>1, <3>2
    <3>3. CASE order = HighestOrder(Store) + 1
      <4>1. PICK b \in Nat : b + Cardinality(Binding) = runs + 2
        <5>1. runs + 2 - Cardinality(Binding) \in Nat
          BY <2>9
        <5> QED BY <2>9, <5>1
      <4>2. \A r \in DOMAIN Store : Store[r].bindingOrder <= b
        BY <2>9, <3>1, <4>1
      <4>3. HighestOrder(Store) \in Nat /\ HighestOrder(Store) <= b
        BY <3>1, <4>1, <4>2, HighestOrderFacts
      <4> QED BY <2>9, <3>3, <4>1, <4>3
    <3> QED BY <2>3, <3>2, <3>3
  <2>11. order \in 0 .. MaxRuns + 2
    BY <2>9, <2>10, HereFacts, SeatAssumption
  <2>12. proc[p].drone \in Bearers /\ proc[p].drone = Store[ref].bearer
    BY <1>1, <2>2 DEF Seats
  <2>13. /\ rec \in Seats /\ rec.state = "active" /\ rec.bearer = Store[ref].bearer
         /\ rec.drone = rec.bearer /\ rec.worktree = tree /\ rec.bindingOrder = order
    BY <2>2, <2>5, <2>11, <2>12 DEF Seats
  <2>14. /\ rest = [q \in DOMAIN rest |-> rest[q]] /\ DOMAIN rest = DOMAIN Store \ gone
         /\ \A q \in DOMAIN rest : rest[q] = Store[q]
    BY <2>4 DEF Without
  <2>15. /\ s = [q \in DOMAIN s |-> s[q]] /\ DOMAIN s = DOMAIN rest \cup {ref} /\ s[ref] = rec
         /\ \A q \in DOMAIN rest : q # ref => s[q] = rest[q]
    BY <2>6 DEF With
  <2>16. \A w : IF w = tree THEN ActiveAt(s, w) = {ref} ELSE ActiveAt(s, w) \subseteq ActiveAt(Store, w)
    <3> SUFFICES ASSUME NEW w
                 PROVE  IF w = tree THEN ActiveAt(s, w) = {ref}
                        ELSE ActiveAt(s, w) \subseteq ActiveAt(Store, w)
      OBVIOUS
    <3>1. ActiveAt(rest, w) \subseteq ActiveAt(Store, w)
      BY <2>14 DEF ActiveAt
    <3>2. w = tree => \A q \in ActiveAt(rest, w) : q = ref
      BY <2>4, <2>14, <3>1 DEF ActiveAt
    <3>3. /\ ref \in ActiveAt(s, w) <=> rec.state = "active" /\ rec.worktree = w
          /\ \A q : q # ref => (q \in ActiveAt(s, w) <=> q \in ActiveAt(rest, w))
      BY <2>6, WithActive
    <3> QED BY <2>13, <3>1, <3>2, <3>3
  <2>17. /\ DOMAIN Store' = DOMAIN s \ Superseded(s)
         /\ \A r \in DOMAIN Store' : Store'[r] = s[r]
         /\ \A w : ActiveAt(Store', w) \subseteq ActiveAt(s, w)
    BY <2>7, StoreWritten
  <2>18. Known \subseteq Known'
    <3>0. ASSUME NEW r \in DOMAIN s PROVE s[r].bearer \in Known'
      <4>1. CASE r \in Superseded(s)
        BY <1>6, <2>7, <4>1 DEF Known, LetGo
      <4>2. CASE r \notin Superseded(s)
        BY <2>17, <4>2 DEF Known
      <4> QED BY <4>1, <4>2
    <3>1. ASSUME NEW r \in DOMAIN Store PROVE Store[r].bearer \in Known'
      <4>1. CASE r \in gone
        BY <1>6, <2>1, <2>4, <4>1 DEF Known, Retired
      <4>2. CASE r = ref
        BY <2>13, <2>15, <3>0, <4>2
      <4>3. CASE r \notin gone /\ r # ref
        BY <2>14, <2>15, <3>0, <4>3
      <4> QED BY <4>1, <4>2, <4>3
    <3>2. dropped \subseteq Known' /\ evicted \subseteq Known'
      BY <1>1, <1>6 DEF Known
    <3> QED BY <3>1, <3>2 DEF Known
  <2>19. \A r \in DOMAIN s : r \in DOMAIN Store /\ s[r].bearer = Store[r].bearer
    BY <2>2, <2>13, <2>14, <2>15
  <2>a. OnlyLeave
    BY <2>16, <2>17 DEF OnlyLeave
  <2>20. Grows
    BY <1>1, <2>17, <2>18, <2>19, <2>a, StoreFacts DEF Grows, SeatInv, SeatTypeOK
  <2>21. CommandInv(c)'
    BY <2>8, <2>20, CommandKept
  <2>22. ASSUME NEW r \in DOMAIN s
         PROVE  /\ r \in Refs /\ s[r] \in Seats /\ s[r].bearer <= minted'
                /\ s[r].state = "active" => s[r].drone = s[r].bearer /\ s[r].worktree \in Paths
                /\ s[r].bindingOrder + Cardinality(Binding') <= runs + 2
    <3>1. r \in DOMAIN Store /\ Store[r].bearer \in 1 .. minted /\ s[r].bearer <= minted'
      BY <1>1, <2>19, StoreFacts, HereFacts, SeatAssumption
    <3>2. CASE r = ref
      BY <2>2, <2>10, <2>13, <2>15, <3>1, <3>2
    <3>3. CASE r # ref
      <4>1. s[r] = Store[r]
        BY <2>14, <2>15, <3>3
      <4>2. Store[r].bindingOrder \in Nat
        BY <3>1, StoreFacts, SeatAssumption DEF Seats
      <4> QED BY <2>9, <3>1, <4>1, <4>2, StoreFacts
    <3> QED BY <3>2, <3>3
  <2>23. dropped' \subseteq Bearers
    BY <1>6, <2>7, <2>22, StoreFacts
       DEF SeatInv, SeatTypeOK, Retired, ActiveAt, Seats, LetGo, Superseded
  <2> QED BY <1>1, <2>7, <2>8, <2>15, <2>20, <2>21, <2>22, <2>23, WriteStep
<1>7. \/ Set(p, [proc[p] EXCEPT !.at = "bind"]) /\ UNCHANGED <<seats, dropped>>
      \/ /\ SameBearer(proc[p]) /\ seats' = Activated(proc[p])
         /\ dropped' = dropped \cup {Store[r].bearer : r \in Retired(proc[p])}
                                  \cup LetGo(Activated(proc[p]))
         /\ Set(p, Idle) \/ Set(p, bind)
  BY <1>2 DEF activateAndBindSeat, Stop
<1> QED BY <1>5, <1>6, <1>7

LEMMA bindPendingSeatToWorktreeInv ==
  ASSUME SeatInv, NEW p \in Runners, bindPendingSeatToWorktree(p)
  PROVE  SeatInv'
<1>1. /\ proc[p].at = "bind" /\ proc[p] \in Commands /\ Stop(p)
      /\ proc[p].drone = proc[p].bearer /\ proc[p].tree \in Paths
      /\ proc[p].sibling => proc[p].tree \in Worktrees
      /\ proc[p].bearer \in Bearers
      /\ UNCHANGED <<live, evicted, dropped, minted, runs, markers>>
      /\ SeatFault \/ UNCHANGED seatFaults
  BY HereFacts DEF bindPendingSeatToWorktree, CommandInv, Asked, WithBearer
<1>2. CASE UNCHANGED seats /\ trees' = Rollback(proc[p])
  <2>1. trees' \subseteq Paths /\ Home \in trees'
    BY <1>1, <1>2, HereFacts, SeatAssumption DEF Rollback
  <2> QED BY <1>1, <1>2, <2>1, StopStep, HereFacts
<1>3. CASE /\ SameBearer(proc[p]) /\ Store[proc[p].ref].state = "pending" /\ UNCHANGED trees
           /\ seats' = With(Store, proc[p].ref,
                            [Store[proc[p].ref] EXCEPT !.worktree = proc[p].tree,
                                                       !.drone = proc[p].drone])
  <2>1. PICK ref : ref = proc[p].ref
    OBVIOUS
  <2>2. ref \in DOMAIN Store /\ Store[ref] \in Seats /\ ref \in Refs
    BY <1>3, <2>1, StoreFacts DEF SameBearer
  <2>3. PICK rec : rec = [Store[ref] EXCEPT !.worktree = proc[p].tree, !.drone = proc[p].drone]
    OBVIOUS
  <2>4. /\ rec \in Seats /\ rec.state = "pending" /\ rec.bearer = Store[ref].bearer
        /\ rec.bindingOrder = Store[ref].bindingOrder
    BY <1>1, <1>3, <2>1, <2>2, <2>3 DEF Seats
  <2>5. PICK s : s = With(Store, ref, rec)
    OBVIOUS
  <2>6. /\ s = [q \in DOMAIN s |-> s[q]] /\ DOMAIN s = DOMAIN Store \cup {ref} /\ s[ref] = rec
        /\ \A q \in DOMAIN Store : q # ref => s[q] = Store[q]
    BY <2>5 DEF With
  <2>7. Settled(ref)
    BY <1>3, <2>1 DEF Settled, ActiveAt
  <2>8. seats' = s /\ Store' = s /\ OnlyLeave
    BY <1>3, <2>1, <2>3, <2>4, <2>5, <2>7, PendingWritten
  <2>9. \A r \in DOMAIN s : r \in DOMAIN Store /\ s[r].bearer = Store[r].bearer
    BY <2>2, <2>4, <2>6
  <2>10. Known \subseteq Known'
    BY <1>1, <2>6, <2>8, <2>9 DEF Known
  <2>11. Grows
    BY <1>1, <2>8, <2>9, <2>10, StoreFacts DEF Grows, SeatInv, SeatTypeOK
  <2>12. PICK c : c = Idle
    OBVIOUS
  <2>13. c \in Commands /\ c.at \notin BeforeBinding /\ CommandInv(c)' /\ proc' = [proc EXCEPT ![p] = c]
    <3>1. c \in Commands /\ c.at \notin BeforeBinding /\ CommandInv(c)
      BY <2>12, IdleFacts DEF SeatInv, BeforeBinding
    <3>2. CommandInv(c)'
      BY <2>11, <3>1, CommandKept
    <3> QED BY <1>1, <2>12, <3>1, <3>2 DEF Stop, Set
  <2>14. /\ Cardinality(Binding') \in Nat /\ Cardinality(Binding') <= Cardinality(Binding)
         /\ Cardinality(Binding) \in Nat /\ runs \in Nat
    <3>1. Cardinality(Binding') \in Nat /\ Cardinality(Binding') <= Cardinality(Binding)
      BY <2>13, CountKept
    <3>2. Cardinality(Binding) \in Nat /\ runs \in Nat
      BY FS_CardinalityType, HereFacts, SeatAssumption DEF SeatInv, OrdersCounted
    <3> QED BY <3>1, <3>2
  <2>15. ASSUME NEW r \in DOMAIN s
         PROVE  /\ r \in Refs /\ s[r] \in Seats /\ s[r].bearer <= minted'
                /\ s[r].state = "active" => s[r].drone = s[r].bearer /\ s[r].worktree \in Paths
                /\ s[r].bindingOrder + Cardinality(Binding') <= runs + 2
    <3>1. /\ r \in DOMAIN Store /\ Store[r].bearer \in 1 .. minted /\ s[r].bearer <= minted'
          /\ Store[r].bindingOrder \in Nat /\ Store[r].bindingOrder + Cardinality(Binding) <= runs + 2
      BY <1>1, <2>9, StoreFacts, HereFacts, SeatAssumption DEF Seats
    <3>2. CASE r = ref
      BY <2>2, <2>4, <2>6, <2>14, <3>1, <3>2
    <3>3. CASE r # ref
      <4>1. s[r] = Store[r]
        BY <2>6, <3>1, <3>3
      <4> QED BY <2>14, <3>1, <4>1, StoreFacts
    <3> QED BY <3>2, <3>3
  <2>16. dropped' \subseteq Bearers
    BY <1>1 DEF SeatInv, SeatTypeOK
  <2> QED BY <1>1, <1>3, <2>6, <2>8, <2>11, <2>13, <2>15, <2>16, WriteStep
<1> QED BY <1>2, <1>3 DEF bindPendingSeatToWorktree

LEMMA resetSeatForWorktreeInv ==
  ASSUME SeatInv, NEW p \in Runners, resetSeatForWorktree(p)
  PROVE  SeatInv'
<1>1. /\ proc[p].at = "reset" /\ proc[p] \in Commands /\ proc[p].expect \in Expectations /\ Stop(p)
      /\ UNCHANGED <<trees, live, evicted, minted, runs, seatFaults, markers>>
  BY HereFacts DEF resetSeatForWorktree, CommandInv, Placed
<1>2. CASE UNCHANGED <<seats, dropped>>
  BY <1>1, <1>2, StopStep, HereFacts
<1>3. CASE /\ SameSeat(proc[p]) /\ seats' = Without(Store, {proc[p].ref})
           /\ dropped' = dropped \cup {proc[p].expect.rec.bearer}
                                    \cup LetGo(Without(Store, {proc[p].ref}))
  <2>1. PICK ref : ref = proc[p].ref
    OBVIOUS
  <2>2. ref \in DOMAIN Store /\ Store[ref].bearer = proc[p].expect.rec.bearer
    BY <1>3, <2>1 DEF SameSeat
  <2>3. PICK s : s = Without(Store, {ref})
    OBVIOUS
  <2>4. /\ s = [q \in DOMAIN s |-> s[q]] /\ DOMAIN s = DOMAIN Store \ {ref}
        /\ \A q \in DOMAIN s : s[q] = Store[q]
    BY <2>3 DEF Without
  <2>5. seats' = s
    BY <1>3, <2>1, <2>3
  <2>6. /\ DOMAIN Store' = DOMAIN s \ Superseded(s)
        /\ \A r \in DOMAIN Store' : Store'[r] = s[r]
        /\ \A w : ActiveAt(Store', w) \subseteq ActiveAt(s, w)
    BY <2>5, StoreWritten
  <2>a. OnlyLeave
    <3>1. \A w : ActiveAt(s, w) \subseteq ActiveAt(Store, w)
      BY <2>4 DEF ActiveAt
    <3> QED BY <2>6, <3>1 DEF OnlyLeave
  <2>7. Known \subseteq Known'
    <3>1. ASSUME NEW r \in DOMAIN Store PROVE Store[r].bearer \in Known'
      <4>1. CASE r = ref
        BY <1>3, <2>2, <4>1 DEF Known
      <4>2. CASE r # ref /\ r \in Superseded(s)
        BY <1>3, <2>1, <2>3, <2>4, <4>2 DEF Known, LetGo
      <4>3. CASE r # ref /\ r \notin Superseded(s)
        BY <2>4, <2>6, <4>3 DEF Known
      <4> QED BY <4>1, <4>2, <4>3
    <3>2. dropped \subseteq Known' /\ evicted \subseteq Known'
      BY <1>1, <1>3 DEF Known
    <3> QED BY <3>1, <3>2 DEF Known
  <2>8. Grows
    BY <1>1, <2>4, <2>6, <2>7, <2>a, StoreFacts DEF Grows, SeatInv, SeatTypeOK
  <2>9. PICK c : c = Idle
    OBVIOUS
  <2>10. c \in Commands /\ c.at \notin BeforeBinding /\ CommandInv(c)' /\ proc' = [proc EXCEPT ![p] = c]
    <3>1. c \in Commands /\ c.at \notin BeforeBinding /\ CommandInv(c)
      BY <2>9, IdleFacts DEF SeatInv, BeforeBinding
    <3>2. CommandInv(c)'
      BY <2>8, <3>1, CommandKept
    <3> QED BY <1>1, <2>9, <3>1, <3>2 DEF Stop, Set
  <2>11. /\ Cardinality(Binding') \in Nat /\ Cardinality(Binding') <= Cardinality(Binding)
         /\ Cardinality(Binding) \in Nat /\ runs \in Nat
    <3>1. Cardinality(Binding') \in Nat /\ Cardinality(Binding') <= Cardinality(Binding)
      BY <2>10, CountKept
    <3>2. Cardinality(Binding) \in Nat /\ runs \in Nat
      BY FS_CardinalityType, HereFacts, SeatAssumption DEF SeatInv, OrdersCounted
    <3> QED BY <3>1, <3>2
  <2>12. ASSUME NEW r \in DOMAIN s
         PROVE  /\ r \in Refs /\ s[r] \in Seats /\ s[r].bearer <= minted'
                /\ s[r].state = "active" => s[r].drone = s[r].bearer /\ s[r].worktree \in Paths
                /\ s[r].bindingOrder + Cardinality(Binding') <= runs + 2
    <3>1. /\ r \in DOMAIN Store /\ s[r] = Store[r] /\ Store[r].bearer \in 1 .. minted
          /\ Store[r].bearer <= minted'
          /\ Store[r].bindingOrder \in Nat /\ Store[r].bindingOrder + Cardinality(Binding) <= runs + 2
      BY <1>1, <2>4, StoreFacts, HereFacts, SeatAssumption DEF Seats
    <3> QED BY <2>11, <3>1, StoreFacts
  <2>13. dropped' \subseteq Bearers
    <3>1. dropped \subseteq Bearers /\ proc[p].expect.rec.bearer \in Bearers
      BY <1>1 DEF SeatInv, SeatTypeOK, Expectations, Seats
    <3>2. LetGo(s) \subseteq Bearers
      BY <2>12 DEF LetGo, Superseded, Seats
    <3> QED BY <1>3, <2>1, <2>3, <3>1, <3>2
  <2> QED BY <1>1, <2>4, <2>5, <2>8, <2>10, <2>12, <2>13, WriteStep
<1> QED BY <1>2, <1>3 DEF resetSeatForWorktree

(***************************************************************************)
(* The theorems.                                                           *)
(***************************************************************************)
LEMMA SeatInitInv == SeatInit => SeatInv
<1> SUFFICES ASSUME SeatInit PROVE SeatInv
  OBVIOUS
<1>1. /\ proc = [p \in Runners |-> Idle] /\ evicted = {} /\ runs = 0 /\ seatFaults = 0 /\ markers = {}
      /\ trees \subseteq Paths /\ Home \in trees
  BY DEF SeatInit, Paths
<1>2. Idle \in Commands /\ Idle.at = "idle"
  BY IdleFacts
<1>3. Binding = {}
  BY <1>1, <1>2 DEF Binding, BeforeBinding
<1>4. IsFiniteSet(Binding) /\ Cardinality(Binding) = 0
  BY <1>3, FS_EmptySet
<1>a. dropped = LetGo(seats)
  BY DEF SeatInit
<1>5. CASE seats = [r \in {} |-> Nil] /\ minted = 0 /\ live = {}
  <2>1. DOMAIN seats = {} /\ seats = [r \in DOMAIN seats |-> seats[r]]
    BY <1>5
  <2>2. dropped = {}
    BY <1>a, <2>1 DEF LetGo, Superseded
  <2>3. SeatTypeOK
    BY <1>1, <1>5, <2>1, <2>2, SeatAssumption DEF SeatTypeOK
  <2>4. RecordsSound /\ LiveIsKnown /\ OrdersCounted
    BY <1>1, <1>4, <1>5, <2>1 DEF RecordsSound, LiveIsKnown, OrdersCounted
  <2> QED BY <1>1, <1>2, <2>1, <2>3, <2>4, IdleFacts DEF SeatInv
<1>6. ASSUME NEW w \in Paths, NEW rs \in SUBSET OldRefs, minted \in Bearers, live = 1 .. minted,
             NEW bearer \in [rs -> 1 .. minted], NEW order \in [rs -> 0 .. 2],
             \A b \in 1 .. minted : \E r \in rs : bearer[r] = b,
             seats = OldStore(w, bearer, order)
      PROVE  SeatInv
  <2>1. minted \in 0 .. MaxBearers /\ 1 .. minted \subseteq Bearers
    BY <1>6, SeatAssumption DEF Bearers
  <2>2. seats = [r \in rs |-> OldSeat(bearer[r], w, order[r])]
    BY <1>6 DEF OldStore
  <2>3. ASSUME NEW r \in rs
        PROVE  /\ r \in Refs /\ seats[r] \in Seats /\ seats[r].state = "active"
               /\ seats[r].bearer = bearer[r] /\ seats[r].drone = bearer[r]
               /\ seats[r].worktree = w /\ seats[r].bindingOrder \in 0 .. 2
               /\ bearer[r] \in 1 .. minted
    <3>1. r \in Refs
      BY SeatAssumption DEF OldRefs, Refs, Named
    <3>2. seats[r] = OldSeat(bearer[r], w, order[r])
      BY <2>2
    <3>3. bearer[r] \in 1 .. minted /\ order[r] \in 0 .. 2 /\ order[r] \in 0 .. MaxRuns + 2
      BY SeatAssumption
    <3> QED BY <2>1, <3>1, <3>2, <3>3 DEF OldSeat, Seats
  <2>4. DOMAIN seats = rs /\ seats = [r \in DOMAIN seats |-> seats[r]]
    BY <2>2
  <2>5. dropped \subseteq Bearers
    BY <1>a, <2>1, <2>3, <2>4 DEF LetGo, Superseded
  <2>6. SeatTypeOK
    BY <1>1, <1>6, <2>1, <2>3, <2>4, <2>5, SeatAssumption DEF SeatTypeOK
  <2>7. RecordsSound
    BY <1>6, <2>1, <2>3, <2>4, SeatAssumption DEF RecordsSound
  <2>8. OrdersCounted
    BY <1>1, <1>4, <2>3, <2>4 DEF OrdersCounted
  <2>9. LiveIsKnown
    <3>1. ASSUME NEW b \in live PROVE b \in Known
      <4>1. PICK r \in rs : bearer[r] = b
        BY <1>6
      <4>2. r \in DOMAIN seats /\ seats[r].bearer = b
        BY <2>3, <2>4, <4>1
      <4>3. CASE r \in Superseded(seats)
        BY <1>a, <4>2, <4>3 DEF LetGo, Known
      <4>4. CASE r \notin Superseded(seats)
        <5>1. r \in DOMAIN Store /\ Store[r] = seats[r]
          BY <4>2, <4>4 DEF Store, Loaded
        <5> QED BY <4>2, <5>1 DEF Known
      <4> QED BY <4>3, <4>4
    <3> QED BY <1>1, <3>1 DEF LiveIsKnown
  <2> QED BY <1>1, <1>2, <2>4, <2>6, <2>7, <2>8, <2>9, IdleFacts DEF SeatInv
<1> QED BY <1>5, <1>6 DEF SeatInit

LEMMA SeatNextInv == SeatInv /\ [SeatNext]_seatVars => SeatInv'
<1> SUFFICES ASSUME SeatInv, [SeatNext]_seatVars PROVE SeatInv'
  OBVIOUS
<1>1. CASE UNCHANGED seatVars
  <2>1. Store' = Store /\ Known' = Known /\ Binding' = Binding
    BY <1>1 DEF seatVars, Store, Known, Binding
  <2>2. Grows
    BY <1>1, <2>1, StoreFacts DEF seatVars, Grows, OnlyLeave, SeatInv, SeatTypeOK
  <2>3. \A p \in Runners : CommandInv(proc[p])'
    <3> SUFFICES ASSUME NEW p \in Runners PROVE CommandInv(proc[p])'
      OBVIOUS
    <3>1. PICK d : d = proc[p]
      OBVIOUS
    <3>2. CommandInv(d)'
      BY <2>2, <3>1, CommandKept DEF SeatInv
    <3> QED BY <1>1, <3>1, <3>2 DEF seatVars
  <2> QED BY <1>1, <2>1, <2>3
          DEF seatVars, SeatInv, SeatTypeOK, RecordsSound, LiveIsKnown, OrdersCounted
<1>2. CASE Evict
  BY <1>2, EvictInv
<1>3. ASSUME NEW p \in Runners, NEW w \in Paths,
             \/ \E cmd \in {"plain", "named", "here"} : Begin(p, cmd, w)
             \/ snapshotLocalSeat(p, w) \/ runLaunchSeat(p, w)
      PROVE  SeatInv'
  BY <1>3, BeginInv, snapshotLocalSeatInv, runLaunchSeatInv
<1>4. ASSUME NEW p \in Runners,
             \/ chooseSibling(p) \/ resumePersisted(p) \/ probeSeat(p)
             \/ prepareSeat(p) \/ attach(p) \/ prepareAssimilationWorktree(p)
             \/ launchAccessFails(p) \/ activateAndBindSeat(p) \/ bindPendingSeatToWorktree(p)
             \/ resetSeatForWorktree(p)
      PROVE  SeatInv'
  BY <1>4, chooseSiblingInv, resumePersistedInv, probeSeatInv, prepareSeatInv, attachInv,
     prepareAssimilationWorktreeInv, launchAccessFailsInv, activateAndBindSeatInv,
     bindPendingSeatToWorktreeInv, resetSeatForWorktreeInv
<1>5. ASSUME NEW p \in Runners,
             \/ buildCleanupReport(p) \/ pruneWorktree(p)
             \/ readActiveSeat(p) \/ hydrateActiveCube(p) \/ assertLaunchSeatExpectation(p)
             \/ \E force \in BOOLEAN : runLaunchAll(p, force)
             \/ probeAll(p) \/ (\E q \in Runners : runTmuxBackend(p, q)) \/ launchPicked(p)
             \/ sessionEnds(p) \/ Crash(p)
      PROVE  SeatInv'
  BY <1>5, buildCleanupReportInv, pruneWorktreeInv, readActiveSeatInv, hydrateActiveCubeInv,
     assertLaunchSeatExpectationInv, runLaunchAllInv, probeAllInv, runTmuxBackendInv,
     launchPickedInv, EndInv
<1> QED BY <1>1, <1>2, <1>3, <1>4, <1>5 DEF SeatNext

\* What a command knows and what the store holds stay in step, whatever commands
\* overlap, crash, lose answers and meet evictions, in any number of worktrees.
THEOREM SeatsAreInductive == SeatSpec => []SeatInv
BY SeatInitInv, SeatNextInv, PTL DEF SeatSpec

\* Type correctness of the seats, the worktrees and the commands' progress.
THEOREM SeatTypeCorrect == SeatSpec => []SeatTypeOK
<1>1. SeatInv => SeatTypeOK
  BY DEF SeatInv
<1> QED BY <1>1, SeatsAreInductive, PTL

\* An activation leaves its path the one seat it activates.
LEMMA ActivatedLeaves ==
  ASSUME SeatInv, NEW p \in Runners, SameBearer(proc[p]), seats' = Activated(proc[p])
  PROVE  OnlyLeave
<1>1. PICK ref, tree, gone, rest : /\ ref = proc[p].ref /\ tree = proc[p].tree
                                   /\ gone = ActiveAt(Store, tree) \ {ref}
                                   /\ rest = Without(Store, gone)
  OBVIOUS
<1>2. PICK order :
        order = IF /\ Store[ref].state = "active" /\ Store[ref].worktree = tree
                   /\ Store[ref].bindingOrder # 0
                THEN Store[ref].bindingOrder ELSE HighestOrder(Store) + 1
  OBVIOUS
<1>3. PICK rec : rec = [Store[ref] EXCEPT !.state = "active", !.drone = proc[p].drone,
                                          !.worktree = tree, !.bindingOrder = order]
  OBVIOUS
<1>a. PICK s : s = With(rest, ref, rec)
  OBVIOUS
<1>4. seats' = s
  BY <1>1, <1>2, <1>3, <1>a DEF Activated, Retired
<1>5. Store[ref] \in Seats
  BY <1>1, StoreFacts DEF SameBearer
<1>6. rec.state = "active" /\ rec.worktree = tree
  BY <1>3, <1>5 DEF Seats
<1>7. /\ DOMAIN rest = DOMAIN Store \ gone
      /\ \A q \in DOMAIN rest : rest[q] = Store[q]
  BY <1>1 DEF Without
<1>8. ASSUME NEW w
      PROVE  IF w = tree THEN ActiveAt(s, w) = {ref}
             ELSE ActiveAt(s, w) \subseteq ActiveAt(Store, w)
  <2>1. ActiveAt(rest, w) \subseteq ActiveAt(Store, w)
    BY <1>7 DEF ActiveAt
  <2>2. w = tree => \A q \in ActiveAt(rest, w) : q = ref
    BY <1>1, <1>7, <2>1 DEF ActiveAt
  <2>3. /\ ref \in ActiveAt(s, w) <=> rec.state = "active" /\ rec.worktree = w
        /\ \A q : q # ref => (q \in ActiveAt(s, w) <=> q \in ActiveAt(rest, w))
    BY <1>a, WithActive
  <2> QED BY <1>6, <2>1, <2>2, <2>3
<1>9. \A w : ActiveAt(Store', w) \subseteq ActiveAt(s, w)
  BY <1>4, StoreWritten
<1> QED BY <1>8, <1>9 DEF OnlyLeave

\* Four operations write the store.
LEMMA SeatWrites ==
  ASSUME [SeatNext]_seatVars
  PROVE  \/ UNCHANGED seats
         \/ \E p \in Runners : \/ prepareSeat(p) \/ activateAndBindSeat(p)
                               \/ bindPendingSeatToWorktree(p) \/ resetSeatForWorktree(p)
<1>1. CASE UNCHANGED seatVars \/ Evict
  BY <1>1 DEF seatVars, Evict
<1>2. ASSUME NEW p \in Runners, NEW w \in Paths,
             \/ \E cmd \in {"plain", "named", "here"} : Begin(p, cmd, w)
             \/ snapshotLocalSeat(p, w) \/ runLaunchSeat(p, w)
      PROVE  UNCHANGED seats
  BY <1>2 DEF Begin, snapshotLocalSeat, runLaunchSeat
<1>3. ASSUME NEW p \in Runners,
             \/ chooseSibling(p) \/ resumePersisted(p) \/ probeSeat(p) \/ attach(p)
             \/ prepareAssimilationWorktree(p) \/ launchAccessFails(p)
             \/ buildCleanupReport(p) \/ pruneWorktree(p)
      PROVE  UNCHANGED seats
  BY <1>3 DEF chooseSibling, resumePersisted, probeSeat, attach, prepareAssimilationWorktree,
              launchAccessFails, buildCleanupReport, pruneWorktree
<1>4. ASSUME NEW p \in Runners,
             \/ readActiveSeat(p) \/ hydrateActiveCube(p) \/ assertLaunchSeatExpectation(p)
             \/ \E force \in BOOLEAN : runLaunchAll(p, force)
             \/ probeAll(p) \/ (\E q \in Runners : runTmuxBackend(p, q)) \/ launchPicked(p)
             \/ sessionEnds(p) \/ Crash(p)
      PROVE  UNCHANGED seats
  BY <1>4 DEF readActiveSeat, hydrateActiveCube, assertLaunchSeatExpectation, runLaunchAll,
              probeAll, runTmuxBackend, launchPicked, sessionEnds, Crash
<1> QED BY <1>1, <1>2, <1>3, <1>4 DEF SeatNext

\* Every step leaves a path one active seat, or none it did not have.
LEMMA NextOnlyLeaves ==
  ASSUME SeatInv, [SeatNext]_seatVars
  PROVE  OnlyLeave
<1>1. CASE UNCHANGED seats
  BY <1>1 DEF Store, OnlyLeave
<1>2. ASSUME NEW p \in Runners, prepareSeat(p), ~UNCHANGED seats PROVE OnlyLeave
  <2>1. PICK ref, rec, s : /\ ref = proc[p].ref
                           /\ rec = [state |-> "pending", bearer |-> minted + 1, drone |-> Nil,
                                     worktree |-> Nil, bindingOrder |-> 0]
                           /\ s = With(Store, ref, rec)
    OBVIOUS
  <2>2. seats' = s /\ rec.state # "active" /\ ~Reuses(proc[p]) /\ proc[p].at = "prepare"
    BY <1>2, <2>1 DEF prepareSeat
  <2>3. Settled(ref)
    BY <2>1, <2>2, HereFacts DEF Reuses, CommandInv, Reminted, Settled, ActiveAt
  <2> QED BY <2>1, <2>2, <2>3, PendingWritten
<1>3. ASSUME NEW p \in Runners, bindPendingSeatToWorktree(p), ~UNCHANGED seats PROVE OnlyLeave
  <2>1. PICK ref, rec, s : /\ ref = proc[p].ref
                           /\ rec = [Store[ref] EXCEPT !.worktree = proc[p].tree, !.drone = proc[p].drone]
                           /\ s = With(Store, ref, rec)
    OBVIOUS
  <2>2. seats' = s /\ ref \in DOMAIN Store /\ Store[ref].state = "pending"
    BY <1>3, <2>1 DEF bindPendingSeatToWorktree, SameBearer
  <2>3. rec.state = "pending"
    BY <2>1, <2>2, StoreFacts DEF Seats
  <2>4. Settled(ref)
    BY <2>2 DEF Settled, ActiveAt
  <2> QED BY <2>1, <2>2, <2>3, <2>4, PendingWritten
<1>4. ASSUME NEW p \in Runners, resetSeatForWorktree(p), ~UNCHANGED seats PROVE OnlyLeave
  <2>1. PICK s : s = Without(Store, {proc[p].ref})
    OBVIOUS
  <2>2. seats' = s
    BY <1>4, <2>1 DEF resetSeatForWorktree
  <2>3. \A w : ActiveAt(s, w) \subseteq ActiveAt(Store, w)
    <3>1. DOMAIN s = DOMAIN Store \ {proc[p].ref} /\ \A q \in DOMAIN s : s[q] = Store[q]
      BY <2>1 DEF Without
    <3> QED BY <3>1 DEF ActiveAt
  <2>4. \A w : ActiveAt(Store', w) \subseteq ActiveAt(s, w)
    BY <2>2, StoreWritten
  <2> QED BY <2>3, <2>4 DEF OnlyLeave
<1>5. ASSUME NEW p \in Runners, activateAndBindSeat(p), ~UNCHANGED seats PROVE OnlyLeave
  <2>1. /\ seats' = Activated(proc[p]) /\ SameBearer(proc[p])
    BY <1>5 DEF activateAndBindSeat
  <2> QED BY <2>1, ActivatedLeaves
<1> QED BY <1>1, <1>2, <1>3, <1>4, <1>5, SeatWrites

\* No step adds an active seat to a worktree that keeps another: a reservation and a
\* binding kept for later are not active, an activation retires every other active seat
\* of its path in the same write, and the repair of what is read only takes away
\* (seats.ts:246-275, 410-492, 545-655, 796-830).
THEOREM WorktreesGetNoSecondSeat == SeatSpec => NoSecondSeat
<1>1. ASSUME SeatInv, [SeatNext]_seatVars PROVE [NoneJoins]_seats
  <2>1. PICK was, now : was = Store /\ now = Store'
    OBVIOUS
  <2>2. ASSUME NEW w \in Paths, \A r, q \in ActiveAt(now, w) : r = q
        PROVE  Cardinality(ActiveAt(now, w)) <= 1
    <3>1. CASE ActiveAt(now, w) = {}
      BY <3>1, FS_EmptySet
    <3>2. ASSUME NEW r \in ActiveAt(now, w) PROVE Cardinality(ActiveAt(now, w)) = 1
      <4>1. ActiveAt(now, w) = {r}
        BY <2>2, <3>2
      <4> QED BY <4>1, FS_Singleton
    <3> QED BY <3>1, <3>2
  <2>3. NoneJoins
    BY <1>1, <2>1, <2>2, NextOnlyLeaves DEF OnlyLeave, NoneJoins
  <2> QED BY <2>3
<1> QED BY <1>1, SeatsAreInductive, PTL DEF SeatSpec, NoSecondSeat

\* A drone that is alive on the server has its credential in the store, unless an
\* operator's command let go of it: the bearer is written before the server is asked for
\* the seat, and only the owner of the binding replaces it (seats.ts:410-492, 545-587).
THEOREM NoGhosts == SeatSpec => []NoGhostDrone
<1>1. ASSUME SeatInv PROVE NoGhostDrone
  BY <1>1 DEF SeatInv, LiveIsKnown, Known, NoGhostDrone
<1> QED BY <1>1, SeatsAreInductive, PTL

\* An agent starts as the drone that was picked: the credential is read between two looks
\* at the same drone, and the bearers of a seat reference only grow, so it is that drone's
\* (cubes.ts:83-192, 372-436).
THEOREM LaunchesArePicked == SeatSpec => []LaunchesWhatWasPicked
<1>1. ASSUME SeatInv PROVE LaunchesWhatWasPicked
  BY <1>1 DEF SeatInv, CommandInv, Picked, Starting, LaunchesWhatWasPicked
<1> QED BY <1>1, SeatsAreInductive, PTL
=============================================================================
