------------------------------ MODULE SeatStore ------------------------------
(***************************************************************************)
(* The private store of seat-store.ts: a JSON file replaced by rename,     *)
(* under a lock file that is taken by link(2) and holds the pid and start  *)
(* time of its owner.  Processes crash anywhere, a pid is used again, a    *)
(* write fails before or after the rename.  A lock whose owner died is     *)
(* never reclaimed: the waiter reports it and an operator removes it.      *)
(*                                                                         *)
(* The file is the set of transactions whose effect it has.  A transaction *)
(* is written <<process, number>>.  Every check of the path, its owner and *)
(* its mode throws, and so does a malformed file: a Throw of its step.     *)
(***************************************************************************)
EXTENDS Integers

CONSTANTS
    Procs,       \* the pids
    None,        \* no lock
    MaxTries,    \* LOCK_ATTEMPTS
    MaxTxns,     \* bound: transactions of one pid
    MaxStarts,   \* bound: processes that have one pid, one after the other
    MaxFaults    \* bound: errors of the file system

ASSUME StoreAssumption ==
    /\ None \notin Procs \X Nat
    /\ MaxTries \in Nat \ {0} /\ MaxStarts \in Nat \ {0}
    /\ MaxTxns \in Nat /\ MaxFaults \in Nat

VARIABLES
    file,      \* the committed file
    lock,      \* the lock file's owner, <<pid, start>>, or None
    pc,        \* where each process is
    snap,      \* what the holder read
    raw,       \* the owner a waiter read
    tries,     \* attempts to link so far
    start,     \* the start time of the process that has the pid now
    alive,     \* whether there is one
    count,     \* transactions the pid has begun
    done,      \* transactions whose caller was told they are committed
    stale,     \* owners reported as stale: the error says to delete their lock
    faults     \* file system errors so far

vars == <<file, lock, pc, snap, raw, tries, start, alive, count, done, stale, faults>>

Txns   == Procs \X (1 .. MaxTxns)
Owners == Procs \X (1 .. MaxStarts)
Outside == {"idle", "link", "see", "probe", "recheck"}
Inside  == {"read", "op", "committed", "failed"}

Txn(p)     == <<p, count[p]>>
Me(p)      == <<p, start[p]>>
Running(o) == alive[o[1]] /\ start[o[1]] = o[2]

Init ==
    /\ file = {} /\ lock = None
    /\ pc = [p \in Procs |-> "idle"]
    /\ snap = [p \in Procs |-> {}]
    /\ raw = [p \in Procs |-> None]
    /\ tries = [p \in Procs |-> 0]
    /\ start = [p \in Procs |-> 1]
    /\ alive = [p \in Procs |-> TRUE]
    /\ count = [p \in Procs |-> 0]
    /\ done = {} /\ stale = {} /\ faults = 0

Goto(p, l) == pc' = [pc EXCEPT ![p] = l]
Fault == faults < MaxFaults /\ faults' = faults + 1

\* A process outside withStore holds nothing of it.
Leave(p) ==
    /\ Goto(p, "idle")
    /\ snap' = [snap EXCEPT ![p] = {}]
    /\ raw' = [raw EXCEPT ![p] = None]
    /\ tries' = [tries EXCEPT ![p] = 0]

(***************************************************************************)
(* withStoreLock: the payload is staged under a name of the process's own, *)
(* then linked.                                                            *)
(***************************************************************************)
withStore(p) ==
    /\ pc[p] = "idle" /\ alive[p] /\ count[p] < MaxTxns
    /\ count' = [count EXCEPT ![p] = @ + 1]
    /\ Goto(p, "link")
    /\ UNCHANGED <<file, lock, snap, raw, tries, start, alive, done, stale, faults>>

\* MUTANT of Retry: waiting for a live owner is not an attempt.
RetryUncounted(p) ==
    /\ Goto(p, "link")
    /\ raw' = [raw EXCEPT ![p] = None]
    /\ UNCHANGED tries

Retry(p) ==
    /\ Goto(p, "link")
    /\ raw' = [raw EXCEPT ![p] = None]
    /\ tries' = [tries EXCEPT ![p] = @ + 1]

Free == lock = None

link(p) ==
    /\ pc[p] = "link"
    /\ \/ /\ tries[p] = MaxTries                  \* the store is busy
          /\ Leave(p) /\ UNCHANGED lock
       \/ /\ tries[p] < MaxTries /\ Free
          /\ lock' = Me(p) /\ Goto(p, "read")
          /\ UNCHANGED <<snap, raw, tries>>
       \/ /\ tries[p] < MaxTries /\ ~Free         \* EEXIST
          /\ Goto(p, "see")
          /\ UNCHANGED <<lock, snap, raw, tries>>
    /\ UNCHANGED <<file, start, alive, count, done, stale, faults>>

\* The owner is read; the lock may be gone by then.
see(p) ==
    /\ pc[p] = "see"
    /\ \/ lock = None /\ Retry(p)
       \/ /\ lock # None
          /\ raw' = [raw EXCEPT ![p] = lock] /\ Goto(p, "probe")
          /\ UNCHANGED tries
    /\ UNCHANGED <<file, lock, snap, start, alive, count, done, stale, faults>>

\* isProcessAlive knows the pid alone: a later process that has it counts.
isProcessAlive(pid) == alive[pid]

probe(p) ==
    /\ pc[p] = "probe"
    /\ \/ isProcessAlive(raw[p][1]) /\ Retry(p)
       \/ /\ ~isProcessAlive(raw[p][1])
          /\ Goto(p, "recheck") /\ UNCHANGED <<raw, tries>>
    /\ UNCHANGED <<file, lock, snap, start, alive, count, done, stale, faults>>

\* The owner may have released the lock before it exited.
StillThere(p) == lock = raw[p]

recheck(p) ==
    /\ pc[p] = "recheck"
    /\ \/ ~StillThere(p) /\ Retry(p) /\ UNCHANGED <<snap, stale>>
       \/ /\ StillThere(p)                        \* staleLockError
          /\ stale' = stale \cup {raw[p]}
          /\ Leave(p)
    /\ UNCHANGED <<file, lock, start, alive, count, done, faults>>

(***************************************************************************)
(* The transaction.                                                        *)
(***************************************************************************)
readStoreFile(p) ==
    /\ pc[p] = "read"
    /\ snap' = [snap EXCEPT ![p] = file]
    /\ Goto(p, "op")
    /\ UNCHANGED <<file, lock, raw, tries, start, alive, count, done, stale, faults>>

\* commit writes the whole file from what was read, and renames it in place.
\* An operation may also return, or throw, without a commit.
atomicWrite0600(p) ==
    /\ pc[p] = "op"
    /\ \/ /\ file' = snap[p] \cup {Txn(p)}
          /\ \/ Goto(p, "committed") /\ UNCHANGED faults
             \/ Goto(p, "failed") /\ Fault        \* the directory's sync
       \/ Goto(p, "failed") /\ UNCHANGED <<file, faults>>
    /\ UNCHANGED <<lock, snap, raw, tries, start, alive, count, done, stale>>

\* MUTANT of Succeeded: the release hides the error of the write.
SucceededAnyway(p) == TRUE

Succeeded(p) == pc[p] = "committed"

\* The lock goes, by path, whatever is there, and the caller hears of the outcome; or
\* the unlink fails: the lock stays, and the caller hears of that.
release(p) ==
    /\ pc[p] \in {"committed", "failed"}
    /\ \/ /\ lock' = None /\ UNCHANGED faults
          /\ done' = IF Succeeded(p) THEN done \cup {Txn(p)} ELSE done
       \/ Fault /\ UNCHANGED <<lock, done>>
    /\ Leave(p)
    /\ UNCHANGED <<file, start, alive, count, stale>>

\* A check of the path, an error of the file system or a malformed file: a
\* waiter gives up, the holder goes to its release.
Throw(p) ==
    /\ Fault
    /\ \/ pc[p] \in Outside \ {"idle"} /\ Leave(p)
       \/ pc[p] = "read" /\ Goto(p, "failed") /\ UNCHANGED <<snap, raw, tries>>
    /\ UNCHANGED <<file, lock, start, alive, count, done, stale>>

(***************************************************************************)
(* Processes come and go; the pid may be given again.  The operator does   *)
(* what the error says when no borg process runs.                          *)
(***************************************************************************)
Exit(p) ==
    /\ alive[p]
    /\ alive' = [alive EXCEPT ![p] = FALSE]
    /\ Leave(p)
    /\ UNCHANGED <<file, lock, start, count, done, stale, faults>>

Restart(p) ==
    /\ ~alive[p] /\ start[p] < MaxStarts
    /\ alive' = [alive EXCEPT ![p] = TRUE]
    /\ start' = [start EXCEPT ![p] = @ + 1]
    /\ UNCHANGED <<file, lock, pc, snap, raw, tries, count, done, stale, faults>>

operatorRemovesLock ==
    /\ stale # {} /\ \A p \in Procs : pc[p] = "idle"
    /\ lock' = None /\ stale' = {}
    /\ UNCHANGED <<file, pc, snap, raw, tries, start, alive, count, done, faults>>

Step(p) ==
    \/ link(p) \/ see(p) \/ probe(p) \/ recheck(p)
    \/ readStoreFile(p) \/ atomicWrite0600(p) \/ release(p)

Next ==
    \/ \E p \in Procs : Step(p) \/ withStore(p) \/ Throw(p) \/ Exit(p) \/ Restart(p)
    \/ operatorRemovesLock

\* A process that runs takes its next step; nobody is bound to crash, to
\* come back or to remove a lock.
Spec == Init /\ [][Next]_vars /\ \A p \in Procs : WF_vars(Step(p))

(***************************************************************************)
(* Properties.                                                             *)
(***************************************************************************)
TypeOK ==
    /\ file \subseteq Txns /\ done \subseteq Txns
    /\ lock \in Owners \cup {None} /\ stale \subseteq Owners
    /\ pc \in [Procs -> Outside \cup Inside]
    /\ snap \in [Procs -> SUBSET Txns]
    /\ raw \in [Procs -> Owners \cup {None}]
    /\ tries \in [Procs -> 0 .. MaxTries]
    /\ start \in [Procs -> 1 .. MaxStarts]
    /\ alive \in [Procs -> BOOLEAN]
    /\ count \in [Procs -> 0 .. MaxTxns]
    /\ faults \in 0 .. MaxFaults

\* The holder of the lock file is alone in the transaction, whatever crashed,
\* threw or waited before: unlinking by path never removes another's lock.
OneWriter ==
    \A p, q \in Procs : pc[p] \in Inside /\ pc[q] \in Inside => p = q

\* The lock an error told the operator to delete is the one that is there,
\* and the process that took it will never release it: staleLockError is
\* never raised about a lock that was handed on between the two reads.
StaleIsReal == \A o \in stale : lock = o /\ ~Running(o)

\* The store is an atomic store of its transactions.
Abstract == INSTANCE AtomicStore WITH store <- file

Refines == Abstract!Spec

\* Every call comes back: a lock of a dead process, or of a pid in use again,
\* costs a bounded number of attempts and never a wait without end.
Returns == \A p \in Procs : pc[p] # "idle" ~> pc[p] = "idle"
==============================================================================
