------------------------ MODULE RepresentativeState ------------------------
(***************************************************************************)
(* The representative's durable state (representative-db.ts): SQLite        *)
(* databases in generation directories, the pointer file CURRENT that names *)
(* the one in use, the publish mutex, and the processes that run            *)
(* transactions, read-only views and `borg representative reset-state`.     *)
(*                                                                         *)
(* A generation is named by its stamp; the random suffix only matters      *)
(* outside the mutex and is left out.  A row stands for whatever one        *)
(* transaction writes.  SQLite (its write lock, its recovery of a crashed   *)
(* transaction, locks that die with their process) is external and modelled *)
(* from how this code uses it.  A body is synchronous inside its process,   *)
(* so what interleaves is the steps of different processes.                 *)
(***************************************************************************)
EXTENDS Naturals, FiniteSets, FiniteSetsExt

CONSTANTS DbProcs,    \* processes that use the database
          Rows,       \* what transactions write
          Legacy,     \* the rows the 5.x files hold, read when nothing is published yet
          Retained,   \* RETAINED_GENERATIONS
          MaxStamp,   \* bound on generation stamps
          MaxOps,     \* bound on operations started
          MaxHarm,    \* bound on crashes, failed publications and corruptions
          Nobody

ASSUME StateAssumption == /\ Legacy \subseteq Rows
                          /\ Retained \in Nat \ {0}
                          /\ MaxStamp \in Nat \ {0}
                          /\ Nobody \notin DbProcs

Stamps == 1..MaxStamp

VARIABLES current,   \* the stamp CURRENT holds, 0 when it is absent
          gens,      \* each stamp's directory: how far it is built, its rows, its health
          pointers,  \* CURRENT.<hex>.tmp files on disk
          mutex,     \* who holds publish.sqlite
          writer,    \* who holds the write lock of each generation's database
          proc,      \* each process: where it is in its operation and what it has read
          ops, harm, \* operations started and faults so far, for the bounds
          acked,     \* rows whose transaction returned
          forfeited, \* rows a reset gave up, as it reports
          stray      \* rows committed into a database that is not a database any more

stateVars == <<current, gens, pointers, mutex, writer, proc, ops, harm, acked, forfeited, stray>>

NoGen == [stage |-> "absent", rows |-> {}, health |-> "ok"]
Idle(handle) == [pc |-> "idle", row |-> {}, target |-> 0, handle |-> handle,
                 attempt |-> 0, fill |-> {}]

StateTypeOK ==
  /\ current \in 0..MaxStamp
  /\ gens \in [Stamps -> [stage : {"absent", "empty", "filled"}, rows : SUBSET Rows,
                          health : {"ok", "damaged", "unreadable"}]]
  /\ pointers \in Nat
  /\ mutex \in DbProcs \cup {Nobody}
  /\ writer \in [Stamps -> DbProcs \cup {Nobody}]
  /\ \A p \in DbProcs : proc[p].handle \in 0..MaxStamp /\ proc[p].target \in 0..MaxStamp

StateInit ==
  /\ current = 0 /\ gens = [g \in Stamps |-> NoGen] /\ pointers = 0
  /\ mutex = Nobody /\ writer = [g \in Stamps |-> Nobody]
  /\ proc = [p \in DbProcs |-> Idle(0)]
  /\ ops = 0 /\ harm = 0 /\ acked = {} /\ forfeited = {} /\ stray = {}

Ghosts == <<acked, forfeited, stray>>
Disk == <<current, gens, pointers>>

-----------------------------------------------------------------------------
(* What the steps share.                                                   *)

\* The row of the pc a step moves p to, with other fields of p changed by `change`.
Goes(p, pc, change) == proc' = [proc EXCEPT ![p] = [change EXCEPT !.pc = pc]]

\* The operation ends, returning or throwing; the open handle is kept for the next one.
Ends(p, handle) == proc' = [proc EXCEPT ![p] = Idle(handle)]

Unlocked(p) == [g \in Stamps |-> IF writer[g] = p THEN Nobody ELSE writer[g]]

\* The open or the BEGIN on the captured generation failed: the handle is discarded, and
\* the operation targets CURRENT's generation once more if CURRENT has moved since.
Retargets(p) ==
  IF proc[p].attempt = 0 /\ proc[p].target # 0 /\ current # 0 /\ current # proc[p].target
  THEN Goes(p, "find", [proc[p] EXCEPT !.attempt = 1, !.handle = 0])
  ELSE Ends(p, 0)

\* openGeneration: the directory and its database are there, quick_check says ok and the
\* version is the one this client writes.
Opens(g) == gens[g].stage = "filled" /\ gens[g].health = "ok"

Existing == {g \in Stamps : gens[g].stage # "absent"}

\* The new generation's stamp: the clock's, or one past the newest on disk when the clock
\* has not moved on.
newGenerationName(clock) ==
  LET newest == IF Existing = {} THEN 0 ELSE Max(Existing)
  IN  IF clock > newest THEN clock ELSE newest + 1

\* What retention keeps when g is published: g and the newest Retained of the others.
Kept(g) == {x \in Existing : x = g \/ Cardinality({y \in Existing \ {g} : y > x}) < Retained}

-----------------------------------------------------------------------------
(* Transactions.                                                           *)

StartTransact(p, r) ==
  /\ proc[p].pc = "idle" /\ ops < MaxOps /\ r \notin acked
  /\ ops' = ops + 1
  /\ Goes(p, "find", [proc[p] EXCEPT !.row = {r}])
  /\ UNCHANGED <<Disk, mutex, writer, harm, Ghosts>>

\* readCurrent before the transaction.  With nothing published the seed is read first,
\* outside the mutex: every valid 5.x binding, or none when the files cannot be read.
FindGeneration(p) ==
  /\ proc[p].pc = "find"
  /\ IF current = 0
     THEN \E seed \in {Legacy, {}} :
            Goes(p, "mutex", [proc[p] EXCEPT !.fill = seed])
     ELSE Goes(p, IF proc[p].handle = current THEN "begin" ELSE "open",
               [proc[p] EXCEPT !.target = current,
                               !.handle = IF @ = current THEN @ ELSE 0])
  /\ UNCHANGED <<Disk, mutex, writer, ops, harm, Ghosts>>

OpenGeneration(p) ==
  /\ proc[p].pc = "open"
  /\ IF Opens(proc[p].target)
     THEN Goes(p, "begin", [proc[p] EXCEPT !.handle = proc[p].target])
     ELSE Retargets(p)
  /\ UNCHANGED <<Disk, mutex, writer, ops, harm, Ghosts>>

\* BEGIN IMMEDIATE.  A handle opened earlier may still begin on a file that has been
\* damaged since, or has been unlinked by retention.
BeginImmediate(p) ==
  /\ proc[p].pc = "begin"
  /\ writer[proc[p].handle] = Nobody
  /\ writer' = [writer EXCEPT ![proc[p].handle] = p]
  /\ Goes(p, "check", proc[p])
  /\ UNCHANGED <<Disk, mutex, ops, harm, Ghosts>>

\* The busy timeout passed behind another writer, or SQLite found the corruption.
BeginFails(p) ==
  /\ proc[p].pc = "begin"
  /\ writer[proc[p].handle] # Nobody \/ gens[proc[p].handle].health = "unreadable"
  /\ Retargets(p)
  /\ UNCHANGED <<Disk, mutex, writer, ops, harm, Ghosts>>

\* A commit that trusts the pointer read before BEGIN.
CheckTrusting(p) ==
  /\ proc[p].pc = "check"
  /\ Goes(p, "commit", proc[p]) /\ UNCHANGED writer
  /\ UNCHANGED <<Disk, mutex, ops, harm, Ghosts>>

\* CURRENT is read again inside the transaction: a generation that is no longer current is
\* rolled back and targeted again once, then reported busy.
CheckCurrent(p) ==
  /\ proc[p].pc = "check"
  /\ IF current = proc[p].handle
     THEN Goes(p, "commit", proc[p]) /\ UNCHANGED writer
     ELSE /\ writer' = Unlocked(p)
          /\ IF proc[p].attempt = 0
             THEN Goes(p, "find", [proc[p] EXCEPT !.attempt = 1, !.handle = 0])
             ELSE Ends(p, 0)
  /\ UNCHANGED <<Disk, mutex, ops, harm, Ghosts>>

\* The body and COMMIT.
CommitRow(p) ==
  /\ proc[p].pc = "commit"
  /\ LET g == proc[p].handle
     IN  /\ gens' = [gens EXCEPT ![g].rows = @ \cup proc[p].row]
         /\ stray' = IF gens[g].health = "unreadable" THEN stray \cup proc[p].row ELSE stray
         /\ Ends(p, g)
  /\ acked' = acked \cup proc[p].row
  /\ writer' = Unlocked(p)
  /\ UNCHANGED <<current, pointers, mutex, ops, harm, forfeited>>

\* The body or COMMIT threw: rolled back; corruption also discards the handle.
CommitFails(p) ==
  /\ proc[p].pc = "commit" /\ gens[proc[p].handle].health # "ok"
  /\ writer' = Unlocked(p)
  /\ Ends(p, 0)
  /\ UNCHANGED <<Disk, mutex, ops, harm, Ghosts>>

\* A read-only view: nothing without CURRENT, an error for a generation that is gone or
\* cannot be read, else a snapshot.  Nothing is created and no handle is kept.
ReadOnly(p) ==
  /\ proc[p].pc = "idle" /\ ops < MaxOps /\ current # 0
  /\ ops' = ops + 1
  /\ Goes(p, "read", [proc[p] EXCEPT !.target = current])
  /\ UNCHANGED <<Disk, mutex, writer, harm, Ghosts>>

ReadOnlyBody(p) ==
  /\ proc[p].pc = "read"
  /\ Ends(p, proc[p].handle)
  /\ UNCHANGED <<Disk, mutex, writer, ops, harm, Ghosts>>

-----------------------------------------------------------------------------
(* The publish mutex and publication.  `target` is 0 while the first        *)
(* generation is made and the corrupt generation during a reset.            *)

StartReset(p) ==
  /\ proc[p].pc = "idle" /\ ops < MaxOps
  /\ ops' = ops + 1
  /\ Goes(p, "reset", proc[p])
  /\ UNCHANGED <<Disk, mutex, writer, harm, Ghosts>>

\* The first generation is published only if CURRENT is still absent under the mutex.
TakeToCreate(p) ==
  /\ proc[p].pc = "mutex" /\ mutex = Nobody
  /\ IF current = 0
     THEN mutex' = p /\ Goes(p, "name", proc[p])
     ELSE UNCHANGED mutex /\ Goes(p, "find", [proc[p] EXCEPT !.fill = {}])
  /\ UNCHANGED <<Disk, writer, ops, harm, Ghosts>>

\* A reset looks at CURRENT's generation under the mutex.  Nothing published, or a healthy
\* database, ends it; damage that can be opened is to be locked; a file that is not a
\* database is taken as one nobody can write.
TakeToReset(p) ==
  /\ proc[p].pc = "reset" /\ mutex = Nobody
  /\ IF current = 0 \/ Opens(current) \/ gens[current].stage # "filled"
     THEN UNCHANGED mutex /\ Ends(p, proc[p].handle)
     ELSE /\ mutex' = p
          /\ Goes(p, IF gens[current].health = "damaged" THEN "lock" ELSE "salvage",
                  [proc[p] EXCEPT !.target = current])
  /\ UNCHANGED <<Disk, writer, ops, harm, Ghosts>>

\* BEGIN EXCLUSIVE on the corrupt generation, held until CURRENT has moved.
LockExclusive(p) ==
  /\ proc[p].pc = "lock"
  /\ \/ /\ writer[proc[p].target] = Nobody
        /\ writer' = [writer EXCEPT ![proc[p].target] = p]
        /\ Goes(p, "salvage", proc[p])
        /\ UNCHANGED mutex
     \/ /\ writer[proc[p].target] # Nobody      \* busy: the reset fails
        /\ mutex' = Nobody /\ Ends(p, proc[p].handle) /\ UNCHANGED writer
  /\ UNCHANGED <<Disk, ops, harm, Ghosts>>

\* The rows that can be read and are valid are carried over, the others reported as dropped.
Salvage(p) ==
  /\ proc[p].pc = "salvage"
  /\ LET old == gens[proc[p].target]
     IN  \E kept \in IF old.health = "unreadable" THEN {{}} ELSE SUBSET old.rows :
           /\ forfeited' = forfeited \cup (old.rows \ kept)
           /\ Goes(p, "name", [proc[p] EXCEPT !.fill = kept])
  /\ UNCHANGED <<Disk, mutex, writer, ops, harm, acked, stray>>

\* The generation directory is made before anything is in it.
MakeDirectory(p) ==
  /\ proc[p].pc = "name"
  /\ \E clock \in 0..MaxStamp :
       LET g == newGenerationName(clock)
       IN  /\ g \in Stamps
           /\ gens' = [gens EXCEPT ![g] = [NoGen EXCEPT !.stage = "empty"]]
           /\ Goes(p, "fill", [proc[p] EXCEPT !.handle = g])
  /\ UNCHANGED <<current, pointers, mutex, writer, ops, harm, Ghosts>>

\* A publication that writes the pointer's temporary file before the database is filled.
FillLater(p) ==
  /\ proc[p].pc = "fill"
  /\ pointers' = pointers + 1
  /\ Goes(p, "point", proc[p])
  /\ UNCHANGED <<current, gens, mutex, writer, ops, harm, Ghosts>>

\* Schema, version and rows in one transaction, checkpointed and synced; then the
\* temporary pointer file.
FillGeneration(p) ==
  /\ proc[p].pc = "fill"
  /\ gens' = [gens EXCEPT ![proc[p].handle].stage = "filled",
                          ![proc[p].handle].rows = proc[p].fill]
  /\ pointers' = pointers + 1
  /\ Goes(p, "point", proc[p])
  /\ UNCHANGED <<current, mutex, writer, ops, harm, Ghosts>>

\* One rename publishes the generation.
PublishPointer(p) ==
  /\ proc[p].pc = "point"
  /\ current' = proc[p].handle
  /\ pointers' = pointers - 1
  /\ Goes(p, "clean", proc[p])
  /\ UNCHANGED <<gens, mutex, writer, ops, harm, Ghosts>>

\* Retention, then the locks are let go (a removed file keeps its health for the handles
\* still open on it).  A first creation goes on with its transaction;
\* a reset has reported what it kept and dropped.
CleanupGenerations(p) ==
  /\ proc[p].pc = "clean"
  /\ gens' = [g \in Stamps |-> IF g \in Kept(proc[p].handle) THEN gens[g]
                               ELSE [NoGen EXCEPT !.health = gens[g].health]]
  /\ pointers' = 0
  /\ mutex' = Nobody /\ writer' = Unlocked(p)
  /\ IF proc[p].target = 0 THEN Goes(p, "find", [proc[p] EXCEPT !.handle = 0, !.fill = {}])
                           ELSE Ends(p, 0)
  /\ UNCHANGED <<current, ops, harm, Ghosts>>

-----------------------------------------------------------------------------
(* What goes wrong.                                                        *)

\* A step of the publication throws (no space, refused WAL): the locks are let go and what
\* was built stays on disk.
PublishFails(p) ==
  /\ proc[p].pc \in {"name", "fill", "point"} /\ harm < MaxHarm
  /\ harm' = harm + 1
  /\ mutex' = Nobody /\ writer' = Unlocked(p)
  /\ Ends(p, 0)
  /\ UNCHANGED <<Disk, ops, Ghosts>>

\* The process dies: its SQLite locks die with it, an open transaction is rolled back by
\* whoever opens the database next.
CrashDb(p) ==
  /\ proc[p].pc # "idle" /\ harm < MaxHarm
  /\ harm' = harm + 1
  /\ mutex' = IF mutex = p THEN Nobody ELSE mutex
  /\ writer' = Unlocked(p)
  /\ Ends(p, 0)
  /\ UNCHANGED <<Disk, ops, Ghosts>>

\* The file is damaged underneath the client: quick_check fails on it, or it is no
\* database at all.
Corrupt(g, how) ==
  /\ gens[g].stage = "filled" /\ gens[g].health = "ok" /\ harm < MaxHarm
  /\ harm' = harm + 1
  /\ gens' = [gens EXCEPT ![g].health = how]
  /\ UNCHANGED <<current, pointers, mutex, writer, proc, ops, Ghosts>>

StateNext ==
  \/ \E p \in DbProcs :
       \/ \E r \in Rows : StartTransact(p, r)
       \/ FindGeneration(p) \/ OpenGeneration(p) \/ BeginImmediate(p) \/ BeginFails(p)
       \/ CheckCurrent(p) \/ CommitRow(p) \/ CommitFails(p)
       \/ ReadOnly(p) \/ ReadOnlyBody(p)
       \/ StartReset(p) \/ TakeToCreate(p) \/ TakeToReset(p) \/ LockExclusive(p) \/ Salvage(p)
       \/ MakeDirectory(p) \/ FillGeneration(p) \/ PublishPointer(p) \/ CleanupGenerations(p)
       \/ PublishFails(p) \/ CrashDb(p)
  \/ \E g \in Stamps, how \in {"damaged", "unreadable"} : Corrupt(g, how)

StateSpec == StateInit /\ [][StateNext]_stateVars

-----------------------------------------------------------------------------
\* Nothing that transact returned for is lost silently (representative-db.ts:373-389 and
\* 616-619): it is in CURRENT's generation, or a reset gave it up, whatever creations,
\* resets and crashes interleave with it.  Rows committed through an old handle into a file
\* that is no longer a database are the exception the code accepts.
NoLostCommit ==
  acked \subseteq (IF current = 0 THEN {} ELSE gens[current].rows) \cup forfeited \cup stray

\* CURRENT never names a generation that is missing or half built, through crashes and
\* failed publications at every step, clocks set back and retention
\* (representative-db.ts:465-470).
CurrentIsComplete == current # 0 => gens[current].stage = "filled"
============================================================================
