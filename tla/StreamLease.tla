----------------------------- MODULE StreamLease -----------------------------
(***************************************************************************)
(* The per-drone stream lease: which of several processes of one seat may  *)
(* hold the server's log stream.                                           *)
(*                                                                         *)
(* Source: src/src/stream-owner.ts, as runLoop (src/src/log-stream.ts)     *)
(* uses it.                                                                *)
(*                                                                         *)
(* The lease is a directory, <lock>, with the owner's record in it.        *)
(* Every mutation first renames it to the fixed name <lock>.takeover (the  *)
(* claim), publishes a marker there, checks that it moved what it meant to *)
(* move, and then removes it or renames it back.  The file system is the   *)
(* only synchronisation, so the model has one action per path operation:   *)
(* mkdir fails on an existing name; rename replaces an EMPTY directory and *)
(* fails (ENOTEMPTY) on one with files; reads and writes go to whatever    *)
(* directory the name denotes at that moment.                              *)
(*                                                                         *)
(* Abstractions.  A directory is an inode, reusable once no name refers to *)
(* it.  A record is its process and its heartbeat, counted modulo Beats.   *)
(* Time is three flags that only the passage of time sets: a record past   *)
(* STREAM_OWNER_STALE_MS, a marker past STREAM_OWNER_TAKEOVER_STALE_MS, a  *)
(* directory past the 5 s initialization and claim grace.  Recursive       *)
(* removal, and unlinking the marker with the rename that follows it, are  *)
(* one step; records are replaced by rename, so none is read half-written. *)
(***************************************************************************)
EXTENDS Naturals, FiniteSets

CONSTANTS
    Procs,       \* processes that stream for one drone
    Inodes,      \* directory identities (dev, ino)
    None,        \* no directory, no record, no process
    Beats,       \* heartbeat timestamps told apart
    MaxFaults    \* bound: record writes that fail and processes that die

ASSUME NoneAssumption == None \notin Procs \cup Inodes
ASSUME BeatsAssumption == Beats \in Nat \ {0}
ASSUME LeaseBoundAssumption == MaxFaults \in Nat

VARIABLES
    lock,      \* the directory named <lock>
    claim,     \* the directory named <lock>.takeover
    aside,     \* each process's <lock>.failed-<nonce> name
    dir,       \* what each directory holds
    proc,      \* each process: its next operation and what it knows
    spans,     \* operations of others under way since a process proved its lease
    failures   \* record writes that failed (bound)

vars == <<lock, claim, aside, dir, proc, spans, failures>>
files == <<lock, claim, aside, dir>>

Recs == [by : Procs, beat : 0 .. (Beats - 1)]

EmptyDir == [owner |-> None, stale |-> FALSE, marker |-> None,
             markerOld |-> FALSE, old |-> FALSE]

Acquiring == {"recover", "rec_owner", "rec_rm", "rec_restore",
              "cr_check", "cr_mkdir", "cr_write", "cr_claim", "cr_read",
              "cl_rename", "cl_read", "inspect",
              "mv_rename", "mv_ident", "mv_mark", "mv_verify", "mv_rm", "mv_back"}
Mutating == {"mu_rename", "mu_ident", "mu_mark", "mu_verify", "mu_mutate",
             "mu_restore", "mu_undo"}

\* A process: its next operation; whether tryCreateLease is on its last attempt
\* in this acquisition; the directory and record it inspected or owns; and
\* whether its mutation is a release.
Idle == [pc |-> "idle", second |-> FALSE, ino |-> None, owner |-> None,
         release |-> FALSE]

pc(p) == proc[p].pc
alive(p) == pc(p) # "dead"

Faults == failures + Cardinality({q \in Procs : ~ alive(q)})

\* The process runs the stream: it holds a lease it has no reason to doubt.
Streaming(p) == \/ pc(p) = "owner"
                \/ pc(p) \in Mutating \ {"mu_undo"} /\ ~ proc[p].release

-----------------------------------------------------------------------------
(* Path operations.                                                        *)

Empty(n) == dir[n].owner = None /\ dir[n].marker = None

\* rename(2) of a directory onto this name succeeds.
Replaceable(name) == name # None => Empty(name)

\* The inode a new directory gets.
Free(n) == /\ n # lock /\ n # claim
           /\ \A p \in Procs : aside[p] # n

\* The directories after the names l, c and a replace the current ones and d
\* the contents: what no name refers to is gone.
Rename(l, c, a, d) ==
    /\ lock' = l
    /\ claim' = c
    /\ aside' = a
    /\ dir' = [n \in Inodes |->
                 IF n \in {l, c} \/ \E p \in Procs : a[p] = n THEN d[n] ELSE EmptyDir]

Put(n, rec) == [dir EXCEPT ![n].owner = rec, ![n].stale = FALSE, ![n].old = FALSE]
Mark(n, p) == [dir EXCEPT ![n].marker = p, ![n].markerOld = FALSE, ![n].old = FALSE]
Unmark(n) == IF n = None THEN dir
             ELSE [dir EXCEPT ![n].marker = None, ![n].markerOld = FALSE, ![n].old = FALSE]

Goto(p, l) == /\ proc' = [proc EXCEPT ![p].pc = l]
              /\ UNCHANGED spans

\* The lease of p is proved; what others are doing now spans that moment.
Proved(p, rec) ==
    /\ proc' = [proc EXCEPT ![p] = rec]
    /\ spans' = [q \in Procs |->
                   IF q = p THEN {r \in Procs \ {p} : pc(r) \in Acquiring \cup Mutating}
                   ELSE spans[q] \ {p}]

\* The acquisition returns null or throws, or the lease is given up.
Quit(p) == /\ proc' = [proc EXCEPT ![p] = Idle]
           /\ spans' = [q \in Procs |-> IF q = p THEN {} ELSE spans[q] \ {p}]

\* Rename the claim back to the lock name.
ClaimBack(d) == Rename(claim, None, aside, d)

-----------------------------------------------------------------------------
Init ==
    /\ lock = None
    /\ claim = None
    /\ aside = [p \in Procs |-> None]
    /\ dir = [n \in Inodes |-> EmptyDir]
    /\ proc = [p \in Procs |-> Idle]
    /\ spans = [p \in Procs |-> {}]
    /\ failures = 0

\* runLoop has an active cube and no lease: acquireStreamLease.
Acquire(p) ==
    /\ pc(p) = "idle"
    /\ Goto(p, "recover")
    /\ UNCHANGED <<files, failures>>

-----------------------------------------------------------------------------
(* recoverTakeoverClaim                                                    *)

\* Mutant: a marked claim is left to its claimant for ever.
RecoverUnlessMarked(p) ==
    /\ pc(p) = "recover"
    /\ IF claim = None THEN Goto(p, "cr_check")
       ELSE IF dir[claim].marker # None \/ ~ dir[claim].old THEN Quit(p)
       ELSE Goto(p, "rec_owner")
    /\ UNCHANGED <<files, failures>>

\* Stat the claim and read its marker: wait for a live claimant, or within the
\* grace of a claim that has no marker yet.
Recover(p) ==
    /\ pc(p) = "recover"
    /\ LET c == dir[claim]
           busy == IF c.marker # None
                   THEN ~ c.markerOld /\ alive(c.marker)
                   ELSE ~ c.old
       IN  IF claim = None THEN Goto(p, "cr_check")
           ELSE IF busy THEN Quit(p) ELSE Goto(p, "rec_owner")
    /\ UNCHANGED <<files, failures>>

\* Mutant: the process probe is read the wrong way round.
ReclaimableAlive(n) == n # None /\ dir[n].owner # None =>
                           dir[n].stale \/ alive(dir[n].owner.by)

\* No record, a stale one, or a dead process's.
Reclaimable(n) == n # None /\ dir[n].owner # None =>
                      dir[n].stale \/ ~ alive(dir[n].owner.by)

RecoverOwner(p) ==
    /\ pc(p) = "rec_owner"
    /\ Goto(p, IF Reclaimable(claim) THEN "rec_rm" ELSE "rec_restore")
    /\ UNCHANGED <<files, failures>>

RecoverRemove(p) ==
    /\ pc(p) = "rec_rm"
    /\ Rename(lock, None, aside, dir)
    /\ Goto(p, "cr_check")
    /\ UNCHANGED failures

\* Rename back; a canonical successor wins and the claim is discarded.
RecoverRestore(p) ==
    /\ pc(p) = "rec_restore"
    /\ IF claim # None /\ Replaceable(lock) THEN ClaimBack(Unmark(claim))
       ELSE Rename(lock, None, aside, dir)
    /\ Quit(p)
    /\ UNCHANGED failures

-----------------------------------------------------------------------------
(* tryCreateLease and cleanupFailedInitialization                          *)

\* tryCreateLease returns null: inspect once, then give up.
NotCreated(p) == IF proc[p].second THEN Quit(p) ELSE Goto(p, "inspect")

CreateCheck(p) ==
    /\ pc(p) = "cr_check"
    /\ IF claim # None THEN NotCreated(p) ELSE Goto(p, "cr_mkdir")
    /\ UNCHANGED <<files, failures>>

CreateMkdir(p) ==
    /\ pc(p) = "cr_mkdir"
    /\ \/ /\ lock # None
          /\ NotCreated(p)
          /\ UNCHANGED files
       \/ /\ lock = None
          /\ \E n \in Inodes : Free(n) /\ Rename(n, claim, aside, dir)
          /\ Goto(p, "cr_write")
    /\ UNCHANGED failures

FirstRecord(p) == [by |-> p, beat |-> 0]

\* The record goes to the directory the lock name denotes now.
CreateWrite(p) ==
    /\ pc(p) = "cr_write"
    /\ lock # None
    /\ dir' = Put(lock, FirstRecord(p))
    /\ Goto(p, "cr_claim")
    /\ UNCHANGED <<lock, claim, aside, failures>>

\* The lock name is gone, or the write fails: clean up and throw.
CreateWriteFails(p) ==
    /\ pc(p) = "cr_write"
    /\ \/ lock = None /\ UNCHANGED failures
       \/ lock # None /\ Faults < MaxFaults /\ failures' = failures + 1
    /\ proc' = [proc EXCEPT ![p].pc = "cl_rename", ![p].second = TRUE]
    /\ UNCHANGED <<files, spans>>

CreateClaimCheck(p) ==
    /\ pc(p) = "cr_claim"
    /\ Goto(p, IF claim # None THEN "cl_rename" ELSE "cr_read")
    /\ UNCHANGED <<files, failures>>

\* Read back: the lease is owned, or lost during initialization (throws).
CreateRead(p) ==
    /\ pc(p) = "cr_read"
    /\ IF lock # None /\ dir[lock].owner = FirstRecord(p)
       THEN Proved(p, [Idle EXCEPT !.pc = "owner", !.ino = lock,
                                   !.owner = FirstRecord(p)])
       ELSE /\ proc' = [proc EXCEPT ![p].pc = "cl_rename", ![p].second = TRUE]
            /\ UNCHANGED spans
    /\ UNCHANGED <<files, failures>>

CleanupRename(p) ==
    /\ pc(p) = "cl_rename"
    /\ IF lock = None
       THEN NotCreated(p) /\ UNCHANGED files
       ELSE /\ Rename(None, claim, [aside EXCEPT ![p] = lock], dir)
            /\ Goto(p, "cl_read")
    /\ UNCHANGED failures

\* Another process's record goes back if the name allows it (it is stranded
\* under its cleanup name if not); everything else is removed.
CleanupRead(p) ==
    LET n == aside[p]
        foreign == dir[n].owner # None /\ dir[n].owner.by # p
    IN  /\ pc(p) = "cl_read"
        /\ Rename(IF foreign /\ Replaceable(lock) THEN n ELSE lock,
                  claim, [aside EXCEPT ![p] = None], dir)
        /\ NotCreated(p)
        /\ UNCHANGED failures

-----------------------------------------------------------------------------
(* readOwnershipSnapshot and moveStaleLockAside                            *)

\* The directory a snapshot reports on: the lock, or while a mutation has it
\* renamed, an intact fresh live one in the claim.
Reported == IF lock # None THEN lock
            ELSE IF Reclaimable(claim) THEN None ELSE claim

\* Initialization abandoned, or another process's record stale or dead.
TakeableBy(p, n) == IF dir[n].owner = None THEN dir[n].old
                    ELSE dir[n].owner.by # p /\ Reclaimable(n)

Inspect(p) ==
    LET n == Reported
    IN  /\ pc(p) = "inspect"
        /\ \/ /\ n = None
              /\ proc' = [proc EXCEPT ![p].pc = "cr_check", ![p].second = TRUE]
              /\ UNCHANGED spans
           \/ /\ n # None /\ TakeableBy(p, n)
              /\ proc' = [proc EXCEPT ![p] =
                     [pc |-> "mv_rename", second |-> TRUE, ino |-> n,
                      owner |-> dir[n].owner, release |-> FALSE]]
              /\ UNCHANGED spans
           \/ /\ n # None /\ ~ TakeableBy(p, n)
              /\ Quit(p)
        /\ UNCHANGED <<files, failures>>

\* Rename the lock to the claim name, in a takeover or in a mutation.
TakeClaim(p, l) ==
    IF lock = None \/ ~ Replaceable(claim)
    THEN Quit(p) /\ UNCHANGED files
    ELSE Rename(None, lock, aside, dir) /\ Goto(p, l)

MoveRename(p) ==
    /\ pc(p) = "mv_rename"
    /\ TakeClaim(p, "mv_ident")
    /\ UNCHANGED failures

\* The renamed directory is not the inspected one: put it back, or leave it.
MoveIdentity(p) ==
    /\ pc(p) = "mv_ident"
    /\ IF claim # None /\ claim = proc[p].ino
       THEN Goto(p, "mv_mark") /\ UNCHANGED files
       ELSE /\ IF claim # None /\ Replaceable(lock) THEN ClaimBack(dir)
               ELSE UNCHANGED files
            /\ Quit(p)
    /\ UNCHANGED failures

\* The marker is created exclusively: it throws on a marked or missing claim.
PublishMarker(p, l) ==
    IF claim # None /\ dir[claim].marker = None
    THEN dir' = Mark(claim, p) /\ Goto(p, l) /\ UNCHANGED <<lock, claim, aside>>
    ELSE Quit(p) /\ UNCHANGED files

MoveMark(p) ==
    /\ pc(p) = "mv_mark"
    /\ PublishMarker(p, "mv_verify")
    /\ UNCHANGED failures

isStillReclaimable(p) ==
    /\ claim # None /\ claim = proc[p].ino
    /\ dir[claim].owner = proc[p].owner
    /\ Reclaimable(claim)

MoveVerify(p) ==
    /\ pc(p) = "mv_verify"
    /\ Goto(p, IF isStillReclaimable(p) THEN "mv_rm" ELSE "mv_back")
    /\ UNCHANGED <<files, failures>>

MoveRemove(p) ==
    /\ pc(p) = "mv_rm"
    /\ Rename(lock, None, aside, dir)
    /\ Goto(p, "cr_check")
    /\ UNCHANGED failures

MoveBack(p) ==
    /\ pc(p) = "mv_back"
    /\ IF claim # None /\ Replaceable(lock) THEN ClaimBack(Unmark(claim))
       ELSE dir' = Unmark(claim) /\ UNCHANGED <<lock, claim, aside>>
    /\ Quit(p)
    /\ UNCHANGED failures

-----------------------------------------------------------------------------
(* makeLease: refresh and release, through mutateClaimedLease              *)

\* The refresh timer of the stream fires.  It fires 45 s after the lease was
\* last proved, and no acquisition or mutation takes that long.
StartRefresh(p) ==
    /\ pc(p) = "owner"
    /\ spans[p] = {}
    /\ Goto(p, "mu_rename")
    /\ UNCHANGED <<files, failures>>

\* runLoop stops streaming this seat (cube cleared or switched, terminal
\* verdict, shutdown).
StartRelease(p) ==
    /\ pc(p) = "owner"
    /\ proc' = [proc EXCEPT ![p].pc = "mu_rename", ![p].release = TRUE]
    /\ UNCHANGED <<files, spans, failures>>

MutateRename(p) ==
    /\ pc(p) = "mu_rename"
    /\ TakeClaim(p, "mu_ident")
    /\ UNCHANGED failures

MutateIdentity(p) ==
    /\ pc(p) = "mu_ident"
    /\ Goto(p, IF claim # None /\ claim = proc[p].ino THEN "mu_mark" ELSE "mu_undo")
    /\ UNCHANGED <<files, failures>>

MutateMark(p) ==
    /\ pc(p) = "mu_mark"
    /\ PublishMarker(p, "mu_verify")
    /\ UNCHANGED failures

\* A release that throws where runLoop does not catch it is tried again on
\* runLoop's way out.
ReleaseAgain(p) ==
    /\ pc(p) = "mu_mark"
    /\ proc[p].release
    /\ claim # None => dir[claim].marker # None
    /\ Goto(p, "mu_rename")
    /\ UNCHANGED <<files, failures>>

\* Mutant: only the directory's identity is checked, not the record in it.
StillMineByIdentity(p) == claim # None /\ claim = proc[p].ino

StillMine(p) == /\ claim # None /\ claim = proc[p].ino
                /\ dir[claim].owner = proc[p].owner

MutateVerify(p) ==
    /\ pc(p) = "mu_verify"
    /\ IF StillMine(p)
       THEN Goto(p, "mu_mutate") /\ UNCHANGED dir
       ELSE Goto(p, "mu_undo") /\ dir' = Unmark(claim)
    /\ UNCHANGED <<lock, claim, aside, failures>>

MutateRemove(p) ==
    /\ pc(p) = "mu_mutate"
    /\ proc[p].release
    /\ Rename(lock, None, aside, dir)
    /\ Quit(p)
    /\ UNCHANGED failures

NextRecord(p) == [by |-> p, beat |-> (proc[p].owner.beat + 1) % Beats]

MutateWrite(p) ==
    /\ pc(p) = "mu_mutate"
    /\ ~ proc[p].release
    /\ claim # None
    /\ dir' = Put(claim, NextRecord(p))
    /\ Goto(p, "mu_restore")
    /\ UNCHANGED <<lock, claim, aside, failures>>

\* The claim is gone, or the write fails and leaves the claim marked.
MutateWriteFails(p) ==
    /\ pc(p) = "mu_mutate"
    /\ ~ proc[p].release
    /\ \/ claim = None /\ UNCHANGED failures
       \/ claim # None /\ Faults < MaxFaults /\ failures' = failures + 1
    /\ Quit(p)
    /\ UNCHANGED files

\* restoreClaimedLease after a refresh: the lease is proved again.
MutateRestore(p) ==
    /\ pc(p) = "mu_restore"
    /\ claim # None => Replaceable(lock)
    /\ IF claim # None
       THEN /\ ClaimBack(Unmark(claim))
            /\ Proved(p, [proc[p] EXCEPT !.pc = "owner", !.owner = NextRecord(p)])
       ELSE Quit(p) /\ UNCHANGED files
    /\ UNCHANGED failures

\* restoreClaimedLease: ENOTEMPTY on all twenty attempts.
MutateGiveUp(p) ==
    /\ pc(p) \in {"mu_restore", "mu_undo"}
    /\ claim # None /\ ~ Replaceable(lock)
    /\ dir' = IF pc(p) = "mu_restore" THEN Unmark(claim) ELSE dir
    /\ Quit(p)
    /\ UNCHANGED <<lock, claim, aside, failures>>

\* restoreClaimedLease of a directory that is not this lease.
MutateUndo(p) ==
    /\ pc(p) = "mu_undo"
    /\ claim # None => Replaceable(lock)
    /\ IF claim # None THEN ClaimBack(dir) ELSE UNCHANGED files
    /\ Quit(p)
    /\ UNCHANGED failures

-----------------------------------------------------------------------------
(* Time and death.                                                         *)

Named == {lock, claim} \ {None}

\* The steps between publishing a marker and removing it.
Marking == {"mv_verify", "mv_rm", "mv_back", "mu_verify", "mu_mutate", "mu_restore"}

\* A creator publishes its record within the initialization grace.
AgeDir(n) ==
    /\ n \in Named
    /\ ~ dir[n].old
    /\ \A p \in Procs : pc(p) = "cr_write" => n # lock
    /\ dir' = [dir EXCEPT ![n].old = TRUE]
    /\ UNCHANGED <<lock, claim, aside, proc, spans, failures>>

\* A live claimant finishes within the grace; an abandoned marker ages.
AgeMarker(n) ==
    /\ n \in Named
    /\ dir[n].marker # None /\ ~ dir[n].markerOld
    /\ pc(dir[n].marker) \notin Marking
    /\ dir' = [dir EXCEPT ![n].markerOld = TRUE]
    /\ UNCHANGED <<lock, claim, aside, proc, spans, failures>>

\* A process that streams refreshes in time; any other record goes stale.
AgeOwner(n) ==
    /\ n \in Named
    /\ dir[n].owner # None /\ ~ dir[n].stale
    /\ pc(dir[n].owner.by) \notin {"owner", "cr_claim", "cr_read"} \cup Mutating
    /\ dir' = [dir EXCEPT ![n].stale = TRUE, ![n].old = TRUE]
    /\ UNCHANGED <<lock, claim, aside, proc, spans, failures>>

Crash(p) ==
    /\ alive(p)
    /\ Faults < MaxFaults
    /\ proc' = [proc EXCEPT ![p] = [Idle EXCEPT !.pc = "dead"]]
    /\ spans' = [q \in Procs |-> IF q = p THEN {} ELSE spans[q] \ {p}]
    /\ Rename(lock, claim, [aside EXCEPT ![p] = None], dir)
    /\ UNCHANGED failures

-----------------------------------------------------------------------------
AcquireStep(p) ==
    \/ Acquire(p) \/ Recover(p) \/ RecoverOwner(p) \/ RecoverRemove(p)
    \/ RecoverRestore(p) \/ CreateCheck(p) \/ CreateMkdir(p) \/ CreateWrite(p)
    \/ CreateWriteFails(p) \/ CreateClaimCheck(p) \/ CreateRead(p)
    \/ CleanupRename(p) \/ CleanupRead(p) \/ Inspect(p) \/ MoveRename(p)
    \/ MoveIdentity(p) \/ MoveMark(p) \/ MoveVerify(p) \/ MoveRemove(p)
    \/ MoveBack(p)

MutateStep(p) ==
    \/ MutateRename(p) \/ MutateIdentity(p) \/ MutateMark(p) \/ ReleaseAgain(p)
    \/ MutateVerify(p) \/ MutateRemove(p) \/ MutateWrite(p) \/ MutateWriteFails(p)
    \/ MutateRestore(p) \/ MutateGiveUp(p) \/ MutateUndo(p)

Tick == \E n \in Inodes : AgeDir(n) \/ AgeMarker(n) \/ AgeOwner(n)

Next ==
    \/ \E p \in Procs : \/ AcquireStep(p) \/ MutateStep(p)
                        \/ StartRefresh(p) \/ StartRelease(p) \/ Crash(p)
    \/ Tick

Spec == Init /\ [][Next]_vars

\* Every process keeps taking its steps, refresh timers fire, time passes.
Fairness ==
    /\ \A p \in Procs : /\ WF_vars(AcquireStep(p))
                        /\ WF_vars(MutateStep(p))
                        /\ WF_vars(StartRefresh(p))
    /\ \A n \in Inodes : /\ WF_vars(AgeDir(n))
                         /\ WF_vars(AgeMarker(n))
                         /\ WF_vars(AgeOwner(n))

FairSpec == Spec /\ Fairness

-----------------------------------------------------------------------------
(* Properties                                                              *)

\* Every variable keeps its type.
TypeOK ==
    /\ lock \in Inodes \cup {None}
    /\ claim \in Inodes \cup {None}
    /\ aside \in [Procs -> Inodes \cup {None}]
    /\ dir \in [Inodes -> [owner : Recs \cup {None}, stale : BOOLEAN,
                           marker : Procs \cup {None}, markerOld : BOOLEAN,
                           old : BOOLEAN]]
    /\ proc \in [Procs -> [pc : {"idle", "owner", "dead"} \cup Acquiring \cup Mutating,
                           second : BOOLEAN, ino : Inodes \cup {None},
                           owner : Recs \cup {None}, release : BOOLEAN]]
    /\ spans \in [Procs -> SUBSET Procs]
    /\ failures \in 0 .. MaxFaults

\* The directory p owns still holds p's record.
Intact(p) == /\ proc[p].ino # None
             /\ dir[proc[p].ino].owner # None
             /\ dir[proc[p].ino].owner.by = p

\* While a process streams on an intact lease, the other one does not remove it:
\* takeover, recovery of a claim, cleanup and release all delete by path, after
\* checks made on what the path named earlier.  (The holder's own release, and a
\* death between two steps, are the exceptions.)  This is about two processes.
\* With a third, a recovery may find the lock name taken while the lease is in
\* the claim and discard the lease (stream-owner.ts:452-455), or take a claim
\* that is gone for one without an owner and remove what was moved there since
\* (:442-445); TwoOwnersHeal's refresh tells the owner.
LiveLeaseNotRemoved ==
    [][\A p \in Procs :
          /\ Streaming(p) /\ Intact(p) /\ proc'[p] = proc[p]
          /\ \A q \in Procs : alive(q) => proc'[q].pc # "dead"
          => dir'[proc[p].ino].owner # None]_vars

\* When two processes do stream at once, the refresh timer ends it: one of them
\* finds that the lease is no longer its own.
TwoOwnersHeal ==
    \A p, q \in Procs : p # q =>
        (Streaming(p) /\ Streaming(q) ~> ~ (Streaming(p) /\ Streaming(q)))

\* Some name holds a record of process q.
LeaseOf(q) == \E n \in Named : dir[n].owner # None /\ dir[n].owner.by = q

\* stream-owner.test.ts, "lets a fresh process acquire immediately after the
\* owning process is killed": wherever its owner died, in the middle of a
\* mutation too, a dead process's lease is removed as long as one lives.
DeadOwnerReplaced ==
    \A q \in Procs : (~ alive(q) /\ LeaseOf(q)) ~> ~ LeaseOf(q)

=============================================================================
