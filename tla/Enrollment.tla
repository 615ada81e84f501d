----------------------------- MODULE Enrollment -----------------------------
(***************************************************************************)
(* Enrolling this machine with a Borg server (server-handshake.ts), the    *)
(* trust it pins (server-trust.ts), the credentials it keeps (config.ts)   *)
(* and `borg recover-enrollment`.                                          *)
(*                                                                         *)
(* The trust of an origin is a directory of generations and a pointer to   *)
(* one of them; its credentials are accounts of one file that is replaced  *)
(* as a whole.  An enrolment must change both, so it leaves a marker in    *)
(* the accounts until the pointer is in place, with what is needed to go   *)
(* on or to go back.  There is one origin.  A generation stands for the    *)
(* identity (the CA key) it pins, and the credential of a pending          *)
(* enrolment for its retry key too.  The origin's lock is SeatStore's; the *)
(* operator has removed the lock of a process that crashed before anybody  *)
(* else gets on.                                                           *)
(***************************************************************************)
EXTENDS Integers, FiniteSets

CONSTANTS
    Procs,      \* the processes that run commands
    First,      \* the identity the server has
    Second,     \* the identity it has once it is set up anew
    None,       \* no value
    MaxKeys,    \* bound: credentials generated
    MaxRuns,    \* bound: commands started
    MaxFaults   \* bound: crashes, lost answers, failed writes

ASSUME EnrollmentAssumption ==
    /\ First # Second /\ None \notin {First, Second} \cup Procs \cup Nat
    /\ MaxKeys \in Nat \ {0} /\ MaxRuns \in Nat /\ MaxFaults \in Nat

VARIABLES
    gens,      \* the generations in the trust directory
    pointer,   \* the one current.json names
    active,    \* the active credential of each identity
    pending,   \* the enrolment under way with each identity
    marker,    \* the accepted enrolment whose pointer may not be in place yet
    lock,      \* the process that has the origin's lock
    server,    \* the server: its identity now
    redeemed,  \* the server: the credential an invitation was exchanged for
    keys,      \* credentials generated so far
    letGo,     \* credentials the operator agreed to give up, or was refused
    sent,      \* credentials sent, and the identity of the peer
    stacked,   \* an enrolment was accepted while another's marker was there
    runs,      \* commands started so far
    faults,    \* faults so far
    proc       \* the command each process is running

local   == <<gens, pointer, active, pending, marker, lock>>
bounds  == <<keys, letGo, sent, runs, faults>>
remote  == <<server, redeemed, stacked>>
eVars   == <<local, bounds, remote, proc>>

Ids   == {First, Second}
Keys  == 1 .. MaxKeys
Invitations == Ids \X {1, 2}
Accounts == [Ids -> Keys \cup {None}]
NoAccounts == [i \in Ids |-> None]
Held(a) == {a[i] : i \in Ids} \ {None}

\* The accounts an operator has agreed to replace are a part of the record.
Pending == [inv : Invitations, key : Keys, consent : Accounts \cup {None}]

\* What an accepted enrolment leaves until its pointer is in place, and how to go back.
Markers == [id : Ids, prev : Ids \cup {None}, key : Keys, active : Accounts, pending : Pending]

CommandNames == {"enroll", "resume", "commit", "connect"}

ASSUME NoneAssumption ==
    None \notin Accounts /\ None \notin Pending /\ None \notin Markers /\ None \notin CommandNames

Idle == [at |-> "idle", cmd |-> None, id |-> None, inv |-> None, key |-> None,
         consent |-> None, found |-> None]

EnrollmentInit ==
    /\ \/ gens = {} /\ pointer = None /\ active = NoAccounts /\ keys = 0
          /\ redeemed = [v \in Invitations |-> None]
       \/ gens = {First} /\ pointer = First /\ keys = 1
          /\ active = [NoAccounts EXCEPT ![First] = 1]
          /\ redeemed = [v \in Invitations |-> IF v = <<First, 1>> THEN 1 ELSE None]
    /\ pending = [i \in Ids |-> None]
    /\ marker = None /\ lock = None
    /\ server = First
    /\ letGo = {} /\ sent = {} /\ stacked = FALSE /\ runs = 0 /\ faults = 0
    /\ proc = [p \in Procs |-> Idle]

Set(p, c) == proc' = [proc EXCEPT ![p] = c]
Goto(p, l) == Set(p, [proc[p] EXCEPT !.at = l])
Stop(p)   == Set(p, Idle)
Fault     == faults < MaxFaults /\ faults' = faults + 1
Free      == lock = None
Start(p)  == proc[p].at = "idle" /\ runs < MaxRuns /\ runs' = runs + 1

(***************************************************************************)
(* borg assimilate --enroll, up to the exchange.                           *)
(***************************************************************************)

\* The identity the invitation names is one the server presents.
Presented(v) == v[1] = server

publishGeneration(i) == gens' = gens \cup {i}

stageBorgServerTrust(p, v) ==
    /\ Start(p) /\ Free /\ Presented(v)
    /\ publishGeneration(v[1])
    /\ Set(p, [Idle EXCEPT !.at = "preflight", !.cmd = "enroll", !.id = v[1], !.inv = v])
    /\ UNCHANGED <<pointer, active, pending, marker, lock, keys, letGo, sent, faults, remote>>

\* resumeLocalBorgServerEnrollment: the one pending enrolment, with the
\* generation that was staged for it.
Transactions == {i \in Ids : pending[i] # None}

findPendingServerEnrollment(i) == marker = None /\ Transactions = {i}

resume(p) ==
    /\ Start(p) /\ Free
    /\ \E i \in Transactions :
         /\ findPendingServerEnrollment(i)
         /\ i \in gens
         /\ Set(p, [Idle EXCEPT !.at = "preflight", !.cmd = "resume", !.id = i,
                                !.inv = pending[i].inv, !.key = pending[i].key,
                                !.consent = pending[i].consent])
    /\ UNCHANGED <<local, keys, letGo, sent, faults, remote>>

preflight(p) ==
    /\ proc[p].at = "preflight"
    /\ \/ server = proc[p].id /\ UNCHANGED faults
          /\ Goto(p, IF proc[p].cmd = "resume" THEN "exchange" ELSE "check")
       \/ server = proc[p].id /\ Fault /\ Goto(p, "discard")
       \/ server # proc[p].id /\ UNCHANGED faults /\ Goto(p, "discard")
    /\ UNCHANGED <<local, keys, letGo, sent, runs, remote>>

\* MUTANT of Discarded: the generation goes whatever the pointer says.
DiscardedAnyway(i) == gens \ {i}

Discarded(i) == IF pointer = i THEN gens ELSE gens \ {i}

discardTrust(p) ==
    /\ proc[p].at \in {"discard", "rejected"} /\ Free
    /\ gens' = Discarded(proc[p].id)
    /\ IF proc[p].at = "rejected" THEN Goto(p, "clear") ELSE Stop(p)
    /\ UNCHANGED <<pointer, active, pending, marker, lock, bounds, remote>>

\* An existing credential needs the operator's yes.
confirmReplacement(p) ==
    LET c == proc[p]
    IN  /\ c.at = "check" /\ Free
        /\ \/ marker # None /\ Stop(p)
           \/ marker = None /\ active = NoAccounts /\ Goto(p, "prepare")
           \/ /\ marker = None /\ active # NoAccounts
              /\ \/ Set(p, [c EXCEPT !.at = "prepare", !.consent = active])
                 \/ Goto(p, "discard")
        /\ UNCHANGED <<local, bounds, remote>>

\* getOrCreatePendingServerEnrollment: the record there is, when it is the
\* same request; otherwise a new one, with the accounts there are now.
prepareEnrollment(p) ==
    LET c == proc[p]
        rec == pending[c.id]
        use(r) == Set(p, [c EXCEPT !.at = "exchange", !.key = r.key, !.consent = r.consent])
    IN  /\ c.at = "prepare" /\ Free
        /\ \/ /\ rec # None
              /\ IF rec.inv = c.inv /\ (c.consent # None => rec.consent # None)
                   THEN use(rec) ELSE Stop(p)
              /\ UNCHANGED <<pending, keys>>
           \/ /\ rec = None /\ keys < MaxKeys
              /\ LET new == [inv |-> c.inv, key |-> keys + 1,
                             consent |-> IF c.consent = None THEN None ELSE active]
                 IN  pending' = [pending EXCEPT ![c.id] = new] /\ use(new)
              /\ keys' = keys + 1
        /\ UNCHANGED <<gens, pointer, active, marker, lock, letGo, sent, runs, faults, remote>>

\* The exchange is tried twice; the server knows a retry by its key.
exchange(p) ==
    LET c == proc[p]
        fits == redeemed[c.inv] \in {None, c.key}
        redeem == redeemed' = [redeemed EXCEPT ![c.inv] = c.key]
        lost == Fault /\ Stop(p)          \* the record stays
    IN  /\ c.at = "exchange"
        /\ \/ /\ server = c.id /\ fits /\ redeem
              /\ \/ Goto(p, "commit") /\ UNCHANGED <<letGo, faults>>
                 \/ lost /\ UNCHANGED letGo
                 \/ /\ Fault /\ Goto(p, "mismatch")          \* not the authority it names
                    /\ letGo' = letGo \cup {c.key}
              /\ sent' = sent \cup {<<c.key, server>>}
           \/ /\ server = c.id /\ ~fits                      \* 401 or 403
              /\ Goto(p, "rejected")
              /\ sent' = sent \cup {<<c.key, server>>}
              /\ UNCHANGED <<redeemed, letGo, faults>>
           \/ lost /\ UNCHANGED <<redeemed, sent, letGo>>
           \/ server # c.id /\ Stop(p) /\ UNCHANGED <<redeemed, sent, letGo, faults>>
        /\ UNCHANGED <<local, server, stacked, keys, runs>>

clearPendingServerEnrollment(p) ==
    LET c == proc[p]
    IN  /\ c.at \in {"clear", "mismatch"} /\ Free
        /\ pending' = IF pending[c.id] # None /\ pending[c.id].key = c.key
                        THEN [pending EXCEPT ![c.id] = None] ELSE pending
        /\ IF c.at = "mismatch" THEN Goto(p, "discard") ELSE Stop(p)
        /\ UNCHANGED <<gens, pointer, active, marker, lock, bounds, remote>>

(***************************************************************************)
(* commitTrust: activate, publish, verify, finalize, under the lock.  What *)
(* fails is rolled back from the marker there is, whoever left it.         *)
(***************************************************************************)

\* MUTANT of Agreed: any yes will do.
AgreedOnce(c) == active # NoAccounts => c.consent # None

Agreed(c) == IF active = NoAccounts THEN c.consent = None ELSE c.consent = active

Consented(c) == IF c.consent = None THEN {} ELSE Held(c.consent)

Matches(c) == pending[c.id] # None /\ pending[c.id].key = c.key

Accepted(c) == [id |-> c.id, prev |-> pointer, key |-> c.key,
                active |-> active, pending |-> pending[c.id]]

\* Failing may mean that nothing was written, or that all of it was.
activatePendingServerEnrollment(p) ==
    LET c == proc[p]
        ok == Matches(c) /\ Agreed(c)
        write == /\ active' = [NoAccounts EXCEPT ![c.id] = c.key]
                 /\ pending' = [pending EXCEPT ![c.id] = None]
                 /\ marker' = Accepted(c)
        give == Stop(p) /\ UNCHANGED <<lock, active, pending, marker>>
        back(m) == /\ Set(p, [c EXCEPT !.at = "unpoint", !.cmd = "commit", !.found = m])
                   /\ lock' = p
    IN  /\ c.at = "commit" /\ Free
        /\ \/ /\ ok /\ write /\ lock' = p
              /\ Set(p, [c EXCEPT !.at = "publish", !.cmd = "commit", !.found = Accepted(c)])
              /\ UNCHANGED faults
           \/ ok /\ Fault /\ write /\ back(Accepted(c))
           \/ /\ \/ ~ok /\ UNCHANGED faults
                 \/ ok /\ Fault
              /\ IF marker = None THEN give
                 ELSE back(marker) /\ UNCHANGED <<active, pending, marker>>
        /\ letGo' = IF marker' # marker THEN letGo \cup Consented(c) ELSE letGo
        /\ stacked' = (stacked \/ (marker # None /\ marker' # marker))
        /\ UNCHANGED <<gens, pointer, server, redeemed, keys, sent, runs>>

publishTrustPointer(p) ==
    LET m == proc[p].found
    IN  /\ proc[p].at = "publish"
        /\ \/ pointer' = m.id /\ Goto(p, "finalize") /\ UNCHANGED faults
           \/ (pointer' = m.id \/ UNCHANGED pointer) /\ Fault /\ Goto(p, "unpoint")
        /\ UNCHANGED <<gens, active, pending, marker, lock, keys, letGo, sent, runs, remote>>

Readable(i) == i \in gens

\* The identity and the credential a command works with.
Session(i, k) == [Idle EXCEPT !.at = "session", !.cmd = "connect", !.id = i, !.key = k]

finalizeAcceptedEnrollment(p) ==
    LET m == proc[p].found
    IN  /\ proc[p].at = "finalize"
        /\ \/ /\ Readable(m.id)
              /\ marker' = None /\ lock' = None
              /\ IF proc[p].cmd = "commit" THEN Set(p, Session(m.id, m.key)) ELSE Goto(p, "load")
              /\ UNCHANGED faults
           \/ /\ \/ ~Readable(m.id) /\ UNCHANGED faults
                 \/ Readable(m.id) /\ Fault
              /\ Goto(p, "unpoint") /\ UNCHANGED <<marker, lock>>
        /\ UNCHANGED <<gens, pointer, active, pending, keys, letGo, sent, runs, remote>>

Release(p) == lock' = None /\ Stop(p)

restoreEnrollmentPointer(p) ==
    LET m == proc[p].found
    IN  /\ proc[p].at = "unpoint"
        /\ \/ /\ m.prev = None \/ m.prev \in gens
              /\ pointer' = m.prev /\ Goto(p, "restore") /\ UNCHANGED <<lock, faults>>
           \/ m.prev # None /\ m.prev \notin gens /\ Release(p) /\ UNCHANGED <<pointer, faults>>
           \/ Fault /\ Release(p) /\ UNCHANGED pointer
        /\ UNCHANGED <<gens, active, pending, marker, keys, letGo, sent, runs, remote>>

\* The record of the enrolment that is undone takes the place of any other of
\* that identity, which is gone (README, Observations).
Displaced(m) == IF pending[m.id] = None THEN {} ELSE {pending[m.id].key}

restoreAcceptedEnrollmentAccounts(p) ==
    LET m == proc[p].found
    IN  /\ proc[p].at = "restore"
        /\ \/ /\ active' = m.active
              /\ pending' = [pending EXCEPT ![m.id] = m.pending]
              /\ marker' = None
              /\ letGo' = (letGo \ Held(m.active)) \cup Displaced(m)
              /\ UNCHANGED faults
           \/ Fault /\ UNCHANGED <<active, pending, marker, letGo>>
        /\ Release(p)
        /\ UNCHANGED <<gens, pointer, keys, sent, runs, remote>>

(***************************************************************************)
(* The commands that use the enrolment.  Each request loads the trust      *)
(* again, and completes the enrolment a marker tells of.                   *)
(***************************************************************************)
connect(p) ==
    /\ Start(p) /\ Set(p, [Idle EXCEPT !.at = "load", !.cmd = "connect"])
    /\ UNCHANGED <<local, keys, letGo, sent, faults, remote>>

\* MUTANT of SameIdentity: the trust there is now will do.
AnyIdentity(c) == TRUE

SameIdentity(c) == pointer = c.id

\* The enrolment a marker tells of is completed, or undone when its
\* generation is not there.
recoverAcceptedEnrollment(p) ==
    /\ marker # None
    /\ Set(p, [proc[p] EXCEPT !.at = IF marker.id \in gens THEN "publish" ELSE "unpoint",
                              !.found = marker])
    /\ lock' = p

loadBorgServerTrust(p) ==
    LET c == proc[p]
        begin == Session(pointer, active[pointer])
    IN  /\ c.at \in {"load", "session"} /\ Free
        /\ \/ recoverAcceptedEnrollment(p)
           \/ /\ marker = None /\ UNCHANGED lock
              /\ IF pointer \notin gens THEN Stop(p)
                 ELSE IF c.id = None
                   THEN IF active[pointer] = None THEN Stop(p) ELSE Set(p, begin)
                   ELSE IF SameIdentity(c) THEN Set(p, [c EXCEPT !.at = "send", !.found = pointer])
                                           ELSE Stop(p)
        /\ UNCHANGED <<gens, pointer, active, pending, marker, bounds, remote>>

\* The connection is made only to the peer that was pinned.
createPinnedServerFetch(c) == server = c.found

authedFetch(p) ==
    LET c == proc[p]
    IN  /\ c.at = "send"
        /\ \/ /\ createPinnedServerFetch(c)
              /\ sent' = sent \cup {<<c.key, server>>}
              /\ Set(p, [c EXCEPT !.at = "session", !.found = None])
           \/ ~createPinnedServerFetch(c) /\ Stop(p) /\ UNCHANGED sent
        /\ UNCHANGED <<local, keys, letGo, runs, faults, remote>>

(***************************************************************************)
(* borg recover-enrollment: the one transaction there is, shown, then      *)
(* undone if it is still the same.                                         *)
(***************************************************************************)
findEnrollmentRecoveryTransaction(p) ==
    /\ Start(p)
    /\ \/ /\ marker # None /\ Transactions = {}
          /\ Set(p, [Idle EXCEPT !.at = "recover", !.cmd = "commit", !.found = marker])
       \/ /\ marker = None
          /\ \E i \in Transactions :
               /\ Transactions = {i}
               /\ Set(p, [Idle EXCEPT !.at = "recover", !.cmd = "commit",
                                      !.id = i, !.found = pending[i]])
    /\ UNCHANGED <<local, keys, letGo, sent, faults, remote>>

restoreBorgServerEnrollment(p) ==
    /\ proc[p].id = None
    /\ IF marker = proc[p].found THEN lock' = p /\ Goto(p, "unpoint")
                                 ELSE Stop(p) /\ UNCHANGED lock
    /\ UNCHANGED <<gens, pending, letGo>>

clearEnrollmentTransaction(p) ==
    LET c == proc[p]
    IN  /\ c.id # None /\ Stop(p) /\ UNCHANGED lock
        /\ IF marker = None /\ pending[c.id] = c.found
             THEN /\ pending' = [pending EXCEPT ![c.id] = None]
                  /\ letGo' = letGo \cup {c.found.key}
                  /\ gens' = Discarded(c.id)
             ELSE UNCHANGED <<gens, pending, letGo>>

runRecoverEnrollment(p) ==
    /\ proc[p].at = "recover" /\ Free
    /\ restoreBorgServerEnrollment(p) \/ clearEnrollmentTransaction(p)
    /\ UNCHANGED <<pointer, active, marker, keys, sent, runs, faults, remote>>

(***************************************************************************)
(* The environment: the server is set up anew, processes die.              *)
(***************************************************************************)
Reinit ==
    /\ server = First /\ server' = Second
    /\ UNCHANGED <<local, bounds, redeemed, stacked, proc>>

Crash(p) ==
    /\ proc[p].at # "idle" /\ Fault /\ Stop(p)
    /\ lock' = IF lock = p THEN None ELSE lock
    /\ UNCHANGED <<gens, pointer, active, pending, marker, keys, letGo, sent, runs, remote>>

Enroll(p) ==
    \/ \E v \in Invitations : stageBorgServerTrust(p, v)
    \/ resume(p) \/ preflight(p) \/ discardTrust(p) \/ confirmReplacement(p)
    \/ prepareEnrollment(p) \/ exchange(p) \/ clearPendingServerEnrollment(p)
    \/ activatePendingServerEnrollment(p) \/ publishTrustPointer(p)
    \/ finalizeAcceptedEnrollment(p) \/ restoreEnrollmentPointer(p)
    \/ restoreAcceptedEnrollmentAccounts(p)

Use(p) ==
    \/ connect(p) \/ loadBorgServerTrust(p) \/ authedFetch(p)
    \/ findEnrollmentRecoveryTransaction(p) \/ runRecoverEnrollment(p)

EnrollmentNext == Reinit \/ \E p \in Procs : Enroll(p) \/ Use(p) \/ Crash(p)

-----------------------------------------------------------------------------
(* Properties.                                                             *)

\* At rest the trust pointer names a generation that is there, and the only
\* active credential is the one of that identity (server-trust.ts 613-655:
\* the accounts and the pointer change together or not at all).  That is so
\* as long as no enrolment is accepted over the marker of another, which
\* needs a crash between the two checks (README, Observations).
TrustMatchesCredential ==
    marker = None /\ Free /\ ~stacked =>
        /\ pointer \in gens \cup {None}
        /\ \A i \in Ids \ {pointer} : active[i] = None

\* A credential the server has accepted can still be used or resumed, unless
\* the operator agreed to give it up (config.ts 865-881, 917-930).
CredentialKept ==
    \A v \in Invitations :
        \/ redeemed[v] = None
        \/ redeemed[v] \in letGo \cup Held(active) \cup {pending[i].key : i \in Transactions}
        \/ marker # None /\ redeemed[v] \in Held(marker.active) \cup {marker.pending.key}

\* A credential is only shown to the server it was issued by
\* (remote-client.ts 810-815).
NoCredentialToStranger ==
    \A s \in sent : \A v \in Invitations : redeemed[v] = s[1] => v[1] = s[2]
=============================================================================
