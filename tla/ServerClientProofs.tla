------------------------- MODULE ServerClientProofs -------------------------
(***************************************************************************)
(* Proofs about the server client, for every set of processes, any number  *)
(* of credentials, commands and faults: enrolment and the credentials it   *)
(* keeps (Enrollment), the repository's cube on top of it (RepositoryCube) *)
(* and the synchronisation of a cube's roles (RoleSync).                   *)
(*                                                                         *)
(* Enrolment.  The model does not record which invitation a credential was *)
(* generated for; the invariant says that there is such a record, own, with *)
(* which everything held or sent agrees (EInv).  Sound, its core, follows  *)
(* a credential through the files: something leads to it, or its invitation *)
(* was redeemed for another, at every step and not only for the redeemed   *)
(* ones, since an answer may have been lost.  Trusted ties the accounts to *)
(* the pointer at rest and to the marker between; CommandLocked says that  *)
(* who completes or undoes an enrolment works on the marker there is, with *)
(* the lock, which is why no other command's step can come between.        *)
(*                                                                         *)
(* Role sync.  A request in a call's list replaces what the call accepted, *)
(* or adds a field that is still missing unless another touched it.        *)
(***************************************************************************)
EXTENDS RepositoryCube, RoleSync, SequenceTheorems, TLAPS

(***************************************************************************)
(* Enrollment: whose credential is whose, and what still leads to it.      *)
(***************************************************************************)

\* The steps that hold the origin's lock.
Settling == {"publish", "finalize", "unpoint", "restore"}
\* The steps of a command that has exchanged an invitation, or is about to.
Exchanging == {"exchange", "commit", "rejected", "clear", "mismatch"}
Connecting == {"load", "session", "send"} \cup Settling
Places == {"idle", "preflight", "discard", "check", "prepare", "recover"} \cup Exchanging \cup Connecting
Finds == Markers \cup Pending \cup Ids \cup {None}

Commands ==
    [at : Places, cmd : CommandNames \cup {None}, id : Ids \cup {None}, inv : Invitations \cup {None},
     key : Keys \cup {None}, consent : Accounts \cup {None}, found : Finds]

\* own[k] is the invitation that credential k was generated for.  An enrolment, an account,
\* a marker and a command only hold credentials of the identity they belong to.
PendingOk(own, i, r) == r \in Pending /\ r.key <= keys /\ own[r.key] = r.inv /\ r.inv[1] = i
AccountsOk(own, a) == a \in Accounts /\ \A i \in Ids : a[i] # None => a[i] <= keys /\ own[a[i]][1] = i
MarkerOk(own, m) ==
    /\ m \in Markers /\ m.pending.key = m.key
    /\ AccountsOk(own, m.active) /\ PendingOk(own, m.id, m.pending)

\* What a command knows at each of its steps.
CommandOk(own, c) ==
    /\ c \in Commands
    /\ c.key # None => c.key <= keys /\ own[c.key][1] = c.id
    /\ c.at \in Exchanging \/ c.cmd = "resume" => c.key # None /\ c.inv = own[c.key]
    /\ c.at \in {"preflight", "check", "prepare"} => c.inv \in Invitations /\ c.inv[1] = c.id
    /\ c.at \in Settling => MarkerOk(own, c.found) /\ c.cmd \in {"commit", "connect"}
    /\ c.at = "recover" => c.cmd = "commit" /\ IF c.id = None THEN MarkerOk(own, c.found) ELSE c.found \in Pending
    /\ c.at = "send" => c.found = c.id
    /\ c.at \in {"load", "session", "send"} => c.cmd = "connect"
    /\ c.at \in {"session", "send"} => c.id # None
    /\ c.cmd = "connect" => c.at \in Connecting /\ (c.id # None => c.key # None)

HoldersOk(own) ==
    /\ AccountsOk(own, active)
    /\ \A i \in Ids : pending[i] # None => PendingOk(own, i, pending[i])
    /\ marker # None => MarkerOk(own, marker)
    /\ \A v \in Invitations : redeemed[v] # None => redeemed[v] <= keys /\ own[redeemed[v]] = v
SentOk(own) == \A s \in sent : s[1] \in Keys /\ s[1] <= keys /\ own[s[1]][1] = s[2]

\* A credential that something still leads to, one whose invitation another has taken, and
\* one that was given up or is in use.
Reachable(k) ==
    \/ k \in letGo \cup Held(active)
    \/ \E i \in Ids : pending[i] # None /\ pending[i].key = k
    \/ marker # None /\ (k \in Held(marker.active) \/ k = marker.key)
Taken(v, k) == redeemed[v] \notin {None, k}
Given(k) == k \in letGo \/ (marker = None /\ k \in Held(active))

Sound(own) == \A k \in 1 .. keys : Reachable(k) \/ Taken(own[k], k)

CommandKept(c) ==
    /\ c.at \in {"rejected", "clear"} => Taken(c.inv, c.key)
    /\ c.at = "mismatch" => Given(c.key)

\* Who settles holds the lock, and the marker it works on is the one there is.
CommandLocked(p, c) ==
    /\ c.at \in Settling <=> lock = p
    /\ c.at \in Settling => marker = c.found
    /\ c.at = "finalize" => pointer = c.found.id
    /\ c.at = "restore" => pointer = c.found.prev /\ pointer \in gens \cup {None}

OnlyOf(i, a) == \A j \in Ids \ {i} : a[j] = None

\* The accounts and the pointer, at rest and while a marker is there.
Trusted ==
    /\ marker # None => /\ active = [NoAccounts EXCEPT ![marker.id] = marker.key]
                        /\ Held(marker.active) \subseteq letGo
    /\ ~ stacked /\ marker = None => OnlyOf(pointer, active) /\ pointer \in gens \cup {None}
    /\ ~ stacked /\ marker # None => /\ OnlyOf(marker.prev, marker.active)
                                     /\ pointer \in {marker.prev, marker.id}

StateOk ==
    /\ gens \subseteq Ids /\ pointer \in Ids \cup {None} /\ server \in Ids
    /\ lock \in Procs \cup {None} /\ keys \in Nat /\ keys <= MaxKeys /\ stacked \in BOOLEAN
    /\ pending \in [Ids -> Pending \cup {None}]
    /\ redeemed \in [Invitations -> Keys \cup {None}]

EInv(own) ==
    /\ own \in [Keys -> Invitations]
    /\ StateOk /\ Trusted /\ HoldersOk(own) /\ SentOk(own) /\ Sound(own)
    /\ proc \in [Procs -> Commands]
    /\ \A p \in Procs : CommandOk(own, proc[p]) /\ CommandKept(proc[p]) /\ CommandLocked(p, proc[p])

EnrollmentInv == \E own \in [Keys -> Invitations] : EInv(own)

\* The numbers and identities among the constants.
LEMMA Numbers ==
    /\ MaxKeys \in Nat /\ Keys \subseteq Nat /\ None \notin Keys /\ None \notin Ids /\ None \notin Procs
    /\ First \in Ids /\ Second \in Ids /\ \A i \in Ids : i = First \/ i = Second
    /\ \A v \in Invitations : v[1] \in Ids
    /\ \A k : k \in Keys <=> k \in Nat /\ 1 <= k /\ k <= MaxKeys
BY EnrollmentAssumption DEF Keys, Ids, Invitations

\* The types of a command's fields.
LEMMA CommandFields ==
    ASSUME NEW c \in Commands
    PROVE  /\ c.at \in Places /\ c.cmd \in CommandNames \cup {None} /\ c.id \in Ids \cup {None}
           /\ c.inv \in Invitations \cup {None} /\ c.key \in Keys \cup {None}
           /\ c.consent \in Accounts \cup {None} /\ c.found \in Finds
BY DEF Commands

\* The types of a marker's fields.
LEMMA MarkerFields ==
    ASSUME NEW m \in Markers
    PROVE  /\ m.id \in Ids /\ m.prev \in Ids \cup {None} /\ m.key \in Keys /\ m.active \in Accounts
           /\ m.pending \in Pending
BY DEF Markers

\* The types of a pending enrolment's fields.
LEMMA PendingFields ==
    ASSUME NEW r \in Pending
    PROVE  r.inv \in Invitations /\ r.key \in Keys /\ r.consent \in Accounts \cup {None}
BY DEF Pending

\* What is held stays right when more credentials are generated.
LEMMA MoreKeys ==
    ASSUME keys \in Nat, keys' \in Nat, keys <= keys', NEW own
    PROVE  /\ \A i, r : PendingOk(own, i, r) => PendingOk(own, i, r)'
           /\ \A a : AccountsOk(own, a) => AccountsOk(own, a)'
           /\ \A m : MarkerOk(own, m) => MarkerOk(own, m)'
           /\ \A c : CommandOk(own, c) => CommandOk(own, c)'
<1>1. \A k \in Keys : k <= keys => k <= keys'
  BY Numbers
<1>2. \A i, r : PendingOk(own, i, r) => PendingOk(own, i, r)'
  BY <1>1, PendingFields DEF PendingOk
<1>3. \A a : AccountsOk(own, a) => AccountsOk(own, a)'
  BY <1>1 DEF AccountsOk, Accounts
<1>4. \A m : MarkerOk(own, m) => MarkerOk(own, m)'
  BY <1>2, <1>3 DEF MarkerOk
<1>5. ASSUME NEW c, CommandOk(own, c) PROVE CommandOk(own, c)'
  <2>1. c \in Commands /\ c.key \in Keys \cup {None}
    BY <1>5, CommandFields DEF CommandOk
  <2>2. c.key # None => c.key <= keys'
    BY <1>1, <1>5, <2>1 DEF CommandOk
  <2>3. CommandOk(own, c)
    BY <1>5
  <2> QED BY <1>4, <2>2, <2>3 DEF CommandOk
<1> QED BY <1>2, <1>3, <1>4, <1>5

\* Set changes the command of one process.
LEMMA OneCommand ==
    ASSUME NEW own, EInv(own), NEW p \in Procs, NEW d, Set(p, d)
    PROVE  proc'[p] = d /\ \A q \in Procs : q # p => proc'[q] = proc[q]
BY DEF EInv, Set

\* A step of the command of p, which becomes d.  Another command's lock keeps the origin
\* as it is.
LEMMA CommandStep ==
    ASSUME NEW own, EInv(own), NEW p \in Procs, NEW d, Set(p, d),
           StateOk', Trusted', HoldersOk(own)', SentOk(own)', Sound(own)', keys <= keys',
           CommandOk(own, d)', CommandKept(d)', CommandLocked(p, d)',
           \A v \in Invitations : \A k : Taken(v, k) => Taken(v, k)', \A k : Given(k) => Given(k)',
           (lock \in {None, p} /\ lock' \in {None, p}) \/ UNCHANGED <<lock, marker, pointer, gens>>
    PROVE  EInv(own)'
<1>1. proc'[p] = d /\ \A q \in Procs : q # p => proc'[q] = proc[q]
  BY OneCommand
<1>2. keys \in Nat /\ keys' \in Nat /\ keys <= keys'
  BY DEF EInv, StateOk
<1>3. ASSUME NEW q \in Procs PROVE (CommandOk(own, proc[q]) /\ CommandKept(proc[q]) /\ CommandLocked(q, proc[q]))'
  <2>1. CASE q = p
    BY <1>1, <2>1
  <2>2. CASE q # p
    <3>1. PICK c : c = proc[q]
      OBVIOUS
    <3>2. CommandOk(own, c) /\ CommandKept(c) /\ CommandLocked(q, c)
      BY <3>1 DEF EInv
    <3>3. CommandOk(own, c)'
      BY <1>2, <3>2, MoreKeys
    <3>4. CommandKept(c)'
      <4>1. c.at \in {"rejected", "clear"} => c.inv \in Invitations
        <5>1. c.key \in Keys \cup {None}
          BY <3>2, CommandFields DEF CommandOk
        <5> QED BY <3>2, <5>1 DEF CommandOk, Exchanging, EInv
      <4> QED BY <3>2, <4>1 DEF CommandKept
    <3>5. CommandLocked(q, c)'
      <4>1. CASE lock \in {None, p} /\ lock' \in {None, p}
        <5>1. q # None /\ lock # q /\ lock' # q
          BY <2>2, <4>1, Numbers
        <5>2. c.at \notin Settling
          BY <3>2, <5>1 DEF CommandLocked
        <5> QED BY <5>1, <5>2 DEF CommandLocked, Settling
      <4>2. CASE UNCHANGED <<lock, marker, pointer, gens>>
        BY <3>2, <4>2 DEF CommandLocked
      <4> QED BY <4>1, <4>2
    <3> QED BY <1>1, <2>2, <3>1, <3>3, <3>4, <3>5
  <2> QED BY <2>1, <2>2
<1>4. proc' \in [Procs -> Commands]
  <2>1. d \in Commands
    BY DEF CommandOk
  <2> QED BY <2>1 DEF EInv, Set
<1> QED BY <1>3, <1>4 DEF EInv

\* A step that changes nothing at the origin.
LEMMA QuietStep ==
    ASSUME NEW own, EInv(own), NEW p \in Procs, NEW d, Set(p, d),
           UNCHANGED <<local, letGo, keys, server, redeemed, stacked>>, SentOk(own)',
           CommandOk(own, d), CommandKept(d), CommandLocked(p, d)
    PROVE  EInv(own)'
<1>1. UNCHANGED <<gens, pointer, active, pending, marker, lock, letGo, keys, server, redeemed, stacked>>
  BY DEF local
<1>2. StateOk' /\ Trusted' /\ HoldersOk(own)'
  BY <1>1 DEF EInv, StateOk, Trusted, OnlyOf, HoldersOk, AccountsOk, PendingOk, MarkerOk
<1>3. Sound(own)' /\ (\A v, k : (Taken(v, k) => Taken(v, k)')) /\ \A k : (Given(k) => Given(k)')
  BY <1>1 DEF EInv, Sound, Reachable, Taken, Given
<1>4. keys \in Nat /\ keys' \in Nat /\ keys <= keys'
  BY <1>1 DEF EInv, StateOk
<1>5. CommandOk(own, d)'
  BY <1>4, MoreKeys
<1>6. CommandKept(d)' /\ CommandLocked(p, d)'
  BY <1>1 DEF CommandKept, CommandLocked, Taken, Given
<1> QED BY <1>1, <1>2, <1>3, <1>4, <1>5, <1>6, CommandStep

\* The command of p, and what it knows.
LEMMA TheCommand ==
    ASSUME NEW own, EInv(own), NEW p \in Procs
    PROVE  \E c : /\ c = proc[p] /\ c \in Commands /\ own \in [Keys -> Invitations]
                  /\ CommandOk(own, c) /\ CommandKept(c) /\ CommandLocked(p, c) /\ StateOk /\ SentOk(own)
BY DEF EInv

\* A command that ends has nothing to keep.
LEMMA IdleOk ==
    ASSUME NEW own
    PROVE  /\ Idle \in Commands /\ Idle.at = "idle" /\ Idle.key = None /\ Idle.cmd = None
           /\ CommandOk(own, Idle) /\ CommandKept(Idle)
           /\ \A p \in Procs : lock # p => CommandLocked(p, Idle)
<1>1. Idle \in Commands
  BY DEF Idle, Commands, Places, CommandNames, Finds
<1>2. Idle.at = "idle" /\ Idle.key = None /\ Idle.cmd = None
  BY DEF Idle
<1>3. "idle" \notin Settling /\ "idle" \notin Exchanging
  BY DEF Settling, Exchanging
<1>4. None \notin {"resume", "connect"}
  BY NoneAssumption DEF CommandNames
<1> QED BY <1>1, <1>2, <1>3, <1>4 DEF CommandOk, CommandKept, CommandLocked

-----------------------------------------------------------------------------
(* Steps of the enrolment that leave the accounts alone.                   *)

\* A command that goes on to a step satisfies what is said of it there.
LEMMA AtOk ==
    ASSUME NEW own, NEW c, CommandOk(own, c), NEW l \in Places \ {"recover", "send"},
           l \in Exchanging => c.key # None /\ c.inv = own[c.key],
           l \in {"preflight", "check", "prepare"} => c.inv \in Invitations /\ c.inv[1] = c.id,
           l \in Settling => MarkerOk(own, c.found) /\ c.cmd \in {"commit", "connect"},
           l \in {"load", "session"} => c.cmd = "connect",
           l = "session" => c.id # None,
           c.cmd = "connect" => l \in Connecting
    PROVE  LET d == [c EXCEPT !.at = l]
           IN  /\ d \in Commands /\ d.at = l /\ d.cmd = c.cmd /\ d.id = c.id /\ d.inv = c.inv
               /\ d.key = c.key /\ d.consent = c.consent /\ d.found = c.found /\ CommandOk(own, d)
<1>1. PICK d : d = [c EXCEPT !.at = l]
  OBVIOUS
<1>2. /\ d \in Commands /\ d.at = l /\ d.cmd = c.cmd /\ d.id = c.id /\ d.inv = c.inv
      /\ d.key = c.key /\ d.consent = c.consent /\ d.found = c.found
  BY <1>1 DEF CommandOk, Commands
<1>3. CommandOk(own, d)
  BY <1>2 DEF CommandOk
<1> QED BY <1>1, <1>2, <1>3

\* The command goes on, or ends, with nothing done at the origin.
LEMMA QuietGoto ==
    ASSUME NEW own, EInv(own), NEW p \in Procs, NEW c, c = proc[p], CommandOk(own, c),
           NEW l \in Places \ ({"recover", "send"} \cup Settling),
           UNCHANGED <<local, letGo, keys, server, redeemed, stacked>>, SentOk(own)',
           Goto(p, l), lock # p,
           l \in Exchanging => c.key # None /\ c.inv = own[c.key],
           l \in {"preflight", "check", "prepare"} => c.inv \in Invitations /\ c.inv[1] = c.id,
           l \in {"load", "session"} => c.cmd = "connect",
           l = "session" => c.id # None,
           c.cmd = "connect" => l \in Connecting,
           l \in {"rejected", "clear"} => Taken(c.inv, c.key),
           l = "mismatch" => Given(c.key)
    PROVE  EInv(own)'
<1>1. PICK d : d = [c EXCEPT !.at = l]
  OBVIOUS
<1>2. /\ d \in Commands /\ d.at = l /\ d.inv = c.inv /\ d.key = c.key /\ CommandOk(own, d)
  BY <1>1, AtOk
<1>3. CommandKept(d) /\ CommandLocked(p, d)
  BY <1>2 DEF CommandKept, CommandLocked, Settling
<1>4. Set(p, d)
  BY <1>1 DEF Goto
<1> QED BY <1>2, <1>3, <1>4, QuietStep

\* The command ends with nothing done at the origin.
LEMMA QuietStop ==
    ASSUME NEW own, EInv(own), NEW p \in Procs, Stop(p), lock # p,
           UNCHANGED <<local, letGo, keys, server, redeemed, stacked>>, SentOk(own)'
    PROVE  EInv(own)'
<1>1. PICK d : d = Idle
  OBVIOUS
<1>2. CommandOk(own, d) /\ CommandKept(d) /\ CommandLocked(p, d) /\ Set(p, d)
  BY <1>1, IdleOk DEF Stop
<1> QED BY <1>2, QuietStep

\* A step with the lock free: generations come, or go but for the one in use, and enrolments
\* go that lead to a credential that was given up, is in use or was never redeemed.
LEMMA FreeStep ==
    ASSUME NEW own, EInv(own), NEW p \in Procs, NEW d, Set(p, d), lock = None, lock' = None,
           UNCHANGED <<pointer, active, marker, server, redeemed, keys, stacked>>,
           gens' \subseteq Ids, pointer \in gens => pointer \in gens',
           letGo \subseteq letGo', SentOk(own)',
           pending' \in [Ids -> Pending \cup {None}],
           \A i \in Ids : pending'[i] = pending[i] \/
               (pending'[i] = None /\ (pending[i] # None =>
                   LET k == pending[i].key
                   IN  k \in letGo' \cup Held(active) \/ Taken(own[k], k))),
           CommandOk(own, d), CommandKept(d), d.at \notin Settling
    PROVE  EInv(own)'
<1>1. StateOk'
  BY DEF EInv, StateOk
<1>2. Trusted'
  BY DEF EInv, Trusted, OnlyOf
<1>3. HoldersOk(own)'
  <2>1. HoldersOk(own)
    BY DEF EInv
  <2>2. \A i \in Ids : pending'[i] # None => PendingOk(own, i, pending'[i])
    BY <2>1 DEF HoldersOk
  <2>3. \A i, r : PendingOk(own, i, r) => PendingOk(own, i, r)'
    BY DEF PendingOk
  <2>4. \A i \in Ids : pending'[i] # None => PendingOk(own, i, pending[i])' \/ pending'[i] # pending[i]
    BY DEF HoldersOk, EInv, PendingOk
  <2>5. (\A i \in Ids : pending[i] # None => PendingOk(own, i, pending[i]))'
    BY <2>2 DEF PendingOk
  <2> QED BY <2>1, <2>5 DEF HoldersOk, AccountsOk, MarkerOk, PendingOk
<1>4. Sound(own)'
  <2> SUFFICES ASSUME NEW k \in 1 .. keys, ~ Taken(own[k], k)' PROVE Reachable(k)'
    BY DEF Sound
  <2>1. Reachable(k)
    BY DEF EInv, Sound, Taken
  <2>2. CASE k \in letGo \cup Held(active) \/ (marker # None /\ (k \in Held(marker.active) \/ k = marker.key))
    BY <2>2 DEF Reachable
  <2>3. ASSUME NEW i \in Ids, pending[i] # None, pending[i].key = k PROVE Reachable(k)'
    BY <2>3 DEF Reachable, Taken
  <2> QED BY <2>1, <2>2, <2>3 DEF Reachable
<1>5. (\A v, k : Taken(v, k) => Taken(v, k)') /\ \A k : Given(k) => Given(k)'
  BY DEF Taken, Given
<1>6. keys \in Nat /\ keys' \in Nat /\ keys <= keys'
  BY DEF EInv, StateOk
<1>7. CommandOk(own, d)' /\ CommandKept(d)'
  BY <1>5, <1>6, MoreKeys DEF CommandKept
<1>8. CommandLocked(p, d)'
  BY Numbers DEF CommandLocked, Settling
<1> QED BY <1>1, <1>2, <1>3, <1>4, <1>5, <1>6, <1>7, <1>8, CommandStep

\* A generation is published for the invitation.
LEMMA StageInv ==
    ASSUME NEW own, EInv(own), NEW p \in Procs, NEW v \in Invitations, stageBorgServerTrust(p, v)
    PROVE  EInv(own)'
<1>1. PICK d : d = [Idle EXCEPT !.at = "preflight", !.cmd = "enroll", !.id = v[1], !.inv = v]
  OBVIOUS
<1>2. /\ Set(p, d) /\ lock = None /\ lock' = None /\ gens' = gens \cup {v[1]}
      /\ UNCHANGED <<pointer, active, marker, pending, letGo, sent, server, redeemed, keys, stacked>>
  BY <1>1 DEF stageBorgServerTrust, Free, publishGeneration, remote
<1>3. /\ d \in Commands /\ d.at = "preflight" /\ d.cmd = "enroll" /\ d.id = v[1] /\ d.inv = v /\ d.key = None
  BY <1>1, IdleOk, Numbers DEF Commands, Places, CommandNames
<1>4. CommandOk(own, d) /\ CommandKept(d) /\ d.at \notin Settling
  BY <1>3 DEF CommandOk, CommandKept, Settling, Exchanging, Connecting
<1>5. gens' \subseteq Ids /\ pending \in [Ids -> Pending \cup {None}] /\ SentOk(own)
  BY <1>2, Numbers DEF EInv, StateOk
<1>6. SentOk(own)'
  BY <1>2, <1>5 DEF SentOk
<1> QED BY <1>2, <1>4, <1>5, <1>6, FreeStep

\* resume takes the invitation and the key of the pending enrolment.
LEMMA ResumeInv ==
    ASSUME NEW own, EInv(own), NEW p \in Procs, resume(p)
    PROVE  EInv(own)'
<1>1. PICK i \in Transactions :
          /\ Set(p, [Idle EXCEPT !.at = "preflight", !.cmd = "resume", !.id = i, !.inv = pending[i].inv,
                                 !.key = pending[i].key, !.consent = pending[i].consent])
          /\ lock = None /\ UNCHANGED <<local, keys, letGo, sent, remote>>
  BY DEF resume, Free
<1>2. PICK r : r = pending[i]
  OBVIOUS
<1>3. i \in Ids /\ PendingOk(own, i, r)
  BY <1>2 DEF EInv, HoldersOk, Transactions
<1>4. PICK d : d = [Idle EXCEPT !.at = "preflight", !.cmd = "resume", !.id = i, !.inv = r.inv,
                                !.key = r.key, !.consent = r.consent]
  OBVIOUS
<1>5. r \in Pending /\ r.key \in Keys /\ r.inv \in Invitations /\ r.consent \in Accounts \cup {None}
      /\ r.key <= keys /\ own[r.key] = r.inv /\ r.inv[1] = i
  BY <1>3, PendingFields DEF PendingOk
<1>6. /\ d \in Commands /\ d.at = "preflight" /\ d.cmd = "resume" /\ d.id = i /\ d.inv = r.inv /\ d.key = r.key
  BY <1>3, <1>4, <1>5, IdleOk DEF Commands, Places, CommandNames
<1>7. CommandOk(own, d) /\ CommandKept(d)
  BY <1>5, <1>6, Numbers DEF CommandOk, CommandKept, Settling, Exchanging, Connecting
<1>8. Set(p, d) /\ lock # p /\ UNCHANGED <<local, letGo, keys, server, redeemed, stacked, sent>>
  BY <1>1, <1>2, <1>4, Numbers DEF remote
<1>9. CommandLocked(p, d) /\ SentOk(own)'
  BY <1>6, <1>8 DEF CommandLocked, Settling, SentOk, EInv
<1> QED BY <1>7, <1>8, <1>9, QuietStep

\* The handshake before anything is sent.
LEMMA PreflightInv ==
    ASSUME NEW own, EInv(own), NEW p \in Procs, preflight(p)
    PROVE  EInv(own)'
<1>1. PICK c : c = proc[p] /\ CommandOk(own, c) /\ CommandLocked(p, c)
  BY TheCommand
<1>2. c.at = "preflight" /\ UNCHANGED <<local, letGo, keys, server, redeemed, stacked, sent>>
  BY <1>1 DEF preflight, remote
<1>3. lock # p /\ SentOk(own)' /\ c.cmd # "connect"
  BY <1>1, <1>2 DEF CommandLocked, CommandOk, Settling, Connecting, EInv, SentOk
<1>4. CASE Goto(p, "discard")
  <2>1. "discard" \in Places \ ({"recover", "send"} \cup Settling) /\ "discard" \notin Exchanging
    BY DEF Places, Settling, Exchanging
  <2> QED BY <1>1, <1>2, <1>3, <1>4, <2>1, QuietGoto
<1>5. CASE c.cmd = "resume" /\ Goto(p, "exchange")
  <2>1. "exchange" \in Places \ ({"recover", "send"} \cup Settling) /\ "exchange" \in Exchanging
    BY DEF Places, Settling, Exchanging
  <2>2. c.key # None /\ c.inv = own[c.key]
    BY <1>1, <1>5 DEF CommandOk
  <2> QED BY <1>1, <1>2, <1>3, <1>5, <2>1, <2>2, QuietGoto
<1>6. CASE Goto(p, "check")
  <2>1. "check" \in Places \ ({"recover", "send"} \cup Settling) /\ "check" \notin Exchanging
    BY DEF Places, Settling, Exchanging
  <2>2. c.inv \in Invitations /\ c.inv[1] = c.id
    BY <1>1, <1>2 DEF CommandOk
  <2> QED BY <1>1, <1>2, <1>3, <1>6, <2>1, <2>2, QuietGoto
<1> QED BY <1>1, <1>4, <1>5, <1>6 DEF preflight

\* A staged generation goes, unless the pointer names it.
LEMMA DiscardInv ==
    ASSUME NEW own, EInv(own), NEW p \in Procs, discardTrust(p)
    PROVE  EInv(own)'
<1>1. PICK c : c = proc[p] /\ CommandOk(own, c) /\ CommandKept(c)
  BY TheCommand
<1>2. /\ c.at \in {"discard", "rejected"} /\ lock = None /\ lock' = None /\ gens' = Discarded(c.id)
      /\ UNCHANGED <<pointer, active, marker, pending, letGo, sent, server, redeemed, keys, stacked>>
      /\ IF c.at = "rejected" THEN Goto(p, "clear") ELSE Stop(p)
  BY <1>1 DEF discardTrust, Free, remote, bounds
<1>3. gens' \subseteq Ids /\ pending' \in [Ids -> Pending \cup {None}] /\ SentOk(own)'
      /\ (pointer \in gens => pointer \in gens')
  BY <1>2 DEF EInv, StateOk, Discarded, SentOk
<1>4. CASE c.at = "rejected"
  <2>1. PICK d : d = [c EXCEPT !.at = "clear"]
    OBVIOUS
  <2>2. c.key # None /\ c.inv = own[c.key] /\ c.cmd # "connect"
    BY <1>1, <1>4 DEF CommandOk, Exchanging, Connecting, Settling
  <2>3. "clear" \in Places \ {"recover", "send"} /\ "clear" \notin Settling
    BY DEF Places, Exchanging, Settling
  <2>4. d.at = "clear" /\ d.inv = c.inv /\ d.key = c.key /\ CommandOk(own, d)
    BY <1>1, <2>1, <2>2, <2>3, AtOk
  <2>5. CommandKept(d) /\ d.at \notin Settling
    BY <1>1, <1>4, <2>3, <2>4 DEF CommandKept
  <2>6. Set(p, d)
    BY <1>1, <1>2, <1>4, <2>1 DEF Goto
  <2> QED BY <1>2, <1>3, <2>4, <2>5, <2>6, FreeStep
<1>5. CASE c.at # "rejected"
  <2>1. PICK d : d = Idle
    OBVIOUS
  <2>2. Set(p, d) /\ CommandOk(own, d) /\ CommandKept(d) /\ d.at \notin Settling
    BY <1>2, <1>5, <2>1, IdleOk DEF Stop, Settling
  <2> QED BY <1>2, <1>3, <2>2, FreeStep
<1> QED BY <1>4, <1>5

\* The operator agrees to the accounts there are.
LEMMA ConfirmInv ==
    ASSUME NEW own, EInv(own), NEW p \in Procs, confirmReplacement(p)
    PROVE  EInv(own)'
<1>1. PICK c : c = proc[p] /\ CommandOk(own, c) /\ CommandLocked(p, c)
  BY TheCommand
<1>2. c.at = "check" /\ UNCHANGED <<local, letGo, keys, server, redeemed, stacked, sent>>
  BY <1>1 DEF confirmReplacement, remote, bounds
<1>3. lock # p /\ SentOk(own)' /\ c.cmd # "connect" /\ c.inv \in Invitations /\ c.inv[1] = c.id
  BY <1>1, <1>2 DEF CommandLocked, CommandOk, Settling, Connecting, EInv, SentOk
<1>4. CASE Stop(p)
  BY <1>2, <1>3, <1>4, QuietStop
<1>5. CASE Goto(p, "prepare") \/ Goto(p, "discard")
  <2>1. /\ {"prepare", "discard"} \subseteq Places \ ({"recover", "send"} \cup Settling)
        /\ "prepare" \notin Exchanging /\ "discard" \notin Exchanging
    BY DEF Places, Settling, Exchanging
  <2> QED BY <1>1, <1>2, <1>3, <1>5, <2>1, QuietGoto
<1>6. CASE Set(p, [c EXCEPT !.at = "prepare", !.consent = active])
  <2>1. PICK d : d = [c EXCEPT !.at = "prepare", !.consent = active]
    OBVIOUS
  <2>2. active \in Accounts
    BY DEF EInv, HoldersOk, AccountsOk
  <2>3. /\ d \in Commands /\ d.at = "prepare" /\ d.cmd = c.cmd /\ d.id = c.id /\ d.inv = c.inv
        /\ d.key = c.key /\ d.found = c.found
    BY <1>1, <2>1, <2>2 DEF CommandOk, Commands, Places
  <2>4. CommandOk(own, d) /\ CommandKept(d) /\ CommandLocked(p, d)
    BY <1>1, <1>3, <2>3 DEF CommandOk, CommandKept, CommandLocked, Settling, Exchanging
  <2> QED BY <1>2, <1>3, <1>6, <2>1, <2>4, QuietStep
<1> QED BY <1>1, <1>4, <1>5, <1>6 DEF confirmReplacement

\* A new credential is generated for an invitation.
LEMMA OwnsMore ==
    ASSUME NEW own, EInv(own), keys < MaxKeys, NEW v \in Invitations
    PROVE  \E more : /\ more[keys + 1] = v /\ EInv(more)
                     /\ \A k \in Keys : k <= keys => more[k] = own[k]
<1>1. PICK more : more = [own EXCEPT ![keys + 1] = v]
  OBVIOUS
<1>2. keys \in Nat /\ keys + 1 \in Keys /\ own \in [Keys -> Invitations]
  BY Numbers DEF EInv, StateOk
<1>3. /\ more \in [Keys -> Invitations] /\ more[keys + 1] = v
      /\ \A k \in Keys : k <= keys => more[k] = own[k]
  BY <1>1, <1>2, Numbers
<1>4. \A i, r : PendingOk(own, i, r) => PendingOk(more, i, r)
  BY <1>3, PendingFields DEF PendingOk
<1>5. \A a : AccountsOk(own, a) => AccountsOk(more, a)
  BY <1>3 DEF AccountsOk, Accounts
<1>6. \A m : MarkerOk(own, m) => MarkerOk(more, m)
  BY <1>4, <1>5 DEF MarkerOk
<1>7. ASSUME NEW c, CommandOk(own, c) PROVE CommandOk(more, c)
  <2>1. c.key \in Keys \cup {None}
    BY <1>7, CommandFields DEF CommandOk
  <2>2. c.key # None => c.key <= keys /\ more[c.key] = own[c.key]
    BY <1>3, <1>7, <2>1 DEF CommandOk
  <2> QED BY <1>6, <1>7, <2>2 DEF CommandOk
<1>8. HoldersOk(more)
  <2>1. \A w \in Invitations : redeemed[w] # None => redeemed[w] \in Keys
    BY DEF EInv, StateOk
  <2> QED BY <1>3, <1>4, <1>5, <1>6, <2>1 DEF EInv, HoldersOk
<1>9. SentOk(more)
  BY <1>3 DEF EInv, SentOk
<1>10. Sound(more)
  <2>1. \A k \in 1 .. keys : more[k] = own[k]
    BY <1>2, <1>3, Numbers DEF EInv, StateOk
  <2> QED BY <2>1 DEF EInv, Sound
<1>11. EInv(more)
  BY <1>3, <1>7, <1>8, <1>9, <1>10 DEF EInv
<1> QED BY <1>3, <1>11

\* The pending enrolment is written: a new credential has the invitation it is for.
LEMMA PrepareInv ==
    ASSUME NEW own, EInv(own), NEW p \in Procs, prepareEnrollment(p)
    PROVE  EInv(own)' \/ \E more : EInv(more)'
<1>1. PICK c : c = proc[p] /\ CommandOk(own, c) /\ CommandLocked(p, c) /\ c \in Commands
  BY TheCommand
<1>2. /\ c.at = "prepare" /\ lock = None /\ lock' = None
      /\ UNCHANGED <<gens, pointer, active, marker, letGo, server, redeemed, stacked, sent>>
  BY <1>1 DEF prepareEnrollment, remote, Free
<1>3. lock # p /\ SentOk(own) /\ c.cmd # "connect" /\ c.inv \in Invitations /\ c.inv[1] = c.id
      /\ c.id \in Ids
  BY <1>1, <1>2, Numbers DEF CommandLocked, CommandOk, Settling, Connecting, EInv
<1>4. ASSUME NEW r \in Pending, NEW o, PendingOk(o, c.id, r), CommandOk(o, c), r.inv = c.inv,
             NEW d, d = [c EXCEPT !.at = "exchange", !.key = r.key, !.consent = r.consent]
      PROVE  CommandOk(o, d) /\ CommandKept(d) /\ d.at \notin Settling
  <2>1. r.key \in Keys /\ r.consent \in Accounts \cup {None} /\ r.key <= keys /\ o[r.key] = c.inv
    BY <1>4, PendingFields DEF PendingOk
  <2>2. /\ d \in Commands /\ d.at = "exchange" /\ d.cmd = c.cmd /\ d.id = c.id /\ d.inv = c.inv
        /\ d.key = r.key /\ d.found = c.found
    BY <1>1, <1>4, <2>1 DEF Commands, Places, Exchanging
  <2> QED BY <1>2, <1>3, <1>4, <2>1, <2>2, Numbers DEF CommandOk, CommandKept, Settling, Exchanging
<1>5. CASE pending[c.id] # None /\ UNCHANGED <<pending, keys>>
  <2>1. PICK r : r = pending[c.id]
    OBVIOUS
  <2>2. PendingOk(own, c.id, r) /\ r \in Pending
    BY <1>3, <1>5, <2>1 DEF EInv, HoldersOk, PendingOk
  <2>3. UNCHANGED <<local, letGo, keys, server, redeemed, stacked>> /\ SentOk(own)'
    BY <1>2, <1>3, <1>5 DEF local, SentOk
  <2>4. PICK d : d = [c EXCEPT !.at = "exchange", !.key = r.key, !.consent = r.consent]
    OBVIOUS
  <2>5. Stop(p) \/ (r.inv = c.inv /\ Set(p, d))
    BY <1>1, <1>3, <1>5, <2>1, <2>4 DEF prepareEnrollment
  <2>6. CASE r.inv = c.inv /\ Set(p, d)
    <3>1. CommandOk(own, d) /\ CommandKept(d) /\ d.at \notin Settling
      BY <1>1, <1>4, <2>2, <2>4, <2>6
    <3>2. CommandLocked(p, d)
      BY <1>3, <3>1 DEF CommandLocked, Settling
    <3> QED BY <2>3, <2>6, <3>1, <3>2, QuietStep
  <2>7. CASE Stop(p)
    BY <1>3, <2>3, <2>7, QuietStop
  <2> QED BY <2>5, <2>6, <2>7
<1>6. CASE pending[c.id] = None /\ keys < MaxKeys /\ keys' = keys + 1
  <2>1. PICK more : more[keys + 1] = c.inv /\ EInv(more) /\ \A k \in Keys : k <= keys => more[k] = own[k]
    BY <1>3, <1>6, OwnsMore
  <2>2. PICK new, d :
          /\ new = [inv |-> c.inv, key |-> keys + 1, consent |-> IF c.consent = None THEN None ELSE active]
          /\ d = [c EXCEPT !.at = "exchange", !.key = new.key, !.consent = new.consent]
    OBVIOUS
  <2>3. pending' = [pending EXCEPT ![c.id] = new] /\ Set(p, d)
    BY <1>1, <1>6, <2>2 DEF prepareEnrollment
  <2>4. keys \in Nat /\ keys + 1 \in Keys /\ active \in Accounts
    BY <1>6, Numbers DEF EInv, StateOk, HoldersOk, AccountsOk
  <2>5. new \in Pending /\ new # None /\ new.key = keys + 1 /\ new.inv = c.inv
    BY <1>3, <2>2, <2>4, NoneAssumption DEF Pending
  <2>6. PendingOk(more, c.id, new)'
    BY <1>3, <1>6, <2>1, <2>4, <2>5 DEF PendingOk
  <2>7. keys' \in Nat /\ keys <= keys'
    BY <1>6, <2>4
  <2>8. HoldersOk(more)'
    <3>1. HoldersOk(more)
      BY <2>1 DEF EInv
    <3>2. (\A i \in Ids : pending[i] # None => PendingOk(more, i, pending[i]))'
      <4> SUFFICES ASSUME NEW i \in Ids, pending'[i] # None PROVE PendingOk(more, i, pending[i])'
        OBVIOUS
      <4>1. PICK r : r = pending'[i]
        OBVIOUS
      <4>2. PendingOk(more, i, r)'
        <5>1. pending \in [Ids -> Pending \cup {None}]
          BY DEF EInv, StateOk
        <5>2. CASE i = c.id
          BY <2>3, <2>6, <4>1, <5>1, <5>2
        <5>3. CASE i # c.id
          <6>1. r = pending[i] /\ PendingOk(more, i, r)
            BY <2>3, <3>1, <4>1, <5>1, <5>3 DEF HoldersOk
          <6> QED BY <2>4, <2>7, <6>1, MoreKeys
        <5> QED BY <5>2, <5>3
      <4> QED BY <4>1, <4>2
    <3>3. PICK a, m : a = active /\ m = marker
      OBVIOUS
    <3>4. AccountsOk(more, a)' /\ (m # None => MarkerOk(more, m)')
      BY <2>4, <2>7, <3>1, <3>3, MoreKeys DEF HoldersOk
    <3>5. \A v \in Invitations : redeemed[v] # None => redeemed[v] <= keys'
      BY <1>6, <2>4, <3>1, Numbers DEF HoldersOk, EInv, StateOk
    <3> QED BY <1>2, <3>1, <3>2, <3>3, <3>4, <3>5 DEF HoldersOk
  <2>9. SentOk(more)'
    <3>1. \A k \in Keys : k <= keys => k <= keys'
      BY <1>6, <2>4, Numbers
    <3> QED BY <1>2, <2>1, <3>1 DEF EInv, SentOk
  <2>10. StateOk' /\ Trusted'
    <3>1. pending' \in [Ids -> Pending \cup {None}] /\ keys + 1 <= MaxKeys
      BY <1>6, <2>3, <2>4, <2>5, Numbers DEF EInv, StateOk
    <3> QED BY <1>2, <1>6, <2>7, <3>1 DEF EInv, StateOk, Trusted, OnlyOf
  <2>11. Sound(more)'
    <3> SUFFICES ASSUME NEW k \in 1 .. keys', ~ Taken(more[k], k)' PROVE Reachable(k)'
      BY DEF Sound
    <3>1. pending \in [Ids -> Pending \cup {None}]
      BY DEF EInv, StateOk
    <3>2. CASE k = keys + 1
      <4>1. pending'[c.id] # None /\ pending'[c.id].key = k
        BY <1>3, <2>3, <2>5, <3>1, <3>2
      <4> QED BY <1>3, <4>1 DEF Reachable
    <3>3. CASE k # keys + 1
      <4>1. k \in 1 .. keys
        BY <1>6, <2>4, <3>3
      <4>2. Reachable(k)
        BY <1>2, <2>1, <4>1 DEF EInv, Sound, Taken
      <4>3. ASSUME NEW i \in Ids, pending[i] # None, pending[i].key = k PROVE Reachable(k)'
        <5>1. pending'[i] = pending[i]
          BY <1>6, <2>3, <3>1, <4>3
        <5> QED BY <4>3, <5>1 DEF Reachable
      <4> QED BY <1>2, <4>2, <4>3 DEF Reachable
    <3> QED BY <3>2, <3>3
  <2>12. CommandOk(more, d)' /\ CommandKept(d)' /\ CommandLocked(p, d)'
    <3>1. CommandOk(more, c)
      BY <1>1, <2>1 DEF EInv
    <3>2. CommandOk(more, c)'
      BY <2>4, <2>7, <3>1, MoreKeys
    <3>3. /\ d \in Commands /\ d.at = "exchange" /\ d.cmd = c.cmd /\ d.id = c.id /\ d.inv = c.inv
          /\ d.key = keys + 1 /\ d.found = c.found
      <4>1. new.key \in Keys /\ new.consent \in Accounts \cup {None}
        BY <2>5, PendingFields
      <4>2. "exchange" \in Places
        BY DEF Places, Exchanging
      <4> QED BY <1>1, <2>2, <2>5, <4>1, <4>2 DEF Commands
    <3>4. CommandOk(more, d)'
      BY <1>2, <1>3, <1>6, <2>1, <2>4, <3>2, <3>3, Numbers DEF CommandOk, Settling, Exchanging
    <3> QED BY <1>2, <3>3, <3>4, Numbers DEF CommandKept, CommandLocked, Settling
  <2>13. (\A v, k : Taken(v, k) => Taken(v, k)') /\ \A k : Given(k) => Given(k)'
    BY <1>2 DEF Taken, Given
  <2>14. EInv(more)'
    BY <1>2, <2>1, <2>3, <2>7, <2>8, <2>9, <2>10, <2>11, <2>12, <2>13, CommandStep
  <2> QED BY <2>14
<1> QED BY <1>1, <1>5, <1>6 DEF prepareEnrollment

\* A step under the lock, or one that takes or gives it back, with the accounts as they are.
LEMMA OriginStep ==
    ASSUME NEW own, EInv(own), NEW p \in Procs, NEW d, Set(p, d),
           UNCHANGED <<gens, active, pending, marker, letGo, keys, server, redeemed, stacked, sent>>,
           pointer' \in Ids \cup {None}, Trusted', lock \in {None, p}, lock' \in {None, p},
           CommandOk(own, d), CommandKept(d), CommandLocked(p, d)'
    PROVE  EInv(own)'
<1>1. StateOk' /\ HoldersOk(own)' /\ SentOk(own)'
  BY DEF EInv, StateOk, HoldersOk, AccountsOk, PendingOk, MarkerOk, SentOk
<1>2. Sound(own)' /\ (\A v, k : (Taken(v, k) => Taken(v, k)')) /\ \A k : (Given(k) => Given(k)')
  BY DEF EInv, Sound, Reachable, Taken, Given
<1>3. keys \in Nat /\ keys' \in Nat /\ keys <= keys'
  BY DEF EInv, StateOk
<1>4. CommandOk(own, d)'
  BY <1>3, MoreKeys
<1>5. CommandKept(d)'
  BY DEF CommandKept, Taken, Given
<1> QED BY <1>1, <1>2, <1>3, <1>4, <1>5, CommandStep

\* A credential is sent to its own identity; the server takes it, or has another.
LEMMA ExchangeInv ==
    ASSUME NEW own, EInv(own), NEW p \in Procs, exchange(p)
    PROVE  EInv(own)'
<1>1. PICK c : c = proc[p] /\ CommandOk(own, c) /\ CommandLocked(p, c) /\ c \in Commands
  BY TheCommand
<1>2. /\ c.at = "exchange" /\ UNCHANGED <<local, server, stacked, keys>>
      /\ UNCHANGED <<gens, pointer, active, pending, marker, lock>>
  BY <1>1 DEF exchange, local
<1>3. /\ lock # p /\ c.cmd # "connect" /\ c.key \in Keys /\ c.inv = own[c.key] /\ c.key <= keys
      /\ own[c.key][1] = c.id /\ c.inv \in Invitations /\ SentOk(own) /\ c.key # None
  <2>1. lock # p /\ c.cmd # "connect" /\ c.key # None
    BY <1>1, <1>2 DEF CommandLocked, CommandOk, Settling, Connecting, Exchanging
  <2>2. c.key \in Keys
    BY <1>1, <2>1, CommandFields
  <2> QED BY <1>1, <1>2, <2>1, <2>2 DEF CommandOk, EInv, Exchanging
<1>4. (sent' = sent \cup {<<c.key, server>>} /\ server = c.id) \/ sent' = sent => SentOk(own)'
  BY <1>2, <1>3 DEF SentOk
<1>5. CASE Stop(p) /\ UNCHANGED <<redeemed, sent, letGo>>
  BY <1>2, <1>3, <1>4, <1>5, QuietStop
<1>6. CASE /\ server = c.id /\ redeemed[c.inv] \notin {None, c.key} /\ Goto(p, "rejected")
           /\ sent' = sent \cup {<<c.key, server>>} /\ UNCHANGED <<redeemed, letGo>>
  <2>1. "rejected" \in Places \ ({"recover", "send"} \cup Settling) /\ "rejected" \in Exchanging
    BY DEF Places, Settling, Exchanging
  <2>2. Taken(c.inv, c.key)
    BY <1>6 DEF Taken
  <2> QED BY <1>1, <1>2, <1>3, <1>4, <1>6, <2>1, <2>2, QuietGoto
<1>7. CASE /\ server = c.id /\ redeemed[c.inv] \in {None, c.key}
           /\ redeemed' = [redeemed EXCEPT ![c.inv] = c.key] /\ sent' = sent \cup {<<c.key, server>>}
           /\ \/ (Goto(p, "commit") \/ Stop(p)) /\ UNCHANGED letGo
              \/ Goto(p, "mismatch") /\ letGo' = letGo \cup {c.key}
  <2>1. redeemed \in [Invitations -> Keys \cup {None}] /\ keys \in Nat
    BY DEF EInv, StateOk
  <2>2. \A v \in Invitations : redeemed'[v] = IF v = c.inv THEN c.key ELSE redeemed[v]
    BY <1>7, <2>1
  <2>3. StateOk' /\ letGo \subseteq letGo'
    BY <1>2, <1>3, <1>7, <2>1 DEF EInv, StateOk
  <2>4. Trusted'
    BY <1>2, <2>3 DEF EInv, Trusted, OnlyOf, Held
  <2>5. HoldersOk(own)'
    <3>1. HoldersOk(own)
      BY DEF EInv
    <3>2. \A v \in Invitations : redeemed'[v] # None => redeemed'[v] <= keys /\ own[redeemed'[v]] = v
      BY <1>3, <2>2, <3>1 DEF HoldersOk
    <3> QED BY <1>2, <3>1, <3>2 DEF HoldersOk, AccountsOk, PendingOk, MarkerOk
  <2>6. \A v \in Invitations : \A k : Taken(v, k) => Taken(v, k)'
    BY <1>3, <1>7, <2>2 DEF Taken
  <2>7. \A k : Given(k) => Given(k)'
    BY <1>2, <2>3 DEF Given, Held
  <2>8. Sound(own)'
    <3>1. \A k : Reachable(k) => Reachable(k)'
      BY <1>2, <2>3 DEF Reachable, Held
    <3>2. \A k \in 1 .. keys : own[k] \in Invitations
      BY <2>1, Numbers DEF EInv, StateOk
    <3> QED BY <1>2, <2>6, <3>1, <3>2 DEF EInv, Sound
  <2>9. keys <= keys' /\ keys' \in Nat
    BY <1>2, <2>1
  <2>10. CASE Goto(p, "commit") \/ (Goto(p, "mismatch") /\ letGo' = letGo \cup {c.key})
    <3>1. PICK l : /\ l \in {"commit", "mismatch"} /\ Goto(p, l)
                   /\ l = "mismatch" => letGo' = letGo \cup {c.key}
      BY <2>10
    <3>2. PICK d : d = [c EXCEPT !.at = l]
      OBVIOUS
    <3>3. l \in Places \ ({"recover", "send"} \cup Settling) /\ l \in Exchanging
      BY <3>1 DEF Places, Settling, Exchanging
    <3>4. d.at = l /\ d.inv = c.inv /\ d.key = c.key /\ CommandOk(own, d)
      BY <1>1, <1>3, <3>1, <3>2, <3>3, AtOk
    <3>5. CommandOk(own, d)'
      BY <2>1, <2>9, <3>4, MoreKeys
    <3>6. CommandKept(d)' /\ CommandLocked(p, d)'
      BY <1>2, <1>3, <3>1, <3>3, <3>4 DEF CommandKept, CommandLocked, Given
    <3>7. Set(p, d)
      BY <1>1, <3>1, <3>2 DEF Goto
    <3> QED BY <1>2, <1>4, <1>7, <2>3, <2>4, <2>5, <2>6, <2>7, <2>8, <2>9, <3>5, <3>6, <3>7, CommandStep
  <2>11. CASE Stop(p)
    <3>1. PICK d : d = Idle
      OBVIOUS
    <3>2. Set(p, d) /\ CommandOk(own, d) /\ CommandKept(d) /\ CommandLocked(p, d) /\ d.at = "idle"
      BY <1>3, <2>11, <3>1, IdleOk DEF Stop
    <3>3. CommandOk(own, d)'
      BY <2>1, <2>9, <3>2, MoreKeys
    <3>4. CommandKept(d)' /\ CommandLocked(p, d)'
      BY <1>2, <3>2 DEF CommandKept, CommandLocked, Settling
    <3> QED BY <1>2, <1>4, <1>7, <2>3, <2>4, <2>5, <2>6, <2>7, <2>8, <2>9, <3>2, <3>3, <3>4, CommandStep
  <2> QED BY <1>7, <2>10, <2>11
<1> QED BY <1>1, <1>5, <1>6, <1>7 DEF exchange

\* The pending enrolment goes that was refused or is given up.
LEMMA ClearPendingInv ==
    ASSUME NEW own, EInv(own), NEW p \in Procs, clearPendingServerEnrollment(p)
    PROVE  EInv(own)'
<1>1. PICK c : c = proc[p] /\ CommandOk(own, c) /\ CommandKept(c)
  BY TheCommand
<1>2. /\ c.at \in {"clear", "mismatch"} /\ lock = None /\ lock' = None
      /\ UNCHANGED <<gens, pointer, active, marker, letGo, sent, server, redeemed, keys, stacked>>
      /\ pending' = IF pending[c.id] # None /\ pending[c.id].key = c.key
                        THEN [pending EXCEPT ![c.id] = None] ELSE pending
      /\ IF c.at = "mismatch" THEN Goto(p, "discard") ELSE Stop(p)
  BY <1>1 DEF clearPendingServerEnrollment, Free, remote, bounds
<1>3. pending \in [Ids -> Pending \cup {None}] /\ gens \subseteq Ids /\ SentOk(own)
  BY DEF EInv, StateOk
<1>4. pending' \in [Ids -> Pending \cup {None}] /\ SentOk(own)'
  BY <1>2, <1>3 DEF SentOk
<1>5. c.key # None /\ c.inv = own[c.key] /\ c.cmd # "connect"
  BY <1>1, <1>2 DEF CommandOk, Exchanging, Connecting, Settling
<1>6. c.key \in letGo \cup Held(active) \/ Taken(own[c.key], c.key)
  BY <1>1, <1>2, <1>5 DEF CommandKept, Given
<1>7. \A i \in Ids : pending'[i] = pending[i] \/
               (pending'[i] = None /\ (pending[i] # None => pending[i].key = c.key))
  BY <1>2, <1>3
<1>8. \A i \in Ids : pending'[i] = pending[i] \/
               (pending'[i] = None /\ (pending[i] # None =>
                   LET k == pending[i].key
                   IN  k \in letGo' \cup Held(active) \/ Taken(own[k], k)))
  BY <1>2, <1>6, <1>7
<1>9. PICK d : d = IF c.at = "mismatch" THEN [c EXCEPT !.at = "discard"] ELSE Idle
  OBVIOUS
<1>10. Set(p, d)
  BY <1>1, <1>2, <1>9 DEF Goto, Stop
<1>11. CommandOk(own, d) /\ CommandKept(d) /\ d.at \notin Settling
  <2>1. CASE c.at = "mismatch"
    <3>1. "discard" \in Places \ {"recover", "send"} /\ "discard" \notin Exchanging \cup Settling
      BY DEF Places, Settling, Exchanging
    <3>2. CommandOk(own, d) /\ d.at = "discard"
      BY <1>1, <1>5, <1>9, <2>1, <3>1, AtOk
    <3> QED BY <3>1, <3>2 DEF CommandKept
  <2>2. CASE c.at # "mismatch"
    BY <1>9, <2>2, IdleOk DEF Settling
  <2> QED BY <2>1, <2>2
<1> QED BY <1>2, <1>3, <1>4, <1>8, <1>10, <1>11, FreeStep

-----------------------------------------------------------------------------
(* Steps of the enrolment that change the accounts.                        *)

\* Enrolments agreed to: what was active is given up, and the marker remembers it.
LEMMA WriteInv ==
    ASSUME NEW own, EInv(own), NEW p \in Procs, NEW c, c = proc[p], c.at = "commit", lock = None,
           Matches(c), Agreed(c), NEW l \in {"publish", "unpoint"},
           active' = [NoAccounts EXCEPT ![c.id] = c.key],
           pending' = [pending EXCEPT ![c.id] = None], marker' = Accepted(c), lock' = p,
           Set(p, [c EXCEPT !.at = l, !.cmd = "commit", !.found = Accepted(c)]),
           letGo' = IF marker' # marker THEN letGo \cup Consented(c) ELSE letGo,
           stacked' = (stacked \/ (marker # None /\ marker' # marker)),
           UNCHANGED <<gens, pointer, server, redeemed, keys, sent>>
    PROVE  EInv(own)'
<1>1. CommandOk(own, c) /\ c \in Commands
  BY TheCommand
<1>2. PICK m, r, a : m = Accepted(c) /\ r = pending[c.id] /\ a = active
  OBVIOUS
<1>3. /\ c.key \in Keys /\ c.key # None /\ c.key <= keys /\ own[c.key][1] = c.id /\ c.inv = own[c.key]
      /\ c.id \in Ids /\ own \in [Keys -> Invitations]
  <2>1. c.key \in Keys /\ c.key # None /\ c.key <= keys /\ own[c.key][1] = c.id /\ c.inv = own[c.key]
    BY <1>1, CommandFields DEF CommandOk, Exchanging
  <2>2. own \in [Keys -> Invitations]
    BY DEF EInv
  <2> QED BY <2>1, <2>2, Numbers
<1>4. StateOk /\ pending \in [Ids -> Pending \cup {None}] /\ keys \in Nat /\ HoldersOk(own) /\ Trusted
  BY DEF EInv, StateOk
<1>5. PendingOk(own, c.id, r) /\ r \in Pending /\ r.key = c.key /\ AccountsOk(own, a) /\ a \in Accounts
  BY <1>2, <1>3, <1>4 DEF HoldersOk, Matches, PendingOk, AccountsOk
<1>6. /\ m.id = c.id /\ m.prev = pointer /\ m.key = c.key /\ m.active = a /\ m.pending = r /\ m \in Markers
  BY <1>2, <1>3, <1>4, <1>5 DEF Accepted, Markers, StateOk
<1>7. MarkerOk(own, m) /\ m # None
  BY <1>5, <1>6, NoneAssumption DEF MarkerOk
<1>8. /\ marker' = m /\ active' \in Accounts /\ active'[c.id] = c.key
      /\ \A i \in Ids : i # c.id => active'[i] = None
  BY <1>2, <1>3 DEF NoAccounts, Accounts
<1>9. Held(a) \subseteq letGo'
  <2>1. CASE marker' # marker
    <3>1. Held(a) \subseteq Consented(c)
      <4>1. CASE a = NoAccounts
        BY <4>1 DEF Held, NoAccounts
      <4>2. CASE a # NoAccounts
        BY <1>2, <1>5, <4>2, NoneAssumption DEF Agreed, Consented
      <4> QED BY <4>1, <4>2
    <3> QED BY <2>1, <3>1
  <2>2. CASE marker' = marker
    <3>1. marker = m /\ letGo' = letGo
      BY <1>8, <2>2
    <3> QED BY <1>4, <1>6, <1>7, <3>1 DEF Trusted
  <2> QED BY <2>1, <2>2
<1>10. letGo \subseteq letGo'
  OBVIOUS
<1>11. StateOk'
  <2>1. pending' \in [Ids -> Pending \cup {None}]
    BY <1>3, <1>4
  <2>2. stacked' \in BOOLEAN
    OBVIOUS
  <2> QED BY <1>4, <2>1, <2>2 DEF StateOk
<1>12. Trusted'
  <2>1. active' = [NoAccounts EXCEPT ![m.id] = m.key]
    BY <1>6
  <2>2. ASSUME ~ stacked' PROVE OnlyOf(m.prev, m.active)
    <3>1. ~ stacked /\ (marker = None \/ marker = m)
      BY <1>8, <2>2
    <3>2. CASE marker = None
      BY <1>2, <1>4, <1>6, <3>1, <3>2 DEF Trusted
    <3>3. CASE marker = m
      BY <1>4, <1>7, <3>1, <3>3 DEF Trusted
    <3> QED BY <3>1, <3>2, <3>3
  <2>3. (active = [NoAccounts EXCEPT ![marker.id] = marker.key])' /\ (Held(marker.active) \subseteq letGo)'
    BY <1>6, <1>8, <1>9, <2>1 DEF Held
  <2>4. (~ stacked => OnlyOf(marker.prev, marker.active) /\ pointer \in {marker.prev, marker.id})'
    BY <1>6, <1>8, <2>2 DEF OnlyOf
  <2>5. marker' # None
    BY <1>7, <1>8
  <2> QED BY <2>3, <2>4, <2>5 DEF Trusted
<1>13. HoldersOk(own)'
  <2>1. PICK n : n = active'
    OBVIOUS
  <2>2. AccountsOk(own, n)
    BY <1>3, <1>8, <2>1 DEF AccountsOk
  <2>3. \A i \in Ids : pending'[i] # None => PendingOk(own, i, pending'[i])
    BY <1>3, <1>4 DEF HoldersOk
  <2>4. \A w \in Invitations : redeemed[w] # None => redeemed[w] <= keys /\ own[redeemed[w]] = w
    BY <1>4 DEF HoldersOk
  <2>5. (\A i \in Ids : pending[i] # None => PendingOk(own, i, pending[i]))'
    BY <2>3 DEF PendingOk
  <2> QED BY <1>7, <1>8, <2>1, <2>2, <2>4, <2>5 DEF HoldersOk, AccountsOk, MarkerOk, PendingOk
<1>14. Sound(own)'
  <2> SUFFICES ASSUME NEW k \in 1 .. keys, ~ Taken(own[k], k) PROVE Reachable(k)'
    BY DEF Sound, Taken
  <2>0. Reachable(k)
    BY DEF EInv, Sound
  <2>1. CASE k \in letGo
    BY <1>10, <2>1 DEF Reachable
  <2>2. CASE k \in Held(active)
    BY <1>2, <1>9, <2>2 DEF Reachable
  <2>3. ASSUME NEW i \in Ids, pending[i] # None, pending[i].key = k PROVE Reachable(k)'
    <3>1. CASE i = c.id
      BY <1>2, <1>5, <1>6, <1>7, <1>8, <2>3, <3>1 DEF Reachable
    <3>2. CASE i # c.id
      <4>1. pending'[i] = pending[i]
        BY <1>3, <1>4, <2>3, <3>2
      <4> QED BY <2>3, <4>1 DEF Reachable
    <3> QED BY <3>1, <3>2
  <2>4. CASE marker # None /\ k \in Held(marker.active)
    BY <1>4, <1>10, <2>4 DEF Trusted, Reachable
  <2>5. CASE marker # None /\ k = marker.key
    <3>1. marker.id \in Ids /\ marker.key \in Keys
      BY <1>4, <2>5, MarkerFields DEF HoldersOk, MarkerOk
    <3>2. active[marker.id] = k /\ k # None
      BY <1>4, <2>5, <3>1, Numbers DEF Trusted, NoAccounts
    <3>3. k \in Held(active)
      BY <3>1, <3>2 DEF Held
    <3> QED BY <1>2, <1>9, <3>3 DEF Reachable
  <2> QED BY <2>0, <2>1, <2>2, <2>3, <2>4, <2>5 DEF Reachable
<1>15. \A v, k : Taken(v, k) => Taken(v, k)'
  BY DEF Taken
<1>16. \A k : Given(k) => Given(k)'
  BY <1>2, <1>9, <1>10 DEF Given
<1>17. PICK d : d = [c EXCEPT !.at = l, !.cmd = "commit", !.found = m]
  OBVIOUS
<1>18. /\ d \in Commands /\ d.at = l /\ d.cmd = "commit" /\ d.id = c.id /\ d.inv = c.inv
       /\ d.key = c.key /\ d.found = m
  <2>1. l \in Places /\ m \in Finds /\ "commit" \in CommandNames
    BY <1>6 DEF Places, Connecting, Settling, Finds, CommandNames
  <2> QED BY <1>1, <1>17, <2>1 DEF Commands
<1>19. CommandOk(own, d)
  <2>1. l \in Settling
    BY DEF Settling
  <2> QED BY <1>1, <1>3, <1>7, <1>18, <2>1 DEF CommandOk, Exchanging, Settling
<1>20. CommandOk(own, d)'
  BY <1>4, <1>19, MoreKeys
<1>21. CommandKept(d)' /\ CommandLocked(p, d)'
  BY <1>7, <1>8, <1>18 DEF CommandKept, CommandLocked, Settling
<1>22. Set(p, d) /\ SentOk(own)' /\ keys <= keys'
  BY <1>2, <1>4, <1>17 DEF EInv, SentOk
<1> QED BY <1>11, <1>12, <1>13, <1>14, <1>15, <1>16, <1>20, <1>21, <1>22, CommandStep

\* activatePendingServerEnrollment, or the undoing of what failed.
LEMMA ActivateInv ==
    ASSUME NEW own, EInv(own), NEW p \in Procs, activatePendingServerEnrollment(p)
    PROVE  EInv(own)'
<1>1. PICK c : c = proc[p] /\ CommandOk(own, c) /\ CommandLocked(p, c) /\ c \in Commands
  BY TheCommand
<1>2. PICK n, m : n = Accepted(c) /\ m = marker
  OBVIOUS
<1>3. /\ c.at = "commit" /\ lock = None /\ UNCHANGED <<gens, pointer, server, redeemed, keys, sent>>
      /\ letGo' = IF marker' # marker THEN letGo \cup Consented(c) ELSE letGo
      /\ stacked' = (stacked \/ (marker # None /\ marker' # marker))
  BY <1>1 DEF activatePendingServerEnrollment, Free
<1>4. \/ /\ Matches(c) /\ Agreed(c) /\ active' = [NoAccounts EXCEPT ![c.id] = c.key]
         /\ pending' = [pending EXCEPT ![c.id] = None] /\ marker' = n /\ lock' = p
         /\ \E l \in {"publish", "unpoint"} : Set(p, [c EXCEPT !.at = l, !.cmd = "commit", !.found = n])
      \/ marker = None /\ Stop(p) /\ UNCHANGED <<lock, active, pending, marker>>
      \/ /\ marker # None /\ Set(p, [c EXCEPT !.at = "unpoint", !.cmd = "commit", !.found = m])
         /\ lock' = p /\ UNCHANGED <<active, pending, marker>>
  BY <1>1, <1>2 DEF activatePendingServerEnrollment
<1>5. CASE /\ Matches(c) /\ Agreed(c) /\ active' = [NoAccounts EXCEPT ![c.id] = c.key]
           /\ pending' = [pending EXCEPT ![c.id] = None] /\ marker' = n /\ lock' = p
           /\ \E l \in {"publish", "unpoint"} : Set(p, [c EXCEPT !.at = l, !.cmd = "commit", !.found = n])
  BY <1>1, <1>2, <1>3, <1>5, WriteInv
<1>6. CASE marker = None /\ Stop(p) /\ UNCHANGED <<lock, active, pending, marker>>
  <2>1. UNCHANGED <<letGo, stacked>>
    <3>1. stacked \in BOOLEAN
      BY DEF EInv, StateOk
    <3> QED BY <1>3, <1>6, <3>1
  <2>2. lock # p /\ SentOk(own)'
    BY <1>3, Numbers DEF EInv, SentOk
  <2> QED BY <1>3, <1>6, <2>1, <2>2, QuietStop DEF local
<1>7. CASE /\ marker # None /\ Set(p, [c EXCEPT !.at = "unpoint", !.cmd = "commit", !.found = m])
           /\ lock' = p /\ UNCHANGED <<active, pending, marker>>
  <2>1. UNCHANGED <<letGo, stacked>> /\ StateOk
    <3>1. stacked \in BOOLEAN
      BY DEF EInv, StateOk
    <3> QED BY <1>3, <1>7, <3>1 DEF EInv
  <2>2. Trusted'
    BY <1>3, <1>7, <2>1 DEF EInv, Trusted, OnlyOf, Held
  <2>3. PICK d : d = [c EXCEPT !.at = "unpoint", !.cmd = "commit", !.found = m]
    OBVIOUS
  <2>4. MarkerOk(own, m) /\ m \in Markers
    BY <1>2, <1>7 DEF EInv, HoldersOk, MarkerOk
  <2>5. /\ d \in Commands /\ d.at = "unpoint" /\ d.cmd = "commit" /\ d.id = c.id /\ d.inv = c.inv
        /\ d.key = c.key /\ d.found = m
    <3>1. "unpoint" \in Places /\ m \in Finds /\ "commit" \in CommandNames
      BY <2>4 DEF Places, Connecting, Settling, Finds, CommandNames
    <3> QED BY <1>1, <2>3, <3>1 DEF Commands
  <2>6. CommandOk(own, d)
    BY <1>1, <1>3, <2>4, <2>5 DEF CommandOk, Exchanging, Settling
  <2>7. CommandKept(d) /\ CommandLocked(p, d)'
    BY <1>2, <1>7, <2>5 DEF CommandKept, CommandLocked, Settling
  <2> QED BY <1>3, <1>7, <2>1, <2>2, <2>3, <2>6, <2>7, OriginStep DEF StateOk
<1> QED BY <1>4, <1>5, <1>6, <1>7

\* Who settles: the marker it works on is the one there is, and the lock is its own.
LEMMA SettlingFacts ==
    ASSUME NEW own, EInv(own), NEW p \in Procs, NEW c, c = proc[p], c.at \in Settling
    PROVE  /\ CommandOk(own, c) /\ c \in Commands /\ CommandLocked(p, c) /\ lock = p
           /\ \E m : /\ m = marker /\ m = c.found /\ m \in Markers /\ m # None /\ MarkerOk(own, m)
                     /\ m.id \in Ids /\ m.key \in Keys /\ m.key <= keys /\ own[m.key][1] = m.id
                     /\ m.active \in Accounts /\ m.pending \in Pending /\ m.pending.key = m.key
                     /\ m.prev \in Ids \cup {None}
                     /\ active = [NoAccounts EXCEPT ![m.id] = m.key] /\ Held(m.active) \subseteq letGo
                     /\ ~ stacked => OnlyOf(m.prev, m.active) /\ pointer \in {m.prev, m.id}
<1>1. CommandOk(own, c) /\ c \in Commands /\ CommandLocked(p, c)
  BY TheCommand
<1>2. lock = p /\ marker = c.found /\ MarkerOk(own, c.found)
  BY <1>1 DEF CommandLocked, CommandOk
<1>3. PICK m : m = marker
  OBVIOUS
<1>4. m = c.found /\ m \in Markers /\ m # None /\ MarkerOk(own, m)
  BY <1>2, <1>3, NoneAssumption DEF MarkerOk
<1>5. m.id \in Ids /\ m.key \in Keys /\ m.active \in Accounts /\ m.pending \in Pending /\ m.prev \in Ids \cup {None}
  BY <1>4, MarkerFields
<1>6. m.pending.key = m.key /\ m.key <= keys /\ own[m.key][1] = m.id
  BY <1>4 DEF MarkerOk, PendingOk
<1>7. /\ active = [NoAccounts EXCEPT ![m.id] = m.key] /\ Held(m.active) \subseteq letGo
      /\ ~ stacked => OnlyOf(m.prev, m.active) /\ pointer \in {m.prev, m.id}
  BY <1>3, <1>4 DEF EInv, Trusted
<1> QED BY <1>1, <1>2, <1>3, <1>4, <1>5, <1>6, <1>7

\* The pointer moves to the accepted identity.
LEMMA PublishInv ==
    ASSUME NEW own, EInv(own), NEW p \in Procs, publishTrustPointer(p)
    PROVE  EInv(own)'
<1>1. PICK c : c = proc[p]
  OBVIOUS
<1>2. c.at = "publish" /\ c.at \in Settling
      /\ UNCHANGED <<gens, active, pending, marker, lock, letGo, keys, server, redeemed, stacked, sent>>
  BY <1>1 DEF publishTrustPointer, remote, Settling
<1>3. PICK m : /\ m = marker /\ m = c.found /\ MarkerOk(own, m) /\ m.id \in Ids /\ m # None
               /\ active = [NoAccounts EXCEPT ![m.id] = m.key] /\ Held(m.active) \subseteq letGo
               /\ ~ stacked => OnlyOf(m.prev, m.active) /\ pointer \in {m.prev, m.id}
  BY <1>1, <1>2, SettlingFacts
<1>4. CommandOk(own, c) /\ c \in Commands /\ CommandLocked(p, c) /\ lock = p
  BY <1>1, <1>2, SettlingFacts
<1>5. PICK l : /\ l \in {"finalize", "unpoint"} /\ Goto(p, l) /\ pointer' \in {pointer, m.id}
               /\ l = "finalize" => pointer' = m.id
  BY <1>1, <1>3 DEF publishTrustPointer
<1>6. pointer' \in Ids \cup {None}
  BY <1>3, <1>5 DEF EInv, StateOk
<1>7. Trusted'
  BY <1>2, <1>3, <1>5 DEF Trusted, Held, OnlyOf
<1>8. PICK d : d = [c EXCEPT !.at = l]
  OBVIOUS
<1>9. l \in Places \ {"recover", "send"} /\ l \in Settling /\ l \notin Exchanging
      /\ l \in Connecting /\ l \notin {"preflight", "check", "prepare", "load", "session"}
  BY <1>5 DEF Places, Connecting, Settling, Exchanging
<1>10. c.cmd \in {"commit", "connect"}
  BY <1>2, <1>4 DEF CommandOk
<1>11. d.at = l /\ d.found = m /\ CommandOk(own, d)
  BY <1>3, <1>4, <1>8, <1>9, <1>10, AtOk
<1>12. CommandKept(d) /\ CommandLocked(p, d)'
  BY <1>2, <1>3, <1>4, <1>5, <1>9, <1>11 DEF CommandKept, CommandLocked
<1>13. Set(p, d)
  BY <1>1, <1>5, <1>8 DEF Goto
<1> QED BY <1>2, <1>4, <1>6, <1>7, <1>11, <1>12, <1>13, OriginStep

\* The pointer moves back, or the lock is given up with the marker there.
LEMMA UnpointInv ==
    ASSUME NEW own, EInv(own), NEW p \in Procs, restoreEnrollmentPointer(p)
    PROVE  EInv(own)'
<1>1. PICK c : c = proc[p]
  OBVIOUS
<1>2. c.at = "unpoint" /\ c.at \in Settling
      /\ UNCHANGED <<gens, active, pending, marker, letGo, keys, server, redeemed, stacked, sent>>
  BY <1>1 DEF restoreEnrollmentPointer, remote, Settling
<1>3. PICK m : /\ m = marker /\ m = c.found /\ MarkerOk(own, m) /\ m.prev \in Ids \cup {None} /\ m # None
               /\ active = [NoAccounts EXCEPT ![m.id] = m.key] /\ Held(m.active) \subseteq letGo
               /\ ~ stacked => OnlyOf(m.prev, m.active) /\ pointer \in {m.prev, m.id}
  BY <1>1, <1>2, SettlingFacts
<1>4. CommandOk(own, c) /\ c \in Commands /\ CommandLocked(p, c) /\ lock = p
  BY <1>1, <1>2, SettlingFacts
<1>5. \/ m.prev \in gens \cup {None} /\ pointer' = m.prev /\ Goto(p, "restore") /\ UNCHANGED lock
      \/ UNCHANGED pointer /\ lock' = None /\ Stop(p)
  BY <1>1, <1>3 DEF restoreEnrollmentPointer, Release
<1>6. pointer' \in Ids \cup {None} /\ Trusted'
  <2>1. pointer' \in {pointer, m.prev}
    BY <1>5
  <2> QED BY <1>2, <1>3, <2>1 DEF EInv, StateOk, Trusted, Held, OnlyOf
<1>7. CASE m.prev \in gens \cup {None} /\ pointer' = m.prev /\ Goto(p, "restore") /\ UNCHANGED lock
  <2>1. PICK d : d = [c EXCEPT !.at = "restore"]
    OBVIOUS
  <2>2. "restore" \in Places \ {"recover", "send"} /\ "restore" \in Settling /\ "restore" \notin Exchanging
        /\ "restore" \in Connecting
    BY DEF Places, Connecting, Settling, Exchanging
  <2>3. c.cmd \in {"commit", "connect"}
    BY <1>2, <1>4 DEF CommandOk
  <2>4. d.at = "restore" /\ d.found = m /\ CommandOk(own, d)
    BY <1>3, <1>4, <2>1, <2>2, <2>3, AtOk
  <2>5. CommandKept(d) /\ CommandLocked(p, d)'
    BY <1>2, <1>3, <1>4, <1>7, <2>2, <2>4 DEF CommandKept, CommandLocked
  <2>6. Set(p, d)
    BY <1>1, <1>7, <2>1 DEF Goto
  <2> QED BY <1>2, <1>4, <1>6, <1>7, <2>4, <2>5, <2>6, OriginStep
<1>8. CASE UNCHANGED pointer /\ lock' = None /\ Stop(p)
  <2>1. PICK d : d = Idle
    OBVIOUS
  <2>2. Set(p, d) /\ CommandOk(own, d) /\ CommandKept(d) /\ d.at = "idle"
    BY <1>8, <2>1, IdleOk DEF Stop
  <2>3. CommandLocked(p, d)'
    BY <1>8, <2>2, Numbers DEF CommandLocked, Settling
  <2> QED BY <1>2, <1>4, <1>6, <1>8, <2>2, <2>3, OriginStep
<1> QED BY <1>5, <1>7, <1>8

\* The enrolment is complete: the pointer names the identity of the only credential.
LEMMA FinalizeInv ==
    ASSUME NEW own, EInv(own), NEW p \in Procs, finalizeAcceptedEnrollment(p)
    PROVE  EInv(own)'
<1>1. PICK c : c = proc[p]
  OBVIOUS
<1>2. c.at = "finalize" /\ c.at \in Settling
      /\ UNCHANGED <<gens, pointer, active, pending, letGo, keys, server, redeemed, stacked, sent>>
  BY <1>1 DEF finalizeAcceptedEnrollment, remote, Settling
<1>3. PICK m : /\ m = marker /\ m = c.found /\ MarkerOk(own, m) /\ m.id \in Ids /\ m.key \in Keys
               /\ m.key <= keys /\ own[m.key][1] = m.id /\ m # None
               /\ active = [NoAccounts EXCEPT ![m.id] = m.key] /\ Held(m.active) \subseteq letGo
               /\ ~ stacked => OnlyOf(m.prev, m.active) /\ pointer \in {m.prev, m.id}
  BY <1>1, <1>2, SettlingFacts
<1>4. CommandOk(own, c) /\ c \in Commands /\ CommandLocked(p, c) /\ lock = p
  BY <1>1, <1>2, SettlingFacts
<1>5. pointer = m.id /\ c.cmd \in {"commit", "connect"} /\ StateOk
  BY <1>2, <1>3, <1>4 DEF CommandLocked, CommandOk, EInv
<1>6. CASE /\ m.id \in gens /\ marker' = None /\ lock' = None
           /\ IF c.cmd = "commit" THEN Set(p, Session(m.id, m.key)) ELSE Goto(p, "load")
  <2>1. StateOk'
    BY <1>2, <1>5, <1>6 DEF StateOk
  <2>2. active[m.id] = m.key /\ m.key # None /\ \A i \in Ids \ {m.id} : active[i] = None
    BY <1>3, Numbers DEF NoAccounts
  <2>3. Trusted'
    BY <1>2, <1>5, <1>6, <2>2 DEF Trusted, OnlyOf
  <2>4. HoldersOk(own)'
    BY <1>2, <1>6 DEF EInv, HoldersOk, AccountsOk, PendingOk
  <2>5. Sound(own)'
    <3> SUFFICES ASSUME NEW k \in 1 .. keys, ~ Taken(own[k], k) PROVE Reachable(k)'
      BY <1>2 DEF Sound, Taken
    <3>1. Reachable(k)
      BY DEF EInv, Sound
    <3>2. m.key \in Held(active)
      BY <1>3, <2>2 DEF Held
    <3> QED BY <1>2, <1>3, <3>1, <3>2 DEF Reachable, Held
  <2>6. (\A v, k : Taken(v, k) => Taken(v, k)') /\ \A k : Given(k) => Given(k)'
    BY <1>2, <1>3 DEF Taken, Given
  <2>7. keys \in Nat /\ keys' \in Nat /\ keys <= keys' /\ SentOk(own)'
    BY <1>2, <1>5 DEF StateOk, EInv, SentOk
  <2>8. CASE c.cmd = "commit"
    <3>1. PICK d : d = Session(m.id, m.key)
      OBVIOUS
    <3>2. /\ d \in Commands /\ d.at = "session" /\ d.cmd = "connect" /\ d.id = m.id /\ d.key = m.key
      BY <1>3, <3>1, IdleOk DEF Session, Commands, Places, Connecting, CommandNames
    <3>3. CommandOk(own, d)
      BY <1>3, <2>2, <3>2, Numbers DEF CommandOk, Settling, Exchanging, Connecting
    <3>4. CommandOk(own, d)'
      BY <2>7, <3>3, MoreKeys
    <3>5. CommandKept(d)' /\ CommandLocked(p, d)'
      BY <1>6, <3>2, Numbers DEF CommandKept, CommandLocked, Settling
    <3> QED BY <1>4, <1>6, <2>1, <2>3, <2>4, <2>5, <2>6, <2>7, <2>8, <3>1, <3>4, <3>5, CommandStep
  <2>9. CASE c.cmd # "commit"
    <3>1. PICK d : d = [c EXCEPT !.at = "load"]
      OBVIOUS
    <3>2. "load" \in Places \ {"recover", "send"} /\ "load" \notin Settling /\ "load" \notin Exchanging
          /\ "load" \in Connecting
      BY DEF Places, Connecting, Settling, Exchanging
    <3>3. d.at = "load" /\ CommandOk(own, d)
      BY <1>4, <1>5, <2>9, <3>1, <3>2, AtOk
    <3>4. CommandOk(own, d)'
      BY <2>7, <3>3, MoreKeys
    <3>5. CommandKept(d)' /\ CommandLocked(p, d)'
      BY <1>6, <3>2, <3>3, Numbers DEF CommandKept, CommandLocked
    <3>6. Set(p, d)
      BY <1>1, <1>6, <2>9, <3>1 DEF Goto
    <3> QED BY <1>4, <1>6, <2>1, <2>3, <2>4, <2>5, <2>6, <2>7, <3>4, <3>5, <3>6, CommandStep
  <2> QED BY <2>8, <2>9
<1>7. CASE Goto(p, "unpoint") /\ UNCHANGED <<marker, lock>>
  <2>1. Trusted' /\ pointer' \in Ids \cup {None}
    BY <1>2, <1>3, <1>5, <1>7 DEF Trusted, Held, OnlyOf
  <2>2. PICK d : d = [c EXCEPT !.at = "unpoint"]
    OBVIOUS
  <2>3. "unpoint" \in Places \ {"recover", "send"} /\ "unpoint" \in Settling /\ "unpoint" \notin Exchanging
        /\ "unpoint" \in Connecting
    BY DEF Places, Connecting, Settling, Exchanging
  <2>4. d.at = "unpoint" /\ d.found = m /\ CommandOk(own, d)
    BY <1>3, <1>4, <1>5, <2>2, <2>3, AtOk
  <2>5. CommandKept(d) /\ CommandLocked(p, d)'
    BY <1>3, <1>4, <1>7, <2>3, <2>4 DEF CommandKept, CommandLocked
  <2>6. Set(p, d)
    BY <1>1, <1>7, <2>2 DEF Goto
  <2> QED BY <1>2, <1>4, <1>7, <2>1, <2>4, <2>5, <2>6, OriginStep
<1> QED BY <1>1, <1>3, <1>6, <1>7 DEF finalizeAcceptedEnrollment, Readable

\* The enrolment is undone: what the marker kept takes its old place.
LEMMA RestoreInv ==
    ASSUME NEW own, EInv(own), NEW p \in Procs, restoreAcceptedEnrollmentAccounts(p)
    PROVE  EInv(own)'
<1>1. PICK c : c = proc[p]
  OBVIOUS
<1>2. c.at = "restore" /\ c.at \in Settling /\ lock' = None /\ Stop(p)
      /\ UNCHANGED <<gens, pointer, keys, server, redeemed, stacked, sent>>
  BY <1>1 DEF restoreAcceptedEnrollmentAccounts, Release, remote, Settling
<1>3. PICK m : /\ m = marker /\ m = c.found /\ MarkerOk(own, m) /\ m.id \in Ids /\ m.key \in Keys
               /\ m.active \in Accounts /\ m.pending \in Pending /\ m.pending.key = m.key /\ m # None
               /\ active = [NoAccounts EXCEPT ![m.id] = m.key] /\ Held(m.active) \subseteq letGo
               /\ ~ stacked => OnlyOf(m.prev, m.active) /\ pointer \in {m.prev, m.id}
  BY <1>1, <1>2, SettlingFacts
<1>4. CommandLocked(p, c) /\ lock = p
  BY <1>1, <1>2, SettlingFacts
<1>5. pointer = m.prev /\ pointer \in gens \cup {None} /\ StateOk /\ pending \in [Ids -> Pending \cup {None}]
  BY <1>2, <1>3, <1>4 DEF CommandLocked, EInv, StateOk
<1>6. PICK d : d = Idle
  OBVIOUS
<1>7. Set(p, d) /\ CommandOk(own, d) /\ CommandKept(d) /\ d.at = "idle"
  BY <1>2, <1>6, IdleOk DEF Stop
<1>8. CommandLocked(p, d)' /\ CommandKept(d)'
  BY <1>2, <1>7, Numbers DEF CommandLocked, CommandKept, Settling
<1>9. CASE UNCHANGED <<active, pending, marker, letGo>>
  <2>1. Trusted' /\ pointer' \in Ids \cup {None}
    BY <1>2, <1>5, <1>9 DEF EInv, Trusted, Held, OnlyOf, StateOk
  <2> QED BY <1>2, <1>4, <1>7, <1>8, <1>9, <2>1, OriginStep
<1>10. CASE /\ active' = m.active /\ pending' = [pending EXCEPT ![m.id] = m.pending] /\ marker' = None
            /\ letGo' = (letGo \ Held(m.active)) \cup Displaced(m)
  <2>1. StateOk'
    <3>1. pending' \in [Ids -> Pending \cup {None}]
      BY <1>3, <1>5, <1>10
    <3> QED BY <1>2, <1>5, <1>10, <3>1, Numbers DEF StateOk
  <2>2. Trusted'
    BY <1>2, <1>3, <1>5, <1>10 DEF Trusted, OnlyOf
  <2>3. HoldersOk(own)'
    <3>1. AccountsOk(own, m.active) /\ PendingOk(own, m.id, m.pending)
      BY <1>3 DEF MarkerOk
    <3>2. \A i \in Ids : pending'[i] # None => PendingOk(own, i, pending'[i])
      BY <1>3, <1>5, <1>10, <3>1 DEF EInv, HoldersOk
    <3>3. (\A i \in Ids : pending[i] # None => PendingOk(own, i, pending[i]))'
      BY <1>2, <3>2 DEF PendingOk
    <3> QED BY <1>2, <1>10, <3>1, <3>3 DEF EInv, HoldersOk, AccountsOk
  <2>4. Held(m.active) \subseteq Held(active)' /\ pending'[m.id] = m.pending /\ m.pending # None
    BY <1>3, <1>5, <1>10, NoneAssumption DEF Held
  <2>5. Sound(own)'
    <3> SUFFICES ASSUME NEW k \in 1 .. keys, ~ Taken(own[k], k) PROVE Reachable(k)'
      BY <1>2 DEF Sound, Taken
    <3>0. Reachable(k)
      BY DEF EInv, Sound
    <3>1. CASE k \in letGo
      BY <1>10, <2>4, <3>1 DEF Reachable
    <3>2. CASE k = m.key
      BY <1>3, <2>4, <3>2 DEF Reachable
    <3>3. CASE k \in Held(active)
      <4>1. k = m.key
        BY <1>3, <3>3, Numbers DEF Held, NoAccounts
      <4> QED BY <3>2, <4>1
    <3>4. ASSUME NEW i \in Ids, pending[i] # None, pending[i].key = k PROVE Reachable(k)'
      <4>1. CASE i = m.id
        <5>1. k \in Displaced(m)
          BY <3>4, <4>1 DEF Displaced
        <5> QED BY <1>10, <5>1 DEF Reachable
      <4>2. CASE i # m.id
        <5>1. pending'[i] = pending[i]
          BY <1>3, <1>5, <1>10, <4>2
        <5> QED BY <3>4, <5>1 DEF Reachable
      <4> QED BY <4>1, <4>2
    <3>5. CASE k \in Held(m.active)
      BY <2>4, <3>5 DEF Reachable
    <3> QED BY <1>3, <3>0, <3>1, <3>2, <3>3, <3>4, <3>5 DEF Reachable
  <2>6. \A v, k : Taken(v, k) => Taken(v, k)'
    BY <1>2 DEF Taken
  <2>7. \A k : Given(k) => Given(k)'
    BY <1>3, <1>10, <2>4 DEF Given
  <2>8. keys \in Nat /\ keys' \in Nat /\ keys <= keys' /\ SentOk(own)'
    BY <1>2, <1>5 DEF StateOk, EInv, SentOk
  <2>9. CommandOk(own, d)'
    BY <1>7, <2>8, MoreKeys
  <2> QED BY <1>2, <1>4, <1>7, <1>8, <2>1, <2>2, <2>3, <2>5, <2>6, <2>7, <2>8, <2>9, CommandStep
<1> QED BY <1>1, <1>3, <1>9, <1>10 DEF restoreAcceptedEnrollmentAccounts

-----------------------------------------------------------------------------
(* The commands that use an enrolment, and the environment.                *)

\* A command begins.
LEMMA ConnectInv ==
    ASSUME NEW own, EInv(own), NEW p \in Procs, connect(p)
    PROVE  EInv(own)'
<1>1. PICK c : c = proc[p] /\ CommandLocked(p, c)
  BY TheCommand
<1>2. c.at = "idle" /\ UNCHANGED <<local, letGo, keys, server, redeemed, stacked, sent>>
  BY <1>1 DEF connect, Start, remote
<1>3. PICK d : d = [Idle EXCEPT !.at = "load", !.cmd = "connect"]
  OBVIOUS
<1>4. Set(p, d)
  BY <1>3 DEF connect
<1>5. d \in Commands /\ d.at = "load" /\ d.cmd = "connect" /\ d.id = None /\ d.key = None
  BY <1>3, IdleOk DEF Idle, Commands, Places, Connecting, CommandNames
<1>6. CommandOk(own, d) /\ CommandKept(d) /\ CommandLocked(p, d)
  BY <1>1, <1>2, <1>5 DEF CommandOk, CommandKept, CommandLocked, Settling, Exchanging, Connecting
<1>7. SentOk(own)'
  BY <1>2 DEF EInv, SentOk
<1> QED BY <1>2, <1>4, <1>6, <1>7, QuietStep

\* The trust is loaded, or the enrolment a marker tells of is completed.
LEMMA LoadInv ==
    ASSUME NEW own, EInv(own), NEW p \in Procs, loadBorgServerTrust(p)
    PROVE  EInv(own)'
<1>1. PICK c : c = proc[p] /\ CommandOk(own, c) /\ c \in Commands /\ CommandLocked(p, c)
  BY TheCommand
<1>2. PICK m : m = marker
  OBVIOUS
<1>3. /\ c.at \in {"load", "session"} /\ lock = None /\ c.cmd = "connect"
      /\ UNCHANGED <<gens, pointer, active, pending, marker, letGo, keys, server, redeemed, stacked, sent>>
  BY <1>1 DEF loadBorgServerTrust, remote, bounds, Free, CommandOk
<1>4. StateOk /\ lock # p /\ SentOk(own)' /\ (c.id # None => c.key # None)
  BY <1>1, <1>3, Numbers DEF EInv, SentOk, CommandOk
<1>5. CASE recoverAcceptedEnrollment(p)
  <2>1. PICK l : /\ l \in {"publish", "unpoint"} /\ marker # None /\ lock' = p
                 /\ Set(p, [c EXCEPT !.at = l, !.found = m])
    BY <1>1, <1>2, <1>5 DEF recoverAcceptedEnrollment
  <2>2. PICK d : d = [c EXCEPT !.at = l, !.found = m]
    OBVIOUS
  <2>3. MarkerOk(own, m) /\ m \in Markers
    BY <1>2, <2>1 DEF EInv, HoldersOk, MarkerOk
  <2>4. /\ d \in Commands /\ d.at = l /\ d.cmd = "connect" /\ d.id = c.id /\ d.inv = c.inv
        /\ d.key = c.key /\ d.found = m
    <3>1. l \in Places /\ m \in Finds
      BY <2>1, <2>3 DEF Places, Connecting, Settling, Finds
    <3> QED BY <1>1, <1>3, <2>2, <3>1 DEF Commands
  <2>5. CommandOk(own, d)
    BY <1>1, <1>4, <2>1, <2>3, <2>4 DEF CommandOk, Exchanging, Settling, Connecting
  <2>6. CommandKept(d) /\ CommandLocked(p, d)'
    BY <1>2, <1>3, <2>1, <2>4 DEF CommandKept, CommandLocked, Settling
  <2>7. Trusted' /\ pointer' \in Ids \cup {None}
    BY <1>3, <1>4 DEF EInv, Trusted, OnlyOf, Held, StateOk
  <2> QED BY <1>3, <2>1, <2>2, <2>5, <2>6, <2>7, OriginStep
<1>6. CASE Stop(p) /\ UNCHANGED lock
  BY <1>3, <1>4, <1>6, QuietStop DEF local
<1>7. CASE UNCHANGED lock /\ pointer \in gens /\ active[pointer] # None /\ Set(p, Session(pointer, active[pointer]))
  <2>1. PICK i, k : i = pointer /\ k = active[pointer]
    OBVIOUS
  <2>2. i \in Ids /\ k \in Keys /\ k <= keys /\ own[k][1] = i
    BY <1>4, <1>7, <2>1 DEF EInv, StateOk, HoldersOk, AccountsOk, Accounts
  <2>3. PICK d : d = Session(i, k)
    OBVIOUS
  <2>4. /\ d \in Commands /\ d.at = "session" /\ d.cmd = "connect" /\ d.id = i /\ d.key = k
    BY <2>2, <2>3, IdleOk DEF Session, Commands, Places, Connecting, CommandNames
  <2>5. CommandOk(own, d) /\ CommandKept(d) /\ CommandLocked(p, d)
    BY <1>4, <2>2, <2>4, Numbers DEF CommandOk, CommandKept, CommandLocked, Settling, Exchanging, Connecting
  <2> QED BY <1>3, <1>4, <1>7, <2>1, <2>3, <2>5, QuietStep DEF local
<1>8. CASE UNCHANGED lock /\ c.id # None /\ pointer = c.id /\ Set(p, [c EXCEPT !.at = "send", !.found = pointer])
  <2>1. PICK d : d = [c EXCEPT !.at = "send", !.found = c.id]
    OBVIOUS
  <2>2. c.id \in Ids
    BY <1>1, <1>8, CommandFields
  <2>3. /\ d \in Commands /\ d.at = "send" /\ d.cmd = "connect" /\ d.id = c.id /\ d.inv = c.inv
        /\ d.key = c.key /\ d.found = c.id
    <3>1. "send" \in Places /\ c.id \in Finds
      BY <2>2 DEF Places, Connecting, Finds
    <3> QED BY <1>1, <1>3, <2>1, <3>1 DEF Commands
  <2>4. CommandOk(own, d)
    BY <1>1, <1>4, <1>8, <2>3 DEF CommandOk, Settling, Exchanging, Connecting
  <2>5. CommandKept(d) /\ CommandLocked(p, d)
    BY <1>4, <2>3 DEF CommandKept, CommandLocked, Settling
  <2> QED BY <1>3, <1>4, <1>8, <2>1, <2>4, <2>5, QuietStep DEF local
<1> QED BY <1>1, <1>5, <1>6, <1>7, <1>8 DEF loadBorgServerTrust, SameIdentity

\* A credential goes to the identity it was issued by.
LEMMA AuthedFetchInv ==
    ASSUME NEW own, EInv(own), NEW p \in Procs, authedFetch(p)
    PROVE  EInv(own)'
<1>1. PICK c : c = proc[p] /\ CommandOk(own, c) /\ c \in Commands /\ CommandLocked(p, c) /\ SentOk(own)
  BY TheCommand
<1>2. c.at = "send" /\ UNCHANGED <<local, letGo, keys, server, redeemed, stacked>>
  BY <1>1 DEF authedFetch, remote
<1>3. lock # p /\ c.found = c.id /\ c.cmd = "connect" /\ c.id # None /\ c.key # None
  BY <1>1, <1>2 DEF CommandOk, CommandLocked, Settling
<1>4. c.key \in Keys /\ c.key <= keys /\ own[c.key][1] = c.id
  BY <1>1, <1>3, CommandFields DEF CommandOk
<1>5. CASE /\ server = c.found /\ sent' = sent \cup {<<c.key, server>>}
           /\ Set(p, [c EXCEPT !.at = "session", !.found = None])
  <2>1. PICK d : d = [c EXCEPT !.at = "session", !.found = None]
    OBVIOUS
  <2>2. /\ d \in Commands /\ d.at = "session" /\ d.cmd = "connect" /\ d.id = c.id /\ d.inv = c.inv
        /\ d.key = c.key
    <3>1. "session" \in Places /\ None \in Finds
      BY DEF Places, Connecting, Finds
    <3> QED BY <1>1, <1>3, <2>1, <3>1 DEF Commands
  <2>3. CommandOk(own, d) /\ CommandKept(d) /\ CommandLocked(p, d)
    BY <1>1, <1>3, <2>2 DEF CommandOk, CommandKept, CommandLocked, Settling, Exchanging, Connecting
  <2>4. SentOk(own)'
    BY <1>1, <1>2, <1>3, <1>4, <1>5 DEF SentOk
  <2> QED BY <1>2, <1>5, <2>1, <2>3, <2>4, QuietStep
<1>6. CASE Stop(p) /\ UNCHANGED sent
  <2>1. SentOk(own)'
    BY <1>1, <1>2, <1>6 DEF SentOk
  <2> QED BY <1>2, <1>3, <1>6, <2>1, QuietStop
<1> QED BY <1>1, <1>5, <1>6 DEF authedFetch, createPinnedServerFetch

\* recover-enrollment shows the one transaction there is.
LEMMA FindInv ==
    ASSUME NEW own, EInv(own), NEW p \in Procs, findEnrollmentRecoveryTransaction(p)
    PROVE  EInv(own)'
<1>1. PICK c : c = proc[p] /\ CommandLocked(p, c)
  BY TheCommand
<1>2. c.at = "idle" /\ UNCHANGED <<local, letGo, keys, server, redeemed, stacked, sent>>
  BY <1>1 DEF findEnrollmentRecoveryTransaction, Start, remote
<1>3. lock # p /\ SentOk(own)'
  BY <1>1, <1>2 DEF EInv, SentOk, CommandLocked, Settling
<1>4. PICK i, f : /\ \/ i = None /\ f = marker /\ marker # None
                     \/ i \in Ids /\ f = pending[i] /\ f # None
                  /\ Set(p, [Idle EXCEPT !.at = "recover", !.cmd = "commit", !.id = i, !.found = f])
  <2>1. [Idle EXCEPT !.at = "recover", !.cmd = "commit", !.found = marker]
          = [Idle EXCEPT !.at = "recover", !.cmd = "commit", !.id = None, !.found = marker]
    <3>1. PICK a, b : /\ a = [Idle EXCEPT !.at = "recover", !.cmd = "commit", !.found = marker]
                      /\ b = [Idle EXCEPT !.at = "recover", !.cmd = "commit", !.id = None, !.found = marker]
      OBVIOUS
    <3>2. a = [at |-> "recover", cmd |-> "commit", id |-> None, inv |-> None, key |-> None,
               consent |-> None, found |-> marker]
      BY <3>1 DEF Idle
    <3>3. b = [at |-> "recover", cmd |-> "commit", id |-> None, inv |-> None, key |-> None,
               consent |-> None, found |-> marker]
      BY <3>1 DEF Idle
    <3> QED BY <3>1, <3>2, <3>3
  <2>2. CASE marker # None /\ Set(p, [Idle EXCEPT !.at = "recover", !.cmd = "commit", !.found = marker])
    BY <2>1, <2>2
  <2>3. CASE \E i \in Transactions : Set(p, [Idle EXCEPT !.at = "recover", !.cmd = "commit",
                                                         !.id = i, !.found = pending[i]])
    BY <2>3 DEF Transactions
  <2> QED BY <2>2, <2>3 DEF findEnrollmentRecoveryTransaction
<1>5. IF i = None THEN MarkerOk(own, f) /\ f \in Markers ELSE i \in Ids /\ f \in Pending
  BY <1>4, Numbers DEF EInv, HoldersOk, MarkerOk, PendingOk
<1>6. PICK d : d = [Idle EXCEPT !.at = "recover", !.cmd = "commit", !.id = i, !.found = f]
  OBVIOUS
<1>7. d \in Commands /\ d.at = "recover" /\ d.cmd = "commit" /\ d.id = i /\ d.key = None /\ d.found = f
  <2>1. "recover" \in Places /\ "commit" \in CommandNames /\ f \in Finds /\ i \in Ids \cup {None}
    BY <1>5 DEF Places, CommandNames, Finds
  <2> QED BY <1>6, <2>1, IdleOk DEF Commands
<1>8. CommandOk(own, d) /\ CommandKept(d) /\ CommandLocked(p, d)
  BY <1>3, <1>5, <1>7 DEF CommandOk, CommandKept, CommandLocked, Settling, Exchanging, Connecting
<1> QED BY <1>2, <1>3, <1>4, <1>6, <1>8, QuietStep

\* It undoes the transaction if it is still the same.
LEMMA RunRecoverInv ==
    ASSUME NEW own, EInv(own), NEW p \in Procs, runRecoverEnrollment(p)
    PROVE  EInv(own)'
<1>1. PICK c : c = proc[p] /\ CommandOk(own, c) /\ c \in Commands
  BY TheCommand
<1>2. /\ c.at = "recover" /\ lock = None /\ c.cmd = "commit"
      /\ UNCHANGED <<pointer, active, marker, keys, sent, server, redeemed, stacked>>
  BY <1>1 DEF runRecoverEnrollment, Free, remote, CommandOk
<1>3. StateOk /\ lock # p /\ SentOk(own)'
  BY <1>2, Numbers DEF EInv, SentOk
<1>4. CASE c.id = None /\ marker = c.found /\ lock' = p /\ Goto(p, "unpoint") /\ UNCHANGED <<gens, pending, letGo>>
  <2>1. MarkerOk(own, c.found)
    BY <1>1, <1>2, <1>4 DEF CommandOk
  <2>2. PICK d : d = [c EXCEPT !.at = "unpoint"]
    OBVIOUS
  <2>3. "unpoint" \in Places \ {"recover", "send"} /\ "unpoint" \in Settling /\ "unpoint" \notin Exchanging
        /\ "unpoint" \in Connecting
    BY DEF Places, Connecting, Settling, Exchanging
  <2>4. d.at = "unpoint" /\ d.found = c.found /\ CommandOk(own, d)
    BY <1>1, <1>2, <2>1, <2>2, <2>3, AtOk
  <2>5. CommandKept(d) /\ CommandLocked(p, d)'
    BY <1>2, <1>4, <2>3, <2>4 DEF CommandKept, CommandLocked
  <2>6. Set(p, d)
    BY <1>1, <1>4, <2>2 DEF Goto
  <2>7. Trusted' /\ pointer' \in Ids \cup {None}
    BY <1>2, <1>3, <1>4 DEF EInv, Trusted, OnlyOf, Held, StateOk
  <2> QED BY <1>2, <1>4, <2>4, <2>5, <2>6, <2>7, OriginStep
<1>5. CASE Stop(p) /\ UNCHANGED <<lock, gens, pending, letGo>>
  BY <1>2, <1>3, <1>5, QuietStop DEF local
<1>6. CASE /\ c.id # None /\ Stop(p) /\ UNCHANGED lock /\ marker = None /\ pending[c.id] = c.found
           /\ pending' = [pending EXCEPT ![c.id] = None] /\ letGo' = letGo \cup {c.found.key}
           /\ gens' = Discarded(c.id)
  <2>1. gens' \subseteq Ids /\ (pointer \in gens => pointer \in gens') /\ pending \in [Ids -> Pending \cup {None}]
    BY <1>3, <1>6 DEF StateOk, Discarded
  <2>2. pending' \in [Ids -> Pending \cup {None}]
    BY <1>6, <2>1
  <2>3. \A i \in Ids : pending'[i] = pending[i] \/
               (pending'[i] = None /\ (pending[i] # None =>
                   LET k == pending[i].key
                   IN  k \in letGo' \cup Held(active) \/ Taken(own[k], k)))
    BY <1>6, <2>1
  <2>4. PICK d : d = Idle
    OBVIOUS
  <2>5. Set(p, d) /\ CommandOk(own, d) /\ CommandKept(d) /\ d.at \notin Settling
    BY <1>6, <2>4, IdleOk DEF Stop, Settling
  <2>6. letGo \subseteq letGo' /\ lock' = None
    BY <1>2, <1>6
  <2> QED BY <1>2, <1>3, <2>1, <2>2, <2>3, <2>5, <2>6, FreeStep
<1> QED BY <1>1, <1>4, <1>5, <1>6 DEF runRecoverEnrollment, restoreBorgServerEnrollment, clearEnrollmentTransaction

\* A process dies; its lock is removed.
LEMMA CrashInv ==
    ASSUME NEW own, EInv(own), NEW p \in Procs, Crash(p)
    PROVE  EInv(own)'
<1>1. /\ Stop(p) /\ lock' = IF lock = p THEN None ELSE lock
      /\ UNCHANGED <<gens, pointer, active, pending, marker, letGo, keys, server, redeemed, stacked, sent>>
  BY DEF Crash, remote
<1>2. SentOk(own)' /\ StateOk
  BY <1>1 DEF EInv, SentOk
<1>3. CASE lock # p
  BY <1>1, <1>2, <1>3, QuietStop DEF local
<1>4. CASE lock = p
  <2>1. PICK d : d = Idle
    OBVIOUS
  <2>2. Set(p, d) /\ CommandOk(own, d) /\ CommandKept(d) /\ d.at = "idle"
    BY <1>1, <2>1, IdleOk DEF Stop
  <2>3. CommandLocked(p, d)'
    BY <1>1, <1>4, <2>2, Numbers DEF CommandLocked, Settling
  <2>4. Trusted' /\ pointer' \in Ids \cup {None}
    BY <1>1, <1>2 DEF EInv, Trusted, OnlyOf, Held, StateOk
  <2> QED BY <1>1, <1>4, <2>2, <2>3, <2>4, OriginStep
<1> QED BY <1>3, <1>4

\* The server is set up anew.
LEMMA ReinitInv ==
    ASSUME NEW own, EInv(own), Reinit
    PROVE  EInv(own)'
<1>1. /\ UNCHANGED <<gens, pointer, active, pending, marker, lock, keys, letGo, sent, redeemed, stacked, proc>>
      /\ server' \in Ids
  BY Numbers DEF Reinit, local, bounds
<1>2. StateOk' /\ Trusted'
  BY <1>1 DEF EInv, StateOk, Trusted, OnlyOf, Held
<1>3. HoldersOk(own)' /\ SentOk(own)'
  BY <1>1 DEF EInv, HoldersOk, AccountsOk, PendingOk, MarkerOk, SentOk
<1>4. Sound(own)'
  BY <1>1 DEF EInv, Sound, Reachable, Taken
<1>5. ASSUME NEW q \in Procs PROVE (CommandOk(own, proc[q]) /\ CommandKept(proc[q]) /\ CommandLocked(q, proc[q]))'
  <2>1. PICK c : c = proc[q]
    OBVIOUS
  <2>2. CommandOk(own, c) /\ CommandKept(c) /\ CommandLocked(q, c) /\ keys \in Nat
    BY <2>1 DEF EInv, StateOk
  <2>3. CommandOk(own, c)'
    BY <1>1, <2>2, MoreKeys
  <2>4. CommandKept(c)' /\ CommandLocked(q, c)'
    BY <1>1, <2>2 DEF CommandKept, CommandLocked, Taken, Given
  <2> QED BY <1>1, <2>1, <2>3, <2>4
<1> QED BY <1>1, <1>2, <1>3, <1>4, <1>5 DEF EInv

\* At the start: nothing is generated yet, or the first identity's first credential.
LEMMA EnrollmentInitInv ==
    ASSUME EnrollmentInit PROVE \E own : EInv(own)
<1>1. PICK own : own = [k \in Keys |-> <<First, 1>>]
  OBVIOUS
<1>2. <<First, 1>> \in Invitations /\ own \in [Keys -> Invitations] /\ \A k \in Keys : own[k] = <<First, 1>>
  BY <1>1, Numbers DEF Invitations
<1>3. /\ pending = [i \in Ids |-> None] /\ marker = None /\ lock = None /\ server = First
      /\ letGo = {} /\ sent = {} /\ stacked = FALSE /\ proc = [p \in Procs |-> Idle]
  BY DEF EnrollmentInit
<1>4. SentOk(own)
  BY <1>3 DEF SentOk
<1>5. proc \in [Procs -> Commands] /\ \A p \in Procs : CommandOk(own, proc[p]) /\ CommandKept(proc[p]) /\ CommandLocked(p, proc[p])
  <2>1. PICK d : d = Idle
    OBVIOUS
  <2>2. d \in Commands /\ CommandOk(own, d) /\ CommandKept(d) /\ \A p \in Procs : CommandLocked(p, d)
    BY <1>3, <2>1, IdleOk, Numbers
  <2> QED BY <1>3, <2>1, <2>2
<1>6. CASE gens = {} /\ pointer = None /\ active = NoAccounts /\ keys = 0 /\ redeemed = [v \in Invitations |-> None]
  <2>1. StateOk
    <3>1. redeemed \in [Invitations -> Keys \cup {None}] /\ pending \in [Ids -> Pending \cup {None}]
      BY <1>3, <1>6
    <3>2. keys \in Nat /\ keys <= MaxKeys
      <4>1. MaxKeys \in Nat /\ keys = 0
        BY <1>6, Numbers
      <4> QED BY <4>1
    <3>3. stacked \in BOOLEAN
      BY <1>3
    <3> QED BY <1>3, <1>6, <3>1, <3>2, <3>3, Numbers DEF StateOk
  <2>2. Trusted
    BY <1>3, <1>6 DEF Trusted, OnlyOf, NoAccounts
  <2>3. HoldersOk(own)
    BY <1>3, <1>6 DEF HoldersOk, AccountsOk, NoAccounts, Accounts
  <2>4. Sound(own)
    BY <1>6 DEF Sound
  <2> QED BY <1>2, <1>4, <1>5, <2>1, <2>2, <2>3, <2>4 DEF EInv
<1>7. CASE /\ gens = {First} /\ pointer = First /\ keys = 1 /\ active = [NoAccounts EXCEPT ![First] = 1]
           /\ redeemed = [v \in Invitations |-> IF v = <<First, 1>> THEN 1 ELSE None]
  <2>0. 1 \in Keys /\ 1 # None
    BY Numbers, EnrollmentAssumption
  <2>1. StateOk
    BY <1>3, <1>7, <2>0, Numbers DEF StateOk
  <2>2. active[First] = 1 /\ \A i \in Ids : i # First => active[i] = None
    BY <1>7, Numbers DEF NoAccounts
  <2>3. active \in Accounts
    BY <1>7, <2>0, Numbers DEF NoAccounts, Accounts
  <2>4. Trusted
    BY <1>3, <1>7, <2>2 DEF Trusted, OnlyOf
  <2>5. AccountsOk(own, active)
    BY <1>2, <1>7, <2>0, <2>2, <2>3, Numbers DEF AccountsOk
  <2>6. HoldersOk(own)
    BY <1>2, <1>3, <1>7, <2>0, <2>5 DEF HoldersOk
  <2>7. Sound(own)
    <3>1. \A k \in 1 .. keys : k = 1
      BY <1>7
    <3>2. 1 \in Held(active)
      BY <2>0, <2>2, Numbers DEF Held
    <3> QED BY <3>1, <3>2 DEF Sound, Reachable
  <2> QED BY <1>2, <1>4, <1>5, <2>1, <2>4, <2>6, <2>7 DEF EInv
<1> QED BY <1>6, <1>7 DEF EnrollmentInit

\* Every step of the enrolment keeps the invariant.
LEMMA EnrollmentNextInv ==
    ASSUME NEW own, EInv(own), EnrollmentNext
    PROVE  \E more : EInv(more)'
<1>1. CASE Reinit
  BY <1>1, ReinitInv
<1>2. ASSUME NEW p \in Procs, Enroll(p) \/ Use(p) \/ Crash(p) PROVE \E more : EInv(more)'
  <2>1. ASSUME NEW v \in Invitations, stageBorgServerTrust(p, v) PROVE EInv(own)'
    BY <2>1, StageInv
  <2>2. ASSUME resume(p) \/ preflight(p) \/ discardTrust(p) \/ confirmReplacement(p) PROVE EInv(own)'
    BY <2>2, ResumeInv, PreflightInv, DiscardInv, ConfirmInv
  <2>3. ASSUME prepareEnrollment(p) PROVE \E more : EInv(more)'
    BY <2>3, PrepareInv
  <2>4. ASSUME exchange(p) \/ clearPendingServerEnrollment(p) \/ activatePendingServerEnrollment(p) PROVE EInv(own)'
    BY <2>4, ExchangeInv, ClearPendingInv, ActivateInv
  <2>5. ASSUME \/ publishTrustPointer(p) \/ finalizeAcceptedEnrollment(p) \/ restoreEnrollmentPointer(p)
               \/ restoreAcceptedEnrollmentAccounts(p)
        PROVE EInv(own)'
    BY <2>5, PublishInv, FinalizeInv, UnpointInv, RestoreInv
  <2>6. ASSUME Use(p) PROVE EInv(own)'
    BY <2>6, ConnectInv, LoadInv, AuthedFetchInv, FindInv, RunRecoverInv DEF Use
  <2>7. ASSUME Crash(p) PROVE EInv(own)'
    BY <2>7, CrashInv
  <2> QED BY <1>2, <2>1, <2>2, <2>3, <2>4, <2>5, <2>6, <2>7 DEF Enroll
<1> QED BY <1>1, <1>2 DEF EnrollmentNext

\* The requests of a repository's cube change nothing at the origin.
LEMMA CubeQuiet ==
    ASSUME NEW own, EInv(own), NEW p \in Procs, Cube(p)
    PROVE  EInv(own)'
<1>1. PICK c : c = proc[p] /\ CommandOk(own, c) /\ CommandKept(c) /\ CommandLocked(p, c) /\ SentOk(own) /\ c \in Commands
  BY TheCommand
<1>2. c.at = "session" /\ lock # p /\ c.key # None /\ c.key \in Keys /\ c.key <= keys /\ own[c.key][1] = c.id
  <2>1. c.at = "session"
    BY <1>1 DEF Cube, At, initializeRepositoryCube, resolveRepositoryCube, adoptExactMatch,
                associateRepositoryCube, getOrCreatePendingServerCubeCreation, createBorgServerCube,
                clearPendingServerCubeCreation, confirmAssociation, saveRepositoryAssociation,
                stopInitialization
  <2>2. lock # p /\ c.key # None
    BY <1>1, <2>1 DEF CommandLocked, CommandOk, Settling
  <2> QED BY <1>1, <2>1, <2>2, CommandFields DEF CommandOk
<1>3. Set(p, c) \/ Stop(p)
  <2>1. UNCHANGED proc \/ Stop(p)
    BY DEF Cube, End, eVars, initializeRepositoryCube, resolveRepositoryCube, adoptExactMatch,
                associateRepositoryCube, getOrCreatePendingServerCubeCreation, createBorgServerCube,
                clearPendingServerCubeCreation, confirmAssociation, saveRepositoryAssociation,
                stopInitialization
  <2>2. UNCHANGED proc => Set(p, c)
    BY <1>1 DEF Set, EInv
  <2> QED BY <2>1, <2>2
<1>4. \/ UNCHANGED <<local, letGo, keys, server, redeemed, stacked, sent>>
      \/ /\ UNCHANGED <<local, letGo, keys, server, redeemed, stacked>>
         /\ server = c.id /\ sent' = sent \cup {<<c.key, server>>}
  BY <1>1 DEF Cube, eVars, bounds, remote, Ask, initializeRepositoryCube, resolveRepositoryCube, adoptExactMatch,
                associateRepositoryCube, getOrCreatePendingServerCubeCreation, createBorgServerCube,
                clearPendingServerCubeCreation, confirmAssociation, saveRepositoryAssociation,
                stopInitialization
<1>5. SentOk(own)' /\ UNCHANGED <<local, letGo, keys, server, redeemed, stacked>>
  BY <1>1, <1>2, <1>4 DEF SentOk
<1> QED BY <1>1, <1>2, <1>3, <1>5, QuietStep, QuietStop

-----------------------------------------------------------------------------
(* RepositoryCube: the binding of a repository is made once.               *)

JobPlaces == {"none", "resolve", "done", "list", "save", "associate", "create", "confirm", "post", "clear"}
Jobs == [at : JobPlaces, cube : Cubes \cup {None}]
Bindings == [Ids -> Cubes \cup {None}]

\* A command with a cube in hand keeps its identity, and saves what the server confirmed.
JobOk(c, j) ==
    j.at # "none" =>
        /\ c.cmd = "connect" /\ c.id \in Ids
        /\ j.at = "save" => j.cube \in {None, binding[c.id]}

CubeInv ==
    /\ binding \in Bindings /\ assoc \in Bindings /\ job \in [Procs -> Jobs]
    /\ AssociationIsBinding
    /\ \A p \in Procs : JobOk(proc[p], job[p])

\* A command that has its identity keeps it until it ends.
LEMMA SessionKept ==
    ASSUME NEW own, EInv(own), EnrollmentNext, NEW q \in Procs, proc[q].cmd = "connect", proc[q].id # None
    PROVE  proc'[q].at = "idle" \/ (proc'[q].cmd = "connect" /\ proc'[q].id = proc[q].id)
<1>1. PICK c : c = proc[q] /\ CommandOk(own, c) /\ c \in Commands
  BY TheCommand
<1>2. c.cmd = "connect" /\ c.id # None /\ c.at \in Connecting
  BY <1>1 DEF CommandOk
<1>3. c.at \notin {"idle", "preflight", "discard", "check", "prepare", "recover"} \cup Exchanging
  BY <1>2 DEF Connecting, Settling, Exchanging
<1>4. proc \in [Procs -> Commands]
  BY DEF EInv
<1>5. Idle.at = "idle"
  BY DEF Idle
<1>6. ASSUME NEW d, Set(q, d), d.at = "idle" \/ (d.cmd = "connect" /\ d.id = c.id)
      PROVE proc'[q].at = "idle" \/ (proc'[q].cmd = "connect" /\ proc'[q].id = proc[q].id)
  BY <1>1, <1>4, <1>6 DEF Set
<1>7. ASSUME NEW l, Goto(q, l) PROVE proc'[q].cmd = "connect" /\ proc'[q].id = proc[q].id
  <2>1. PICK d : d = [c EXCEPT !.at = l]
    OBVIOUS
  <2>2. d.cmd = "connect" /\ d.id = c.id /\ Set(q, d)
    BY <1>1, <1>2, <1>7, <2>1 DEF Goto, Commands
  <2> QED BY <1>1, <1>4, <2>2 DEF Set
<1>8. Stop(q) => proc'[q].at = "idle"
  BY <1>4, <1>5 DEF Stop, Set
<1>9. CASE Reinit
  BY <1>1, <1>2, <1>9 DEF Reinit
<1>10. ASSUME NEW p \in Procs, p # q, Enroll(p) \/ Use(p) \/ Crash(p) PROVE proc'[q] = proc[q]
  <2>1. \E d : Set(p, d)
    BY <1>10 DEF Enroll, Use, Crash, stageBorgServerTrust, resume, preflight, discardTrust, confirmReplacement,
         prepareEnrollment, exchange, clearPendingServerEnrollment, activatePendingServerEnrollment,
         publishTrustPointer, finalizeAcceptedEnrollment, restoreEnrollmentPointer,
         restoreAcceptedEnrollmentAccounts, connect, loadBorgServerTrust, recoverAcceptedEnrollment, authedFetch,
         findEnrollmentRecoveryTransaction, runRecoverEnrollment, restoreBorgServerEnrollment,
         clearEnrollmentTransaction, Release, Stop, Goto
  <2> QED BY <1>10, <2>1, OneCommand
<1>11. CASE Enroll(q)
  <2>1. \/ publishTrustPointer(q) \/ finalizeAcceptedEnrollment(q) \/ restoreEnrollmentPointer(q)
        \/ restoreAcceptedEnrollmentAccounts(q)
    BY <1>1, <1>3, <1>11 DEF Enroll, Start, stageBorgServerTrust, resume, preflight, discardTrust, confirmReplacement,
         prepareEnrollment, exchange, clearPendingServerEnrollment, activatePendingServerEnrollment, Exchanging
  <2>2. Stop(q) \/ \E l : Goto(q, l)
    BY <1>1, <1>2, <2>1 DEF publishTrustPointer, finalizeAcceptedEnrollment, restoreEnrollmentPointer,
         restoreAcceptedEnrollmentAccounts, Release
  <2> QED BY <1>7, <1>8, <2>2
<1>12. CASE Use(q)
  <2>1. loadBorgServerTrust(q) \/ authedFetch(q)
    BY <1>1, <1>3, <1>12 DEF Use, Start, connect, findEnrollmentRecoveryTransaction, runRecoverEnrollment
  <2>2. \/ Stop(q)
        \/ \E l, f : Set(q, [c EXCEPT !.at = l, !.found = f])
    BY <1>1, <1>2, <2>1 DEF loadBorgServerTrust, recoverAcceptedEnrollment, authedFetch
  <2>3. ASSUME NEW l, NEW f, Set(q, [c EXCEPT !.at = l, !.found = f])
        PROVE proc'[q].at = "idle" \/ (proc'[q].cmd = "connect" /\ proc'[q].id = proc[q].id)
    <3>1. PICK d : d = [c EXCEPT !.at = l, !.found = f]
      OBVIOUS
    <3>2. d.cmd = "connect" /\ d.id = c.id /\ Set(q, d)
      BY <1>1, <1>2, <2>3, <3>1 DEF Commands
    <3> QED BY <1>6, <3>2
  <2> QED BY <1>8, <2>2, <2>3
<1>13. CASE Crash(q)
  BY <1>8, <1>13 DEF Crash
<1> QED BY <1>1, <1>2, <1>9, <1>10, <1>11, <1>12, <1>13 DEF EnrollmentNext

\* What a step of the cube does: the job goes on or ends, and a binding that is there stays.
LEMMA CubeEffect ==
    ASSUME NEW own, EInv(own), CubeInv, NEW p \in Procs, Cube(p), NEW i, i = proc[p].id
    PROVE  /\ i \in Ids /\ proc[p].cmd = "connect"
           /\ \/ /\ UNCHANGED proc
                 /\ \E l \in JobPlaces, x \in Cubes \cup {None} :
                        To(p, l, x) /\ (l = "save" => x = binding[i] /\ UNCHANGED binding)
              \/ End(p)
           /\ UNCHANGED binding \/ \E x \in Cubes : binding[i] \in {None, x} /\ binding' = [binding EXCEPT ![i] = x]
           /\ UNCHANGED assoc \/ \E x \in {None, binding[i]} : assoc' = [assoc EXCEPT ![i] = x] /\ UNCHANGED binding
<1>1. PICK c, j : c = proc[p] /\ j = job[p] /\ CommandOk(own, c) /\ c \in Commands /\ JobOk(c, j)
  <2>1. PICK c : c = proc[p] /\ CommandOk(own, c) /\ c \in Commands
    BY TheCommand
  <2> QED BY <2>1 DEF CubeInv
<1>2. c.at = "session"
  BY <1>1 DEF Cube, At, initializeRepositoryCube, resolveRepositoryCube, adoptExactMatch,
                associateRepositoryCube, getOrCreatePendingServerCubeCreation, createBorgServerCube,
                clearPendingServerCubeCreation, confirmAssociation, saveRepositoryAssociation,
                stopInitialization
<1>3. i \in Ids /\ c.cmd = "connect" /\ i = c.id
  BY <1>1, <1>2, CommandFields DEF CommandOk
<1>4. /\ binding[i] \in Cubes \cup {None} /\ assoc[i] \in Cubes \cup {None} /\ j \in Jobs
      /\ j.cube \in Cubes \cup {None} /\ Old \in Cubes /\ New \in Cubes /\ None \in Cubes \cup {None}
  BY <1>1, <1>3 DEF CubeInv, Bindings, Jobs, Cubes
<1>5. {"none", "resolve", "done", "list", "save", "associate", "create", "confirm", "post", "clear"} \subseteq JobPlaces
  BY DEF JobPlaces
<1> DEFINE Effect ==
           /\ \/ /\ UNCHANGED proc
                 /\ \E l \in JobPlaces, x \in Cubes \cup {None} :
                        To(p, l, x) /\ (l = "save" => x = binding[i] /\ UNCHANGED binding)
              \/ End(p)
           /\ UNCHANGED binding \/ \E x \in Cubes : binding[i] \in {None, x} /\ binding' = [binding EXCEPT ![i] = x]
           /\ UNCHANGED assoc \/ \E x \in {None, binding[i]} : assoc' = [assoc EXCEPT ![i] = x] /\ UNCHANGED binding
<1> SUFFICES Effect
  BY <1>1, <1>3
<1>6. CASE initializeRepositoryCube(p)
  BY <1>1, <1>3, <1>4, <1>5, <1>6 DEF initializeRepositoryCube, eVars, cubeVars
<1>7. CASE resolveRepositoryCube(p) \/ adoptExactMatch(p)
  <2>1. UNCHANGED <<proc, binding, assoc>>
    BY <1>7 DEF resolveRepositoryCube, adoptExactMatch, cubeVars
  <2>2. \E l \in JobPlaces, x \in Cubes \cup {None} : To(p, l, x) /\ (l = "save" => x = binding[i])
    <3>1. CASE resolveRepositoryCube(p)
      BY <1>4, <1>5, <3>1 DEF resolveRepositoryCube
    <3>2. CASE adoptExactMatch(p)
      BY <1>4, <1>5, <3>2 DEF adoptExactMatch
    <3> QED BY <1>7, <3>1, <3>2
  <2> QED BY <2>1, <2>2
<1>8. CASE associateRepositoryCube(p)
  BY <1>1, <1>3, <1>4, <1>5, <1>8 DEF associateRepositoryCube, Bind
<1>9. CASE createBorgServerCube(p)
  BY <1>1, <1>3, <1>4, <1>5, <1>9 DEF createBorgServerCube, Bind
<1>10. CASE getOrCreatePendingServerCubeCreation(p) \/ clearPendingServerCubeCreation(p)
  BY <1>1, <1>4, <1>5, <1>10 DEF getOrCreatePendingServerCubeCreation, clearPendingServerCubeCreation, eVars
<1>11. CASE confirmAssociation(p)
  BY <1>1, <1>4, <1>5, <1>11 DEF confirmAssociation, cubeVars
<1>12. CASE saveRepositoryAssociation(p)
  <2>1. j.at = "save" /\ j.cube \in {None, binding[i]}
    BY <1>1, <1>3, <1>12 DEF saveRepositoryAssociation, At, JobOk
  <2>2. UNCHANGED <<proc, binding>> /\ assoc' = [assoc EXCEPT ![i] = j.cube] /\ To(p, "done", j.cube)
    BY <1>1, <1>12 DEF saveRepositoryAssociation, SavedUnder, eVars
  <2> QED BY <1>4, <1>5, <2>1, <2>2
<1>13. CASE stopInitialization(p)
  BY <1>13 DEF stopInitialization, cubeVars
<1> QED BY <1>6, <1>7, <1>8, <1>9, <1>10, <1>11, <1>12, <1>13 DEF Cube

\* Every step of the cube keeps CubeInv.
LEMMA CubeStepInv ==
    ASSUME NEW own, EInv(own), CubeInv, NEW p \in Procs, Cube(p)
    PROVE  CubeInv'
<1>1. PICK i : i = proc[p].id
  OBVIOUS
<1>2. /\ i \in Ids /\ proc[p].cmd = "connect"
      /\ \/ /\ UNCHANGED proc
            /\ \E l \in JobPlaces, x \in Cubes \cup {None} :
                   To(p, l, x) /\ (l = "save" => x = binding[i] /\ UNCHANGED binding)
         \/ End(p)
      /\ UNCHANGED binding \/ \E x \in Cubes : binding[i] \in {None, x} /\ binding' = [binding EXCEPT ![i] = x]
      /\ UNCHANGED assoc \/ \E x \in {None, binding[i]} : assoc' = [assoc EXCEPT ![i] = x] /\ UNCHANGED binding
  BY <1>1, CubeEffect
<1>3. binding \in Bindings /\ assoc \in Bindings /\ job \in [Procs -> Jobs] /\ proc \in [Procs -> Commands]
  BY DEF CubeInv, EInv
<1>4. binding' \in Bindings /\ assoc' \in Bindings
  BY <1>2, <1>3 DEF Bindings
<1>5. \A k \in Ids : binding[k] \in {None, binding'[k]}
  BY <1>2, <1>3 DEF Bindings
<1>6. AssociationIsBinding'
  BY <1>2, <1>3, <1>5 DEF CubeInv, AssociationIsBinding, Bindings
<1>7. PICK j : /\ j \in Jobs /\ job' = [job EXCEPT ![p] = j]
               /\ \/ UNCHANGED proc /\ (j.at = "save" => j.cube = binding[i] /\ UNCHANGED binding)
                  \/ j.at = "none" /\ Stop(p)
  <2>1. ASSUME NEW l \in JobPlaces, NEW x \in Cubes \cup {None}, To(p, l, x), UNCHANGED proc,
               l = "save" => x = binding[i] /\ UNCHANGED binding
        PROVE \E j : /\ j \in Jobs /\ job' = [job EXCEPT ![p] = j]
                     /\ UNCHANGED proc /\ (j.at = "save" => j.cube = binding[i] /\ UNCHANGED binding)
    <3>1. PICK j : j = [at |-> l, cube |-> x]
      OBVIOUS
    <3>2. j \in Jobs /\ j.at = l /\ j.cube = x /\ job' = [job EXCEPT ![p] = j]
      BY <2>1, <3>1 DEF To, Jobs
    <3> QED BY <2>1, <3>2
  <2>2. CASE End(p)
    <3>1. NoJob \in Jobs /\ NoJob.at = "none"
      BY DEF NoJob, Jobs, JobPlaces
    <3> QED BY <2>2, <3>1 DEF End
  <2> QED BY <1>2, <2>1, <2>2
<1>8. ASSUME NEW q \in Procs PROVE JobOk(proc[q], job[q])'
  <2>1. PICK c, b : c = proc[q] /\ b = job[q]
    OBVIOUS
  <2>2. JobOk(c, b)
    BY <2>1 DEF CubeInv
  <2>3. CASE q # p
    <3>1. proc'[q] = c /\ job'[q] = b
      BY <1>3, <1>7, <2>1, <2>3 DEF Stop, Set
    <3>2. JobOk(c, b)'
      BY <1>5, <2>2 DEF JobOk
    <3> QED BY <3>1, <3>2
  <2>4. CASE q = p /\ j.at = "none"
    <3>1. job'[q].at = "none"
      BY <1>3, <1>7, <2>4
    <3> QED BY <3>1 DEF JobOk
  <2>5. CASE q = p /\ j.at # "none"
    <3>1. proc'[q] = c /\ job'[q] = j /\ (j.at = "save" => j.cube = binding[i] /\ UNCHANGED binding)
      BY <1>3, <1>7, <2>1, <2>5
    <3>2. JobOk(c, j)'
      BY <1>1, <1>2, <2>1, <2>5, <3>1 DEF JobOk
    <3> QED BY <3>1, <3>2
  <2> QED BY <2>3, <2>4, <2>5
<1>9. job' \in [Procs -> Jobs]
  BY <1>3, <1>7
<1> QED BY <1>4, <1>6, <1>8, <1>9 DEF CubeInv

\* So does every step of the enrolment: a job keeps its identity or ends.
LEMMA EnrollingInv ==
    ASSUME NEW own, EInv(own), CubeInv, Enrolling
    PROVE  CubeInv'
<1>1. UNCHANGED <<binding, assoc>> /\ EnrollmentNext
      /\ job' = [p \in Procs |-> IF proc'[p].at = "idle" THEN NoJob ELSE job[p]]
  BY DEF Enrolling, cubeVars
<1>2. NoJob \in Jobs /\ NoJob.at = "none"
  BY DEF NoJob, Jobs, JobPlaces
<1>3. job' \in [Procs -> Jobs]
  BY <1>1, <1>2 DEF CubeInv
<1>4. ASSUME NEW q \in Procs PROVE JobOk(proc[q], job[q])'
  <2>1. PICK c, b : c = proc[q] /\ b = job[q]
    OBVIOUS
  <2>2. JobOk(c, b)
    BY <2>1 DEF CubeInv
  <2>3. CASE proc'[q].at = "idle"
    <3>1. job'[q].at = "none"
      BY <1>1, <1>2, <2>3
    <3> QED BY <3>1 DEF JobOk
  <2>4. CASE proc'[q].at # "idle"
    <3>1. job'[q] = b
      BY <1>1, <2>1, <2>4
    <3>2. CASE b.at # "none"
      <4>1. c.cmd = "connect" /\ c.id \in Ids /\ c.id # None
        BY <2>2, <3>2, Numbers DEF JobOk
      <4>2. proc'[q].cmd = "connect" /\ proc'[q].id = c.id
        BY <1>1, <2>1, <2>4, <4>1, SessionKept
      <4> QED BY <1>1, <2>2, <3>1, <3>2, <4>1, <4>2 DEF JobOk
    <3>3. CASE b.at = "none"
      BY <3>1, <3>3 DEF JobOk
    <3> QED BY <3>2, <3>3
  <2> QED BY <2>3, <2>4
<1> QED BY <1>1, <1>3, <1>4 DEF CubeInv, AssociationIsBinding

ClientInv == EnrollmentInv /\ CubeInv

\* The two invariants hold initially.
LEMMA ClientInit == Init => ClientInv
<1> SUFFICES ASSUME Init PROVE ClientInv
  OBVIOUS
<1>1. EnrollmentInv
  BY EnrollmentInitInv DEF Init, EnrollmentInv, EInv
<1>2. CubeInv
  <2>1. NoJob \in Jobs /\ NoJob.at = "none"
    BY DEF NoJob, Jobs, JobPlaces
  <2>2. binding \in Bindings /\ assoc \in Bindings /\ job \in [Procs -> Jobs]
    BY <2>1 DEF Init, Bindings
  <2> QED BY <2>1, <2>2 DEF Init, CubeInv, AssociationIsBinding, JobOk
<1> QED BY <1>1, <1>2 DEF ClientInv

\* And every step keeps them.
LEMMA ClientNext == ClientInv /\ [Next]_vars => ClientInv'
<1> SUFFICES ASSUME ClientInv, [Next]_vars PROVE ClientInv'
  OBVIOUS
<1>1. PICK own \in [Keys -> Invitations] : EInv(own)
  BY DEF ClientInv, EnrollmentInv
<1>2. CubeInv
  BY DEF ClientInv
<1>3. ASSUME NEW o, EInv(o)' PROVE EnrollmentInv'
  BY <1>3 DEF EInv, EnrollmentInv
<1>4. CASE Enrolling
  <2>1. \E more : EInv(more)'
    BY <1>1, <1>4, EnrollmentNextInv DEF Enrolling
  <2>2. CubeInv'
    BY <1>1, <1>2, <1>4, EnrollingInv
  <2> QED BY <1>3, <2>1, <2>2 DEF ClientInv
<1>5. ASSUME NEW p \in Procs, Cube(p) PROVE ClientInv'
  <2>1. EInv(own)' /\ CubeInv'
    BY <1>1, <1>2, <1>5, CubeQuiet, CubeStepInv
  <2> QED BY <1>3, <2>1 DEF ClientInv
<1>6. CASE UNCHANGED vars
  <2>1. UNCHANGED <<gens, pointer, active, pending, marker, lock, keys, letGo, sent, server, redeemed,
                    stacked, proc, binding, assoc, job>>
    BY <1>6 DEF vars, eVars, cubeVars, local, bounds, remote
  <2>2. EInv(own)'
    BY <1>1, <2>1 DEF EInv, StateOk, Trusted, OnlyOf, Held, HoldersOk, AccountsOk, PendingOk, MarkerOk, SentOk,
       Sound, Reachable, Taken, Given, CommandOk, CommandKept, CommandLocked
  <2>3. CubeInv'
    BY <1>2, <2>1 DEF CubeInv, AssociationIsBinding, JobOk
  <2> QED BY <1>3, <2>2, <2>3 DEF ClientInv
<1> QED BY <1>4, <1>5, <1>6 DEF Next

\* Enrolment and repository cube: the inductive invariant of the server client.
THEOREM ClientIsInductive == Spec => []ClientInv
BY ClientInit, ClientNext, PTL DEF Spec

\* server-trust.ts commitTrust: at rest the pointer names a generation that is there, and the
\* only active credential is of that identity.
THEOREM TrustIsOfCredential == Spec => []TrustMatchesCredential
<1>1. ClientInv => TrustMatchesCredential
  BY DEF ClientInv, EnrollmentInv, EInv, Trusted, OnlyOf, TrustMatchesCredential
<1> QED BY <1>1, ClientIsInductive, PTL

\* config.ts: a credential the server accepted is active, resumable or kept by the marker,
\* unless it was given up.
THEOREM CredentialIsKept == Spec => []CredentialKept
<1>1. ClientInv => CredentialKept
  <2> SUFFICES ASSUME ClientInv, NEW v \in Invitations, redeemed[v] # None
               PROVE  \/ redeemed[v] \in letGo \cup Held(active) \cup {pending[i].key : i \in Transactions}
                      \/ marker # None /\ redeemed[v] \in Held(marker.active) \cup {marker.pending.key}
    BY DEF CredentialKept
  <2>1. PICK own \in [Keys -> Invitations] : EInv(own)
    BY DEF ClientInv, EnrollmentInv
  <2>2. PICK k : k = redeemed[v]
    OBVIOUS
  <2>3. k \in Keys /\ k <= keys /\ own[k] = v /\ keys \in Nat
    BY <2>1, <2>2 DEF EInv, StateOk, HoldersOk
  <2>4. k \in 1 .. keys
    BY <2>3, Numbers
  <2>5. Reachable(k)
    BY <2>1, <2>2, <2>3, <2>4 DEF EInv, Sound, Taken
  <2>6. marker # None => marker.pending.key = marker.key
    BY <2>1 DEF EInv, HoldersOk, MarkerOk
  <2> QED BY <2>2, <2>5, <2>6 DEF Reachable, Transactions
<1> QED BY <1>1, ClientIsInductive, PTL

\* remote-client.ts: a credential is only shown to the server that issued it.
THEOREM CredentialStaysHome == Spec => []NoCredentialToStranger
<1>1. ClientInv => NoCredentialToStranger
  <2> SUFFICES ASSUME ClientInv, NEW s \in sent, NEW v \in Invitations, redeemed[v] = s[1] PROVE v[1] = s[2]
    BY DEF NoCredentialToStranger
  <2>1. PICK own \in [Keys -> Invitations] : EInv(own)
    BY DEF ClientInv, EnrollmentInv
  <2>2. s[1] # None /\ own[s[1]][1] = s[2]
    BY <2>1, Numbers DEF EInv, SentOk
  <2>3. own[s[1]] = v
    BY <2>1, <2>2 DEF EInv, HoldersOk
  <2> QED BY <2>2, <2>3
<1> QED BY <1>1, ClientIsInductive, PTL

\* repository-cube-init.ts: an association kept for an identity is the binding that server has.
THEOREM AssociationIsOfServer == Spec => []AssociationIsBinding
<1>1. ClientInv => AssociationIsBinding
  BY DEF ClientInv, CubeInv
<1> QED BY <1>1, ClientIsInductive, PTL

-----------------------------------------------------------------------------
(* RoleSync: what is overwritten was decided.                              *)

Ops == [f : Fragments \cup {"role"}, action : {"add", "replace"}]
Syncs == [on : BOOLEAN, todo : Seq(Ops), accept : SUBSET Fragments, gone : BOOLEAN]

\* The requests a call may still send: what it replaces is accepted, and the field it adds
\* was missing until somebody else set it.
Good(a, s) ==
    {o \in Ops : /\ o.f = "role" => o.action = "add"
                 /\ o.action = "replace" => o.f \in a
                 /\ o.f = "field" /\ o.action = "add" /\ value["field"] \in Evolved => "field" \in s}

SyncInv ==
    /\ role \in BOOLEAN /\ value \in [Fragments -> Evolved \cup {Missing, Template}]
    /\ ~ role => \A f \in OfRole : value[f] = Missing
    /\ since \in [Syncers -> SUBSET Fragments] /\ sync \in [Syncers -> Syncs]
    /\ \A p \in Syncers : sync[p].todo \in Seq(Good(sync[p].accept, since[p]))

\* The kinds of fragments.
LEMMA FragmentNames ==
    /\ Fragments = {"field", "section", "class"} /\ OfRole = {"field", "section"}
    /\ OfRole \subseteq Fragments /\ "role" \notin Fragments
BY DEF Fragments, OfRole

\* The requests for one fragment of the cube as it is read.
LEMMA FragmentOps ==
    ASSUME SyncInv, NEW f \in Fragments, NEW a \in SUBSET Fragments
    PROVE  Fragment(f, a) \in Seq(Good(a, {}))
<1>1. PICK x, y : x = [f |-> f, action |-> "add"] /\ y = [f |-> f, action |-> "replace"]
  OBVIOUS
<1>2. x \in Ops /\ y \in Ops /\ x.f = f /\ y.f = f /\ x.action = "add" /\ y.action = "replace"
  BY <1>1 DEF Ops
<1>3. f # "role"
  BY FragmentNames
<1>4. value[f] = Missing => x \in Good(a, {})
  BY <1>2, <1>3, SyncAssumption DEF Good
<1>5. f \in a => y \in Good(a, {})
  BY <1>2, <1>3 DEF Good
<1>6. \A o \in Good(a, {}) : <<o>> \in Seq(Good(a, {}))
  OBVIOUS
<1>7. <<>> \in Seq(Good(a, {}))
  BY EmptySeq
<1>8. CASE value[f] = Missing
  BY <1>1, <1>4, <1>6, <1>8 DEF Fragment
<1>9. CASE value[f] = Template
  BY <1>7, <1>9, SyncAssumption DEF Fragment
<1>10. CASE value[f] # Missing /\ value[f] # Template
  BY <1>1, <1>5, <1>6, <1>7, <1>10 DEF Fragment, Decided
<1> QED BY <1>8, <1>9, <1>10

\* The whole list, as it is computed from the cube that was read.
LEMMA AdditionsOps ==
    ASSUME SyncInv, NEW a \in SUBSET Fragments
    PROVE  Additions(a) \in Seq(Good(a, {}))
<1>1. PICK s, t, u : s = Fragment("field", a) /\ t = Fragment("section", a) /\ u = Fragment("class", a)
  OBVIOUS
<1>2. {s, t, u} \subseteq Seq(Good(a, {}))
  BY <1>1, FragmentOps, FragmentNames
<1>3. PICK o : o = [f |-> "role", action |-> "add"]
  OBVIOUS
<1>4. o \in Ops /\ o.f = "role" /\ o.action = "add"
  BY <1>3 DEF Ops
<1>5. o \in Good(a, {})
  BY <1>4 DEF Good
<1>6. <<o>> \in Seq(Good(a, {}))
  BY <1>5
<1>7. s \o t \in Seq(Good(a, {}))
  BY <1>2, ConcatProperties
<1>8. (IF role THEN s \o t ELSE <<o>>) \in Seq(Good(a, {}))
  BY <1>6, <1>7
<1>9. (IF role THEN s \o t ELSE <<o>>) \o u \in Seq(Good(a, {}))
  BY <1>2, <1>8, ConcatProperties
<1> QED BY <1>1, <1>3, <1>9 DEF Additions

\* A request the server takes.
LEMMA SendEffect ==
    ASSUME SyncInv, NEW p \in Syncers, sync[p].todo # <<>>, NEW op, op = Head(sync[p].todo),
           Send(op, sync[p].gone), Noticed(p, Touched(op))
    PROVE  /\ op \in Good(sync[p].accept, since[p])
           /\ role' \in BOOLEAN /\ value' \in [Fragments -> Evolved \cup {Missing, Template}]
           /\ ~ role' => \A f \in OfRole : value'[f] = Missing
           /\ since' \in [Syncers -> SUBSET Fragments]
           /\ value'["field"] \in Evolved => value["field"] \in Evolved
           /\ since'[p] = since[p] /\ \A q \in Syncers : since[q] \subseteq since'[q]
           /\ \A f \in Fragments : value[f] \in Evolved /\ value'[f] \notin Evolved =>
                  f \in sync[p].accept \/ (f = "field" /\ f \in since[p])
<1>1. PICK a, s : a = sync[p].accept /\ s = since[p]
  OBVIOUS
<1>2. sync[p].todo \in Seq(Good(a, s))
  BY <1>1 DEF SyncInv
<1>3. op \in Good(a, s)
  BY <1>2, HeadTailProperties
<1>4. /\ op \in Ops /\ op.f \in Fragments \cup {"role"} /\ op.action \in {"add", "replace"}
      /\ op.action = "replace" => op.f \in a
      /\ op.f = "field" /\ op.action = "add" /\ value["field"] \in Evolved => "field" \in s
  BY <1>3 DEF Good, Ops
<1>5. PICK fs : /\ fs \subseteq Fragments /\ Touched(op) = fs
                /\ value' = [f \in Fragments |-> IF f \in fs THEN Template ELSE value[f]]
                /\ op.f = "role" => fs = OfRole
                /\ op.f # "role" => fs = {op.f}
                /\ role' = TRUE \/ (role' = role /\ fs = {"class"})
  <2>1. CASE op.f = "role"
    BY <2>1, FragmentNames DEF Send, Allowed, createRole, Written, Touched
  <2>2. CASE op.f = "field"
    BY <2>2, FragmentNames DEF Send, Allowed, updateRole, Written, Touched, SyncInv
  <2>3. CASE op.f = "section"
    BY <2>3, FragmentNames DEF Send, Allowed, patchRoleSection, Written, Touched, SyncInv
  <2>4. CASE op.f = "class"
    BY <2>4, FragmentNames DEF Send, Allowed, patchTaxonomyClass, Written, Touched, SyncInv
  <2> QED BY <1>4, <2>1, <2>2, <2>3, <2>4, FragmentNames
<1>6. ASSUME NEW f \in Fragments, value[f] \in Evolved, value'[f] \notin Evolved
      PROVE f \in a \/ (f = "field" /\ f \in s)
  <2>1. f \in fs
    BY <1>5, <1>6
  <2>2. op.f = f
    <3>1. CASE op.f = "role"
      <4>1. ~ role
        BY <3>1 DEF Send, Allowed
      <4> QED BY <1>5, <1>6, <2>1, <3>1, <4>1, SyncAssumption DEF SyncInv
    <3> QED BY <1>5, <2>1, <3>1
  <2>3. CASE op.action = "replace"
    BY <1>4, <2>2, <2>3
  <2>4. CASE op.action = "add"
    <3>1. value[f] # Missing
      BY <1>6, SyncAssumption
    <3>2. f = "field"
      BY <2>2, <2>4, <3>1, FragmentNames DEF Send, Allowed
    <3> QED BY <1>4, <1>6, <2>2, <2>4, <3>2
  <2> QED BY <1>4, <2>3, <2>4
<1>7. value' \in [Fragments -> Evolved \cup {Missing, Template}]
      /\ (value'["field"] \in Evolved => value["field"] \in Evolved)
  BY <1>5, SyncAssumption, FragmentNames DEF SyncInv
<1>8. since' \in [Syncers -> SUBSET Fragments] /\ since'[p] = since[p] /\ \A q \in Syncers : since[q] \subseteq since'[q]
  BY <1>5 DEF Noticed, SyncInv
<1>9. role' \in BOOLEAN /\ (~ role' => \A f \in OfRole : value'[f] = Missing)
  <2>1. CASE role' = TRUE
    BY <2>1
  <2>2. CASE role' = role /\ fs = {"class"}
    BY <1>5, <2>2, FragmentNames DEF SyncInv
  <2> QED BY <1>5, <2>1, <2>2
<1> QED BY <1>1, <1>3, <1>6, <1>7, <1>8, <1>9

\* A call's requests stay good when others touch what they change.
LEMMA StillGood ==
    ASSUME NEW a, NEW s, NEW t, NEW z, z \in Seq(Good(a, s)), s \subseteq t,
           value'["field"] \in Evolved => value["field"] \in Evolved \/ "field" \in t
    PROVE  z \in Seq(Good(a, t)')
<1>1. Good(a, s) \subseteq Good(a, t)'
  BY DEF Good
<1> QED BY <1>1, SeqMonotonic

\* What a step changes of the calls.
LEMMA SyncStep ==
    ASSUME SyncInv, role' \in BOOLEAN, value' \in [Fragments -> Evolved \cup {Missing, Template}],
           ~ role' => \A f \in OfRole : value'[f] = Missing,
           since' \in [Syncers -> SUBSET Fragments],
           \A q \in Syncers : value'["field"] \in Evolved => value["field"] \in Evolved \/ "field" \in since'[q],
           NEW p \in Syncers, NEW d \in Syncs, sync' = [sync EXCEPT ![p] = d],
           \A q \in Syncers : q # p => since[q] \subseteq since'[q],
           \/ d.todo \in Seq(Good(d.accept, since[p])) /\ since[p] \subseteq since'[p]
           \/ d.todo = <<>>
           \/ d.todo \in Seq(Good(d.accept, {})) /\ UNCHANGED value
    PROVE  SyncInv'
<1>1. sync' \in [Syncers -> Syncs]
  BY DEF SyncInv
<1>2. ASSUME NEW q \in Syncers PROVE (sync[q].todo \in Seq(Good(sync[q].accept, since[q])))'
  <2>1. PICK z, a, s, t : z = sync'[q].todo /\ a = sync'[q].accept /\ s = since[q] /\ t = since'[q]
    OBVIOUS
  <2>2. CASE q # p
    <3>1. z \in Seq(Good(a, s)) /\ s \subseteq t
      BY <2>1, <2>2 DEF SyncInv
    <3>2. z \in Seq(Good(a, t)')
      BY <2>1, <3>1, StillGood
    <3> QED BY <2>1, <3>2 DEF Good
  <2>3. CASE q = p /\ d.todo \in Seq(Good(d.accept, since[p])) /\ since[p] \subseteq since'[p]
    <3>1. z \in Seq(Good(a, s)) /\ s \subseteq t
      BY <2>1, <2>3 DEF SyncInv
    <3>2. z \in Seq(Good(a, t)')
      BY <2>1, <3>1, StillGood
    <3> QED BY <2>1, <3>2 DEF Good
  <2>4. CASE q = p /\ d.todo = <<>>
    <3>1. z = <<>>
      BY <2>1, <2>4 DEF SyncInv
    <3> QED BY <2>1, <3>1, EmptySeq
  <2>5. CASE q = p /\ d.todo \in Seq(Good(d.accept, {})) /\ UNCHANGED value
    <3>1. z \in Seq(Good(a, {})) /\ {} \subseteq t
      BY <2>1, <2>5 DEF SyncInv
    <3>2. z \in Seq(Good(a, t)')
      BY <2>5, <3>1, StillGood
    <3> QED BY <2>1, <3>2 DEF Good
  <2> QED BY <2>2, <2>3, <2>4, <2>5
<1> QED BY <1>1, <1>2 DEF SyncInv

\* A call begins with a list for the cube as it is.
LEMMA BeginInv ==
    ASSUME SyncInv, NEW p \in Syncers, NEW a \in SUBSET Fragments, Begin(p, a)
    PROVE  SyncInv'
<1>1. PICK t : t = Additions(a)
  OBVIOUS
<1>2. t \in Seq(Good(a, {})) /\ Good(a, {}) \subseteq Ops
  BY <1>1, AdditionsOps DEF Good
<1>3. t \in Seq(Ops)
  BY <1>2, SeqMonotonic
<1>4. PICK d : d = [NoSync EXCEPT !.on = TRUE, !.todo = t, !.accept = a]
  OBVIOUS
<1>5. d = [on |-> TRUE, todo |-> t, accept |-> a, gone |-> FALSE]
  BY <1>4 DEF NoSync
<1>6. d \in Syncs /\ d.todo = t /\ d.accept = a
  BY <1>3, <1>5 DEF Syncs
<1>7. sync' = [sync EXCEPT ![p] = d] /\ since' = [since EXCEPT ![p] = {}] /\ UNCHANGED <<role, value>>
  BY <1>1, <1>4 DEF Begin
<1>8. since' \in [Syncers -> SUBSET Fragments] /\ \A q \in Syncers : q # p => since[q] \subseteq since'[q]
  BY <1>7 DEF SyncInv
<1>9. d.todo \in Seq(Good(d.accept, {}))
  BY <1>2, <1>6
<1>10. role' \in BOOLEAN /\ value' \in [Fragments -> Evolved \cup {Missing, Template}]
       /\ (~ role' => \A f \in OfRole : value'[f] = Missing)
  BY <1>7 DEF SyncInv
<1> QED BY <1>6, <1>7, <1>8, <1>9, <1>10, SyncStep

\* A call that ends, or sends its next request.
LEMMA CallInv ==
    ASSUME SyncInv, NEW p \in Syncers, addition(p) \/ additionThrows(p) \/ returnResult(p)
    PROVE  SyncInv'
<1>1. PICK c : c = sync[p]
  OBVIOUS
<1>2. c \in Syncs /\ c.todo \in Seq(Ops) /\ c.todo \in Seq(Good(c.accept, since[p]))
  BY <1>1 DEF SyncInv, Syncs
<1>3. PICK d : /\ d \in Syncs /\ sync' = [sync EXCEPT ![p] = d]
               /\ d.todo = <<>> \/ d.todo \in Seq(Good(d.accept, since[p]))
  <2>1. CASE addition(p)
    <3>1. PICK d : d = [c EXCEPT !.todo = Tail(c.todo)]
      OBVIOUS
    <3>2. c.todo # <<>> /\ sync' = [sync EXCEPT ![p] = d]
      BY <1>1, <2>1, <3>1 DEF addition
    <3>3. Tail(c.todo) \in Seq(Ops) /\ Tail(c.todo) \in Seq(Good(c.accept, since[p]))
      BY <1>2, <3>2, HeadTailProperties
    <3>4. d \in Syncs /\ d.todo = Tail(c.todo) /\ d.accept = c.accept
      BY <1>2, <3>1, <3>3 DEF Syncs
    <3> QED BY <3>2, <3>3, <3>4
  <2>2. CASE additionThrows(p) \/ returnResult(p)
    <3>1. NoSync \in Syncs /\ NoSync.todo = <<>>
      <4>1. <<>> \in Seq(Ops) /\ {} \in SUBSET Fragments
        BY EmptySeq
      <4> QED BY <4>1 DEF NoSync, Syncs
    <3>2. sync' = [sync EXCEPT ![p] = NoSync]
      BY <2>2 DEF additionThrows, returnResult
    <3> QED BY <3>1, <3>2
  <2> QED BY <2>1, <2>2
<1>4. CASE UNCHANGED <<role, value, since>>
  <2>1. /\ role' \in BOOLEAN /\ value' \in [Fragments -> Evolved \cup {Missing, Template}]
        /\ (~ role' => \A f \in OfRole : value'[f] = Missing)
        /\ since' \in [Syncers -> SUBSET Fragments] /\ \A q \in Syncers : since[q] \subseteq since'[q]
        /\ value'["field"] \in Evolved => value["field"] \in Evolved
    BY <1>4 DEF SyncInv
  <2> QED BY <1>3, <2>1, SyncStep
<1>5. CASE \E op : /\ op = Head(sync[p].todo) /\ sync[p].todo # <<>>
                   /\ Send(op, sync[p].gone) /\ Noticed(p, Touched(op))
  <2>1. PICK op : /\ op = Head(sync[p].todo) /\ sync[p].todo # <<>>
                  /\ Send(op, sync[p].gone) /\ Noticed(p, Touched(op))
    BY <1>5
  <2>2. /\ role' \in BOOLEAN /\ value' \in [Fragments -> Evolved \cup {Missing, Template}]
        /\ (~ role' => \A f \in OfRole : value'[f] = Missing)
        /\ since' \in [Syncers -> SUBSET Fragments] /\ \A q \in Syncers : since[q] \subseteq since'[q]
        /\ value'["field"] \in Evolved => value["field"] \in Evolved
    BY <2>1, SendEffect
  <2> QED BY <1>3, <2>2, SyncStep
<1> QED BY <1>4, <1>5 DEF addition, additionThrows, returnResult

\* Somebody else's edit.
LEMMA EditInv ==
    ASSUME SyncInv, editCube
    PROVE  SyncInv'
<1>1. PICK fs : /\ fs \subseteq Fragments
                /\ since' = [q \in Syncers |-> since[q] \cup fs]
                /\ \A f \in Fragments \ fs : value'[f] = value[f]
                /\ value' \in [Fragments -> Evolved \cup {Missing, Template}]
                /\ role' \in BOOLEAN /\ (~ role' => \A f \in OfRole : value'[f] = Missing)
                /\ UNCHANGED sync \/ sync' = [q \in Syncers |-> [sync[q] EXCEPT !.gone = @ \/ (sync[q].on /\ role)]]
  <2>1. ASSUME NEW f \in Fragments, NEW v \in Evolved \cup {Missing}, f \in OfRole => role,
               value' = [value EXCEPT ![f] = v], since' = [q \in Syncers |-> since[q] \cup {f}],
               UNCHANGED <<role, sync>>
        PROVE  /\ \A g \in Fragments \ {f} : value'[g] = value[g]
               /\ value' \in [Fragments -> Evolved \cup {Missing, Template}]
               /\ role' \in BOOLEAN /\ (~ role' => \A g \in OfRole : value'[g] = Missing)
    BY <2>1, FragmentNames DEF SyncInv
  <2>2. ASSUME role' = ~ role, NEW v \in Evolved \cup {Missing}, role => v = Missing,
               value' = [f \in Fragments |-> IF f \in OfRole THEN v ELSE value[f]]
        PROVE  /\ \A g \in Fragments \ OfRole : value'[g] = value[g]
               /\ value' \in [Fragments -> Evolved \cup {Missing, Template}]
               /\ role' \in BOOLEAN /\ (~ role' => \A g \in OfRole : value'[g] = Missing)
    BY <2>2, FragmentNames DEF SyncInv
  <2>3. \/ \E f \in Fragments, v \in Evolved \cup {Missing} :
             /\ f \in OfRole => role
             /\ v # value[f] /\ value' = [value EXCEPT ![f] = v]
             /\ since' = [q \in Syncers |-> since[q] \cup {f}]
             /\ UNCHANGED <<role, sync>>
        \/ /\ role' = ~ role
           /\ \E v \in IF role THEN {Missing} ELSE Evolved :
                value' = [f \in Fragments |-> IF f \in OfRole THEN v ELSE value[f]]
           /\ since' = [q \in Syncers |-> since[q] \cup OfRole]
           /\ sync' = [q \in Syncers |-> [sync[q] EXCEPT !.gone = @ \/ (sync[q].on /\ role)]]
    BY DEF editCube
  <2>4. CASE \E f \in Fragments, v \in Evolved \cup {Missing} :
             /\ f \in OfRole => role
             /\ v # value[f] /\ value' = [value EXCEPT ![f] = v]
             /\ since' = [q \in Syncers |-> since[q] \cup {f}]
             /\ UNCHANGED <<role, sync>>
    <3>1. PICK f \in Fragments, v \in Evolved \cup {Missing} :
             /\ f \in OfRole => role
             /\ value' = [value EXCEPT ![f] = v]
             /\ since' = [q \in Syncers |-> since[q] \cup {f}]
             /\ UNCHANGED <<role, sync>>
      BY <2>4
    <3>2. PICK fs : fs = {f}
      OBVIOUS
    <3>3. fs \subseteq Fragments
      BY <3>2
    <3> QED BY <2>1, <3>1, <3>2, <3>3
  <2>5. CASE /\ role' = ~ role
             /\ \E v \in IF role THEN {Missing} ELSE Evolved :
                  value' = [f \in Fragments |-> IF f \in OfRole THEN v ELSE value[f]]
             /\ since' = [q \in Syncers |-> since[q] \cup OfRole]
             /\ sync' = [q \in Syncers |-> [sync[q] EXCEPT !.gone = @ \/ (sync[q].on /\ role)]]
    <3>1. PICK v \in Evolved \cup {Missing} :
             /\ role => v = Missing
             /\ value' = [f \in Fragments |-> IF f \in OfRole THEN v ELSE value[f]]
      BY <2>5
    <3> QED BY <2>2, <2>5, <3>1, FragmentNames
  <2> QED BY <2>3, <2>4, <2>5
<1>2. since' \in [Syncers -> SUBSET Fragments] /\ \A q \in Syncers : since[q] \subseteq since'[q] /\ fs \subseteq since'[q]
  BY <1>1 DEF SyncInv
<1>3. \A q \in Syncers : value'["field"] \in Evolved => value["field"] \in Evolved \/ "field" \in since'[q]
  BY <1>1, <1>2, FragmentNames
<1>4. ASSUME NEW q \in Syncers
      PROVE  sync'[q] \in Syncs /\ sync'[q].todo = sync[q].todo /\ sync'[q].accept = sync[q].accept
  <2>1. PICK c : c = sync[q] /\ c \in Syncs
    BY DEF SyncInv
  <2>2. CASE UNCHANGED sync
    BY <2>1, <2>2
  <2>3. CASE sync' = [x \in Syncers |-> [sync[x] EXCEPT !.gone = @ \/ (sync[x].on /\ role)]]
    <3>1. PICK b \in BOOLEAN : sync'[q] = [c EXCEPT !.gone = b]
      BY <2>1, <2>3
    <3>2. sync'[q] \in Syncs /\ sync'[q].todo = c.todo /\ sync'[q].accept = c.accept
      BY <2>1, <3>1 DEF Syncs
    <3> QED BY <2>1, <3>2
  <2> QED BY <1>1, <2>2, <2>3
<1>5. sync' \in [Syncers -> Syncs]
  BY <1>1, <1>4 DEF SyncInv
<1>6. ASSUME NEW q \in Syncers PROVE (sync[q].todo \in Seq(Good(sync[q].accept, since[q])))'
  <2>1. PICK z, a, s, t : z = sync[q].todo /\ a = sync[q].accept /\ s = since[q] /\ t = since'[q]
    OBVIOUS
  <2>2. z \in Seq(Good(a, s)) /\ s \subseteq t
    BY <1>2, <2>1 DEF SyncInv
  <2>3. z \in Seq(Good(a, t)')
    BY <1>3, <2>1, <2>2, StillGood
  <2> QED BY <1>4, <2>1, <2>3 DEF Good
<1> QED BY <1>1, <1>2, <1>5, <1>6 DEF SyncInv

\* SyncInv holds initially.
LEMMA SyncInitInv == SyncInit => SyncInv
<1> SUFFICES ASSUME SyncInit PROVE SyncInv
  OBVIOUS
<1>1. NoSync \in Syncs /\ NoSync.todo = <<>>
  <2>1. <<>> \in Seq(Ops) /\ {} \in SUBSET Fragments
    BY EmptySeq
  <2> QED BY <2>1 DEF NoSync, Syncs
<1>2. \A p \in Syncers : sync[p] = NoSync
  BY DEF SyncInit
<1>3. \A p \in Syncers : sync[p].todo \in Seq(Good(sync[p].accept, since[p]))
  BY <1>1, <1>2, EmptySeq
<1> QED BY <1>1, <1>3 DEF SyncInit, SyncInv

\* Every step keeps it.
LEMMA SyncNextInv == SyncInv /\ [SyncNext]_syncVars => SyncInv'
<1> SUFFICES ASSUME SyncInv, [SyncNext]_syncVars PROVE SyncInv'
  OBVIOUS
<1>1. ASSUME NEW p \in Syncers, syncRoles(p) \/ applyTemplate(p) PROVE SyncInv'
  BY <1>1, BeginInv DEF syncRoles, applyTemplate
<1>2. ASSUME NEW p \in Syncers, addition(p) \/ additionThrows(p) \/ returnResult(p) PROVE SyncInv'
  BY <1>2, CallInv
<1>3. CASE editCube
  BY <1>3, EditInv
<1>4. CASE UNCHANGED syncVars
  BY <1>4 DEF syncVars, SyncInv, Good
<1> QED BY <1>1, <1>2, <1>3, <1>4 DEF SyncNext

\* syncRoles and applyTemplate: the inductive invariant of the synchronisation.
THEOREM SyncIsInductive == SyncSpec => []SyncInv
BY SyncInitInv, SyncNextInv, PTL DEF SyncSpec

\* "the cube's evolved text is never silently overwritten": a template value takes the place of
\* an evolved one only where the call accepts it, or where a field was set after it was read.
THEOREM EvolvedTextIsKept == SyncSpec => NeverClobbers
<1> DEFINE Kept ==
       \A f \in Fragments :
          value[f] \in Evolved /\ value'[f] = Template =>
             \E p \in Syncers :
                /\ sync[p].on /\ sync[p].todo # <<>> /\ sync'[p].todo # sync[p].todo
                /\ \/ f \in sync[p].accept
                   \/ f = "field" /\ f \in since[p]
<1>1. SyncInv /\ [SyncNext]_syncVars => [Kept]_syncVars
  <2> SUFFICES ASSUME SyncInv, SyncNext, NEW f \in Fragments, value[f] \in Evolved, value'[f] = Template
               PROVE  \E p \in Syncers :
                        /\ sync[p].on /\ sync[p].todo # <<>> /\ sync'[p].todo # sync[p].todo
                        /\ \/ f \in sync[p].accept
                           \/ f = "field" /\ f \in since[p]
    OBVIOUS
  <2>1. value' # value /\ value'[f] \notin Evolved \cup {Missing}
    BY SyncAssumption
  <2>2. ~ editCube
    <3>1. value \in [Fragments -> Evolved \cup {Missing, Template}]
      BY DEF SyncInv
    <3>2. SUFFICES ASSUME editCube PROVE FALSE
      OBVIOUS
    <3>3. ASSUME NEW g \in Fragments, NEW v \in Evolved \cup {Missing}, value' = [value EXCEPT ![g] = v] PROVE FALSE
      BY <2>1, <3>1, <3>3
    <3>4. ASSUME NEW v \in IF role THEN {Missing} ELSE Evolved,
                 value' = [g \in Fragments |-> IF g \in OfRole THEN v ELSE value[g]]
          PROVE FALSE
      BY <2>1, <3>4
    <3> QED BY <3>2, <3>3, <3>4 DEF editCube
  <2>3. PICK p \in Syncers : addition(p) \/ additionThrows(p)
    BY <2>1, <2>2 DEF SyncNext, syncRoles, applyTemplate, Begin, returnResult
  <2>4. PICK op : /\ op = Head(sync[p].todo) /\ sync[p].todo # <<>> /\ sync[p].on
                  /\ Send(op, sync[p].gone) /\ Noticed(p, Touched(op))
    BY <2>1, <2>3 DEF addition, additionThrows
  <2>5. f \in sync[p].accept \/ (f = "field" /\ f \in since[p])
    BY <2>1, <2>4, SendEffect
  <2>6. sync'[p].todo # sync[p].todo
    <3>1. PICK c : c = sync[p] /\ c \in Syncs
      BY DEF SyncInv
    <3>2. c.todo \in Seq(Ops) /\ c.todo # <<>>
      BY <2>4, <3>1 DEF Syncs
    <3>3. Len(Tail(c.todo)) = Len(c.todo) - 1 /\ Len(c.todo) \in Nat
      BY <3>2, HeadTailProperties
    <3>4. Tail(c.todo) # c.todo
      <4>1. PICK t, n, m : t = Tail(c.todo) /\ n = Len(c.todo) /\ m = Len(t)
        OBVIOUS
      <4>2. n \in Nat /\ m = n - 1
        BY <3>3, <4>1
      <4>3. m # n
        BY <4>2
      <4> QED BY <4>1, <4>3
    <3>5. CASE addition(p)
      <4>1. sync'[p] = [c EXCEPT !.todo = Tail(c.todo)]
        BY <3>1, <3>5 DEF addition, SyncInv
      <4>2. sync'[p].todo = Tail(c.todo)
        BY <3>1, <4>1 DEF Syncs
      <4> QED BY <3>1, <3>4, <4>2
    <3>6. CASE additionThrows(p)
      <4>1. sync'[p] = NoSync
        BY <3>6 DEF additionThrows, SyncInv
      <4> QED BY <3>1, <3>2, <4>1 DEF NoSync
    <3> QED BY <2>3, <3>5, <3>6
  <2> QED BY <2>4, <2>5, <2>6
<1> QED BY <1>1, SyncIsInductive, PTL DEF SyncSpec, NeverClobbers
=============================================================================
