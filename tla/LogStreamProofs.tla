-------------------------- MODULE LogStreamProofs --------------------------
(***************************************************************************)
(* Proofs about the log stream (LogStream) and the unread reads and their  *)
(* cursor file (UnreadLog), for every set of processes, every log, every   *)
(* cap and any number of faults.                                           *)
(*                                                                         *)
(* The stream.  What makes the durable cursor safe is spread over the      *)
(* handler's steps, so StreamInv says of every session what it may rely on *)
(* between two awaits: what the server sent so far is in the inbox, but    *)
(* for the event whose line is due; while catching up, what is behind the  *)
(* cursor in memory is in the inbox too (only then is an event skipped     *)
(* because of that cursor); the broadcast cursor covers what was sent.     *)
(*                                                                         *)
(* The reads.  Every entry up to the cursor, up to where any read began    *)
(* and up to the cursor in any copy of the file was handed over or is      *)
(* carried by the read that moved the cursor over it; and a process in the *)
(* lock that none overlapped is there alone, so its copy is current.       *)
(***************************************************************************)
EXTENDS LogStream, UnreadLog, WellFoundedInduction, TLAPS

(***************************************************************************)
(* LogStream: nothing inbound is passed, and a divergence is real.         *)
(***************************************************************************)

\* An entry that the inbox has or had, that no line is due for, or that a connection
\* without a cursor started after.
Known(e) == e \in 1 .. Len(log) /\ (Inbound(e) => e \in skipped \/ \E p \in Procs : e \in wrote[p])
AllKnown(n) == n <= Len(log) /\ \A e \in 1 .. n : Known(e)

Connected == {"open", "append", "trim", "rename", "record"}

Sessions ==
    [pc : {"idle", "clearing", "stopped"} \cup Connected, last : Nat, hwm : Nat, bhwm : Nat,
     pend : Nat, catchingUp : BOOLEAN, recent : SUBSET Nat, order : Seq(Nat), ev : Nat,
     kept : Seq(Nat), doomed : BOOLEAN, resume : Nat, next : Nat \ {0}, tail : Nat,
     live : BOOLEAN, silent : BOOLEAN]

Lines(f) == f \in Seq(Nat) /\ \A i \in 1 .. Len(f) : f[i] = 0 \/ Known(f[i])

\* What the server sent so far is known, but for the event whose line is due.
SentIsKnown(s) ==
    /\ s.next <= Len(log) + 1 /\ s.tail <= Len(log)
    /\ \A e \in 1 .. s.next - 1 : Known(e) \/ (s.pc = "append" /\ e = s.ev)
    /\ s.pc # "open" => s.ev < s.next
    /\ s.pc = "record" => s.ev # 0

\* While catching up, what is behind the cursor in memory is known; the cursor is where
\* the session resumed, or what it was sent.
CatchingUpOk(s) ==
    /\ s.live => ~ s.catchingUp
    /\ s.catchingUp => /\ AllKnown(s.hwm) /\ (s.hwm # 0 \/ s.last # 0)
                       /\ s.hwm <= s.resume \/ s.hwm < s.next
                       /\ s.hwm = 0 => s.tail < s.next

\* The broadcast cursor covers what the session was sent, but for the event under way.
BroadcastsCounted(s) ==
    \A e \in s.resume + 1 .. s.next - 1 : InHwm(e) /\ (s.pc = "open" \/ e # s.ev) => e <= s.bhwm

PendingIsReal(s) ==
    s.pend # 0 => /\ s.pend <= Len(log) /\ InHwm(s.pend)
                  /\ s.next <= s.pend \/ (s.pc # "open" /\ s.ev = s.pend) \/ s.pend <= s.resume

SessionOk(s) ==
    /\ s \in Sessions
    /\ s.pc = "clearing" => expired # 0
    /\ s.pc \in Connected => SentIsKnown(s) /\ CatchingUpOk(s) /\ BroadcastsCounted(s) /\ PendingIsReal(s)
    /\ s.pc \notin Connected => s.pend = 0
    /\ \A e \in s.recent : Known(e)
    /\ Lines(s.kept)

StreamInv ==
    /\ log \in Seq(Kinds) /\ expired \in Nat /\ cursor \in Nat
    /\ AllKnown(cursor) /\ Lines(file)
    /\ skipped \subseteq Nat /\ wrote \in [Procs -> SUBSET Nat]
    /\ DOMAIN proc = Procs /\ \A p \in Procs : SessionOk(proc[p])
    /\ proc \in [Procs -> Sessions]

\* A set of positions in the log has a largest one.
LEMMA LargestExists ==
    ASSUME NEW n \in Nat, NEW S \in SUBSET (1 .. n), S # {}
    PROVE  \E m \in S : \A e \in S : e <= m
<1> DEFINE T == {n - e : e \in S}
<1>1. T \subseteq Nat /\ T # {}
  <2>1. T \subseteq Nat
    OBVIOUS
  <2>2. PICK e \in S : TRUE
    OBVIOUS
  <2>3. n - e \in T
    OBVIOUS
  <2> QED BY <2>1, <2>3
<1> HIDE DEF T
<1> DEFINE R == OpToRel(<, Nat)
<1>2. IsWellFoundedOn(R, Nat)
  BY NatLessThanWellFounded, Zenon
<1>3. \A a, b \in Nat : a < b => <<a, b>> \in R
  BY DEF OpToRel
<1> HIDE DEF R
<1>4. PICK x \in T : \A y \in T : ~ (<<y, x>> \in R)
  BY <1>1, <1>2, WFMin
<1>5. \A y \in T : x <= y
  <2> SUFFICES ASSUME NEW y \in T, ~ (x <= y) PROVE FALSE
    OBVIOUS
  <2>1. y < x /\ x \in Nat /\ y \in Nat
    BY <1>1
  <2>2. <<y, x>> \in R
    BY <1>3, <2>1
  <2> QED BY <1>4, <2>2
<1>6. PICK m \in S : x = n - m
  BY DEF T
<1>7. \A e \in S : x <= n - e
  BY <1>5 DEF T
<1> QED BY <1>6, <1>7

\* The server's mark is the largest entry that counts.
LEMMA ServerHwmLargest ==
    ASSUME log \in Seq(Kinds), ServerHwm # 0
    PROVE  /\ ServerHwm \in 1 .. Len(log) /\ InHwm(ServerHwm)
           /\ \A e \in 1 .. Len(log) : InHwm(e) => e <= ServerHwm
<1> DEFINE B == {e \in 1 .. Len(log) : InHwm(e)}
           h == CHOOSE e \in B : \A f \in B : f <= e
<1>1. B # {} /\ ServerHwm = h
  BY DEF ServerHwm
<1>2. Len(log) \in Nat /\ B \in SUBSET (1 .. Len(log))
  OBVIOUS
<1>3. \E e \in B : \A f \in B : f <= e
  <2> HIDE DEF B
  <2> QED BY <1>1, <1>2, LargestExists
<1>4. h \in B /\ \A f \in B : f <= h
  BY <1>3
<1> QED BY <1>1, <1>4

\* Steps of the log, of the histories and of the expiry only add.
Grows ==
    /\ log' \in Seq(Kinds) /\ Len(log) <= Len(log') /\ \A e \in 1 .. Len(log) : log'[e] = log[e]
    /\ expired \in Nat /\ expired' \in Nat /\ expired <= expired'
    /\ skipped \subseteq skipped' /\ \A p \in Procs : wrote[p] \subseteq wrote'[p]

\* What is known stays known when the log and the histories only add.
LEMMA GrowsKnown ==
    ASSUME Grows, log \in Seq(Kinds)
    PROVE  /\ \A e : Known(e) => Known(e)'
           /\ \A n \in Nat : AllKnown(n) => AllKnown(n)'
           /\ \A f : Lines(f) => Lines(f)'
           /\ \A e \in 1 .. Len(log) : InHwm(e)' <=> InHwm(e)
<1>1. Len(log) \in Nat /\ Len(log') \in Nat
  BY DEF Grows
<1>2. \A e \in 1 .. Len(log) : (Inbound(e)' <=> Inbound(e)) /\ (InHwm(e)' <=> InHwm(e))
  BY DEF Grows, Inbound, InHwm
<1>3. \A e : Known(e) => Known(e)'
  BY <1>1, <1>2 DEF Known, Grows
<1>4. \A n \in Nat : AllKnown(n) => AllKnown(n)'
  BY <1>1, <1>3 DEF AllKnown, Grows
<1>5. \A f : Lines(f) => Lines(f)'
  BY <1>3 DEF Lines
<1> QED BY <1>2, <1>3, <1>4, <1>5

\* So does everything that is said of a session.
LEMMA GrowsSession ==
    ASSUME Grows, log \in Seq(Kinds), NEW s, SessionOk(s)
    PROVE  SessionOk(s)'
<1>1. Len(log) \in Nat /\ Len(log') \in Nat /\ s \in Sessions
  BY DEF Grows, SessionOk
<1>2. s.pc \in Connected => SentIsKnown(s)'
  <2>1. s.next \in Nat /\ s.tail \in Nat /\ Len(log) <= Len(log')
    BY <1>1 DEF Sessions, Grows
  <2>2. \A e : Known(e) => Known(e)'
    BY GrowsKnown
  <2>3. s.pc \in Connected => SentIsKnown(s)
    BY DEF SessionOk
  <2>4. s.pc \in Connected => s.next <= Len(log') + 1 /\ s.tail <= Len(log')
    BY <1>1, <2>1, <2>3 DEF SentIsKnown
  <2> QED BY <2>2, <2>3, <2>4 DEF SentIsKnown
<1>3. s.pc \in Connected => CatchingUpOk(s)'
  BY <1>1, GrowsKnown DEF SessionOk, CatchingUpOk, Sessions
<1>4. s.pc \in Connected => BroadcastsCounted(s)'
  <2>1. s.pc \in Connected => \A e \in s.resume + 1 .. s.next - 1 : e \in 1 .. Len(log)
    BY <1>1 DEF SessionOk, SentIsKnown, Sessions
  <2> QED BY <1>1, <2>1, GrowsKnown DEF SessionOk, BroadcastsCounted
<1>5. s.pc \in Connected => PendingIsReal(s)'
  <2>1. s.pend # 0 /\ s.pend <= Len(log) => s.pend \in 1 .. Len(log)
    BY <1>1 DEF Sessions
  <2> QED BY <1>1, <2>1, GrowsKnown DEF SessionOk, PendingIsReal, Grows, Sessions
<1>6. /\ s.pc = "clearing" => expired' # 0
      /\ \A e \in s.recent : Known(e)'
      /\ Lines(s.kept)'
  BY <1>1, GrowsKnown DEF SessionOk, Grows
<1> QED BY <1>1, <1>2, <1>3, <1>4, <1>5, <1>6 DEF SessionOk

\* A step of one process, or of none.
LEMMA SetInv ==
    ASSUME StreamInv, Grows, NEW p \in Procs, NEW s, Set(p, s), SessionOk(s)',
           cursor' \in Nat, AllKnown(cursor)', Lines(file)', skipped' \subseteq Nat,
           wrote' \in [Procs -> SUBSET Nat]
    PROVE  StreamInv'
<1> USE DEF StreamInv
<1>2. /\ DOMAIN proc' = Procs /\ proc'[p] = s
      /\ \A q \in Procs : q # p => proc'[q] = proc[q]
  BY DEF Set
<1>3. \A q \in Procs : SessionOk(proc[q])'
  <2> SUFFICES ASSUME NEW q \in Procs PROVE SessionOk(proc[q])'
    OBVIOUS
  <2>1. CASE q = p
    BY <1>2, <2>1
  <2>2. CASE q # p
    <3>1. SessionOk(proc[q]) /\ proc'[q] = proc[q]
      BY <1>2, <2>2
    <3> DEFINE r == proc[q]
    <3>2. SessionOk(r)'
      BY <3>1, GrowsSession
    <3> QED BY <3>1, <3>2
  <2> QED BY <2>1, <2>2
<1>4. proc' \in [Procs -> Sessions]
  BY <1>2, <1>3 DEF Set, SessionOk
<1> QED BY <1>2, <1>3, <1>4 DEF Grows

-----------------------------------------------------------------------------
(* The operations on a session.                                            *)

\* t is s, but for the cursors, what is pending and where the event stands.
SameServer(t, s) ==
    /\ t.resume = s.resume /\ t.next = s.next /\ t.tail = s.tail /\ t.live = s.live
    /\ t.catchingUp = s.catchingUp

\* The types of a session's fields.
LEMMA SessionNumbers ==
    ASSUME NEW s \in Sessions
    PROVE  /\ s.last \in Nat /\ s.hwm \in Nat /\ s.bhwm \in Nat /\ s.pend \in Nat /\ s.ev \in Nat
           /\ s.resume \in Nat /\ s.next \in Nat \ {0} /\ s.tail \in Nat
           /\ s.recent \subseteq Nat /\ s.order \in Seq(Nat) /\ s.kept \in Seq(Nat)
           /\ s.catchingUp \in BOOLEAN /\ s.live \in BOOLEAN
BY DEF Sessions

\* markEventPersisted moves the cursor in memory to e, or leaves it.
LEMMA MarkEvent ==
    ASSUME NEW s \in Sessions, NEW e \in Nat
    PROVE  LET t == markEventPersisted(s, e)
           IN  /\ t \in Sessions /\ SameServer(t, s) /\ t.pc = s.pc /\ t.ev = s.ev
               /\ t.recent = s.recent /\ t.kept = s.kept /\ t.bhwm = s.bhwm /\ t.pend = s.pend
               /\ (t.hwm = s.hwm /\ t.last = s.last) \/ (t.hwm = e /\ t.last = e)
BY DEF markEventPersisted, Sessions, SameServer

\* markBroadcastPersisted covers e if it counts, and keeps only a divergence ahead of it.
LEMMA MarkBroadcast ==
    ASSUME NEW s \in Sessions, NEW e \in Nat
    PROVE  LET t == markBroadcastPersisted(s, e)
           IN  /\ t \in Sessions /\ SameServer(t, s) /\ t.pc = s.pc /\ t.ev = s.ev
               /\ t.recent = s.recent /\ t.kept = s.kept /\ t.hwm = s.hwm /\ t.last = s.last
               /\ s.bhwm <= t.bhwm /\ (InHwm(e) => e <= t.bhwm) /\ (t.bhwm \in {s.bhwm, e})
               /\ t.pend = 0 \/ (t.pend = s.pend /\ t.bhwm < t.pend)
<1> DEFINE b == IF InHwm(e) THEN later(s.bhwm, e) ELSE s.bhwm
           t == [s EXCEPT !.bhwm = b, !.pend = IF @ <= b THEN 0 ELSE @]
<1>1. b \in Nat /\ s.bhwm <= b /\ (InHwm(e) => e <= b) /\ b \in {s.bhwm, e} /\ s.pend \in Nat
  BY DEF later, Sessions
<1>2. markBroadcastPersisted(s, e) = t
  BY DEF markBroadcastPersisted
<1> HIDE DEF b
<1>3. /\ t \in Sessions /\ SameServer(t, s) /\ t.pc = s.pc /\ t.ev = s.ev
      /\ t.recent = s.recent /\ t.kept = s.kept /\ t.hwm = s.hwm /\ t.last = s.last
      /\ t.bhwm = b /\ t.pend = IF s.pend <= b THEN 0 ELSE s.pend
  BY <1>1 DEF Sessions, SameServer
<1> HIDE DEF t
<1>4. t.pend = 0 \/ (t.pend = s.pend /\ t.bhwm < t.pend)
  BY <1>1, <1>3
<1> QED BY <1>1, <1>2, <1>3, <1>4

\* Both, one after the other.
LEMMA MarkBoth ==
    ASSUME NEW s \in Sessions, NEW e \in Nat
    PROVE  LET t == markBroadcastPersisted(markEventPersisted(s, e), e)
           IN  /\ t \in Sessions /\ SameServer(t, s) /\ t.pc = s.pc /\ t.ev = s.ev
               /\ t.recent = s.recent /\ t.kept = s.kept
               /\ (t.hwm = s.hwm /\ t.last = s.last) \/ (t.hwm = e /\ t.last = e)
               /\ s.bhwm <= t.bhwm /\ (InHwm(e) => e <= t.bhwm)
               /\ t.pend = 0 \/ (t.pend = s.pend /\ t.bhwm < t.pend)
<1> DEFINE m == markEventPersisted(s, e)
           t == markBroadcastPersisted(m, e)
<1>1. /\ m \in Sessions /\ SameServer(m, s) /\ m.pc = s.pc /\ m.ev = s.ev
      /\ m.recent = s.recent /\ m.kept = s.kept /\ m.bhwm = s.bhwm /\ m.pend = s.pend
      /\ (m.hwm = s.hwm /\ m.last = s.last) \/ (m.hwm = e /\ m.last = e)
  BY MarkEvent
<1> HIDE DEF m
<1>2. /\ t \in Sessions /\ SameServer(t, m) /\ t.pc = m.pc /\ t.ev = m.ev
      /\ t.recent = m.recent /\ t.kept = m.kept /\ t.hwm = m.hwm /\ t.last = m.last
      /\ m.bhwm <= t.bhwm /\ (InHwm(e) => e <= t.bhwm)
      /\ t.pend = 0 \/ (t.pend = m.pend /\ t.bhwm < t.pend)
  BY <1>1, MarkBroadcast
<1> HIDE DEF t
<1>3. SameServer(t, s)
  BY <1>1, <1>2 DEF SameServer
<1>4. /\ t \in Sessions /\ SameServer(t, s) /\ t.pc = s.pc /\ t.ev = s.ev
      /\ t.recent = s.recent /\ t.kept = s.kept
      /\ (t.hwm = s.hwm /\ t.last = s.last) \/ (t.hwm = e /\ t.last = e)
      /\ s.bhwm <= t.bhwm /\ (InHwm(e) => e <= t.bhwm)
      /\ t.pend = 0 \/ (t.pend = s.pend /\ t.bhwm < t.pend)
  BY <1>1, <1>2, <1>3
<1> QED BY <1>4 DEF t, m

\* The event of a session is done: everything sent is known, and it counts.
LEMMA EventDone ==
    ASSUME log \in Seq(Kinds), NEW s, SessionOk(s), s.pc \in Connected, NEW e \in 1 .. s.next - 1, Known(e),
           s.pc = "open" \/ e = s.ev,
           NEW t \in Sessions, SameServer(t, s), t.pc = "open" \/ (t.pc = "record" /\ t.ev = e),
           (t.hwm = s.hwm /\ t.last = s.last) \/ (t.hwm = e /\ t.last = e),
           s.bhwm <= t.bhwm, t.pend = 0 \/ t.pend = s.pend,
           t.pc = "open" => /\ InHwm(e) => e <= t.bhwm
                            /\ t.pend = 0 \/ t.bhwm < t.pend,
           \A x \in t.recent : x \in s.recent \/ x = e,
           Lines(t.kept)
    PROVE  SessionOk(t)
<1>1. s \in Sessions /\ SentIsKnown(s) /\ CatchingUpOk(s) /\ BroadcastsCounted(s) /\ PendingIsReal(s)
  BY DEF SessionOk
<1>0. /\ s.next \in Nat /\ s.resume \in Nat /\ s.bhwm \in Nat /\ s.pend \in Nat /\ t.bhwm \in Nat
      /\ t.pend \in Nat /\ Len(log) \in Nat /\ e \in Nat
  BY <1>1, SessionNumbers
<1>2. \A x \in 1 .. s.next - 1 : Known(x)
  BY <1>1 DEF SentIsKnown
<1>3. SentIsKnown(t)
  BY <1>1, <1>2, <1>0 DEF SentIsKnown, SameServer
<1>4. CatchingUpOk(t)
  <2>1. AllKnown(e)
    BY <1>1, <1>2, <1>0 DEF AllKnown, SentIsKnown
  <2> QED BY <1>1, <1>0, <2>1 DEF CatchingUpOk, SameServer
<1>5. BroadcastsCounted(t)
  <2> SUFFICES ASSUME NEW x \in t.resume + 1 .. t.next - 1, InHwm(x), t.pc = "open" \/ x # t.ev
               PROVE  x <= t.bhwm
    BY DEF BroadcastsCounted
  <2>1. x \in s.resume + 1 .. s.next - 1
    BY DEF SameServer
  <2>2. CASE x = e
    BY <2>2 DEF Connected
  <2>3. CASE x # e
    <3>1. x <= s.bhwm
      BY <1>1, <2>1, <2>3 DEF BroadcastsCounted
    <3> QED BY <1>0, <2>1, <3>1
  <2> QED BY <2>2, <2>3
<1>6. PendingIsReal(t)
  <2> SUFFICES ASSUME t.pend # 0
               PROVE  /\ t.pend <= Len(log) /\ InHwm(t.pend)
                      /\ t.next <= t.pend \/ (t.pc # "open" /\ t.ev = t.pend) \/ t.pend <= t.resume
    BY DEF PendingIsReal
  <2>1. t.pend = s.pend /\ s.pend # 0
    OBVIOUS
  <2>2. s.pend <= Len(log) /\ InHwm(s.pend)
        /\ (s.next <= s.pend \/ (s.pc # "open" /\ s.ev = s.pend) \/ s.pend <= s.resume)
    BY <1>1, <2>1 DEF PendingIsReal
  <2>3. CASE s.pc # "open" /\ s.ev = s.pend
    <3>1. e = t.pend /\ InHwm(e)
      BY <2>1, <2>2, <2>3
    <3>2. t.pc # "open"
      BY <1>0, <3>1
    <3> QED BY <2>1, <2>2, <3>1, <3>2
  <2> QED BY <1>0, <2>1, <2>2, <2>3 DEF SameServer
<1>7. \A x \in t.recent : Known(x)
  BY DEF SessionOk
<1>8. t.pc \in Connected /\ t.pc # "clearing"
  BY DEF Connected
<1> QED BY <1>3, <1>4, <1>5, <1>6, <1>7, <1>8 DEF SessionOk

\* The cursor in memory moves to something that was sent.
LEMMA CursorMoves ==
    ASSUME log \in Seq(Kinds), NEW s, SessionOk(s), s.pc = "open", NEW e \in 1 .. s.next - 1
    PROVE  SessionOk(markEventPersisted(s, e))
<1> DEFINE t == markEventPersisted(s, e)
<1>1. s \in Sessions /\ SentIsKnown(s) /\ CatchingUpOk(s) /\ BroadcastsCounted(s) /\ PendingIsReal(s)
  BY DEF SessionOk, Connected
<1>2. e \in Nat /\ s.next \in Nat /\ Len(log) \in Nat /\ s.resume \in Nat /\ e # 0
  BY <1>1, SessionNumbers
<1>3. /\ t \in Sessions /\ SameServer(t, s) /\ t.pc = s.pc /\ t.ev = s.ev
      /\ t.recent = s.recent /\ t.kept = s.kept /\ t.bhwm = s.bhwm /\ t.pend = s.pend
      /\ (t.hwm = s.hwm /\ t.last = s.last) \/ (t.hwm = e /\ t.last = e)
  BY <1>1, <1>2, MarkEvent
<1> HIDE DEF t
<1>4. AllKnown(e) /\ e < s.next
  BY <1>1, <1>2 DEF AllKnown, SentIsKnown
<1>5. CatchingUpOk(t)
  BY <1>1, <1>2, <1>3, <1>4 DEF CatchingUpOk, SameServer
<1>6. SentIsKnown(t) /\ BroadcastsCounted(t) /\ PendingIsReal(t)
  BY <1>1, <1>3 DEF SentIsKnown, BroadcastsCounted, PendingIsReal, SameServer
<1> QED BY <1>3, <1>5, <1>6 DEF SessionOk, t

\* A session that has ended, or begins anew.
LEMMA FreshType ==
    /\ Fresh \in Sessions /\ Fresh.pend = 0 /\ Fresh.recent = {} /\ Fresh.kept = <<>>
    /\ Fresh.last = 0 /\ Fresh.pc = "idle" /\ Fresh.bhwm = 0 /\ Fresh.ev = 0 /\ ~ Fresh.live
<1>1. <<>> \in Seq(Nat)
  OBVIOUS
<1> QED BY <1>1 DEF Fresh, Sessions

\* A process between two sessions satisfies what is said of sessions.
LEMMA FreshOk ==
    ASSUME NEW n \in Nat, NEW l \in {"idle", "stopped"}
    PROVE  SessionOk([Fresh EXCEPT !.last = n, !.pc = l])
<1> DEFINE s == [Fresh EXCEPT !.last = n, !.pc = l]
<1>1. s \in Sessions /\ s.pc = l /\ s.pend = 0 /\ s.recent = {} /\ s.kept = <<>>
  BY FreshType DEF Sessions
<1>2. Lines(<<>>)
  BY DEF Lines
<1> HIDE DEF s
<1>3. SessionOk(s)
  BY <1>1, <1>2 DEF SessionOk, Connected
<1> QED BY <1>3 DEF s

\* And so does one whose session has just ended.
LEMMA EndedOk ==
    ASSUME NEW s \in Sessions
    PROVE  SessionOk(Ended(s)) /\ SessionOk(Fresh) /\ SessionOk([Ended(s) EXCEPT !.pc = "stopped"])
<1>1. s.last \in Nat
  BY DEF Sessions
<1>2. SessionOk([Fresh EXCEPT !.last = 0, !.pc = "idle"])
  BY FreshOk
<1>3. [Fresh EXCEPT !.last = 0, !.pc = "idle"] = Fresh
  BY FreshType DEF Sessions
<1>4. Ended(s) = [Fresh EXCEPT !.last = s.last, !.pc = "idle"]
  BY FreshType DEF Ended, Sessions
<1>5. [Ended(s) EXCEPT !.pc = "stopped"] = [Fresh EXCEPT !.last = s.last, !.pc = "stopped"]
  BY FreshType DEF Ended, Sessions
<1>6. SessionOk([Fresh EXCEPT !.last = s.last, !.pc = "idle"]) /\ SessionOk([Fresh EXCEPT !.last = s.last, !.pc = "stopped"])
  BY <1>1, FreshOk
<1> QED BY <1>2, <1>3, <1>4, <1>5, <1>6

-----------------------------------------------------------------------------
(* Steps.                                                                  *)

\* Only the session of p changes.
LEMMA SessionStep ==
    ASSUME StreamInv, NEW p \in Procs, NEW s, Set(p, s), SessionOk(s),
           UNCHANGED <<external, cursor, file, history>>
    PROVE  StreamInv'
<1>1. UNCHANGED <<log, expired, cursor, file, wrote, skipped>>
  BY DEF external, history
<1>2. Grows
  BY <1>1 DEF Grows, StreamInv
<1>3. SessionOk(s)'
  BY <1>2, GrowsSession DEF StreamInv
<1>4. AllKnown(cursor)' /\ Lines(file)'
  BY <1>1 DEF AllKnown, Lines, Known, Inbound, StreamInv
<1> QED BY <1>1, <1>2, <1>3, <1>4, SetInv DEF StreamInv

\* A connection without a cursor starts at the tail; one with it behind what is known.
LEMMA ConnectInv ==
    ASSUME StreamInv, NEW p \in Procs, Connect(p)
    PROVE  StreamInv'
<1> DEFINE resume == IF cursor = 0 THEN Len(log) ELSE cursor
<1>1. PICK from, s :
          /\ from \in {resume + 1} \cup ({cursor} \ {0})
          /\ s = [Fresh EXCEPT !.pc = "open", !.last = proc[p].last, !.hwm = cursor,
                               !.catchingUp = cursor # 0 \/ proc[p].last # 0,
                               !.resume = resume, !.next = from, !.tail = Len(log)]
          /\ Set(p, s)
  BY DEF Connect
<1>2. /\ UNCHANGED <<log, expired, cursor, file, wrote>>
      /\ skipped' = IF cursor = 0 THEN skipped \cup (1 .. Len(log)) ELSE skipped
  BY DEF Connect, external
<1>3. /\ Len(log) \in Nat /\ cursor \in Nat /\ cursor <= Len(log) /\ proc[p].last \in Nat
      /\ log \in Seq(Kinds) /\ expired \in Nat
  BY DEF StreamInv, AllKnown, Sessions
<1>4. resume \in Nat /\ resume <= Len(log) /\ from \in Nat \ {0} /\ from <= resume + 1
      /\ (cursor # 0 => resume = cursor) /\ (cursor = 0 => from = Len(log) + 1)
  <2>1. from \in {resume + 1} \cup ({cursor} \ {0})
    BY <1>1
  <2> QED BY <1>3, <2>1
<1> HIDE DEF resume
<1>5. /\ s \in Sessions /\ s.pc = "open" /\ s.pend = 0 /\ s.recent = {} /\ s.kept = <<>>
      /\ s.hwm = cursor /\ s.last = proc[p].last /\ (s.catchingUp <=> cursor # 0 \/ proc[p].last # 0)
      /\ s.resume = resume /\ s.next = from /\ s.tail = Len(log) /\ ~ s.live
  BY <1>1, <1>3, <1>4, FreshType DEF Sessions, Connected
<1>6. Grows
  BY <1>2, <1>3 DEF Grows
<1>7. \A e \in 1 .. resume : Known(e)'
  <2>1. CASE cursor = 0
    BY <1>2, <1>3, <1>4, <2>1 DEF Known
  <2>2. CASE cursor # 0
    BY <1>3, <1>4, <1>6, <2>2, GrowsKnown DEF StreamInv, AllKnown
  <2> QED BY <2>1, <2>2
<1>8. AllKnown(cursor)' /\ Lines(file)' /\ AllKnown(s.hwm)'
  <2>1. AllKnown(cursor) => AllKnown(cursor)'
    BY <1>2, <1>3, <1>6, GrowsKnown
  <2>2. Lines(file)'
    BY <1>2, <1>3, <1>6, GrowsKnown DEF StreamInv
  <2> QED BY <1>2, <1>5, <2>1, <2>2 DEF StreamInv
<1>9. SentIsKnown(s)'
  BY <1>2, <1>3, <1>4, <1>5, <1>7 DEF SentIsKnown
<1>10. CatchingUpOk(s)'
  BY <1>3, <1>4, <1>5, <1>8 DEF CatchingUpOk
<1>11. BroadcastsCounted(s)' /\ PendingIsReal(s)'
  BY <1>3, <1>4, <1>5 DEF BroadcastsCounted, PendingIsReal
<1>12. Lines(<<>>)'
  BY DEF Lines
<1>13. SessionOk(s)'
  BY <1>5, <1>9, <1>10, <1>11, <1>12 DEF SessionOk, Connected
<1>14. skipped' \subseteq Nat /\ cursor' \in Nat /\ wrote' \in [Procs -> SUBSET Nat]
  <2>1. skipped \subseteq Nat /\ wrote \in [Procs -> SUBSET Nat] /\ 1 .. Len(log) \subseteq Nat
    BY <1>3 DEF StreamInv
  <2> QED BY <1>2, <1>3, <2>1
<1> QED BY <1>1, <1>6, <1>8, <1>13, <1>14, SetInv

\* An event at hand: but for it, everything sent is known and counted.
LEMMA RouteOk ==
    ASSUME log \in Seq(Kinds), NEW p, NEW s \in Sessions, s.pc = "open", NEW e \in 1 .. s.next - 1,
           SessionOk([s EXCEPT !.pc = "append", !.ev = e]),
           NEW nonce \in BOOLEAN, NEW pending \in BOOLEAN,
           (nonce /\ ~ pending) \/ alreadyPersisted(s, e, nonce) => SessionOk(s),
           Route(p, s, e, nonce, pending)
    PROVE  \E t : Set(p, t) /\ SessionOk(t)
<1> DEFINE a == [s EXCEPT !.pc = "append", !.ev = e]
           seen == markBroadcastPersisted(markEventPersisted(s, e), e)
           rec(t) == [t EXCEPT !.pc = "record", !.ev = e]
<1>1. s.next \in Nat /\ e \in Nat /\ e # 0
  BY SessionNumbers
<1>2. /\ a \in Sessions /\ SameServer(a, s) /\ a.pc = "append" /\ a.ev = e /\ a.hwm = s.hwm
      /\ a.last = s.last /\ a.bhwm = s.bhwm /\ a.pend = s.pend /\ a.recent = s.recent /\ a.kept = s.kept
  BY <1>1 DEF Sessions, SameServer, Connected
<1>3. /\ seen \in Sessions /\ SameServer(seen, s) /\ seen.pc = "open"
      /\ seen.recent = s.recent /\ seen.kept = s.kept
      /\ (seen.hwm = s.hwm /\ seen.last = s.last) \/ (seen.hwm = e /\ seen.last = e)
      /\ s.bhwm <= seen.bhwm /\ (InHwm(e) => e <= seen.bhwm)
      /\ seen.pend = 0 \/ (seen.pend = s.pend /\ seen.bhwm < seen.pend)
  BY <1>1, MarkBoth
<1> HIDE DEF a, seen
<1>4. SessionOk(a) /\ a.pc \in Connected /\ e \in 1 .. a.next - 1 /\ Lines(a.kept)
      /\ \A x \in a.recent : Known(x)
  BY <1>2 DEF SessionOk, Connected, SameServer, a
<1>5. e \in s.recent => SessionOk(seen)
  <2> SUFFICES ASSUME e \in s.recent PROVE SessionOk(seen)
    OBVIOUS
  <2>1. Known(e) /\ SameServer(seen, a)
    BY <1>2, <1>3, <1>4 DEF SameServer
  <2> QED BY <1>2, <1>3, <1>4, <2>1, EventDone
<1>6. ASSUME NEW t \in {s, seen}, Known(e), t = s \/ e \in s.recent
      PROVE  SessionOk(rec(t))
  <2>1. /\ t \in Sessions /\ SameServer(t, s) /\ t.recent = s.recent /\ t.kept = s.kept
        /\ (t.hwm = s.hwm /\ t.last = s.last) \/ (t.hwm = e /\ t.last = e)
        /\ s.bhwm <= t.bhwm /\ (t.pend = 0 \/ t.pend = s.pend)
    BY <1>3, SessionNumbers DEF SameServer
  <2> DEFINE r == rec(t)
  <2>2. /\ r \in Sessions /\ SameServer(r, t) /\ r.pc = "record" /\ r.ev = e /\ r.hwm = t.hwm
        /\ r.last = t.last /\ r.bhwm = t.bhwm /\ r.pend = t.pend /\ r.recent = t.recent /\ r.kept = t.kept
    BY <1>1, <2>1 DEF Sessions, SameServer, Connected
  <2> HIDE DEF r
  <2>3. SameServer(r, a)
    BY <1>2, <2>1, <2>2 DEF SameServer
  <2>4. SessionOk(r)
    BY <1>2, <1>4, <1>6, <2>1, <2>2, <2>3, EventDone
  <2> QED BY <2>4 DEF r
<1>7. CASE e \in s.recent /\ Set(p, seen)
  BY <1>5, <1>7
<1>8. CASE (~ Inbound(e) \/ e \in s.recent) /\ Set(p, rec(IF e \in s.recent THEN seen ELSE s))
  <2>1. Known(e)
    <3>1. CASE e \in s.recent
      BY <1>2, <1>4, <3>1
    <3>2. CASE ~ Inbound(e)
      <4>1. a.next <= Len(log) + 1 /\ Len(log) \in Nat
        BY <1>4 DEF SessionOk, SentIsKnown
      <4> QED BY <1>1, <1>2, <3>2, <4>1 DEF Known, SameServer
    <3> QED BY <1>8, <3>1, <3>2
  <2> HIDE DEF rec
  <2> QED BY <1>6, <1>8, <2>1
<1>9. CASE SessionOk(s) /\ Set(p, markEventPersisted(s, e))
  BY <1>9, CursorMoves
<1>10. CASE Set(p, a)
  BY <1>4, <1>10
<1> QED
  <2>1. \/ e \in s.recent /\ Set(p, seen)
        \/ (~ Inbound(e) \/ e \in s.recent) /\ Set(p, rec(IF e \in s.recent THEN seen ELSE s))
        \/ ((nonce /\ ~ pending) \/ alreadyPersisted(s, e, nonce)) /\ Set(p, markEventPersisted(s, e))
        \/ Set(p, a)
    BY DEF Route, a, seen
  <2> QED BY <1>7, <1>8, <1>9, <1>10, <2>1

\* The next entry: known already, recorded only, or its line is due.
LEMMA ReceiveInv ==
    ASSUME StreamInv, NEW p \in Procs, Receive(p)
    PROVE  StreamInv'
<1>1. PICK s0, e, s : s0 = proc[p] /\ e = s0.next /\ s = [s0 EXCEPT !.next = @ + 1]
  OBVIOUS
<1>2. /\ s0.pc = "open" /\ (e <= IF s0.live THEN Len(log) ELSE s0.tail)
      /\ Route(p, s, e, FALSE, TRUE) /\ UNCHANGED <<external, cursor, file, history>>
  BY <1>1 DEF Receive, history
<1>3. SessionOk(s0) /\ s0 \in Sessions /\ log \in Seq(Kinds) /\ Len(log) \in Nat
      /\ SentIsKnown(s0) /\ CatchingUpOk(s0) /\ BroadcastsCounted(s0) /\ PendingIsReal(s0)
  BY <1>1, <1>2 DEF StreamInv, SessionOk, Connected
<1>4. e \in Nat \ {0} /\ s0.tail \in Nat /\ s0.resume \in Nat /\ s0.bhwm \in Nat /\ s0.pend \in Nat
      /\ s0.hwm \in Nat /\ s0.live \in BOOLEAN /\ s0.catchingUp \in BOOLEAN
  BY <1>1, <1>3, SessionNumbers
<1>5. e <= Len(log)
  BY <1>2, <1>3, <1>4 DEF SentIsKnown
<1>6. PICK a : a = [s EXCEPT !.pc = "append", !.ev = e]
  OBVIOUS
<1>7. /\ s \in Sessions /\ s.pc = "open" /\ s.next = e + 1 /\ s.resume = s0.resume /\ s.tail = s0.tail
      /\ s.live = s0.live /\ s.catchingUp = s0.catchingUp /\ s.hwm = s0.hwm /\ s.last = s0.last
      /\ s.bhwm = s0.bhwm /\ s.pend = s0.pend /\ s.recent = s0.recent /\ s.kept = s0.kept /\ s.ev = s0.ev
  <2>1. e + 1 \in Nat \ {0} /\ s = [s0 EXCEPT !.next = e + 1]
    BY <1>1, <1>4
  <2>2. \A n \in Nat \ {0} : [s0 EXCEPT !.next = n] \in Sessions
    BY <1>3 DEF Sessions
  <2>3. DOMAIN s0 = {"pc", "last", "hwm", "bhwm", "pend", "catchingUp", "recent", "order", "ev", "kept",
                     "doomed", "resume", "next", "tail", "live", "silent"}
    BY <1>3 DEF Sessions
  <2> QED BY <1>2, <2>1, <2>2, <2>3
<1>8. /\ a \in Sessions /\ a.pc = "append" /\ a.ev = e /\ a.next = e + 1 /\ a.resume = s0.resume
      /\ a.tail = s0.tail /\ a.live = s0.live /\ a.catchingUp = s0.catchingUp /\ a.hwm = s0.hwm
      /\ a.last = s0.last /\ a.bhwm = s0.bhwm /\ a.pend = s0.pend /\ a.recent = s0.recent /\ a.kept = s0.kept
  BY <1>4, <1>6, <1>7 DEF Sessions, Connected
<1>9. SessionOk(a)
  <2>1. SentIsKnown(a)
    BY <1>1, <1>2, <1>3, <1>4, <1>5, <1>8 DEF SentIsKnown
  <2>2. CatchingUpOk(a)
    BY <1>1, <1>3, <1>4, <1>8 DEF CatchingUpOk
  <2>3. BroadcastsCounted(a)
    BY <1>1, <1>2, <1>3, <1>4, <1>8 DEF BroadcastsCounted
  <2>4. PendingIsReal(a)
    BY <1>1, <1>2, <1>3, <1>4, <1>8 DEF PendingIsReal
  <2> QED BY <1>3, <1>8, <2>1, <2>2, <2>3, <2>4 DEF SessionOk, Connected
<1>10. alreadyPersisted(s, e, FALSE) => SessionOk(s)
  <2> SUFFICES ASSUME alreadyPersisted(s, e, FALSE) PROVE SessionOk(s)
    OBVIOUS
  <2>1. s0.catchingUp /\ (s0.hwm = 0 \/ e <= s0.hwm)
    BY <1>7 DEF alreadyPersisted, atOrBeforeResumeCursor, consultInboxFile
  <2>2. s0.hwm # 0
    BY <1>1, <1>2, <1>3, <1>4, <2>1 DEF CatchingUpOk
  <2>3. e <= s0.resume /\ Known(e)
    BY <1>1, <1>3, <1>4, <2>1, <2>2 DEF CatchingUpOk, AllKnown
  <2>4. SentIsKnown(s)
    BY <1>1, <1>2, <1>3, <1>4, <1>5, <1>7, <2>3 DEF SentIsKnown
  <2>5. CatchingUpOk(s)
    BY <1>1, <1>3, <1>4, <1>7 DEF CatchingUpOk
  <2>6. BroadcastsCounted(s)
    BY <1>1, <1>2, <1>3, <1>4, <1>7, <2>3 DEF BroadcastsCounted
  <2>7. PendingIsReal(s)
    BY <1>1, <1>2, <1>3, <1>4, <1>7, <2>3 DEF PendingIsReal
  <2> QED BY <1>3, <1>7, <2>4, <2>5, <2>6, <2>7 DEF SessionOk, Connected
<1>11. e \in 1 .. s.next - 1
  BY <1>4, <1>7
<1>12. \E t : Set(p, t) /\ SessionOk(t)
  BY <1>2, <1>3, <1>6, <1>7, <1>9, <1>10, <1>11, RouteOk
<1> QED BY <1>2, <1>12, SessionStep

\* A re-ping of an entry that was sent.
LEMMA RepingInv ==
    ASSUME StreamInv, NEW p \in Procs, NEW e \in 1 .. Len(log), NEW pending \in BOOLEAN,
           Reping(p, e, pending)
    PROVE  StreamInv'
<1>1. PICK s, a : s = proc[p] /\ a = [s EXCEPT !.pc = "append", !.ev = e]
  OBVIOUS
<1>2. /\ s.pc = "open" /\ e < s.next /\ Route(p, s, e, TRUE, pending)
      /\ UNCHANGED <<external, cursor, file, history>>
  BY <1>1 DEF Reping, history
<1>3. SessionOk(s) /\ s \in Sessions /\ log \in Seq(Kinds) /\ Len(log) \in Nat
      /\ SentIsKnown(s) /\ CatchingUpOk(s) /\ BroadcastsCounted(s) /\ PendingIsReal(s)
  BY <1>1, <1>2 DEF StreamInv, SessionOk, Connected
<1>4. e \in Nat \ {0} /\ s.next \in Nat
  BY <1>3, SessionNumbers
<1>5. /\ a \in Sessions /\ a.pc = "append" /\ a.ev = e /\ SameServer(a, s) /\ a.hwm = s.hwm
      /\ a.last = s.last /\ a.bhwm = s.bhwm /\ a.pend = s.pend /\ a.recent = s.recent /\ a.kept = s.kept
  BY <1>1, <1>3, <1>4 DEF Sessions, Connected, SameServer
<1>6. SessionOk(a)
  <2>1. SentIsKnown(a)
    BY <1>2, <1>3, <1>5 DEF SentIsKnown, SameServer
  <2>2. CatchingUpOk(a)
    BY <1>3, <1>5 DEF CatchingUpOk, SameServer
  <2>3. BroadcastsCounted(a)
    BY <1>2, <1>3, <1>5 DEF BroadcastsCounted, SameServer
  <2>4. PendingIsReal(a)
    BY <1>2, <1>3, <1>5 DEF PendingIsReal, SameServer
  <2> QED BY <1>3, <1>5, <2>1, <2>2, <2>3, <2>4 DEF SessionOk, Connected
<1>7. e \in 1 .. s.next - 1
  BY <1>2, <1>4
<1>8. \E t : Set(p, t) /\ SessionOk(t)
  BY <1>1, <1>2, <1>3, <1>6, <1>7, RouteOk
<1> QED BY <1>2, <1>8, SessionStep

\* The event stays where it is: its line is in the file.
LEMMA Appended ==
    ASSUME NEW s, SessionOk(s), s.pc \in {"append", "trim", "rename"}, s.pc = "append" => s.ev = 0 \/ Known(s.ev),
           NEW t \in Sessions, SameServer(t, s), t.ev = s.ev, t.hwm = s.hwm, t.last = s.last,
           t.bhwm = s.bhwm, t.pend = s.pend, t.recent = s.recent, Lines(t.kept),
           t.pc \in {"trim", "rename"} \/ (t.pc = "record" /\ t.ev # 0)
    PROVE  SessionOk(t)
<1>1. s \in Sessions /\ SentIsKnown(s) /\ CatchingUpOk(s) /\ BroadcastsCounted(s) /\ PendingIsReal(s)
  BY DEF SessionOk, Connected
<1>2. \A x \in 1 .. s.next - 1 : Known(x)
  BY <1>1 DEF SentIsKnown
<1>3. SentIsKnown(t)
  BY <1>1, <1>2 DEF SentIsKnown, SameServer
<1>4. CatchingUpOk(t)
  BY <1>1 DEF CatchingUpOk, SameServer
<1>5. BroadcastsCounted(t) /\ PendingIsReal(t)
  BY <1>1 DEF BroadcastsCounted, PendingIsReal, SameServer
<1> QED BY <1>3, <1>4, <1>5 DEF SessionOk, Connected

\* The line that was due is in the file, and its entry is known from then on.
LEMMA AppendLineInv ==
    ASSUME StreamInv, NEW p \in Procs, AppendLine(p)
    PROVE  StreamInv'
<1>1. PICK s, t : s = proc[p] /\ t = [s EXCEPT !.pc = "trim"]
  OBVIOUS
<1>2. /\ s.pc = "append" /\ file' = Append(file, s.ev) /\ Set(p, t)
      /\ wrote' = [wrote EXCEPT ![p] = @ \cup ({s.ev} \ {0})]
      /\ UNCHANGED <<log, expired, cursor, skipped>>
  BY <1>1 DEF AppendLine, external
<1>3. SessionOk(s) /\ s \in Sessions /\ log \in Seq(Kinds) /\ Len(log) \in Nat /\ SentIsKnown(s)
      /\ s.ev \in Nat /\ s.next \in Nat \ {0}
  BY <1>1, <1>2, SessionNumbers DEF StreamInv, SessionOk, Connected
<1>4. /\ wrote \in [Procs -> SUBSET Nat] /\ wrote' \in [Procs -> SUBSET Nat]
      /\ \A q \in Procs : wrote[q] \subseteq wrote'[q]
      /\ s.ev # 0 => s.ev \in wrote'[p]
  BY <1>2, <1>3 DEF StreamInv
<1>5. Grows
  BY <1>2, <1>4 DEF Grows, StreamInv
<1>6. s.ev = 0 \/ Known(s.ev)'
  <2>1. s.ev < s.next /\ s.next <= Len(log) + 1
    BY <1>2, <1>3 DEF SentIsKnown
  <2>2. s.ev # 0 => s.ev \in 1 .. Len(log')
    BY <1>2, <1>3, <2>1
  <2> QED BY <1>4, <2>2 DEF Known
<1>7. Lines(file)'
  <2>1. PICK f, g : f = file /\ g = Append(file, s.ev)
    OBVIOUS
  <2>2. Lines(f)'
    BY <1>3, <1>5, <2>1, GrowsKnown DEF StreamInv
  <2>3. f \in Seq(Nat) /\ Len(f) \in Nat /\ \A i \in 1 .. Len(f) : f[i] = 0 \/ Known(f[i])'
    BY <2>2 DEF Lines
  <2>4. /\ g \in Seq(Nat) /\ Len(g) = Len(f) + 1
        /\ \A i \in 1 .. Len(g) : (i \in 1 .. Len(f) /\ g[i] = f[i]) \/ g[i] = s.ev
    BY <1>3, <2>1, <2>3
  <2>5. \A i \in 1 .. Len(g) : g[i] = 0 \/ Known(g[i])'
    BY <1>6, <2>3, <2>4
  <2>6. Lines(g)' /\ file' = g
    BY <1>2, <2>1, <2>4, <2>5 DEF Lines
  <2> QED BY <2>6
<1>8. /\ t \in Sessions /\ SameServer(t, s) /\ t.ev = s.ev /\ t.hwm = s.hwm /\ t.last = s.last
      /\ t.bhwm = s.bhwm /\ t.pend = s.pend /\ t.recent = s.recent /\ t.kept = s.kept /\ t.pc = "trim"
  BY <1>1, <1>3 DEF Sessions, SameServer, Connected
<1>9. SessionOk(s)'
  BY <1>3, <1>5, GrowsSession
<1>10. SessionOk(t)'
  <2>1. Lines(t.kept)'
    BY <1>8, <1>9 DEF SessionOk
  <2>2. SentIsKnown(s)' /\ CatchingUpOk(s)' /\ BroadcastsCounted(s)' /\ PendingIsReal(s)'
    BY <1>2, <1>9 DEF SessionOk, Connected
  <2>3. SentIsKnown(t)'
    <3>1. \A x \in 1 .. s.next - 1 : Known(x)'
      <4> SUFFICES ASSUME NEW x \in 1 .. s.next - 1 PROVE Known(x)'
        OBVIOUS
      <4>1. Known(x)' \/ x = s.ev
        BY <2>2 DEF SentIsKnown
      <4>2. x # 0
        BY <1>3
      <4> QED BY <1>6, <4>1, <4>2
    <3> QED BY <1>2, <1>8, <2>2, <3>1 DEF SentIsKnown, SameServer
  <2>4. CatchingUpOk(t)'
    BY <1>8, <2>2 DEF CatchingUpOk, SameServer
  <2>5. BroadcastsCounted(t)' /\ PendingIsReal(t)'
    BY <1>2, <1>8, <2>2 DEF BroadcastsCounted, PendingIsReal, SameServer
  <2> QED BY <1>8, <1>9, <2>1, <2>3, <2>4, <2>5 DEF SessionOk, Connected
<1>11. cursor' \in Nat /\ AllKnown(cursor)' /\ skipped' \subseteq Nat
  <2>1. AllKnown(cursor) /\ cursor \in Nat /\ skipped \subseteq Nat
    BY DEF StreamInv
  <2>2. \A n \in Nat : AllKnown(n) => AllKnown(n)'
    BY <1>3, <1>5, GrowsKnown
  <2> QED BY <1>2, <2>1, <2>2
<1> QED BY <1>2, <1>4, <1>5, <1>7, <1>10, <1>11, SetInv

\* After the append: the event is to be recorded, or the session ends.
LEMMA AfterAppendOk ==
    ASSUME NEW s, SessionOk(s), s.pc \in {"trim", "rename"}
    PROVE  SessionOk(AfterAppend(s))
<1>1. s \in Sessions
  BY DEF SessionOk
<1>2. CASE s.ev = 0
  BY <1>1, <1>2, EndedOk DEF AfterAppend
<1>3. CASE s.ev # 0
  <2>1. PICK t : t = [s EXCEPT !.pc = "record", !.kept = <<>>]
    OBVIOUS
  <2>2. <<>> \in Seq(Nat)
    OBVIOUS
  <2>3. /\ t \in Sessions /\ SameServer(t, s) /\ t.ev = s.ev /\ t.hwm = s.hwm /\ t.last = s.last
        /\ t.bhwm = s.bhwm /\ t.pend = s.pend /\ t.recent = s.recent /\ t.kept = <<>> /\ t.pc = "record"
    BY <1>1, <2>1, <2>2 DEF Sessions, SameServer, Connected
  <2>4. Lines(<<>>)
    BY DEF Lines
  <2>5. SessionOk(t)
    BY <1>3, <2>3, <2>4, Appended
  <2> QED BY <1>3, <2>1, <2>5 DEF AfterAppend
<1> QED BY <1>2, <1>3

\* The newest lines that a trim read are lines of the file.
LEMMA TrimReadInv ==
    ASSUME StreamInv, NEW p \in Procs, TrimRead(p)
    PROVE  StreamInv'
<1>1. PICK s, t : /\ s = proc[p]
                  /\ t = IF Len(file) <= 2 * InboxCap THEN AfterAppend(s)
                         ELSE [s EXCEPT !.pc = "rename", !.kept = NewestLines(file)]
  OBVIOUS
<1>2. s.pc = "trim" /\ Set(p, t) /\ UNCHANGED <<external, cursor, file, history>>
  BY <1>1 DEF TrimRead
<1>3. SessionOk(s) /\ s \in Sessions /\ Lines(file)
  BY <1>1 DEF StreamInv, SessionOk
<1>4. CASE Len(file) <= 2 * InboxCap
  BY <1>1, <1>2, <1>3, <1>4, AfterAppendOk, SessionStep
<1>5. CASE ~ (Len(file) <= 2 * InboxCap)
  <2>1. PICK k : k = NewestLines(file)
    OBVIOUS
  <2>2. Lines(k)
    <3>1. file \in Seq(Nat) /\ Len(file) \in Nat /\ InboxCap \in Nat
      BY <1>3, StreamAssumption DEF Lines
    <3>2. PICK m : m = Len(file) - InboxCap + 1
      OBVIOUS
    <3>3. m \in Nat /\ m >= 1 /\ m <= Len(file) + 1
      BY <1>5, <3>1, <3>2
    <3>4. /\ k \in Seq(Nat) /\ Len(k) = Len(file) - m + 1
          /\ \A i \in 1 .. Len(k) : k[i] = file[m + i - 1] /\ m + i - 1 \in 1 .. Len(file)
      BY <2>1, <3>1, <3>2, <3>3 DEF NewestLines
    <3> QED BY <1>3, <3>4 DEF Lines
  <2>3. /\ t \in Sessions /\ SameServer(t, s) /\ t.ev = s.ev /\ t.hwm = s.hwm /\ t.last = s.last
        /\ t.bhwm = s.bhwm /\ t.pend = s.pend /\ t.recent = s.recent /\ t.kept = k /\ t.pc = "rename"
    <3>1. k \in Seq(Nat) /\ t = [s EXCEPT !.pc = "rename", !.kept = k]
      BY <1>1, <1>5, <2>1, <2>2 DEF Lines
    <3> QED BY <1>3, <3>1 DEF Sessions, SameServer, Connected
  <2>4. SessionOk(t)
    BY <1>2, <1>3, <2>2, <2>3, Appended
  <2> QED BY <1>2, <2>4, SessionStep
<1> QED BY <1>4, <1>5

\* The file is replaced by lines that were in it.
LEMMA TrimRenameInv ==
    ASSUME StreamInv, NEW p \in Procs, TrimRename(p)
    PROVE  StreamInv'
<1>1. PICK s, t, k : s = proc[p] /\ t = AfterAppend(s) /\ k = s.kept
  OBVIOUS
<1>2. s.pc = "rename" /\ file' = k /\ Set(p, t) /\ UNCHANGED <<log, expired, cursor, wrote, skipped>>
  BY <1>1 DEF TrimRename, external, history
<1>3. SessionOk(s) /\ Lines(k)
  BY <1>1 DEF StreamInv, SessionOk
<1>4. Grows
  BY <1>2 DEF Grows, StreamInv
<1>5. Lines(k)' /\ SessionOk(t)'
  BY <1>1, <1>2, <1>3, <1>4, AfterAppendOk, GrowsKnown, GrowsSession DEF StreamInv
<1>6. Lines(file)'
  BY <1>2, <1>5
<1>7. AllKnown(cursor)'
  BY <1>2 DEF StreamInv, AllKnown, Known, Inbound
<1> QED BY <1>2, <1>4, <1>5, <1>6, <1>7, SetInv DEF StreamInv

\* The event is recorded in memory.
LEMMA RecordedFields ==
    ASSUME NEW s \in Sessions
    PROVE  LET t == Recorded(s)
           IN  /\ t \in Sessions /\ SameServer(t, s) /\ t.kept = s.kept
               /\ (t.hwm = s.hwm /\ t.last = s.last) \/ (t.hwm = s.ev /\ t.last = s.ev)
               /\ s.bhwm <= t.bhwm /\ (InHwm(s.ev) => s.ev <= t.bhwm)
               /\ t.pend = 0 \/ (t.pend = s.pend /\ t.bhwm < t.pend)
               /\ \A x \in t.recent : x \in s.recent \/ x = s.ev
<1>1. PICK r : r = Remember(s)
  OBVIOUS
<1>2. /\ r \in Sessions /\ SameServer(r, s) /\ r.kept = s.kept /\ r.hwm = s.hwm /\ r.last = s.last
      /\ r.bhwm = s.bhwm /\ r.pend = s.pend /\ \A x \in r.recent : x \in s.recent \/ x = s.ev
  <2>1. PICK ids, old : ids = Append(s.order, s.ev) /\ old = Head(ids)
    OBVIOUS
  <2>2. s.order \in Seq(Nat) /\ s.ev \in Nat /\ s.recent \subseteq Nat
    BY SessionNumbers
  <2>3. ids \in Seq(Nat) /\ ids # <<>> /\ Tail(ids) \in Seq(Nat)
    BY <2>1, <2>2
  <2>4. PICK a, b, c : a = s.recent \cup {s.ev} /\ b = a \ {old} /\ c = Tail(ids)
    OBVIOUS
  <2>5. a \subseteq Nat /\ b \subseteq Nat /\ \A x \in a \cup b : x \in s.recent \/ x = s.ev
    BY <2>2, <2>4
  <2>6. r = [s EXCEPT !.recent = a, !.order = ids] \/ r = [s EXCEPT !.recent = b, !.order = c]
    BY <1>1, <2>1, <2>4 DEF Remember
  <2> QED BY <2>3, <2>4, <2>5, <2>6 DEF Sessions, SameServer
<1>3. s.ev \in Nat
  BY SessionNumbers
<1>4. PICK e, t : e = s.ev /\ t = markBroadcastPersisted(markEventPersisted(r, e), e)
  OBVIOUS
<1>5. /\ t \in Sessions /\ SameServer(t, r) /\ t.recent = r.recent /\ t.kept = r.kept
      /\ (t.hwm = r.hwm /\ t.last = r.last) \/ (t.hwm = e /\ t.last = e)
      /\ r.bhwm <= t.bhwm /\ (InHwm(e) => e <= t.bhwm)
      /\ t.pend = 0 \/ (t.pend = r.pend /\ t.bhwm < t.pend)
  BY <1>2, <1>3, <1>4, MarkBoth
<1>6. t = Recorded(s)
  BY <1>1, <1>4 DEF Recorded
<1>7. SameServer(t, s)
  BY <1>2, <1>5 DEF SameServer
<1> QED BY <1>2, <1>4, <1>5, <1>6, <1>7

\* The cursor moves to an entry that is known with all before it, and never back.
LEMMA RecordSeenInv ==
    ASSUME StreamInv, NEW p \in Procs, RecordSeen(p)
    PROVE  StreamInv' /\ cursor <= cursor'
<1>1. PICK s, r, t, e : s = proc[p] /\ r = Recorded(s) /\ t = [r EXCEPT !.pc = "open", !.ev = 0] /\ e = s.ev
  OBVIOUS
<1>2. /\ s.pc = "record" /\ Set(p, t) /\ UNCHANGED <<log, expired, file, wrote, skipped>>
      /\ cursor' = later(cursor, e)
  BY <1>1 DEF RecordSeen, external, history, advanceLocalServerCursor
<1>3. SessionOk(s) /\ s \in Sessions /\ SentIsKnown(s) /\ log \in Seq(Kinds)
  BY <1>1, <1>2 DEF StreamInv, SessionOk, Connected
<1>4. e \in Nat /\ s.next \in Nat /\ Len(log) \in Nat /\ cursor \in Nat
  BY <1>1, <1>3, SessionNumbers DEF StreamInv
<1>5. e \in 1 .. s.next - 1 /\ s.next <= Len(log) + 1 /\ \A x \in 1 .. s.next - 1 : Known(x)
  BY <1>1, <1>2, <1>3, <1>4 DEF SentIsKnown
<1>6. AllKnown(e) /\ Known(e)
  BY <1>4, <1>5 DEF AllKnown
<1>7. /\ r \in Sessions /\ SameServer(r, s) /\ r.kept = s.kept
      /\ (r.hwm = s.hwm /\ r.last = s.last) \/ (r.hwm = e /\ r.last = e)
      /\ s.bhwm <= r.bhwm /\ (InHwm(e) => e <= r.bhwm)
      /\ r.pend = 0 \/ (r.pend = s.pend /\ r.bhwm < r.pend)
      /\ \A x \in r.recent : x \in s.recent \/ x = e
  BY <1>1, <1>3, RecordedFields
<1>8. /\ t \in Sessions /\ SameServer(t, s) /\ t.kept = s.kept /\ t.hwm = r.hwm /\ t.last = r.last
      /\ t.bhwm = r.bhwm /\ t.pend = r.pend /\ t.recent = r.recent /\ t.pc = "open"
  BY <1>1, <1>7 DEF Sessions, SameServer, Connected
<1>9. Lines(t.kept)
  BY <1>3, <1>8 DEF SessionOk
<1>10. SessionOk(t)
  <2>1. s.pc \in Connected /\ (s.pc = "open" \/ e = s.ev)
    BY <1>1, <1>2 DEF Connected
  <2>2. /\ (t.hwm = s.hwm /\ t.last = s.last) \/ (t.hwm = e /\ t.last = e)
        /\ s.bhwm <= t.bhwm /\ (InHwm(e) => e <= t.bhwm)
        /\ (t.pend = 0 \/ t.pend = s.pend) /\ (t.pend = 0 \/ t.bhwm < t.pend)
        /\ \A x \in t.recent : x \in s.recent \/ x = e
    BY <1>7, <1>8
  <2> QED BY <1>3, <1>5, <1>6, <1>8, <1>9, <2>1, <2>2, EventDone
<1>11. Grows
  BY <1>2 DEF Grows, StreamInv
<1>12. PICK c : c = later(cursor, e)
  OBVIOUS
<1>13. c \in Nat /\ AllKnown(c) /\ cursor <= c
  BY <1>4, <1>6, <1>12 DEF later, StreamInv
<1>14. AllKnown(c)' /\ SessionOk(t)'
  BY <1>3, <1>10, <1>11, <1>13, GrowsKnown, GrowsSession
<1>15. AllKnown(cursor)' /\ cursor' \in Nat /\ cursor <= cursor'
  BY <1>2, <1>12, <1>13, <1>14
<1>16. Lines(file)'
  BY <1>2 DEF StreamInv, Lines, Known, Inbound
<1> QED BY <1>2, <1>11, <1>14, <1>15, <1>16, SetInv DEF StreamInv

\* The cursor could not be written: the session ends.
LEMMA AdvanceFailsInv ==
    ASSUME StreamInv, NEW p \in Procs, AdvanceFails(p)
    PROVE  StreamInv'
<1>1. proc[p] \in Sessions
  BY DEF StreamInv
<1>2. Recorded(proc[p]) \in Sessions
  BY <1>1, RecordedFields
<1>3. SessionOk(Ended(Recorded(proc[p])))
  BY <1>2, EndedOk
<1> QED BY <1>3, SessionStep DEF AdvanceFails

-----------------------------------------------------------------------------
(* The heartbeat and the timers.                                           *)

\* The server's end and the event under way stay.
LEMMA Unmoved ==
    ASSUME NEW s, SessionOk(s), s.pc \in Connected,
           NEW t \in Sessions, t.pc = s.pc, t.ev = s.ev, t.resume = s.resume, t.next = s.next, t.tail = s.tail,
           t.recent = s.recent, t.kept = s.kept, s.bhwm <= t.bhwm,
           ~ t.catchingUp \/ (t.catchingUp = s.catchingUp /\ t.live = s.live /\ t.hwm = s.hwm /\ t.last = s.last),
           t.pend = 0 \/ t.pend = s.pend \/ PendingIsReal(t)
    PROVE  SessionOk(t)
<1>1. s \in Sessions /\ SentIsKnown(s) /\ CatchingUpOk(s) /\ BroadcastsCounted(s) /\ PendingIsReal(s)
  BY DEF SessionOk
<1>2. s.resume \in Nat /\ s.next \in Nat /\ s.bhwm \in Nat /\ t.bhwm \in Nat
  BY <1>1, SessionNumbers
<1>3. SentIsKnown(t)
  BY <1>1 DEF SentIsKnown
<1>4. CatchingUpOk(t)
  BY <1>1 DEF CatchingUpOk
<1>5. BroadcastsCounted(t)
  BY <1>1, <1>2 DEF BroadcastsCounted
<1>6. PendingIsReal(t)
  BY <1>1 DEF PendingIsReal
<1> QED BY <1>3, <1>4, <1>5, <1>6 DEF SessionOk

\* The mark of a heartbeat is the baseline, or ahead of what was sent and counted.
LEMMA HeartbeatInv ==
    ASSUME StreamInv, NEW p \in Procs, Heartbeat(p)
    PROVE  StreamInv'
<1>1. PICK s, h, t : s = proc[p] /\ h = ServerHwm /\ t = heartbeat(s, h)
  OBVIOUS
<1>2. s.pc = "open" /\ h # 0 /\ Set(p, t) /\ UNCHANGED <<external, cursor, file, history>>
  BY <1>1 DEF Heartbeat
<1>3. /\ SessionOk(s) /\ s \in Sessions /\ log \in Seq(Kinds) /\ Len(log) \in Nat /\ s.pc \in Connected
      /\ CatchingUpOk(s) /\ BroadcastsCounted(s)
  BY <1>1, <1>2 DEF StreamInv, SessionOk, Connected
<1>4. h \in 1 .. Len(log) /\ InHwm(h)
  BY <1>1, <1>2, <1>3, ServerHwmLargest
<1>5. s.bhwm \in Nat /\ s.next \in Nat /\ s.resume \in Nat /\ h \in Nat /\ s.catchingUp \in BOOLEAN
  BY <1>3, <1>4, SessionNumbers
<1>6. CASE s.bhwm = 0
  <2>1. PICK m : m = markBroadcastPersisted(s, h)
    OBVIOUS
  <2>2. /\ m \in Sessions /\ SameServer(m, s) /\ m.pc = s.pc /\ m.ev = s.ev
        /\ m.recent = s.recent /\ m.kept = s.kept /\ m.hwm = s.hwm /\ m.last = s.last
        /\ s.bhwm <= m.bhwm /\ (m.pend = 0 \/ m.pend = s.pend)
    BY <1>3, <1>5, <2>1, MarkBroadcast
  <2>3. SessionOk(m)
    BY <1>3, <2>2, Unmoved DEF SameServer
  <2>4. CASE s.hwm = 0 /\ s.last = 0
    <3>1. t = markEventPersisted(m, h) /\ ~ s.catchingUp
      BY <1>1, <1>3, <1>6, <2>1, <2>4 DEF heartbeat, CatchingUpOk
    <3>2. /\ t \in Sessions /\ SameServer(t, m) /\ t.pc = m.pc /\ t.ev = m.ev
          /\ t.recent = m.recent /\ t.kept = m.kept /\ t.bhwm = m.bhwm /\ t.pend = m.pend
      BY <1>5, <2>2, <3>1, MarkEvent
    <3>3. ~ t.catchingUp /\ m.bhwm <= t.bhwm /\ m.pc \in Connected
      BY <1>3, <2>2, <3>1, <3>2, SessionNumbers DEF SameServer
    <3>4. SessionOk(t)
      BY <2>3, <3>2, <3>3, Unmoved DEF SameServer
    <3> QED BY <1>2, <3>4, SessionStep
  <2>5. CASE ~ (s.hwm = 0 /\ s.last = 0)
    <3>1. t = m
      BY <1>1, <1>6, <2>1, <2>5 DEF heartbeat
    <3> QED BY <1>2, <2>3, <3>1, SessionStep
  <2> QED BY <2>4, <2>5
<1>7. CASE s.bhwm # 0
  <2>1. PICK n : n = IF h <= s.bhwm THEN 0 ELSE h
    OBVIOUS
  <2>2. n \in Nat /\ t = [s EXCEPT !.pend = n]
    BY <1>1, <1>5, <1>7, <2>1 DEF heartbeat
  <2>3. /\ t \in Sessions /\ SameServer(t, s) /\ t.ev = s.ev /\ t.hwm = s.hwm /\ t.last = s.last
        /\ t.bhwm = s.bhwm /\ t.pend = n /\ t.recent = s.recent /\ t.kept = s.kept /\ t.pc = s.pc
    BY <1>3, <2>2 DEF Sessions, SameServer
  <2>4. n = 0 \/ PendingIsReal(t)
    <3> SUFFICES ASSUME n # 0 PROVE PendingIsReal(t)
      OBVIOUS
    <3>1. n = h /\ ~ (h <= s.bhwm)
      BY <2>1
    <3>2. ~ (h \in s.resume + 1 .. s.next - 1)
      BY <1>2, <1>3, <1>4, <3>1 DEF BroadcastsCounted
    <3>3. s.next <= h \/ h <= s.resume
      BY <1>5, <3>2
    <3> QED BY <1>4, <2>3, <3>1, <3>3 DEF PendingIsReal, SameServer
  <2>5. SessionOk(t)
    BY <1>3, <1>5, <2>3, <2>4, Unmoved DEF SameServer
  <2> QED BY <1>2, <2>5, SessionStep
<1> QED BY <1>6, <1>7

\* The timers of a session, the bookmark and a lost subscription.
LEMMA TimersInv ==
    ASSUME StreamInv, NEW p \in Procs,
           HwmTimeout(p) \/ OwnerLost(p) \/ Silence(p) \/ Bookmark(p)
    PROVE  StreamInv'
<1>1. PICK s : s = proc[p]
  OBVIOUS
<1>2. SessionOk(s) /\ s \in Sessions
  BY <1>1 DEF StreamInv, SessionOk
<1>3. PICK t : /\ Set(p, t) /\ UNCHANGED <<external, cursor, file, history>> /\ s.pc \in Connected
               /\ \/ t = [s EXCEPT !.pend = 0, !.doomed = s.bhwm < s.pend]
                  \/ t = [s EXCEPT !.doomed = TRUE]
                  \/ t = [s EXCEPT !.silent = TRUE]
                  \/ t = [s EXCEPT !.catchingUp = FALSE, !.live = TRUE]
  BY <1>1 DEF HwmTimeout, OwnerLost, Silence, Bookmark, InSession, Connected
<1>4. /\ t \in Sessions /\ t.pc = s.pc /\ t.ev = s.ev /\ t.resume = s.resume /\ t.next = s.next
      /\ t.tail = s.tail /\ t.recent = s.recent /\ t.kept = s.kept /\ t.bhwm = s.bhwm
      /\ ~ t.catchingUp \/ (t.catchingUp = s.catchingUp /\ t.live = s.live /\ t.hwm = s.hwm /\ t.last = s.last)
      /\ t.pend = 0 \/ t.pend = s.pend
  <2>0. (s.bhwm < s.pend) \in BOOLEAN
    <3>1. CASE s.bhwm < s.pend
      BY <3>1
    <3>2. CASE ~ (s.bhwm < s.pend)
      BY <3>2
    <3> QED BY <3>1, <3>2
  <2>1. PICK d \in BOOLEAN : d = (s.bhwm < s.pend)
    BY <2>0, Zenon
  <2>2. CASE t = [s EXCEPT !.pend = 0, !.doomed = d]
    BY <1>2, <2>2 DEF Sessions
  <2>3. CASE t = [s EXCEPT !.doomed = TRUE] \/ t = [s EXCEPT !.silent = TRUE]
    BY <1>2, <2>3 DEF Sessions
  <2>4. CASE t = [s EXCEPT !.catchingUp = FALSE, !.live = TRUE]
    BY <1>2, <2>4 DEF Sessions
  <2> QED BY <1>3, <2>1, <2>2, <2>3, <2>4
<1>5. s.bhwm <= t.bhwm
  BY <1>2, <1>4, SessionNumbers
<1>6. SessionOk(t)
  BY <1>2, <1>3, <1>4, <1>5, Unmoved
<1> QED BY <1>3, <1>6, SessionStep

\* A cursor is only refused once the server pruned something.
LEMMA CursorExpiredInv ==
    ASSUME StreamInv, NEW p \in Procs, CursorExpired(p)
    PROVE  StreamInv'
<1>1. PICK s, t : s = proc[p] /\ t = [s EXCEPT !.pc = "clearing"]
  OBVIOUS
<1>2. s.pc = "idle" /\ Set(p, t) /\ expired # 0 /\ UNCHANGED <<external, cursor, file, history>>
  BY <1>1 DEF CursorExpired, StreamInv
<1>3. SessionOk(s) /\ s \in Sessions
  BY <1>1 DEF StreamInv, SessionOk
<1>4. t \in Sessions /\ t.pc = "clearing" /\ t.pend = s.pend /\ t.recent = s.recent /\ t.kept = s.kept
  BY <1>1, <1>3 DEF Sessions
<1>5. SessionOk(t)
  BY <1>2, <1>3, <1>4 DEF SessionOk, Connected
<1> QED BY <1>2, <1>5, SessionStep

\* The sentinel line has no entry.
LEMMA EvictionFrameInv ==
    ASSUME StreamInv, NEW p \in Procs, EvictionFrame(p)
    PROVE  StreamInv'
<1>1. PICK s, t : s = proc[p] /\ t = [s EXCEPT !.pc = "append", !.ev = 0]
  OBVIOUS
<1>2. s.pc = "open" /\ Set(p, t) /\ UNCHANGED <<external, cursor, file, history>>
  BY <1>1 DEF EvictionFrame
<1>3. SessionOk(s) /\ s \in Sessions /\ SentIsKnown(s) /\ CatchingUpOk(s) /\ BroadcastsCounted(s) /\ PendingIsReal(s)
  BY <1>1, <1>2 DEF StreamInv, SessionOk, Connected
<1>4. /\ t \in Sessions /\ SameServer(t, s) /\ t.ev = 0 /\ t.hwm = s.hwm /\ t.last = s.last
      /\ t.bhwm = s.bhwm /\ t.pend = s.pend /\ t.recent = s.recent /\ t.kept = s.kept /\ t.pc = "append"
  BY <1>1, <1>3 DEF Sessions, SameServer, Connected
<1>5. s.next \in Nat \ {0}
  BY <1>3, SessionNumbers
<1>6. SentIsKnown(t)
  BY <1>2, <1>3, <1>4, <1>5 DEF SentIsKnown, SameServer
<1>7. CatchingUpOk(t)
  BY <1>3, <1>4 DEF CatchingUpOk, SameServer
<1>8. BroadcastsCounted(t)
  BY <1>2, <1>3, <1>4 DEF BroadcastsCounted, SameServer
<1>9. PendingIsReal(t)
  BY <1>2, <1>3, <1>4 DEF PendingIsReal, SameServer
<1>10. SessionOk(t)
  BY <1>3, <1>4, <1>6, <1>7, <1>8, <1>9 DEF SessionOk, Connected
<1> QED BY <1>2, <1>10, SessionStep

\* A session ends: aborted, dropped, refused, failed or killed.
LEMMA EndsInv ==
    ASSUME StreamInv, NEW p \in Procs,
           Refused(p) \/ Leave(p) \/ Disconnect(p) \/ WriteFails(p) \/ Crash(p)
    PROVE  StreamInv'
<1>1. proc[p] \in Sessions
  BY DEF StreamInv
<1>2. PICK t : /\ Set(p, t) /\ UNCHANGED <<external, cursor, file, history>>
               /\ t \in {Ended(proc[p]), Fresh, [Ended(proc[p]) EXCEPT !.pc = "stopped"]}
  BY DEF Refused, Leave, Disconnect, WriteFails, Crash, EndSession
<1>3. SessionOk(t)
  BY <1>1, <1>2, EndedOk
<1> QED BY <1>2, <1>3, SessionStep

\* The refused cursor is cleared.
LEMMA ClearCursorInv ==
    ASSUME StreamInv, NEW p \in Procs, ClearCursor(p)
    PROVE  StreamInv' /\ cursor' = 0 /\ expired # 0
<1>1. PICK t : t = Ended(proc[p])
  OBVIOUS
<1>2. /\ proc[p].pc = "clearing" /\ cursor' = 0 /\ Set(p, t)
      /\ UNCHANGED <<log, expired, file, wrote, skipped>>
  BY <1>1 DEF ClearCursor, EndSession, external, history
<1>3. proc[p] \in Sessions /\ SessionOk(proc[p])
  BY DEF StreamInv
<1>4. SessionOk(t) /\ expired # 0
  BY <1>1, <1>2, <1>3, EndedOk DEF SessionOk
<1>5. Grows
  BY <1>2 DEF Grows, StreamInv
<1>6. SessionOk(t)'
  BY <1>4, <1>5, GrowsSession DEF StreamInv
<1>7. cursor' \in Nat /\ AllKnown(cursor)'
  <2>1. Len(log') \in Nat
    BY <1>5 DEF Grows
  <2> QED BY <1>2, <2>1 DEF AllKnown
<1>8. Lines(file)'
  BY <1>2 DEF StreamInv, Lines, Known, Inbound
<1>9. StreamInv'
  BY <1>2, <1>5, <1>6, <1>7, <1>8, SetInv DEF StreamInv
<1> QED BY <1>2, <1>4, <1>9

\* The server and the lease change; no process moves.
LEMMA WorldInv ==
    ASSUME StreamInv, Prune \/ Evict \/ (\E p \in Procs : TakeOver(p)) \/ (\E k \in Posted : Post(k))
           \/ UNCHANGED vars
    PROVE  StreamInv' /\ cursor' = cursor
<1>1. UNCHANGED <<cursor, file, proc, wrote, skipped>>
  BY DEF Prune, Evict, TakeOver, Post, history, vars
<1>2. Grows
  <2>1. log \in Seq(Kinds) /\ expired \in Nat /\ Len(log) \in Nat /\ Posted \subseteq Kinds
    BY StreamAssumption DEF StreamInv
  <2>2. UNCHANGED log \/ \E k \in Posted : log' = Append(log, k)
    BY DEF Prune, Evict, TakeOver, Post, external, vars
  <2>3. UNCHANGED expired \/ expired' = expired + 1
    BY DEF Prune, Evict, TakeOver, Post, external, vars
  <2>4. log' \in Seq(Kinds) /\ Len(log) <= Len(log') /\ \A e \in 1 .. Len(log) : log'[e] = log[e]
    BY <2>1, <2>2
  <2> QED BY <1>1, <2>1, <2>3, <2>4 DEF Grows
<1>3. \A q \in Procs : SessionOk(proc[q])'
  <2> SUFFICES ASSUME NEW q \in Procs PROVE SessionOk(proc[q])'
    OBVIOUS
  <2>1. PICK r : r = proc[q]
    OBVIOUS
  <2>2. SessionOk(r) /\ log \in Seq(Kinds)
    BY <2>1 DEF StreamInv
  <2>3. SessionOk(r)' /\ proc'[q] = r
    BY <1>1, <1>2, <2>1, <2>2, GrowsSession
  <2> QED BY <2>3
<1>4. PICK c, f : c = cursor /\ f = file
  OBVIOUS
<1>5. AllKnown(c)' /\ Lines(f)' /\ c \in Nat
  BY <1>2, <1>4, GrowsKnown DEF StreamInv
<1>6. AllKnown(cursor)' /\ Lines(file)'
  BY <1>1, <1>4, <1>5
<1> QED BY <1>1, <1>2, <1>3, <1>6 DEF StreamInv, Grows

-----------------------------------------------------------------------------
(* The theorems on the stream.                                             *)

\* StreamInv holds initially.
LEMMA StreamInit ==
    ASSUME Init
    PROVE  StreamInv
<1>1. <<>> \in Seq(Nat) /\ <<>> \in Seq(Kinds) /\ Len(<<>>) = 0
  OBVIOUS
<1>2. SessionOk(Fresh)
  BY FreshType, EndedOk
<1>3. Lines(<<>>) /\ AllKnown(0)
  BY <1>1 DEF Lines, AllKnown, Init
<1>4. Fresh \in Sessions
  BY FreshType
<1> QED BY <1>1, <1>2, <1>3, <1>4 DEF StreamInv, Init

\* Every step keeps it and moves the cursor back only to clear one that expired.
LEMMA StreamNext ==
    ASSUME StreamInv, [Next]_vars
    PROVE  StreamInv' /\ (cursor' < cursor => cursor' = 0 /\ expired # 0)
<1>1. cursor \in Nat
  BY DEF StreamInv
<1>2. CASE Prune \/ Evict \/ (\E p \in Procs : TakeOver(p)) \/ (\E k \in Posted : Post(k)) \/ UNCHANGED vars
  BY <1>1, <1>2, WorldInv
<1>3. ASSUME NEW p \in Procs, ClearCursor(p)
      PROVE  StreamInv' /\ (cursor' < cursor => cursor' = 0 /\ expired # 0)
  BY <1>3, ClearCursorInv
<1>4. ASSUME NEW p \in Procs, RecordSeen(p)
      PROVE  StreamInv' /\ (cursor' < cursor => cursor' = 0 /\ expired # 0)
  <2>1. StreamInv' /\ cursor <= cursor'
    BY <1>4, RecordSeenInv
  <2>2. cursor' \in Nat
    BY <2>1 DEF StreamInv
  <2> QED BY <1>1, <2>1, <2>2
<1>5. ASSUME NEW p \in Procs,
             \/ Connect(p) \/ CursorExpired(p) \/ Refused(p) \/ EvictionFrame(p)
             \/ Receive(p) \/ Bookmark(p) \/ AppendLine(p) \/ TrimRead(p) \/ TrimRename(p)
             \/ Heartbeat(p) \/ HwmTimeout(p) \/ OwnerLost(p) \/ Leave(p)
             \/ Disconnect(p) \/ Silence(p) \/ WriteFails(p) \/ AdvanceFails(p) \/ Crash(p)
             \/ \E e \in 1 .. Len(log), pending \in BOOLEAN : Reping(p, e, pending)
      PROVE  StreamInv' /\ (cursor' < cursor => cursor' = 0 /\ expired # 0)
  <2>1. cursor' = cursor
    BY <1>5 DEF Connect, CursorExpired, Refused, EvictionFrame, Receive, Bookmark, AppendLine, TrimRead,
                TrimRename, Heartbeat, HwmTimeout, OwnerLost, Leave, Disconnect, Silence, WriteFails,
                AdvanceFails, Crash, Reping
  <2>2. StreamInv'
    BY <1>5, ConnectInv, CursorExpiredInv, EndsInv, EvictionFrameInv, ReceiveInv, TimersInv, AppendLineInv,
       TrimReadInv, TrimRenameInv, HeartbeatInv, AdvanceFailsInv, RepingInv
  <2> QED BY <1>1, <2>1, <2>2
<1> QED BY <1>2, <1>3, <1>4, <1>5 DEF Next

\* streamOnce and runLoop: the inductive invariant of the stream.
THEOREM StreamIsInductive == Spec => []StreamInv
<1>1. Init => StreamInv
  BY StreamInit
<1>2. StreamInv /\ [Next]_vars => StreamInv'
  BY StreamNext
<1> QED BY <1>1, <1>2, PTL DEF Spec

\* "The disk write must complete before the cursor advances": no inbound entry behind the
\* durable cursor is missing from what was written to the inbox, and only an expiry moves
\* the cursor back.
THEOREM NoInboundIsMissed == Spec => NothingMissed
<1>1. StreamInv => \A e \in 1 .. cursor : Inbound(e) /\ e \notin skipped => \E p \in Procs : e \in wrote[p]
  BY DEF StreamInv, AllKnown, Known
<1>2. StreamInv /\ [Next]_vars => [cursor' < cursor => cursor' = 0 /\ expired # 0]_vars
  BY StreamNext
<1> QED BY <1>1, <1>2, StreamIsInductive, PTL DEF Spec, NothingMissed

\* gh#402: a divergence is pending only for a broadcast the session was not sent, is handling
\* or began after.
THEOREM DivergencesAreReal == Spec => []DivergenceIsReal
<1>1. StreamInv => DivergenceIsReal
  <2> SUFFICES ASSUME StreamInv, NEW p \in Procs
               PROVE  LET s == proc[p]
                      IN  s.pend # 0 => \/ s.next <= s.pend
                                        \/ s.pc # "open" /\ s.ev = s.pend
                                        \/ s.pend <= s.resume
    BY DEF DivergenceIsReal
  <2> QED BY DEF StreamInv, SessionOk, PendingIsReal
<1> QED BY <1>1, StreamIsInductive, PTL

(***************************************************************************)
(* UnreadLog: no entry is passed unseen, no advance is lost.               *)
(***************************************************************************)

Reading ==
    [at : Inside \cup {"idle", "page", "lock", "stat", "unlink", "compose"}, key : CursorKeys,
     lo : Nat, to : Nat, moved : Nat, digest : BOOLEAN, more : BOOLEAN,
     snap : [CursorKeys -> Nat], tries : Nat, resets : Nat, ok : BOOLEAN]

\* p moved the cursor over e and has not returned.
Carries(p, e) ==
    reader[p].at # "idle" /\ reader[p].key = "unread" /\ reader[p].lo < e /\ e <= reader[p].moved

Passed(e) == e \in returned \cup dropped \/ \E p \in Readers : Carries(p, e)
PassedTo(n) == n <= entries /\ \A e \in 1 .. n : Passed(e)

\* A read is ahead of where it began, of what it moved and of nothing the log lacks.
RangeOk(r) ==
    /\ r.key = "unread" => r.lo <= r.moved /\ r.moved <= r.to
    /\ r.to <= entries
    /\ r.at = "page" => r.to - r.lo < FetchCap /\ r.key = "unread"
    /\ r.at = "compose" => r.key = "unread"
    /\ r.key = "unread" /\ r.at \notin {"idle", "page", "compose"} => r.to # 0

ReaderOk(r) ==
    /\ r \in Reading
    /\ r.at # "idle" => RangeOk(r) /\ PassedTo(r.lo)
    /\ r.at = "write" => PassedTo(r.snap["unread"])

\* A process that no other overlapped has the lock for itself, and what it read still holds.
LockOk(p) ==
    reader[p].at \in Inside /\ p \notin overlapped =>
        /\ cursorLock.by = p
        /\ \A q \in Readers : reader[q].at \in Inside => q = p
        /\ reader[p].at = "write" =>
              /\ reader[p].snap = cursors
              /\ reader[p].to # 0 => cursors[reader[p].key] < reader[p].to

UnreadInv ==
    /\ entries \in Nat /\ cursors \in [CursorKeys -> Nat] /\ overlapped \subseteq Readers
    /\ PassedTo(cursors["unread"])
    /\ reader \in [Readers -> Reading]
    /\ \A p \in Readers : ReaderOk(reader[p]) /\ LockOk(p)

\* The types of a read's fields.
LEMMA ReadingFields ==
    ASSUME NEW r \in Reading
    PROVE  /\ r.lo \in Nat /\ r.to \in Nat /\ r.moved \in Nat /\ r.tries \in Nat /\ r.resets \in Nat
           /\ r.snap \in [CursorKeys -> Nat] /\ r.key \in CursorKeys
           /\ r.digest \in BOOLEAN /\ r.more \in BOOLEAN /\ r.ok \in BOOLEAN
BY DEF Reading

\* The numbers among the constants.
LEMMA UnreadNumbers ==
    /\ PageLimit \in Nat \ {0} /\ FetchCap \in Nat \ {0} /\ LockTries \in Nat /\ Resets \in Nat
    /\ DigestThreshold \in Nat
BY UnreadAssumption

\* An idle process.
LEMMA RestingOk ==
    /\ Resting \in Reading /\ Resting.at = "idle"
    /\ ReaderOk(Resting)
<1>1. [k \in CursorKeys |-> 0] \in [CursorKeys -> Nat]
  OBVIOUS
<1>2. Resting \in Reading /\ Resting.at = "idle"
  BY <1>1 DEF Resting, Reading, Inside, CursorKeys
<1> QED BY <1>2 DEF ReaderOk

\* What was passed stays passed when p hands over what it carried.
LEMMA StaysPassed ==
    ASSUME UnreadInv, NEW p \in Readers, NEW r, Become(p, r),
           returned \subseteq returned', dropped \subseteq dropped',
           \A e \in Nat : Carries(p, e) => \/ e \in returned' \cup dropped'
                                           \/ r.at # "idle" /\ r.key = "unread" /\ r.lo < e /\ e <= r.moved
    PROVE  \A e \in Nat : Passed(e) => Passed(e)'
<1>1. /\ reader'[p] = r /\ \A q \in Readers : q # p => reader'[q] = reader[q]
  BY DEF UnreadInv, Become
<1> SUFFICES ASSUME NEW e \in Nat, Passed(e) PROVE Passed(e)'
  OBVIOUS
<1>2. CASE e \in returned \cup dropped
  BY <1>2 DEF Passed
<1>3. ASSUME NEW q \in Readers, Carries(q, e) PROVE Passed(e)'
  <2>1. CASE q = p
    BY <1>1, <1>3, <2>1 DEF Passed, Carries
  <2>2. CASE q # p
    <3>1. Carries(q, e)'
      BY <1>1, <1>3, <2>2 DEF Carries
    <3> QED BY <3>1 DEF Passed
  <2> QED BY <2>1, <2>2
<1> QED BY <1>2, <1>3 DEF Passed

\* What is said of a read survives a longer log.
LEMMA KeepsReader ==
    ASSUME \A e \in Nat : Passed(e) => Passed(e)', entries \in Nat, entries' \in Nat, entries <= entries',
           NEW r, ReaderOk(r)
    PROVE  ReaderOk(r)'
<1>1. r \in Reading
  BY DEF ReaderOk
<1>2. \A n \in Nat : PassedTo(n) => PassedTo(n)'
  BY DEF PassedTo
<1>3. RangeOk(r) => RangeOk(r)'
  BY <1>1, ReadingFields DEF RangeOk
<1>4. r.lo \in Nat /\ r.snap["unread"] \in Nat
  BY <1>1, ReadingFields DEF CursorKeys
<1> QED BY <1>1, <1>2, <1>3, <1>4 DEF ReaderOk

\* A step of p, which becomes r.
LEMMA ReaderStep ==
    ASSUME UnreadInv, NEW p \in Readers, NEW r, Become(p, r),
           \A e \in Nat : Passed(e) => Passed(e)',
           entries' = entries, cursors' \in [CursorKeys -> Nat],
           PassedTo(cursors["unread"])', ReaderOk(r)',
           overlapped' \subseteq Readers, \A q \in Readers : LockOk(q)'
    PROVE  UnreadInv'
<1>1. /\ reader'[p] = r /\ \A q \in Readers : q # p => reader'[q] = reader[q]
      /\ entries \in Nat /\ entries' \in Nat /\ entries <= entries' /\ r \in Reading
  BY DEF UnreadInv, Become, ReaderOk
<1>2. \A q \in Readers : ReaderOk(reader[q])'
  <2> SUFFICES ASSUME NEW q \in Readers PROVE ReaderOk(reader[q])'
    OBVIOUS
  <2>1. CASE q = p
    BY <1>1, <2>1
  <2>2. CASE q # p
    <3>1. PICK x : x = reader[q]
      OBVIOUS
    <3>2. ReaderOk(x) /\ reader'[q] = x
      BY <1>1, <2>2, <3>1 DEF UnreadInv
    <3>3. ReaderOk(x)'
      BY <1>1, <3>2, KeepsReader
    <3> QED BY <3>2, <3>3
  <2> QED BY <2>1, <2>2
<1>3. reader' \in [Readers -> Reading]
  BY <1>1 DEF UnreadInv, Become
<1> QED BY <1>1, <1>2, <1>3 DEF UnreadInv

\* The lock, for a process that is outside afterwards.
LEMMA OutsideLock ==
    ASSUME UnreadInv, NEW p \in Readers, NEW r, Become(p, r), r.at \notin Inside, UNCHANGED cursors,
           \/ cursorLock' = cursorLock /\ overlapped' \in {overlapped, overlapped \ {p}}
           \/ Removed(p)
    PROVE  overlapped' \subseteq Readers /\ \A q \in Readers : LockOk(q)'
<1>1. /\ reader'[p] = r /\ \A q \in Readers : q # p => reader'[q] = reader[q]
      /\ overlapped \subseteq Readers
  BY DEF UnreadInv, Become
<1>2. overlapped' \subseteq Readers
  BY <1>1 DEF Removed
<1>3. ASSUME NEW q \in Readers PROVE LockOk(q)'
  <2> SUFFICES ASSUME q # p, reader[q].at \in Inside, q \notin overlapped' PROVE LockOk(q)'
    BY <1>1 DEF LockOk
  <2>1. LockOk(q)
    BY DEF UnreadInv
  <2>2. CASE cursorLock' = cursorLock /\ overlapped' \in {overlapped, overlapped \ {p}}
    BY <1>1, <2>1, <2>2 DEF LockOk
  <2>3. CASE Removed(p)
    <3>1. q \notin overlapped /\ ~ Holds(q)
      BY <2>3 DEF Removed
    <3> QED BY <2>1, <3>1 DEF LockOk, Holds
  <2> QED BY <2>2, <2>3
<1> QED BY <1>2, <1>3

\* A step outside the lock that leaves the cursors alone.
LEMMA OutsideStep ==
    ASSUME UnreadInv, NEW p \in Readers, NEW r, Become(p, r), ReaderOk(r), r.at \notin Inside,
           UNCHANGED <<entries, cursors>>,
           returned \subseteq returned', dropped \subseteq dropped',
           \A e \in Nat : Carries(p, e) => \/ e \in returned' \cup dropped'
                                           \/ r.at # "idle" /\ r.key = "unread" /\ r.lo < e /\ e <= r.moved,
           \/ cursorLock' = cursorLock /\ overlapped' \in {overlapped, overlapped \ {p}}
           \/ Removed(p)
    PROVE  UnreadInv'
<1>1. \A e \in Nat : Passed(e) => Passed(e)'
  BY StaysPassed
<1>2. overlapped' \subseteq Readers /\ \A q \in Readers : LockOk(q)'
  BY OutsideLock
<1>3. entries \in Nat /\ entries' \in Nat /\ entries <= entries' /\ cursors' \in [CursorKeys -> Nat]
  BY DEF UnreadInv
<1>4. PassedTo(cursors["unread"])'
  BY <1>1 DEF UnreadInv, PassedTo
<1>5. ReaderOk(r)'
  BY <1>1, <1>3, KeepsReader
<1> QED BY <1>1, <1>2, <1>3, <1>4, <1>5, ReaderStep

\* The call throws, returns or rests: nothing it carried is forgotten.
LEMMA RestStep ==
    ASSUME UnreadInv, NEW p \in Readers, Become(p, Resting), UNCHANGED <<entries, cursors>>,
           returned \subseteq returned', dropped \subseteq dropped',
           \A e \in Nat : Carries(p, e) => e \in returned' \cup dropped',
           \/ cursorLock' = cursorLock /\ overlapped' \in {overlapped, overlapped \ {p}}
           \/ Removed(p)
    PROVE  UnreadInv'
<1>1. PICK r : r = Resting
  OBVIOUS
<1>2. Become(p, r) /\ ReaderOk(r) /\ r.at \notin Inside
  BY <1>1, RestingOk DEF Inside
<1>3. \A e \in Nat : Carries(p, e) => \/ e \in returned' \cup dropped'
                                      \/ r.at # "idle" /\ r.key = "unread" /\ r.lo < e /\ e <= r.moved
  OBVIOUS
<1> HIDE DEF Resting
<1> QED BY <1>2, <1>3, OutsideStep

\* A call that throws drops what it had moved the cursor over.
LEMMA ThrowHands ==
    ASSUME UnreadInv, NEW p \in Readers, Throw(p)
    PROVE  /\ Become(p, Resting) /\ dropped \subseteq dropped'
           /\ \A e \in Nat : Carries(p, e) => e \in dropped'
<1>1. reader[p].lo \in Nat /\ reader[p].moved \in Nat
  BY ReadingFields DEF UnreadInv
<1> QED BY <1>1 DEF Throw, Carries

-----------------------------------------------------------------------------
(* The actions of UnreadLog.                                               *)

\* A read begins behind entries that were all passed.
LEMMA GetCursorInv ==
    ASSUME UnreadInv, NEW p \in Readers, getLocalServerCursor(p)
    PROVE  UnreadInv'
<1>1. PICK c, r : /\ c = cursors["unread"]
                  /\ r = [Resting EXCEPT !.at = "page", !.lo = c, !.to = c, !.moved = c, !.resets = Resets]
  OBVIOUS
<1>2. c \in Nat /\ c <= entries /\ PassedTo(c)
  BY <1>1 DEF UnreadInv, CursorKeys, PassedTo
<1>3. /\ r \in Reading /\ r.at = "page" /\ r.key = "unread" /\ r.lo = c /\ r.to = c /\ r.moved = c
  BY <1>1, <1>2, RestingOk, UnreadNumbers DEF Reading, Resting
<1>4. ReaderOk(r)
  BY <1>2, <1>3, UnreadNumbers DEF ReaderOk, RangeOk, UnreadInv
<1>5. Become(p, r) /\ reader[p].at = "idle"
      /\ UNCHANGED <<entries, cursors, cursorLock, returned, dropped, overlapped>>
  BY <1>1 DEF getLocalServerCursor
<1>6. r.at \notin Inside /\ \A e \in Nat : ~ Carries(p, e)
  BY <1>3, <1>5 DEF Inside, Carries
<1> QED BY <1>4, <1>5, <1>6, OutsideStep

\* Where a page ends.
LEMMA PageEnd ==
    ASSUME UnreadInv, NEW r \in Reading, RangeOk(r), r.at = "page"
    PROVE  LET limit == IF r.digest THEN Least(PageLimit, FetchCap - (r.to - r.lo)) ELSE PageLimit
               end == Least(r.to + limit, entries)
           IN  end \in Nat /\ r.to <= end /\ end <= entries
<1>1. r.lo \in Nat /\ r.to \in Nat /\ r.lo <= r.to /\ r.to <= entries /\ r.to - r.lo < FetchCap /\ entries \in Nat
  BY ReadingFields DEF RangeOk, UnreadInv
<1>2. PICK limit : limit = IF r.digest THEN Least(PageLimit, FetchCap - (r.to - r.lo)) ELSE PageLimit
  OBVIOUS
<1>3. limit \in Nat
  BY <1>1, <1>2, UnreadNumbers DEF Least
<1>4. PICK end : end = Least(r.to + limit, entries)
  OBVIOUS
<1>5. end \in Nat /\ r.to <= end /\ end <= entries
  BY <1>1, <1>3, <1>4 DEF Least
<1> QED BY <1>2, <1>4, <1>5

\* A page goes on where the last one ended.
LEMMA PageInv ==
    ASSUME UnreadInv, NEW p \in Readers, localReadLogPage(p)
    PROVE  UnreadInv'
<1>1. PICK r : r = reader[p]
  OBVIOUS
<1>2. r \in Reading /\ r.at = "page" /\ RangeOk(r) /\ PassedTo(r.lo) /\ r.key = "unread"
  BY <1>1 DEF localReadLogPage, UnreadInv, ReaderOk, RangeOk
<1>3. PICK limit, end : /\ limit = IF r.digest THEN Least(PageLimit, FetchCap - (r.to - r.lo)) ELSE PageLimit
                        /\ end = Least(r.to + limit, entries)
  OBVIOUS
<1>4. end \in Nat /\ r.to <= end /\ end <= entries
  BY <1>2, <1>3, PageEnd
<1>5. PICK more, digest, at :
          /\ more = (end < entries) /\ digest = (r.digest \/ entries - r.lo > DigestThreshold)
          /\ at = IF end = 0 THEN "compose" ELSE "lock"
  OBVIOUS
<1>6. more \in BOOLEAN /\ digest \in BOOLEAN
  <2>1. (end < entries) \in BOOLEAN
    <3>1. CASE end < entries
      BY <3>1
    <3>2. CASE ~ (end < entries)
      BY <3>2
    <3> QED BY <3>1, <3>2
  <2>2. (r.digest \/ entries - r.lo > DigestThreshold) \in BOOLEAN
    BY Zenon
  <2> QED BY <1>5, <2>1, <2>2, Zenon
<1>7. PICK t : t = [r EXCEPT !.to = end, !.more = more, !.digest = digest, !.at = at, !.tries = 0]
  OBVIOUS
<1>8. Become(p, t) /\ UNCHANGED <<entries, cursors, cursorLock, returned, dropped, overlapped>>
  <2>1. Become(p, [r EXCEPT !.to = end, !.more = (end < entries),
                            !.digest = @ \/ entries - r.lo > DigestThreshold,
                            !.at = IF end = 0 THEN "compose" ELSE "lock", !.tries = 0])
    BY <1>1, <1>3, Zenon DEF localReadLogPage
  <2>2. UNCHANGED <<entries, cursors, cursorLock, returned, dropped, overlapped>>
    BY DEF localReadLogPage
  <2> QED BY <1>5, <1>7, <2>1, <2>2, Zenon
<1>9. /\ t \in Reading /\ t.at = at /\ t.key = "unread" /\ t.lo = r.lo /\ t.to = end /\ t.moved = r.moved
  BY <1>2, <1>4, <1>5, <1>6, <1>7 DEF Reading
<1>10. ReaderOk(t)
  BY <1>2, <1>4, <1>5, <1>9, ReadingFields DEF ReaderOk, RangeOk
<1>11. t.at \notin Inside /\ t.at # "idle" /\ \A e \in Nat : Carries(p, e) => t.lo < e /\ e <= t.moved
  BY <1>1, <1>5, <1>9 DEF Inside, Carries
<1> QED BY <1>8, <1>9, <1>10, <1>11, OutsideStep

\* A process moves to a place outside the lock and keeps what it carries.
LEMMA MovesOutside ==
    ASSUME UnreadInv, NEW p \in Readers, NEW t \in Reading, Become(p, t), t.at \notin Inside, t.at # "idle",
           reader[p].at # "idle",
           t.key = reader[p].key, t.lo = reader[p].lo, t.to = reader[p].to, t.moved = reader[p].moved,
           RangeOk(t),
           UNCHANGED <<entries, cursors, returned, dropped>>,
           (cursorLock' = cursorLock /\ overlapped' = overlapped) \/ Removed(p)
    PROVE  UnreadInv'
<1>1. ReaderOk(t)
  BY DEF ReaderOk, UnreadInv, Inside
<1>2. \A e \in Nat : Carries(p, e) => t.key = "unread" /\ t.lo < e /\ e <= t.moved
  BY DEF Carries
<1> QED BY <1>1, <1>2, OutsideStep

\* A page that fails is asked for again, or the read throws.
LEMMA RetryInv ==
    ASSUME UnreadInv, NEW p \in Readers, requestWithRetry(p)
    PROVE  UnreadInv'
<1>1. PICK r, t : r = reader[p] /\ t = [r EXCEPT !.resets = @ - 1]
  OBVIOUS
<1>2. r \in Reading /\ r.at = "page" /\ RangeOk(r)
      /\ UNCHANGED <<entries, cursors, cursorLock, returned, overlapped>>
  BY <1>1 DEF requestWithRetry, UnreadInv, ReaderOk
<1>3. CASE r.resets > 0 /\ Become(p, t) /\ UNCHANGED dropped
  <2>1. PICK n \in Nat : n = r.resets - 1
    BY <1>2, <1>3, ReadingFields
  <2>2. /\ t \in Reading /\ t.at = r.at /\ t.key = r.key /\ t.lo = r.lo /\ t.to = r.to /\ t.moved = r.moved
    <3>1. t = [r EXCEPT !.resets = n]
      BY <1>1, <2>1
    <3> QED BY <1>2, <3>1 DEF Reading
  <2>3. RangeOk(t) /\ t.at \notin Inside /\ t.at # "idle"
    BY <1>2, <2>2 DEF RangeOk, Inside
  <2> QED BY <1>1, <1>2, <1>3, <2>2, <2>3, MovesOutside
<1>4. CASE Throw(p)
  BY <1>2, <1>4, ThrowHands, RestStep
<1> QED BY <1>1, <1>3, <1>4 DEF requestWithRetry

\* The read returns all it fetched, or throws.
LEMMA CompositionInv ==
    ASSUME UnreadInv, NEW p \in Readers, localCubeComposition(p)
    PROVE  UnreadInv'
<1>1. PICK r : r = reader[p]
  OBVIOUS
<1>2. r \in Reading /\ r.at = "compose" /\ RangeOk(r) /\ r.key = "unread"
      /\ UNCHANGED <<entries, cursors, cursorLock, overlapped>>
  BY <1>1 DEF localCubeComposition, UnreadInv, ReaderOk, RangeOk
<1>3. CASE returned' = returned \cup (r.lo + 1 .. r.to) /\ Become(p, Resting) /\ UNCHANGED dropped
  <2>1. r.lo \in Nat /\ r.to \in Nat /\ r.moved \in Nat /\ r.moved <= r.to
    BY <1>2, ReadingFields DEF RangeOk
  <2>2. \A e \in Nat : Carries(p, e) => e \in returned'
    BY <1>1, <1>3, <2>1 DEF Carries
  <2> QED BY <1>2, <1>3, <2>2, RestStep
<1>4. CASE Throw(p) /\ UNCHANGED returned
  BY <1>2, <1>4, ThrowHands, RestStep
<1> QED BY <1>1, <1>3, <1>4 DEF localCubeComposition

\* The record of a process that goes to another step.
LEMMA AtField ==
    ASSUME NEW r \in Reading, NEW l \in Inside \cup {"idle", "page", "lock", "stat", "unlink", "compose"}
    PROVE  LET t == [r EXCEPT !.at = l]
           IN  /\ t \in Reading /\ t.at = l /\ t.key = r.key /\ t.lo = r.lo /\ t.to = r.to
               /\ t.moved = r.moved /\ t.snap = r.snap
BY DEF Reading

\* An old lock is unlinked by path, whoever holds it by then.
LEMMA StatInv ==
    ASSUME UnreadInv, NEW p \in Readers, statLock(p) \/ unlinkLock(p)
    PROVE  UnreadInv'
<1>1. PICK r : r = reader[p]
  OBVIOUS
<1>2. r \in Reading /\ r.at \in {"stat", "unlink"} /\ RangeOk(r)
  BY <1>1 DEF statLock, unlinkLock, UnreadInv, ReaderOk
<1>3. PICK l \in {"lock", "unlink"} : Become(p, [r EXCEPT !.at = l])
  BY <1>1 DEF statLock, unlinkLock, Step
<1>4. PICK t : t = [r EXCEPT !.at = l]
  OBVIOUS
<1>5. /\ t \in Reading /\ t.at = l /\ t.key = r.key /\ t.lo = r.lo /\ t.to = r.to /\ t.moved = r.moved
  BY <1>2, <1>4, AtField
<1>6. RangeOk(t) /\ t.at \notin Inside /\ t.at # "idle"
  BY <1>2, <1>5 DEF RangeOk, Inside
<1>7. /\ UNCHANGED <<entries, cursors, returned, dropped>>
      /\ (cursorLock' = cursorLock /\ overlapped' = overlapped) \/ Removed(p)
  BY DEF statLock, unlinkLock
<1> QED BY <1>1, <1>2, <1>3, <1>4, <1>5, <1>6, <1>7, MovesOutside

\* A step inside the lock, or into it.
LEMMA InsideStep ==
    ASSUME UnreadInv, NEW p \in Readers, NEW t \in Reading, Become(p, t), t.at \in Inside,
           reader[p].at # "idle",
           t.key = reader[p].key, t.lo = reader[p].lo, t.to = reader[p].to, reader[p].moved <= t.moved,
           t.key = "unread" => t.moved <= t.to,
           t.key = "unread" => t.to # 0,
           t.at = "write" => PassedTo(t.snap["unread"]),
           UNCHANGED <<entries, returned, dropped>>, cursors' \in [CursorKeys -> Nat],
           cursors'["unread"] <= entries, \A e \in 1 .. cursors'["unread"] : Passed(e) \/ Carries(p, e)',
           overlapped' \subseteq Readers, \A q \in Readers : LockOk(q)'
    PROVE  UnreadInv'
<1>1. PICK r : r = reader[p]
  OBVIOUS
<1>2. r \in Reading /\ RangeOk(r) /\ PassedTo(r.lo)
  BY <1>1 DEF UnreadInv, ReaderOk
<1>3. /\ r.lo \in Nat /\ r.moved \in Nat /\ t.moved \in Nat /\ r.to \in Nat /\ entries \in Nat
  BY <1>2, ReadingFields DEF UnreadInv
<1>4. \A e \in Nat : Passed(e) => Passed(e)'
  <2>1. \A e \in Nat : Carries(p, e) => t.at # "idle" /\ t.key = "unread" /\ t.lo < e /\ e <= t.moved
    BY <1>1, <1>3 DEF Carries, Inside
  <2> QED BY <2>1, StaysPassed
<1>5. ReaderOk(t)
  <2>1. RangeOk(t)
    BY <1>1, <1>2, <1>3 DEF RangeOk, Inside
  <2> QED BY <1>1, <1>2, <2>1 DEF ReaderOk
<1>6. ReaderOk(t)'
  BY <1>3, <1>4, <1>5, KeepsReader
<1>7. PassedTo(cursors["unread"])'
  <2> SUFFICES ASSUME NEW e \in 1 .. cursors'["unread"] PROVE Passed(e)'
    BY DEF PassedTo
  <2>1. e \in Nat
    OBVIOUS
  <2> QED BY <1>4, <2>1 DEF Passed
<1> QED BY <1>4, <1>6, <1>7, ReaderStep

\* Whoever enters beside another is counted among those that overlapped.
LEMMA OpenLockInv ==
    ASSUME UnreadInv, NEW p \in Readers, openLock(p)
    PROVE  UnreadInv'
<1>1. PICK r : r = reader[p]
  OBVIOUS
<1>2. r \in Reading /\ r.at = "lock" /\ RangeOk(r) /\ UNCHANGED <<entries, cursors, returned>>
  BY <1>1 DEF openLock, UnreadInv, ReaderOk
<1>3. CASE Throw(p) /\ UNCHANGED <<cursorLock, overlapped>>
  BY <1>2, <1>3, ThrowHands, RestStep
<1>4. CASE /\ cursorLock = NoLock /\ cursorLock' = [by |-> p, old |-> FALSE] /\ Step(p, "read")
           /\ overlapped' = IF \E q \in Readers : reader[q].at \in Inside
                            THEN overlapped \cup {p} ELSE overlapped
           /\ UNCHANGED dropped
  <2>1. PICK t : t = [r EXCEPT !.at = "read"]
    OBVIOUS
  <2>2. /\ t \in Reading /\ t.at = "read" /\ t.key = r.key /\ t.lo = r.lo /\ t.to = r.to /\ t.moved = r.moved
    BY <1>2, <2>1, AtField DEF Inside
  <2>3. Become(p, t)
    BY <1>1, <1>4, <2>1 DEF Step
  <2>4. /\ reader'[p] = t /\ \A q \in Readers : q # p => reader'[q] = reader[q]
        /\ overlapped \subseteq Readers
    BY <2>3 DEF UnreadInv, Become
  <2>5. overlapped' \subseteq Readers
    BY <1>4, <2>4
  <2>6. ASSUME NEW q \in Readers PROVE LockOk(q)'
    <3>1. CASE q = p
      BY <1>4, <2>2, <2>4, <3>1 DEF LockOk
    <3>2. CASE q # p
      <4>1. reader[q].at \in Inside => q \in overlapped
        <5>1. LockOk(q) /\ cursorLock.by = Nobody /\ q # Nobody
          BY <1>4, UnreadAssumption DEF UnreadInv, NoLock
        <5> QED BY <5>1 DEF LockOk
      <4> QED BY <1>4, <2>4, <3>2, <4>1 DEF LockOk
    <3> QED BY <3>1, <3>2
  <2>7. /\ r.moved \in Nat /\ r.moved <= t.moved /\ (t.key = "unread" => t.moved <= t.to /\ t.to # 0)
        /\ cursors' \in [CursorKeys -> Nat] /\ (\A e \in 1 .. cursors'["unread"] : Passed(e)) /\ cursors'["unread"] <= entries
    BY <1>2, <2>2, ReadingFields DEF RangeOk, UnreadInv, PassedTo
  <2>8. t.at \in Inside /\ t.at # "write"
    BY <2>2 DEF Inside
  <2> QED BY <1>1, <1>2, <1>4, <2>2, <2>3, <2>5, <2>6, <2>7, <2>8, InsideStep
<1>5. CASE Become(p, [r EXCEPT !.at = "stat", !.tries = @ + 1]) /\ UNCHANGED <<cursorLock, dropped, overlapped>>
  <2>1. PICK t, n : t = [r EXCEPT !.at = "stat", !.tries = @ + 1] /\ n = r.tries + 1
    OBVIOUS
  <2>2. /\ t \in Reading /\ t.at = "stat" /\ t.key = r.key /\ t.lo = r.lo /\ t.to = r.to /\ t.moved = r.moved
    <3>1. n \in Nat /\ t = [r EXCEPT !.at = "stat", !.tries = n]
      BY <1>2, <2>1, ReadingFields
    <3> QED BY <1>2, <3>1 DEF Reading
  <2>3. RangeOk(t) /\ t.at \notin Inside /\ t.at # "idle"
    BY <1>2, <2>2 DEF RangeOk, Inside
  <2> QED BY <1>1, <1>2, <1>5, <2>1, <2>2, <2>3, MovesOutside
<1> QED BY <1>1, <1>3, <1>4, <1>5 DEF openLock

\* While p is inside, no other process is inside without an overlap.
LEMMA OthersOverlap ==
    ASSUME UnreadInv, NEW p \in Readers, NEW t, Become(p, t), reader[p].at \in Inside, t.at \in Inside,
           UNCHANGED <<cursorLock, overlapped>>,
           p \notin overlapped /\ t.at = "write" =>
              t.snap = cursors' /\ (t.to # 0 => cursors'[t.key] < t.to)
    PROVE  overlapped' \subseteq Readers /\ \A q \in Readers : LockOk(q)'
<1>1. /\ reader'[p] = t /\ \A q \in Readers : q # p => reader'[q] = reader[q]
      /\ overlapped \subseteq Readers
  BY DEF UnreadInv, Become
<1>2. ASSUME NEW q \in Readers PROVE LockOk(q)'
  <2>0. LockOk(q) /\ LockOk(p)
    BY DEF UnreadInv
  <2>1. CASE q = p
    BY <1>1, <2>0, <2>1 DEF LockOk
  <2>2. CASE q # p
    BY <1>1, <2>0, <2>2 DEF LockOk
  <2> QED BY <2>1, <2>2
<1> QED BY <1>1, <1>2

\* The copy of the file that is read is current.
LEMMA ReadStateInv ==
    ASSUME UnreadInv, NEW p \in Readers, readState(p)
    PROVE  UnreadInv'
<1>1. PICK r, prior : r = reader[p] /\ prior = cursors[r.key]
  OBVIOUS
<1>2. PICK at, t : /\ at = IF (IF r.to = 0 THEN prior = 0 ELSE prior # 0 /\ prior >= r.to) THEN "release" ELSE "write"
                   /\ t = [r EXCEPT !.snap = cursors, !.at = at]
  OBVIOUS
<1>3. r \in Reading /\ r.at = "read" /\ RangeOk(r) /\ Become(p, t)
      /\ UNCHANGED <<entries, cursors, cursorLock, returned, dropped, overlapped>>
  BY <1>1, <1>2 DEF readState, Wanted, Superseded, UnreadInv, ReaderOk
<1>4. cursors \in [CursorKeys -> Nat] /\ PassedTo(cursors["unread"]) /\ r.key \in CursorKeys /\ r.to \in Nat
      /\ r.moved \in Nat
  BY <1>3, ReadingFields DEF UnreadInv
<1>5. /\ t \in Reading /\ t.at = at /\ t.key = r.key /\ t.lo = r.lo /\ t.to = r.to /\ t.moved = r.moved
      /\ t.snap = cursors /\ at \in {"write", "release"}
  BY <1>2, <1>3, <1>4 DEF Reading, Inside
<1>6. t.at = "write" /\ t.to # 0 => cursors[t.key] < t.to
  BY <1>1, <1>2, <1>4, <1>5
<1>7. t.at \in Inside /\ reader[p].at \in Inside
  BY <1>1, <1>3, <1>5 DEF Inside
<1>8. overlapped' \subseteq Readers /\ \A q \in Readers : LockOk(q)'
  BY <1>3, <1>5, <1>6, <1>7, OthersOverlap
<1>9. /\ r.moved <= t.moved /\ (t.key = "unread" => t.moved <= t.to /\ t.to # 0)
      /\ (\A e \in 1 .. cursors'["unread"] : Passed(e)) /\ cursors'["unread"] <= entries
  BY <1>3, <1>4, <1>5 DEF RangeOk, PassedTo
<1> QED BY <1>1, <1>3, <1>4, <1>5, <1>7, <1>8, <1>9, InsideStep

\* The copy written over the file moves no unread cursor over an entry nobody carries.
LEMMA WriteStateInv ==
    ASSUME UnreadInv, NEW p \in Readers, writeState(p)
    PROVE  UnreadInv'
<1>1. PICK r : r = reader[p]
  OBVIOUS
<1>2. r \in Reading /\ r.at = "write" /\ RangeOk(r) /\ PassedTo(r.lo) /\ PassedTo(r.snap["unread"])
      /\ UNCHANGED <<entries, cursorLock, returned, dropped, overlapped>>
  BY <1>1 DEF writeState, UnreadInv, ReaderOk
<1>3. /\ r.key \in CursorKeys /\ r.to \in Nat /\ r.lo \in Nat /\ r.moved \in Nat /\ r.snap \in [CursorKeys -> Nat]
      /\ (r.key = "unread" => r.moved <= r.to /\ r.to # 0) /\ cursors \in [CursorKeys -> Nat]
      /\ PassedTo(cursors["unread"]) /\ reader[p].at \in Inside
  BY <1>1, <1>2, ReadingFields DEF UnreadInv, RangeOk, Inside
<1>4. CASE cursors' = [r.snap EXCEPT ![r.key] = r.to] /\ Become(p, [r EXCEPT !.at = "release", !.moved = r.to])
  <2>1. PICK t : t = [r EXCEPT !.at = "release", !.moved = r.to]
    OBVIOUS
  <2>2. /\ t \in Reading /\ t.at = "release" /\ t.key = r.key /\ t.lo = r.lo /\ t.to = r.to /\ t.moved = r.to
    BY <1>2, <1>3, <2>1 DEF Reading, Inside
  <2>3. cursors' \in [CursorKeys -> Nat]
        /\ (r.key = "unread" => cursors'["unread"] = r.to)
        /\ (r.key # "unread" => cursors'["unread"] = r.snap["unread"])
    BY <1>3, <1>4 DEF CursorKeys
  <2>4. Become(p, t) /\ t.at \in Inside /\ t.at # "write"
    BY <1>4, <2>1, <2>2 DEF Inside
  <2>5. overlapped' \subseteq Readers /\ \A q \in Readers : LockOk(q)'
    BY <1>2, <1>3, <2>4, OthersOverlap
  <2>0. cursors'["unread"] <= entries
    BY <1>2, <1>3, <2>3 DEF RangeOk, PassedTo
  <2>6. \A e \in 1 .. cursors'["unread"] : Passed(e) \/ Carries(p, e)'
    <3>1. CASE r.key # "unread"
      BY <1>2, <2>3, <3>1 DEF PassedTo
    <3>2. CASE r.key = "unread"
      <4>1. reader'[p] = t
        BY <2>4 DEF UnreadInv, Become
      <4> SUFFICES ASSUME NEW e \in 1 .. r.to PROVE Passed(e) \/ Carries(p, e)'
        BY <2>3, <3>2
      <4>2. CASE e <= r.lo
        BY <1>2, <1>3, <4>2 DEF PassedTo
      <4>3. CASE ~ (e <= r.lo)
        BY <1>3, <2>2, <3>2, <4>1, <4>3 DEF Carries
      <4> QED BY <4>2, <4>3
    <3> QED BY <3>1, <3>2
  <2>7. t.key = "unread" => t.moved <= t.to /\ t.to # 0 /\ r.moved <= t.moved
    BY <1>3, <2>2
  <2>8. CASE r.key = "unread"
    BY <1>1, <1>2, <2>0, <2>2, <2>3, <2>4, <2>5, <2>6, <2>7, <2>8, InsideStep
  <2>9. CASE r.key # "unread"
    \* The stream's own write: moved means nothing for it.
    <3>1. \A e \in Nat : Passed(e) => Passed(e)'
      <4>1. \A e \in Nat : ~ Carries(p, e)
        BY <1>1, <2>9 DEF Carries
      <4> QED BY <1>2, <2>4, <4>1, StaysPassed
    <3>2. RangeOk(t)
      BY <1>2, <2>2, <2>9 DEF RangeOk
    <3>3. ReaderOk(t)
      BY <1>2, <2>2, <3>2 DEF ReaderOk
    <3>4. ReaderOk(t)'
      BY <1>2, <3>1, <3>3, KeepsReader DEF UnreadInv
    <3>5. PassedTo(cursors["unread"])'
      <4> SUFFICES ASSUME NEW e \in 1 .. cursors'["unread"] PROVE Passed(e)'
        BY <1>2, <2>0 DEF PassedTo
      <4>1. e \in Nat /\ Passed(e)
        BY <1>2, <2>3, <2>9 DEF PassedTo
      <4> QED BY <3>1, <4>1
    <3> QED BY <1>2, <2>3, <2>4, <2>5, <3>1, <3>4, <3>5, ReaderStep
  <2> QED BY <2>8, <2>9
<1>5. CASE Become(p, [r EXCEPT !.at = "release", !.ok = FALSE]) /\ UNCHANGED cursors
  <2>1. PICK t : t = [r EXCEPT !.at = "release", !.ok = FALSE]
    OBVIOUS
  <2>2. /\ t \in Reading /\ t.at = "release" /\ t.key = r.key /\ t.lo = r.lo /\ t.to = r.to /\ t.moved = r.moved
    BY <1>2, <1>3, <2>1 DEF Reading, Inside
  <2>3. Become(p, t) /\ t.at \in Inside /\ t.at # "write"
    BY <1>5, <2>1, <2>2 DEF Inside
  <2>4. overlapped' \subseteq Readers /\ \A q \in Readers : LockOk(q)'
    BY <1>2, <1>3, <2>3, OthersOverlap
  <2>5. r.moved <= t.moved /\ (t.key = "unread" => t.moved <= t.to /\ t.to # 0)
        /\ cursors' \in [CursorKeys -> Nat] /\ (\A e \in 1 .. cursors'["unread"] : Passed(e)) /\ cursors'["unread"] <= entries
    BY <1>3, <1>5, <2>2 DEF PassedTo
  <2> QED BY <1>1, <1>2, <2>2, <2>3, <2>4, <2>5, InsideStep
<1> QED BY <1>1, <1>4, <1>5 DEF writeState, Wanted

\* The lock is left, and the read goes on.
LEMMA ReleaseInv ==
    ASSUME UnreadInv, NEW p \in Readers, releaseLock(p)
    PROVE  UnreadInv'
<1>1. PICK r : r = reader[p]
  OBVIOUS
<1>2. r \in Reading /\ r.at = "release" /\ RangeOk(r) /\ Removed(p) /\ UNCHANGED <<entries, cursors, returned>>
  BY <1>1 DEF releaseLock, UnreadInv, ReaderOk
<1>3. CASE Throw(p)
  BY <1>2, <1>3, ThrowHands, RestStep
<1>4. CASE r.key = "stream" /\ Become(p, Resting) /\ UNCHANGED dropped
  <2>1. \A e \in Nat : ~ Carries(p, e)
    BY <1>1, <1>4 DEF Carries
  <2> QED BY <1>2, <1>4, <2>1, RestStep
<1>5. CASE /\ r.key = "unread"
           /\ Become(p, [r EXCEPT !.resets = Resets, !.at =
                           IF r.digest /\ r.more /\ r.to - r.lo < FetchCap THEN "page" ELSE "compose"])
           /\ UNCHANGED dropped
  <2>1. PICK at, t : /\ at = IF r.digest /\ r.more /\ r.to - r.lo < FetchCap THEN "page" ELSE "compose"
                     /\ t = [r EXCEPT !.resets = Resets, !.at = at]
    OBVIOUS
  <2>2. at \in {"page", "compose"} /\ (at = "page" => r.to - r.lo < FetchCap)
    BY <2>1
  <2>3. /\ t \in Reading /\ t.at = at /\ t.key = r.key /\ t.lo = r.lo /\ t.to = r.to /\ t.moved = r.moved
    BY <1>2, <2>1, <2>2, UnreadNumbers DEF Reading
  <2>4. RangeOk(t) /\ t.at \notin Inside /\ t.at # "idle"
    BY <1>2, <1>5, <2>2, <2>3 DEF RangeOk, Inside
  <2> QED BY <1>1, <1>2, <1>5, <2>1, <2>3, <2>4, MovesOutside
<1> QED BY <1>1, <1>2, <1>3, <1>4, <1>5 DEF releaseLock

\* The stream writes its own cursor.
LEMMA StreamCursorInv ==
    ASSUME UnreadInv, NEW p \in Readers, streamCursor(p)
    PROVE  UnreadInv'
<1>1. PICK to \in 0 .. entries : Become(p, [Resting EXCEPT !.at = "lock", !.key = "stream", !.to = to])
  BY DEF streamCursor
<1>2. PICK t : t = [Resting EXCEPT !.at = "lock", !.key = "stream", !.to = to]
  OBVIOUS
<1>3. to \in Nat /\ to <= entries
  BY DEF UnreadInv
<1>4. t \in Reading /\ t.at = "lock" /\ t.key = "stream" /\ t.lo = 0 /\ t.to = to
  BY <1>2, <1>3, RestingOk DEF Reading, Resting, CursorKeys
<1>5. PassedTo(0)
  BY DEF PassedTo, UnreadInv
<1>6. ReaderOk(t) /\ t.at \notin Inside
  BY <1>3, <1>4, <1>5 DEF ReaderOk, RangeOk, Inside
<1>7. \A e \in Nat : ~ Carries(p, e)
  BY DEF streamCursor, Carries
<1> QED BY <1>1, <1>2, <1>6, <1>7, OutsideStep DEF streamCursor

\* A process dies with what it carried.
LEMMA DieInv ==
    ASSUME UnreadInv, NEW p \in Readers, die(p)
    PROVE  UnreadInv'
BY ThrowHands, RestStep DEF die

\* No process moves: the log grows, the lock ages, or nothing happens.
LEMMA StillInv ==
    ASSUME UnreadInv, appendLog \/ lockAges \/ UNCHANGED unreadVars
    PROVE  UnreadInv'
<1>1. /\ UNCHANGED <<cursors, reader, returned, dropped, overlapped>>
      /\ entries \in Nat /\ entries' \in Nat /\ entries <= entries'
  BY DEF appendLog, lockAges, unreadVars, UnreadInv
<1>2. cursorLock'.by = cursorLock.by \/ \A q \in Readers : reader[q].at \in Inside => q \in overlapped
  <2>1. CASE UNCHANGED cursorLock
    BY <2>1
  <2>2. CASE cursorLock' = [cursorLock EXCEPT !.old = TRUE]
    BY <2>2
  <2> QED BY <2>1, <2>2 DEF appendLog, lockAges, unreadVars
<1>3. \A e \in Nat : Passed(e) => Passed(e)'
  BY <1>1 DEF Passed, Carries
<1>4. \A q \in Readers : ReaderOk(reader[q])'
  <2> SUFFICES ASSUME NEW q \in Readers PROVE ReaderOk(reader[q])'
    OBVIOUS
  <2>1. PICK x : x = reader[q]
    OBVIOUS
  <2>2. ReaderOk(x)
    BY <2>1 DEF UnreadInv
  <2>3. ReaderOk(x)'
    BY <1>1, <1>3, <2>2, KeepsReader
  <2> QED BY <1>1, <2>1, <2>3
<1>5. PassedTo(cursors["unread"])'
  BY <1>1, <1>3 DEF UnreadInv, PassedTo, CursorKeys
<1>6. \A q \in Readers : LockOk(q)'
  BY <1>1, <1>2 DEF UnreadInv, LockOk
<1> QED BY <1>1, <1>4, <1>5, <1>6 DEF UnreadInv

\* UnreadInv holds initially.
LEMMA UnreadStart ==
    ASSUME UnreadInit
    PROVE  UnreadInv
<1>1. \A n : n = 0 => PassedTo(n)
  BY DEF PassedTo, UnreadInit
<1> QED BY <1>1, RestingOk DEF UnreadInit, UnreadInv, LockOk, CursorKeys, Inside

\* readLog and withLock: the inductive invariant of the reads and of the cursor file.
THEOREM UnreadIsInductive == UnreadSpec => []UnreadInv
<1>1. UnreadInit => UnreadInv
  BY UnreadStart
<1>2. UnreadInv /\ [UnreadNext]_unreadVars => UnreadInv'
  BY GetCursorInv, PageInv, RetryInv, CompositionInv, OpenLockInv, StatInv, ReadStateInv, WriteStateInv,
     ReleaseInv, StreamCursorInv, DieInv, StillInv DEF UnreadNext
<1> QED BY <1>1, <1>2, PTL DEF UnreadSpec

\* readLog: behind the unread cursor there is no entry that no caller was given, that no
\* read holds and that was not lost with the read that failed, whatever the number of
\* processes, entries, pages, deaths and stolen locks.
THEOREM NothingUnreadIsPassed == UnreadSpec => []UnreadNotPassed
<1>1. UnreadInv => UnreadNotPassed
  <2> SUFFICES ASSUME UnreadInv, NEW e \in 1 .. cursors["unread"], NEW p \in Readers, Carries(p, e)
               PROVE  reader[p].at # "idle" /\ reader[p].key = "unread" /\ reader[p].lo < e /\ e <= reader[p].to
    BY DEF UnreadInv, UnreadNotPassed, PassedTo, Passed
  <2>1. reader[p] \in Reading /\ ReaderOk(reader[p]) /\ e \in Nat
    BY DEF UnreadInv
  <2>2. reader[p].at # "idle" /\ reader[p].key = "unread" /\ RangeOk(reader[p])
    BY <2>1 DEF Carries, ReaderOk
  <2> QED BY <2>1, <2>2, ReadingFields DEF Carries, RangeOk
<1> QED BY <1>1, UnreadIsInductive, PTL

\* withLock: only the stream's own clearing, or a process whose stay in the lock was
\* overlapped, moves a cursor of the shared file back.
THEOREM NoAdvanceIsLost == UnreadSpec => NoLostAdvance
<1>1. ASSUME UnreadInv, [UnreadNext]_unreadVars, NEW k \in CursorKeys, cursors'[k] < cursors[k]
      PROVE  \E p \in Readers :
                /\ reader[p].at = "write" /\ reader'[p].at = "release"
                /\ \/ p \in overlapped
                   \/ k = "stream" /\ reader[p].key = k /\ Wanted(reader[p]) = 0
  <2>1. cursors' # cursors
    <3>1. cursors[k] \in Nat
      BY <1>1 DEF UnreadInv
    <3> QED BY <1>1, <3>1
  <2>2. PICK p \in Readers : writeState(p)
    BY <1>1, <2>1 DEF UnreadNext, unreadVars, getLocalServerCursor, localReadLogPage, requestWithRetry,
                      localCubeComposition, openLock, statLock, unlinkLock, readState, releaseLock,
                      streamCursor, die, appendLog, lockAges
  <2>3. PICK r : r = reader[p]
    OBVIOUS
  <2>4. /\ r.at = "write" /\ cursors' = [r.snap EXCEPT ![r.key] = r.to]
        /\ Become(p, [r EXCEPT !.at = "release", !.moved = r.to])
    BY <2>1, <2>2, <2>3 DEF writeState, Wanted
  <2>5. r \in Reading /\ RangeOk(r) /\ LockOk(p) /\ cursors \in [CursorKeys -> Nat] /\ r.to \in Nat
        /\ r.snap \in [CursorKeys -> Nat] /\ r.key \in CursorKeys
    BY <1>1, <2>3, <2>4, ReadingFields DEF UnreadInv, ReaderOk
  <2>6. reader'[p].at = "release"
    BY <1>1, <2>4, <2>5 DEF UnreadInv, Become, Reading
  <2>7. ASSUME p \notin overlapped PROVE k = "stream" /\ r.key = k /\ r.to = 0
    <3>1. r.snap = cursors /\ (r.to # 0 => cursors[r.key] < r.to)
      BY <2>3, <2>4, <2>5, <2>7 DEF LockOk, Inside
    <3>2. k = r.key /\ r.to < cursors[r.key]
      BY <1>1, <2>4, <2>5, <3>1
    <3>3. r.to = 0
      BY <2>5, <3>1, <3>2
    <3> QED BY <2>4, <2>5, <3>2, <3>3 DEF RangeOk, CursorKeys
  <2> QED BY <2>3, <2>4, <2>6, <2>7 DEF Wanted
<1>2. UnreadInv /\ [UnreadNext]_unreadVars =>
         [\A k \in CursorKeys :
            cursors'[k] < cursors[k] =>
               \E p \in Readers :
                  /\ reader[p].at = "write" /\ reader'[p].at = "release"
                  /\ \/ p \in overlapped
                     \/ k = "stream" /\ reader[p].key = k /\ Wanted(reader[p]) = 0]_unreadVars
  BY <1>1
<1> QED BY <1>2, UnreadIsInductive, PTL DEF UnreadSpec, NoLostAdvance
=============================================================================
