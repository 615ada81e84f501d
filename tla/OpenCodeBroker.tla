--------------------------- MODULE OpenCodeBroker ---------------------------
(***************************************************************************)
(* The broker of an OpenCode 2 launch (opencode-v2-broker.ts).  It runs in *)
(* the launcher; the MCP child asks it to wake the agent, the plugin in    *)
(* the native host reports the human's prompts and its own readiness.      *)
(* Wakes and the reconciling timer run one after the other (`serial`);     *)
(* every other operation runs between any two of their awaits.             *)
(*                                                                         *)
(* A delivery's native message id stands for its source.  The journal is   *)
(* only ever written, so of a write of it there remains that it may fail.  *)
(* Texts, aliases, the audit counters and the descriptor files are left    *)
(* out; so is the readiness probe, a wake that skips the gate.             *)
(***************************************************************************)
EXTENDS Naturals

CONSTANTS
    Wakers,     \* /wake requests, or timer rounds, under way at one time
    Hook,       \* the /context (or /status) request under way
    Nobody2,    \* nobody holds the queue; no human prompt to hand over to
    V2Sources,  \* log entries
    V2Sessions, \* sessions of the worktree in the native host
    MaxHumans, MaxWakes, MaxBrokerFaults \* bounds

ASSUME BrokerAssumption ==
    /\ Hook \notin Wakers /\ Nobody2 \notin Wakers \cup V2Sessions
    /\ Nobody2 \notin [n : 1 .. MaxHumans, session : V2Sessions]
    /\ {MaxHumans, MaxWakes, MaxBrokerFaults} \subseteq Nat

VARIABLES
    sessionID,    \* the session wakes go to
    humanHandoff, \* the last human prompt reported and not yet adopted
    humans,       \* how many were reported
    adopted,      \* history: the newest report that was adopted
    deliveries,   \* what the broker knows of each source
    native,       \* external: sources the host holds, in which session and where
    late,         \* external: prompts whose request was given up and may still land
    op,           \* each request: its next step
    serial,       \* the request that holds the queue
    ready,        \* the plugin reported itself and its tool catalogue
    wakes, bfaults

hostVars == <<native, late>>
bindVars == <<sessionID, humanHandoff, humans, adopted>>
brokerVars == <<bindVars, deliveries, hostVars, op, serial, ready, wakes, bfaults>>

Unknown == [session |-> Nobody2, admitted |-> FALSE, delivered |-> FALSE, settled |-> FALSE]
Rest == [pc |-> "rest", source |-> Nobody2, submit |-> FALSE, again |-> FALSE, took |-> Nobody2]
Requests == Wakers \cup {Hook}

BrokerInit ==
    /\ sessionID \in V2Sessions
    /\ humanHandoff = Nobody2 /\ humans = 0
    /\ adopted = [n |-> 0, session |-> sessionID]
    /\ deliveries = [s \in V2Sources |-> Unknown]
    /\ native = {} /\ late = {}
    /\ op = [p \in Requests |-> Rest] /\ serial = Nobody2
    /\ ready = FALSE /\ wakes = 0 /\ bfaults = 0

Go2(p, l) == op' = [op EXCEPT ![p].pc = l]

\* The request is answered, or refused because something in it threw.
Answered(p) ==
    /\ op' = [op EXCEPT ![p] = Rest]
    /\ serial' = IF serial = p THEN Nobody2 ELSE serial

Misfortune == bfaults < MaxBrokerFaults /\ bfaults' = bfaults + 1

Throws(p) ==
    /\ Misfortune /\ Answered(p)
    /\ UNCHANGED <<hostVars, ready, wakes>>

-----------------------------------------------------------------------------
(* Requests.                                                               *)

Wake(p, s, submit) ==
    /\ op[p].pc = "rest" /\ wakes < MaxWakes
    /\ op' = [op EXCEPT ![p] = [Rest EXCEPT !.pc = "queued", !.source = s, !.submit = submit]]
    /\ wakes' = wakes + 1
    /\ UNCHANGED <<bindVars, deliveries, hostVars, serial, ready, bfaults>>

Dequeue(p) ==
    /\ op[p].pc = "queued" /\ serial = Nobody2
    /\ serial' = p
    /\ Go2(p, "resolve")
    /\ UNCHANGED <<bindVars, deliveries, hostVars, ready, wakes, bfaults>>

\* The timer reconciles the deliveries that are not known to have arrived.
Round(p, s) ==
    /\ op[p].pc = "rest" /\ serial = Nobody2
    /\ deliveries[s] # Unknown /\ ~ deliveries[s].delivered /\ ~ deliveries[s].settled
    /\ serial' = p
    /\ op' = [op EXCEPT ![p] = [Rest EXCEPT !.pc = "message", !.source = s]]
    /\ UNCHANGED <<bindVars, deliveries, hostVars, ready, wakes, bfaults>>

Context ==
    /\ op[Hook].pc = "rest" /\ humanHandoff # Nobody2
    /\ Go2(Hook, "resolve")
    /\ UNCHANGED <<bindVars, deliveries, hostVars, serial, ready, wakes, bfaults>>

Human(session) ==
    /\ humans < MaxHumans
    /\ humans' = humans + 1
    /\ humanHandoff' = [n |-> humans + 1, session |-> session]
    /\ UNCHANGED <<sessionID, adopted, deliveries, hostVars, op, serial, ready, wakes, bfaults>>

Settle(s) ==
    /\ deliveries[s] # Unknown
    /\ deliveries' = [deliveries EXCEPT ![s].settled = TRUE]
    /\ UNCHANGED <<bindVars, hostVars, op, serial, ready, wakes, bfaults>>

\* /ready and /catalog, or /unready.
PluginReports ==
    /\ ready' = ~ ready
    /\ UNCHANGED <<bindVars, deliveries, hostVars, op, serial, wakes, bfaults>>

-----------------------------------------------------------------------------
(* resolveHandoff.                                                         *)

Resolve(p) ==
    /\ op[p].pc = "resolve"
    /\ op' = [op EXCEPT ![p].took = humanHandoff,
                        ![p].pc = IF humanHandoff = Nobody2 THEN "verify" ELSE "confirm"]
    /\ UNCHANGED <<bindVars, deliveries, hostVars, serial, ready, wakes, bfaults>>

\* The host has stored the prompt, or not yet; then the session is verified and
\* its permissions are prepared.
Confirmed(p) ==
    /\ op[p].pc = "confirm"
    /\ \/ /\ \E l \in {"verify", "adopt"} : Go2(p, l)
          /\ UNCHANGED <<hostVars, serial, ready, wakes, bfaults>>
       \/ Throws(p)
    /\ UNCHANGED <<bindVars, deliveries>>

\* Mutant: no second look.
NewestTrusted(p) == TRUE

\* A newer human prompt may have arrived while permissions were prepared.
StillNewest(p) == humanHandoff = op[p].took

Adopt(p) ==
    /\ op[p].pc = "adopt"
    /\ IF StillNewest(p)
       THEN /\ sessionID' = op[p].took.session
            /\ humanHandoff' = Nobody2
            /\ adopted' = IF op[p].took.n > adopted.n THEN op[p].took ELSE adopted
            /\ \/ Go2(p, "verify") /\ UNCHANGED <<hostVars, serial, ready, wakes, bfaults>>
               \/ Throws(p)
       ELSE /\ Go2(p, "resolve")
            /\ UNCHANGED <<sessionID, humanHandoff, adopted, hostVars, serial, ready, wakes, bfaults>>
    /\ UNCHANGED <<humans, deliveries>>

-----------------------------------------------------------------------------
(* /wake.                                                                  *)

\* The bound session is verified; the hook is answered here.
Verified(p) ==
    LET s == op[p].source
        Ends == p # Hook => IF op[p].submit THEN ~ ready ELSE deliveries[s] = Unknown
    IN  /\ op[p].pc = "verify"
        /\ \/ /\ Ends
              /\ Answered(p)
              /\ UNCHANGED <<deliveries, bfaults>>
           \/ /\ ~ Ends
              /\ deliveries' = IF deliveries[s] # Unknown THEN deliveries
                               ELSE [deliveries EXCEPT ![s] = [Unknown EXCEPT !.session = sessionID]]
              /\ \/ Go2(p, "message") /\ UNCHANGED <<serial, bfaults>>
                 \/ Misfortune /\ Answered(p)
           \/ Misfortune /\ Answered(p) /\ UNCHANGED deliveries
        /\ UNCHANGED <<bindVars, hostVars, ready, wakes>>

Settled2(d) == d.settled \/ d.delivered

\* submit, when reconcile has returned: d is what is known now.
Submits(p, d) ==
    /\ op[p].submit /\ ~ op[p].again
    /\ ~ d.admitted /\ ~ Settled2(d)

Reconciled2(p, d) ==
    IF Submits(p, d) THEN Go2(p, "prompt") /\ UNCHANGED serial ELSE Answered(p)

Held(d, s, place) == \E x \in native : x.source = s /\ x.session = d.session /\ x.place = place

\* reconcile: the message itself, ...
FindMessage(p) ==
    LET s == op[p].source
        d == deliveries[s]
        found == [d EXCEPT !.admitted = TRUE, !.delivered = TRUE]
    IN  /\ op[p].pc = "message"
        /\ \/ /\ Settled2(d)
              /\ Reconciled2(p, d)
              /\ UNCHANGED <<deliveries, bfaults>>
           \/ /\ ~ Settled2(d) /\ Held(d, s, "message")
              /\ deliveries' = [deliveries EXCEPT ![s] = found]
              /\ \/ Reconciled2(p, found) /\ UNCHANGED bfaults
                 \/ Misfortune /\ Answered(p)
           \/ /\ ~ Settled2(d)
              /\ IF Held(d, s, "message") THEN Misfortune ELSE UNCHANGED bfaults
              /\ Go2(p, "inbox")
              /\ UNCHANGED <<deliveries, serial>>
        /\ UNCHANGED <<bindVars, hostVars, ready, wakes>>

\* ... or its place in the session's inbox.
FindInbox(p) ==
    LET s == op[p].source
        d == deliveries[s]
        found == [d EXCEPT !.admitted = d.admitted \/ Held(d, s, "inbox")]
    IN  /\ op[p].pc = "inbox"
        /\ \/ /\ deliveries' = [deliveries EXCEPT ![s] = found]
              /\ \/ Reconciled2(p, found) /\ UNCHANGED bfaults
                 \/ found # d /\ Misfortune /\ Answered(p)
           \/ Misfortune /\ Answered(p) /\ UNCHANGED deliveries
        /\ UNCHANGED <<bindVars, hostVars, ready, wakes>>

\* Mutant: the wake goes to the session that is bound now.
PromptsBound(s) == sessionID

\* The session the wake was made for.
PromptSession(s) == deliveries[s].session

\* A prompt that failed, or was not answered, is looked for again.
Unanswered(p) ==
    /\ op' = [op EXCEPT ![p].pc = "message", ![p].again = TRUE]
    /\ UNCHANGED <<deliveries, serial>>

Prompt(p) ==
    LET s == op[p].source
        x == [source |-> s, session |-> PromptSession(s), place |-> "inbox"]
        Stored == IF \E y \in native : y.source = s /\ y.session = x.session
                  THEN native ELSE native \cup {x}
    IN  /\ op[p].pc = "prompt"
        /\ \/ /\ native' = Stored
              /\ deliveries' = [deliveries EXCEPT ![s].admitted = TRUE]
              /\ Answered(p)
              /\ UNCHANGED <<late, bfaults>>
           \/ /\ Misfortune
              /\ Unanswered(p)
              /\ \/ native' \in {native, Stored} /\ UNCHANGED late
                 \/ late' = late \cup {x} /\ UNCHANGED native
        /\ UNCHANGED <<bindVars, ready, wakes>>

-----------------------------------------------------------------------------
(* The native host.                                                        *)

LandsLate(x) ==
    /\ x \in late
    /\ late' = late \ {x}
    /\ native' = IF \E y \in native : y.source = x.source /\ y.session = x.session
                 THEN native ELSE native \cup {x}
    /\ UNCHANGED <<bindVars, deliveries, op, serial, ready, wakes, bfaults>>

\* The session takes the prompt from its inbox.
TurnStarts(x) ==
    /\ x \in native /\ x.place = "inbox"
    /\ native' = (native \ {x}) \cup {[x EXCEPT !.place = "message"]}
    /\ UNCHANGED <<bindVars, deliveries, late, op, serial, ready, wakes, bfaults>>

BrokerNext ==
    \/ \E p \in Wakers :
          \/ \E s \in V2Sources, submit \in BOOLEAN : Wake(p, s, submit)
          \/ \E s \in V2Sources : Round(p, s)
          \/ Dequeue(p) \/ FindMessage(p) \/ FindInbox(p) \/ Prompt(p)
    \/ \E p \in Requests : Resolve(p) \/ Confirmed(p) \/ Adopt(p) \/ Verified(p)
    \/ Context \/ PluginReports
    \/ \E session \in V2Sessions : Human(session)
    \/ \E s \in V2Sources : Settle(s)
    \/ \E x \in late : LandsLate(x)
    \/ \E x \in native : TurnStarts(x)

BrokerSpec == BrokerInit /\ [][BrokerNext]_brokerVars

-----------------------------------------------------------------------------
(* Properties                                                              *)

\* "Durable log source owns the native ID" (opencode-v2-broker.ts:120): however
\* often an entry is retried, over lost answers and human session switches in
\* between, the host is given it in one session only.
OneSessionPerSource ==
    \A x, y \in native \cup late : x.source = y.source => x.session = y.session

\* resolveHandoff awaits the host twice and runs in several requests at once, yet
\* the newest human prompt is adopted or still to be adopted, and the bound session
\* is the one of the newest adopted: an older prompt neither takes the binding back
\* nor clears a newer one away.
SessionIsNewest ==
    /\ sessionID = adopted.session
    /\ humans = IF humanHandoff = Nobody2 THEN adopted.n ELSE humanHandoff.n

=============================================================================
