------------------------------- MODULE RoleSync -------------------------------
(***************************************************************************)
(* borg_sync_roles and borg_apply_template (syncRoles and applyTemplate in *)
(* remote-client.ts): a cube's roles and message taxonomy are compared     *)
(* with a template, fragment by fragment, and brought up to it by single   *)
(* requests to the server.  What the cube lacks is added; what it has      *)
(* evolved is replaced only where the caller said so.  Others edit the     *)
(* cube meanwhile, and a request or its answer may be lost.                *)
(*                                                                         *)
(* One role of the template, with a scalar field and a section of its      *)
(* text, and one message class: a fragment of each kind.  Custom roles are *)
(* never looked at.  A dry run sends nothing and is left out.              *)
(***************************************************************************)
EXTENDS Naturals, Sequences

CONSTANTS
    Syncers,    \* calls under way at one time
    Evolved,    \* values the cube's people gave a fragment
    Missing,    \* an absent fragment
    Template,   \* the template's value
    MaxSyncs, MaxEdits, MaxLosses   \* bounds

ASSUME SyncAssumption ==
    /\ Missing \notin Evolved /\ Template \notin Evolved /\ Missing # Template
    /\ {MaxSyncs, MaxEdits, MaxLosses} \subseteq Nat

VARIABLES
    role,      \* the server: whether the role is there
    value,     \* the server: each fragment
    sync,      \* each call: what it has still to send, its decisions, and whether the
               \* role whose id it read is gone
    since,     \* ghost: the fragments others changed since each call read the cube
    syncs, cubeEdits, losses

syncVars == <<role, value, sync, since, syncs, cubeEdits, losses>>

Fragments == {"field", "section", "class"}
OfRole == {"field", "section"}
NoSync == [on |-> FALSE, todo |-> <<>>, accept |-> {}, gone |-> FALSE]

SyncTypeOK ==
    /\ role \in BOOLEAN /\ value \in [Fragments -> Evolved \cup {Missing, Template}]
    /\ \A p \in Syncers : sync[p].on \in BOOLEAN /\ sync[p].gone \in BOOLEAN /\ sync[p].accept \subseteq Fragments
    /\ since \in [Syncers -> SUBSET Fragments]
    /\ syncs \in 0..MaxSyncs /\ cubeEdits \in 0..MaxEdits /\ losses \in 0..MaxLosses

SyncInit ==
    /\ role \in BOOLEAN
    /\ value \in [Fragments -> Evolved \cup {Missing, Template}]
    /\ ~ role => \A f \in OfRole : value[f] = Missing
    /\ sync = [p \in Syncers |-> NoSync] /\ since = [p \in Syncers |-> {}]
    /\ syncs = 0 /\ cubeEdits = 0 /\ losses = 0

-----------------------------------------------------------------------------
NotRejected(f, accept) == TRUE
\* `decisions[key] === 'accept'`: a conflict nobody decided is rejected.
Decided(f, accept) == f \in accept

\* The requests for one fragment: an addition, a replacement, or none.
Fragment(f, accept) ==
    CASE value[f] = Missing  -> <<[f |-> f, action |-> "add"]>>
      [] value[f] = Template -> <<>>
      [] OTHER -> IF Decided(f, accept) THEN <<[f |-> f, action |-> "replace"]>> ELSE <<>>

\* The order of the additions: the role, or its fields and sections; then the classes.
Additions(accept) ==
    (IF role THEN Fragment("field", accept) \o Fragment("section", accept)
             ELSE <<[f |-> "role", action |-> "add"]>>)
    \o Fragment("class", accept)

\* The cube and its roles come from requests made together; nothing relates the two.
Begin(p, accept) ==
    /\ ~ sync[p].on /\ syncs < MaxSyncs
    /\ sync' = [sync EXCEPT ![p] =
                   [NoSync EXCEPT !.on = TRUE, !.todo = Additions(accept), !.accept = accept]]
    /\ since' = [since EXCEPT ![p] = {}]
    /\ syncs' = syncs + 1
    /\ UNCHANGED <<role, value, cubeEdits, losses>>

syncRoles(p) == \E accept \in SUBSET Fragments : Begin(p, accept)

\* applyTemplate adds what is missing and never replaces.
applyTemplate(p) == Begin(p, {})

-----------------------------------------------------------------------------
\* What the server takes: a role or a class that is there already is not made again; a
\* section is inserted where there is none and replaced where there is one (409 otherwise).
\* Fields and sections are addressed by the role's id, which a new one does not have.
Allowed(op, gone) ==
    CASE op.f = "role"    -> ~ role
      [] op.f = "field"   -> role /\ ~ gone
      [] op.f = "section" -> role /\ ~ gone /\ (op.action = "add") = (value["section"] = Missing)
      [] op.f = "class"   -> (op.action = "add") = (value["class"] = Missing)

Written(fs) == value' = [f \in Fragments |-> IF f \in fs THEN Template ELSE value[f]]

createRole == role' = TRUE /\ Written(OfRole)
\* A PATCH of the given fields, whatever they are by now.
updateRole == Written({"field"}) /\ UNCHANGED role
patchRoleSection == Written({"section"}) /\ UNCHANGED role
patchTaxonomyClass == Written({"class"}) /\ UNCHANGED role

Send(op, gone) ==
    /\ Allowed(op, gone)
    /\ \/ op.f = "role"    /\ createRole
       \/ op.f = "field"   /\ updateRole
       \/ op.f = "section" /\ patchRoleSection
       \/ op.f = "class"   /\ patchTaxonomyClass

Touched(op) == IF op.f = "role" THEN OfRole ELSE {op.f}

Noticed(p, changed) == since' = [q \in Syncers |-> IF q = p THEN since[q] ELSE since[q] \cup changed]

\* `await addition.run()`: one request each, in order.
addition(p) ==
    LET op == Head(sync[p].todo) IN
    /\ sync[p].on /\ sync[p].todo # <<>>
    /\ Send(op, sync[p].gone) /\ Noticed(p, Touched(op))
    /\ sync' = [sync EXCEPT ![p].todo = Tail(@)]
    /\ UNCHANGED <<syncs, cubeEdits, losses>>

\* A refusal, or a lost request or answer, ends the call where it is.
additionThrows(p) ==
    LET op == Head(sync[p].todo) IN
    /\ sync[p].on /\ sync[p].todo # <<>>
    /\ \/ ~ Allowed(op, sync[p].gone) /\ UNCHANGED <<role, value, since, losses>>
       \/ /\ losses < MaxLosses /\ losses' = losses + 1
          /\ \/ UNCHANGED <<role, value, since>>
             \/ Send(op, sync[p].gone) /\ Noticed(p, Touched(op))
    /\ sync' = [sync EXCEPT ![p] = NoSync]
    /\ UNCHANGED <<syncs, cubeEdits>>

\* The result is returned: what was added and what was accepted.
returnResult(p) ==
    /\ sync[p].on /\ sync[p].todo = <<>>
    /\ sync' = [sync EXCEPT ![p] = NoSync]
    /\ UNCHANGED <<role, value, since, syncs, cubeEdits, losses>>

\* Somebody else with a grant: evolves or removes a fragment, makes or deletes the role.
editCube ==
    /\ cubeEdits < MaxEdits /\ cubeEdits' = cubeEdits + 1
    /\ \/ \E f \in Fragments, v \in Evolved \cup {Missing} :
             /\ f \in OfRole => role
             /\ v # value[f] /\ value' = [value EXCEPT ![f] = v]
             /\ since' = [q \in Syncers |-> since[q] \cup {f}]
             /\ UNCHANGED <<role, sync>>
       \/ /\ role' = ~ role
          /\ \E v \in IF role THEN {Missing} ELSE Evolved :
                value' = [f \in Fragments |-> IF f \in OfRole THEN v ELSE value[f]]
          /\ since' = [q \in Syncers |-> since[q] \cup OfRole]
          /\ sync' = [q \in Syncers |-> [sync[q] EXCEPT !.gone = @ \/ (sync[q].on /\ role)]]
    /\ UNCHANGED <<syncs, losses>>

SyncNext ==
    \/ \E p \in Syncers : \/ syncRoles(p) \/ applyTemplate(p) \/ addition(p)
                          \/ additionThrows(p) \/ returnResult(p)
    \/ editCube

SyncSpec == SyncInit /\ [][SyncNext]_syncVars

-----------------------------------------------------------------------------
\* syncRoles ("the cube's evolved text is never silently overwritten"): a template value
\* takes the place of an evolved one only where that call's decisions accept it, or where
\* it is a scalar field somebody set after the call had read the cube without it.
NeverClobbers ==
    [][\A f \in Fragments :
          value[f] \in Evolved /\ value'[f] = Template =>
             \E p \in Syncers :
                /\ sync[p].on /\ sync[p].todo # <<>> /\ sync'[p].todo # sync[p].todo
                /\ \/ f \in sync[p].accept
                   \/ f = "field" /\ f \in since[p]]_syncVars
==============================================================================
