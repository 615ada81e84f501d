--------------------------- MODULE RepositoryCube ---------------------------
(***************************************************************************)
(* The cube of a repository (repository-cube-init.ts), composed with the   *)
(* enrolment it is found or made under.  A command resolves the cube the   *)
(* server has bound to the repository, adopts one by name or creates one,  *)
(* has the server confirm the binding, and keeps it as the repository's    *)
(* association with that server identity (repository-identity.ts).  All of *)
(* it is done with the session the command began with, while other         *)
(* processes enrol anew, recover, or do the same.                          *)
(***************************************************************************)
EXTENDS Enrollment

CONSTANTS
    Old,    \* a cube with the repository's name that the client may use
    New     \* the cube that is created for the repository

ASSUME CubeAssumption == Old # New /\ None \notin {Old, New}

VARIABLES
    binding,   \* the servers: the cube bound to the repository, per identity
    assoc,     \* repository-identity.json: the cube associated, per identity
    retry,     \* the cube creation that is not confirmed yet, per identity
    job        \* how far each command is with its cube

cubeVars == <<binding, assoc, retry>>
vars == <<eVars, cubeVars, job>>

Cubes == {Old, New}
NoJob == [at |-> "none", cube |-> None]

Init ==
    /\ EnrollmentInit
    /\ binding = [i \in Ids |-> None] /\ assoc = [i \in Ids |-> None]
    /\ retry = [i \in Ids |-> FALSE]
    /\ job = [p \in Procs |-> NoJob]

To(p, l, c) == job' = [job EXCEPT ![p] = [at |-> l, cube |-> c]]
End(p) == Stop(p) /\ job' = [job EXCEPT ![p] = NoJob]
At(p, l) == proc[p].at = "session" /\ job[p].at = l

\* A request of the session: the trust is loaded again and must be the same.
Ask(p) ==
    /\ Free /\ marker = None /\ pointer \in gens /\ SameIdentity(proc[p])
    /\ server = proc[p].id
    /\ sent' = sent \cup {<<proc[p].key, server>>}
    /\ UNCHANGED <<local, keys, letGo, runs, remote>>

requireMatchingServerCredential(p) == active[proc[p].id] = proc[p].key

Bind(p, c) == binding' = [binding EXCEPT ![proc[p].id] = c]

initializeRepositoryCube(p) ==
    LET known == assoc[proc[p].id]
    IN  /\ At(p, "none")
        /\ IF known = None THEN To(p, "resolve", None) ELSE To(p, "done", known)
        /\ UNCHANGED <<eVars, cubeVars>>

resolveRepositoryCube(p) ==
    /\ At(p, "resolve") /\ requireMatchingServerCredential(p) /\ Ask(p)
    /\ IF binding[proc[p].id] = None THEN To(p, "list", None)
                                     ELSE To(p, "save", binding[proc[p].id])
    /\ UNCHANGED <<cubeVars, faults, proc>>

\* The operator links the cube of that name, or has one created.
adoptExactMatch(p) ==
    /\ At(p, "list") /\ Ask(p)
    /\ To(p, "associate", Old) \/ To(p, "create", None)
    /\ UNCHANGED <<cubeVars, faults, proc>>

\* The server binds a repository once.
associateRepositoryCube(p) ==
    LET bound == binding[proc[p].id]
    IN  /\ At(p, "associate") /\ requireMatchingServerCredential(p) /\ Ask(p)
        /\ \/ /\ bound \in {None, Old} /\ Bind(p, Old)
              /\ \/ To(p, "confirm", Old) /\ UNCHANGED <<faults, proc>>
                 \/ Fault /\ End(p)                                   \* answer lost
           \/ bound = New /\ End(p) /\ UNCHANGED <<binding, faults>>  \* 409
        /\ UNCHANGED <<assoc, retry>>

getOrCreatePendingServerCubeCreation(p) ==
    /\ At(p, "create") /\ requireMatchingServerCredential(p)
    /\ retry' = [retry EXCEPT ![proc[p].id] = TRUE]
    /\ To(p, "post", None)
    /\ UNCHANGED <<eVars, binding, assoc>>

\* A repository that is bound by now is resolved or refused.
createBorgServerCube(p) ==
    LET bound == binding[proc[p].id]
    IN  /\ At(p, "post") /\ Ask(p)
        /\ \/ /\ bound = None /\ Bind(p, New)
              /\ \/ To(p, "clear", New) /\ UNCHANGED <<faults, proc>>
                 \/ Fault /\ End(p)
           \/ /\ bound # None /\ UNCHANGED <<binding, faults>>
              /\ \/ To(p, "clear", bound) /\ UNCHANGED proc
                 \/ End(p)
        /\ UNCHANGED <<assoc, retry>>

clearPendingServerCubeCreation(p) ==
    /\ At(p, "clear")
    /\ retry' = [retry EXCEPT ![proc[p].id] = FALSE]
    /\ To(p, "confirm", job[p].cube)
    /\ UNCHANGED <<eVars, binding, assoc>>

confirmAssociation(p) ==
    /\ At(p, "confirm") /\ requireMatchingServerCredential(p) /\ Ask(p)
    /\ \/ binding[proc[p].id] = job[p].cube /\ To(p, "save", job[p].cube) /\ UNCHANGED proc
       \/ binding[proc[p].id] # job[p].cube /\ End(p)
    /\ UNCHANGED <<cubeVars, faults>>

\* MUTANT of SavedUnder: the identity that is trusted by now.
SavedUnderCurrent(p) == pointer

SavedUnder(p) == proc[p].id

saveRepositoryAssociation(p) ==
    /\ At(p, "save") /\ SavedUnder(p) # None
    /\ assoc' = [assoc EXCEPT ![SavedUnder(p)] = job[p].cube]
    /\ To(p, "done", job[p].cube)
    /\ UNCHANGED <<eVars, binding, retry>>

\* A prompt is cancelled, a request fails, a credential is not the active one
\* any more, a write fails: the command ends where it is.
stopInitialization(p) ==
    /\ proc[p].at = "session" /\ job[p].at # "none" /\ End(p)
    /\ UNCHANGED <<local, bounds, remote, cubeVars>>

Cube(p) ==
    \/ initializeRepositoryCube(p) \/ resolveRepositoryCube(p) \/ adoptExactMatch(p)
    \/ associateRepositoryCube(p) \/ getOrCreatePendingServerCubeCreation(p)
    \/ createBorgServerCube(p) \/ clearPendingServerCubeCreation(p)
    \/ confirmAssociation(p) \/ saveRepositoryAssociation(p) \/ stopInitialization(p)

\* A command that ends has no job.
Enrolling ==
    /\ EnrollmentNext
    /\ job' = [p \in Procs |-> IF proc'[p].at = "idle" THEN NoJob ELSE job[p]]
    /\ UNCHANGED cubeVars

Next == Enrolling \/ \E p \in Procs : Cube(p)

Spec == Init /\ [][Next]_vars

-----------------------------------------------------------------------------
(* Properties.                                                             *)

\* The association kept for a server identity is the binding that server has,
\* whatever became of the enrolment, the answers and the other commands on
\* the way (repository-cube-init.ts 445-474, repository-identity.ts 294-304).
AssociationIsBinding == \A i \in Ids : assoc[i] \in {None, binding[i]}
=============================================================================
