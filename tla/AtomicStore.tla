----------------------------- MODULE AtomicStore -----------------------------
(***************************************************************************)
(* What withStore promises its callers: transactions take effect one at a  *)
(* time, each on top of all the earlier ones, at most once; and one that   *)
(* is reported as done has taken effect.  (One that is reported as failed  *)
(* may have: the directory is synced after the rename.)                    *)
(***************************************************************************)
CONSTANT Txns      \* the transactions callers may ask for

VARIABLES
    store,   \* the transactions whose effect the file has
    done     \* those whose caller was told so

Init == store = {} /\ done = {}

Apply(t) ==
    /\ t \notin store
    /\ store' = store \cup {t}
    /\ UNCHANGED done

Report(t) ==
    /\ t \in store
    /\ done' = done \cup {t}
    /\ UNCHANGED store

Next == \E t \in Txns : Apply(t) \/ Report(t)

Spec == Init /\ [][Next]_<<store, done>>
==============================================================================
