----------------------------- MODULE DharaStore -----------------------------
(***************************************************************************)
(* What DharaFS promises its callers: a map from paths to values, changed  *)
(* by one write, delete or rename at a time.  A request that is answered   *)
(* "ok" took effect as a whole, at one instant; one that is answered       *)
(* "error", or that the machine lost in a reset, had no effect at all.     *)
(* Nothing else, a restart included, changes the map: "old OR new, never   *)
(* mixed".                                                                 *)
(***************************************************************************)
CONSTANTS Path, Value, Absent, NoRequest

VARIABLES
    store,     \* what each path holds
    request,   \* the request being served, or NoRequest
    answer     \* how the last request ended

storeVars == <<store, request, answer>>

Write(p, v)  == [op |-> "write", path |-> p, to |-> p, value |-> v]
Delete(p)    == [op |-> "delete", path |-> p, to |-> p, value |-> Absent]
Rename(p, q) == [op |-> "rename", path |-> p, to |-> q, value |-> store[p]]

\* The map once r has taken effect.
Effect(r) == [[store EXCEPT ![r.path] = Absent] EXCEPT ![r.to] = r.value]

Init ==
    /\ store = [p \in Path |-> Absent]
    /\ request = NoRequest
    /\ answer = "ok"

Begin ==
    /\ request = NoRequest
    /\ \E p, q \in Path :
        request' \in {Write(p, v) : v \in Value} \cup {Delete(p)}
                        \cup {r \in {Rename(p, q)} : p # q /\ store[p] # Absent}
    /\ UNCHANGED <<store, answer>>

Commit ==
    /\ request # NoRequest
    /\ store' = Effect(request)
    /\ request' = NoRequest
    /\ answer' = "ok"

Abandon ==
    /\ request # NoRequest
    /\ request' = NoRequest
    /\ answer' \in {"error", "lost"}
    /\ UNCHANGED store

Next == Begin \/ Commit \/ Abandon

Spec == Init /\ [][Next]_storeVars
=============================================================================
