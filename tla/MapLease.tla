------------------------------ MODULE MapLease ------------------------------
(***************************************************************************)
(* What the daemon's global state promises its tasks: a task that asks for *)
(* a set of maps gets all of them or none, never a map somebody else has,  *)
(* and is turned down only when somebody really has one of them.           *)
(***************************************************************************)
CONSTANTS Tasks, Maps

VARIABLES want,     \* the maps each task asks for
          verdict   \* "pending", "granted", "denied" or "over"

vars == <<want, verdict>>

Verdicts == {"pending", "granted", "denied", "over"}

Overlap(t, u) == want[t] \cap want[u] # {}

TypeOK == /\ want \in [Tasks -> SUBSET Maps]
          /\ verdict \in [Tasks -> Verdicts]

Init == /\ want \in [Tasks -> SUBSET Maps]
        /\ verdict = [t \in Tasks |-> "pending"]

Grant(t) ==
    /\ verdict[t] = "pending"
    /\ \A u \in Tasks : verdict[u] = "granted" => ~Overlap(t, u)
    /\ verdict' = [verdict EXCEPT ![t] = "granted"]
    /\ UNCHANGED want

Deny(t) ==
    /\ verdict[t] = "pending"
    /\ \E u \in Tasks : verdict[u] = "granted" /\ Overlap(t, u)
    /\ verdict' = [verdict EXCEPT ![t] = "denied"]
    /\ UNCHANGED want

(* Tasks return their maps or give up asking: one of them when it finishes, *)
(* all of them when the process goes away.                                  *)
Leave(S) ==
    /\ \A t \in S : verdict[t] \in {"pending", "granted"}
    /\ verdict' = [t \in Tasks |-> IF t \in S THEN "over" ELSE verdict[t]]
    /\ UNCHANGED want

Next == \/ \E t \in Tasks : Grant(t) \/ Deny(t)
        \/ \E S \in SUBSET Tasks : Leave(S)

Spec == Init /\ [][Next]_vars

(* No map is granted to two tasks at once. *)
Exclusive ==
    \A t, u \in Tasks :
        t # u /\ verdict[t] = "granted" /\ verdict[u] = "granted" => ~Overlap(t, u)

=============================================================================
