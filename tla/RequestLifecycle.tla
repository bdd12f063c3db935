-------------------------- MODULE RequestLifecycle --------------------------
(***************************************************************************)
(* What a Control Request promises: the status moves along a fixed graph,  *)
(* "expired" is final, and the sensitive action behind an approval is      *)
(* carried out at most once, after the request was consumed.  RequestStore *)
(* implements this specification as long as operations do not overlap.     *)
(***************************************************************************)
EXTENDS Naturals

CONSTANTS Requests, TypeOf

VARIABLES state, done

vars == <<state, done>>

Live == {"pending", "user_control", "approved"}

(* The moves a request may make once it exists.                             *)
Edge(r, a, b) ==
    \/ a \in Live /\ b \in {"fulfilled", "approved", "denied", "challenge_completed"}
    \/ a \in Live /\ b = "released" /\ TypeOf[r] = "takeover"
    \/ a \in Live \ {"approved"} /\ b = "cancelled"
    \/ a = "approved" /\ b = "consumed" /\ TypeOf[r] \in {"approval", "restart"}
    \/ a = "fulfilled" /\ b = "challenge_completed"
    \/ a = "fulfilled" /\ b = "consumed" /\ TypeOf[r] = "provider"

Init ==
    /\ state = [r \in Requests |-> "absent"]
    /\ done = [r \in Requests |-> 0]

Open(r) ==
    /\ state[r] = "absent"
    /\ state' = [state EXCEPT ![r] = IF TypeOf[r] = "takeover" THEN "user_control" ELSE "pending"]
    /\ UNCHANGED done

Move(r) ==
    /\ \E b \in {"fulfilled", "approved", "denied", "challenge_completed",
                 "released", "cancelled", "consumed"} :
          Edge(r, state[r], b) /\ state' = [state EXCEPT ![r] = b]
    /\ UNCHANGED done

(* Any number of overdue requests expire together.                          *)
Expire ==
    /\ \E S \in SUBSET {r \in Requests : state[r] # "absent"} :
          state' = [r \in Requests |-> IF r \in S THEN "expired" ELSE state[r]]
    /\ UNCHANGED done

(* The sensitive action: once per consumed approval, once per submitted     *)
(* provider key, and only while approved for a console restart.             *)
CarryOut(r) ==
    /\ \/ TypeOf[r] = "approval" /\ state[r] = "consumed" /\ done[r] = 0
       \/ TypeOf[r] = "provider" /\ state[r] = "fulfilled" /\ done[r] = 0
       \/ TypeOf[r] = "restart" /\ state[r] = "approved"
    /\ done' = [done EXCEPT ![r] = @ + 1]
    /\ UNCHANGED state

Next ==
    \/ Expire
    \/ \E r \in Requests : Open(r) \/ Move(r) \/ CarryOut(r)

Spec == Init /\ [][Next]_vars
=============================================================================
