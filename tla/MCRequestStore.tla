--------------------------- MODULE MCRequestStore ---------------------------
(***************************************************************************)
(* Instances of RequestStore for TLC.                                      *)
(***************************************************************************)
EXTENDS RequestStore, TLC

CONSTANTS click1, hand1, boot1, key1     \* requests, one per class
CONSTANTS agent, client, second          \* workers
CONSTANTS service, sidecar               \* processes

AllTypes ==
    [r \in Requests |-> CASE r = click1 -> "approval"
                          [] r = hand1  -> "takeover"
                          [] r = boot1  -> "restart"
                          [] r = key1   -> "provider"]

(* One worker: every operation, never overlapping.                          *)
Everything == [w \in Workers |-> Operations]

(* The threads of the Control Service next to the sidecar's only thread, in *)
(* one process or in two.                                                   *)
OneProcess == [w \in Workers |-> service]
TwoProcesses == [w \in Workers |-> IF w = agent THEN sidecar ELSE service]
Roles ==
    [w \in Workers |->
       IF w = agent THEN {"create", "list", "get", "click"}
                    ELSE {"list", "submit", "approve", "deny", "complete", "release",
                          "frame", "renew", "obsolete"}]

(* The dialogue: two clients decide while the agent asks and clicks.         *)
Deciders ==
    [w \in Workers |-> IF w = agent THEN {"create", "click"}
                                    ELSE {"approve", "deny", "release", "list"}]

ClientSymmetry == Permutations({client, second})
=============================================================================
