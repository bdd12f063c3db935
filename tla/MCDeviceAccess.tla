--------------------------- MODULE MCDeviceAccess ---------------------------
(***************************************************************************)
(* Instances of DeviceAccess for TLC.                                      *)
(***************************************************************************)
EXTENDS DeviceAccess, TLC

CONSTANTS code1, phone, tablet    \* a code and devices
CONSTANTS h1, h2, cli                    \* handler threads and a command
CONSTANT service                         \* its process

OneProcess == [w \in Workers |-> service]

(* One client logs in and streams, another looks at a code and pairs; both  *)
(* call, and revoke, while the operator invites and revokes.                *)
Everyday ==
    [w \in Workers |-> CASE w = h1  -> {"login", "access", "stream", "revoke"}
                         [] w = h2  -> {"lookup", "pair", "access", "revoke"}
                         [] w = cli -> {"invite", "admin"}]
=============================================================================
