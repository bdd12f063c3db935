--------------------------- MODULE MCTakeoverGate ---------------------------
(***************************************************************************)
(* Instances of TakeoverGate for TLC.                                      *)
(***************************************************************************)
EXTENDS TakeoverGate

CONSTANTS t1, t2, phone, tablet

(* The tools of the sidecar that the gate is meant to hold back.            *)
GatedTools == {"act", "detect", "ask"}
(* The demo agent: the resolver of challenge_guard, and credential fills.   *)
DemoTools == {"guard", "fill"}
(* What the Control Client offers for a takeover request; submitting a      *)
(* ciphertext to one takes a hand-made call of the API.                     *)
ClientDecisions == Outcomes \ {"fulfilled"}
=============================================================================
