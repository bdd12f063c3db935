---------------------------- MODULE MCChatBridge -----------------------------
(***************************************************************************)
(* An instance of ChatBridge for TLC: one of the phone's messages says the *)
(* same as the prompt typed at the terminal.                               *)
(***************************************************************************)
EXTENDS ChatBridge

CONSTANTS m1, m2, p1

SameText == [m \in Messages |-> IF m = m2 THEN "stop" ELSE "go on"]

Play(who, claims, replies, escapes, faults) ==
    [who |-> who, claims |-> claims, replies |-> replies, escapes |-> escapes,
     faults |-> faults]

(* A message meets a typed prompt and Esc, or loses its claim to another     *)
(* command; two messages, one of which interrupts; a reply that is cut off   *)
(* or whose command is killed.                                               *)
Encounters ==
    {Play({m1, p1}, 1, 0, 1, 0), Play({m1, p1}, 2, 0, 0, 0),
     Play({m1, m2}, 2, 0, 0, 0), Play({m1}, 1, 1, 1, 1)}
=============================================================================
