---------------------------- MODULE MCSessionTurn ----------------------------
(***************************************************************************)
(* Instances of SessionTurn for TLC.                                       *)
(***************************************************************************)
EXTENDS SessionTurn

Seqs(S, n) == UNION {[1 .. k -> S] : k \in 0 .. n}

\* A client with its own turns: prompts, compactions, interrupts and mail that
\* waits, with a late injection or the guardian ending a turn.
ClientOps == {"user", "compact", "interrupt", "mail"}
ClientScripts ==
    [loop : {<<op>> \o rest : op \in {"user", "mail"}, rest \in Seqs(ClientOps, 2)},
     ext : {<<>>}]
    \cup [loop : {<<"user", "mail">>}, ext : {<<"inject">>, <<"abort">>}]
\* A subagent: turns start for its mail, or for an extension's idle work.
AgentScripts ==
    [loop : Seqs({"mail", "trigger"}, 2), ext : {<<"idle">>}]
        \cup [loop : Seqs({"mail", "trigger"}, 3), ext : {<<>>}]

EachAlone == ClientScripts \cup AgentScripts
\* A prompt arrives when a finished turn starts the next one for its mail.
PromptMeetsMail == {[loop |-> <<"trigger", "trigger", "user">>, ext |-> <<>>]}
=============================================================================
