----------------------------- MODULE ChatBridge ------------------------------
(***************************************************************************)
(* A prompt's way from the owner's phone to the running agent and back     *)
(* (codex-rs/tui/src/omnidoer_chat_bridge.rs, the chat store of the        *)
(* Control Service and the input queue of the terminal UI).                *)
(*                                                                         *)
(* The bridge's poller claims a queued message with a command of another   *)
(* process and tells both the bridge's publisher and the UI.  The UI       *)
(* submits the prompt to the agent, which records it in a turn; its        *)
(* notifications come back through the UI to the publisher, which          *)
(* completes the claimed message and writes the agent's reply, each with a *)
(* command of its own.  Commands load the store, change it and save it:    *)
(* the store's lock excludes threads, not processes.                       *)
(*                                                                         *)
(* A prompt is a sequence of messages: the UI joins several into one.      *)
(* Left out: what is written in a reply and which message it is said to    *)
(* answer, slash commands, and turns that cannot be steered.               *)
(***************************************************************************)
EXTENDS Naturals, Sequences, FiniteSets, SequencesExt, FiniteSetsExt

CONSTANTS
    Remote,         \* messages written on the phone
    Local,          \* prompts typed at the terminal
    Text,           \* what each of them says
    Pausing,        \* the messages of the phone that interrupt the turn
    MaxReplies,     \* replies the agent begins
    Casts           \* who takes part, and how often

Messages == Remote \cup Local

\* The messages that are written, the claims of the poller, the replies the
\* agent begins, the interrupts asked for at the terminal, and the commands
\* that are killed after 15 seconds.
Cast == [who : SUBSET Messages, claims : Nat, replies : 0 .. MaxReplies, escapes : Nat,
         faults : Nat]

ASSUME ChatAssumption ==
    /\ Remote \cap Local = {} /\ Pausing \subseteq Remote /\ IsFiniteSet(Remote)
    /\ DOMAIN Text = Messages
    /\ MaxReplies \in Nat /\ Casts \subseteq Cast

Replies == 1 .. 2 * MaxReplies

VARIABLES
    cast,       \* who takes part in this behaviour
    store,      \* chat.json: the messages' and the replies' status
    poll,       \* the store as the running claim loaded it
    snap,       \* the store as the publisher's running command loaded it
    outbound,   \* the channel to the publisher
    pub,        \* the publisher's state and what it has to do for an event
    events,     \* the UI's app events: claimed messages and operations
    notes,      \* notifications on their way from the agent to the app
    chan,       \* notifications on their way from the app to the chat widget
    tui,        \* the chat widget
    core,       \* the agent's session
    hist        \* what happened, for the properties

vars == <<cast, store, poll, snap, outbound, pub, events, notes, chan, tui, core, hist>>
bridge == <<cast, store, poll, snap, outbound, pub>>

Init ==
    /\ cast \in Casts
    /\ store = [msg |-> [m \in Remote |-> "none"], rep |-> [r \in Replies |-> "none"]]
    /\ poll = <<>> /\ snap = <<>> /\ outbound = <<>>
    /\ pub = [reply |-> 0, delta |-> FALSE, pending |-> <<>>, todo |-> <<>>, started |-> 0]
    /\ events = <<>> /\ notes = <<>> /\ chan = <<>>
    /\ tui = [running |-> FALSE, starting |-> FALSE, turn |-> 0, steers |-> <<>>,
              queued |-> <<>>, composer |-> <<>>, resubmit |-> FALSE, stopping |-> 0,
              requests |-> <<>>]
    /\ core = [subs |-> <<>>, turn |-> 0, last |-> 0, pending |-> <<>>, speaking |-> FALSE,
               spoken |-> 0]
    /\ hist = [recorded |-> <<>>, claims |-> [m \in Remote |-> 0],
               given |-> {}, typed |-> {}, dropped |-> {}, escapes |-> 0, interrupts |-> 0,
               faults |-> 0, damaged |-> FALSE]

(***************************************************************************)
(* The store and the commands on it.                                       *)
(***************************************************************************)

\* The Control Service appends a message.
Post(m) ==
    /\ m \in cast.who \ hist.typed
    /\ store' = [store EXCEPT !.msg[m] = "queued"]
    /\ hist' = [hist EXCEPT !.typed = @ \cup {m}]
    /\ UNCHANGED <<cast, poll, snap, outbound, pub, events, notes, chan, tui, core>>

\* A message that interrupts goes first; the others in the order of posting,
\* which the model leaves open.
FirstInLine(s) ==
    LET waiting == {m \in Remote : s.msg[m] = "queued"}
    IN IF waiting \cap Pausing # {} THEN waiting \cap Pausing ELSE waiting

LoadClaim ==
    /\ poll = <<>> /\ FirstInLine(store) # {}
    /\ MapThenSumSet(LAMBDA m : hist.claims[m], Remote) < cast.claims
    /\ poll' = <<store>>
    /\ UNCHANGED <<cast, store, snap, outbound, pub, events, notes, chan, tui, core, hist>>

Damage(loaded) == hist.damaged \/ loaded # store

\* The claim is saved, and its answer reaches the poller or does not: the
\* command may be killed after it saved.
SaveClaim ==
    /\ poll # <<>>
    /\ \E m \in FirstInLine(poll[1]), arrives \in BOOLEAN :
         /\ ~arrives => hist.faults < cast.faults
         /\ store' = [poll[1] EXCEPT !.msg[m] = "claimed"]
         /\ outbound' = IF arrives THEN Append(outbound, <<"claimed", m>>) ELSE outbound
         /\ events' = IF arrives THEN Append(events, <<"remote", m>>) ELSE events
         /\ hist' = [hist EXCEPT !.claims[m] = @ + 1,
                                 !.given = IF arrives THEN @ \cup {m} ELSE @,
                                 !.faults = IF arrives THEN @ ELSE @ + 1,
                                 !.damaged = Damage(poll[1])]
    /\ poll' = <<>>
    /\ UNCHANGED <<cast, snap, pub, notes, chan, tui, core>>

(***************************************************************************)
(* The publisher.                                                          *)
(***************************************************************************)

Joined(prompt) == [i \in DOMAIN prompt |-> Text[prompt[i]]]

\* Mutant: any recorded prompt is taken for the claimed message.
TakesFrontUnread(prompt) == pub.pending # <<>>

\* The prompt is the claimed message that waits at the front.
TakesFront(prompt) ==
    pub.pending # <<>> /\ Joined(prompt) = <<Text[Head(pub.pending)]>>

\* The commands an event calls for.
Todo(e) ==
    LET start == IF pub.reply = 0 THEN << <<"start">> >> ELSE <<>>
    IN CASE e[1] = "claimed"  -> <<>>
         [] e[1] = "record"   -> << <<"write">> >>
         [] e[1] = "user"     -> IF TakesFront(e[2])
                                   THEN << <<"complete", Head(pub.pending)>> >>
                                   ELSE << <<"write">> >>
         [] e[1] = "delta"    -> start \o << <<"delta">> >>
         [] e[1] = "final"    -> start \o (IF pub.delta THEN <<>> ELSE << <<"delta">> >>)
                                       \o << <<"close">> >>
         [] e[1] = "complete" -> IF pub.reply # 0 THEN << <<"close">> >> ELSE <<>>

Receive ==
    /\ outbound # <<>> /\ pub.todo = <<>>
    /\ LET e == Head(outbound)
       IN pub' = [pub EXCEPT
             !.todo = Todo(e),
             !.pending = CASE e[1] = "claimed" -> Append(@, e[2])
                           [] e[1] = "user" -> IF TakesFront(e[2]) THEN Tail(@) ELSE @
                           [] OTHER -> @]
    /\ outbound' = Tail(outbound)
    /\ UNCHANGED <<cast, store, poll, snap, events, notes, chan, tui, core, hist>>

\* Without a reply there is nothing to append to or to complete.
Pointless(c) == c[1] \in {"delta", "close"} /\ pub.reply = 0

Skip ==
    /\ snap = <<>> /\ pub.todo # <<>> /\ Pointless(Head(pub.todo))
    /\ pub' = [pub EXCEPT !.todo = Tail(@)]
    /\ UNCHANGED <<cast, store, poll, snap, outbound, events, notes, chan, tui, core, hist>>

LoadCommand ==
    /\ snap = <<>> /\ pub.todo # <<>> /\ ~Pointless(Head(pub.todo))
    /\ snap' = <<store>>
    /\ UNCHANGED <<cast, store, poll, outbound, pub, events, notes, chan, tui, core, hist>>

\* What a command makes of the store it loaded.
Changed(s, c) ==
    CASE c[1] = "start"    -> [s EXCEPT !.rep[pub.started + 1] = "streaming"]
      [] c[1] = "delta"    -> s
      [] c[1] = "close"    -> [s EXCEPT !.rep[pub.reply] = "completed"]
      [] c[1] = "complete" -> [s EXCEPT !.msg[c[2]] = "completed"]
      [] c[1] = "write"    -> s
\* The message is not in the store, or is not streaming: the command ends
\* with an error and saves nothing.
Refused(s, c) ==
    \/ c[1] = "delta" /\ s.rep[pub.reply] # "streaming"
    \/ c[1] = "close" /\ s.rep[pub.reply] = "none"
    \/ c[1] = "complete" /\ s.msg[c[2]] = "none"

\* The publisher's variables after the command: a reply is known by the
\* identifier the start command prints, and forgotten before it is completed.
After(c, answered) ==
    [pub EXCEPT !.todo = Tail(@),
                !.started = IF c[1] = "start" THEN @ + 1 ELSE @,
                !.reply = CASE c[1] = "start" -> IF answered THEN pub.started + 1 ELSE 0
                            [] c[1] = "close" -> 0
                            [] OTHER -> @,
                !.delta = CASE c[1] = "start" -> FALSE
                            [] c[1] = "delta" -> TRUE
                            [] c[1] = "close" -> FALSE
                            [] OTHER -> @]

SaveCommand ==
    /\ snap # <<>>
    /\ LET c == Head(pub.todo)
       IN /\ store' = IF Refused(snap[1], c) THEN store ELSE Changed(snap[1], c)
          /\ hist' = [hist EXCEPT !.damaged = Damage(snap[1]) \/ Refused(snap[1], c)]
          /\ pub' = After(c, TRUE)
    /\ snap' = <<>>
    /\ UNCHANGED <<cast, poll, outbound, events, notes, chan, tui, core>>

\* The command is killed, before it saved or after.
KillCommand ==
    /\ snap # <<>> /\ hist.faults < cast.faults
    /\ LET c == Head(pub.todo)
       IN /\ store' \in {store, IF Refused(snap[1], c) THEN store ELSE Changed(snap[1], c)}
          /\ pub' = After(c, FALSE)
    /\ hist' = [hist EXCEPT !.faults = @ + 1, !.damaged = TRUE]
    /\ snap' = <<>>
    /\ UNCHANGED <<cast, poll, outbound, events, notes, chan, tui, core>>

(***************************************************************************)
(* The terminal UI.  Each branch of its loop takes from one queue; which   *)
(* comes first is open.                                                    *)
(***************************************************************************)

\* What submit_user_message does to the widget w: a steer while a turn runs, a
\* new turn otherwise.  The operation goes to the app events.
Submitted(w, prompt) ==
    IF w.running THEN [w EXCEPT !.steers = Append(@, prompt)]
                 ELSE [w EXCEPT !.starting = TRUE]

\* A message of the phone is submitted whether or not a turn is about to start.
\* One that interrupts is a steer first, to be submitted again once the turn is
\* interrupted.
SubmitRemote ==
    /\ events # <<>> /\ Head(events)[1] = "remote"
    /\ LET m == Head(events)[2]
           w == Submitted(tui, <<m>>)
           stop == m \in Pausing /\ tui.running
       IN /\ tui' = [w EXCEPT !.resubmit = @ \/ stop]
          /\ events' = Tail(events) \o << <<"turn", <<m>> >> >>
                        \o (IF stop THEN << <<"interrupt">> >> ELSE <<>>)
    /\ UNCHANGED <<bridge, notes, chan, core, hist>>

\* turn/steer goes straight to the session; turn/start is queued there.  The app
\* steers the turn it knows of, and asks again when the session knows better.
SubmitTurn ==
    /\ events # <<>> /\ Head(events)[1] = "turn"
    /\ LET prompt == Head(events)[2]
       IN IF tui.turn # 0 /\ core.turn # 0
            THEN /\ core' = [core EXCEPT !.pending = Append(@, prompt)]
                 /\ tui' = [tui EXCEPT !.turn = core.turn]
            ELSE /\ core' = [core EXCEPT !.subs = Append(@, <<"input", prompt>>)]
                 /\ tui' = [tui EXCEPT !.turn = 0]
    /\ events' = Tail(events)
    /\ UNCHANGED <<bridge, notes, chan, hist>>

\* A second interrupt of the same turn is dropped; the request runs on its own.
SubmitInterrupt ==
    /\ events # <<>> /\ Head(events)[1] = "interrupt"
    /\ tui' = IF tui.turn # 0 /\ tui.stopping = tui.turn
                 THEN tui
                 ELSE [tui EXCEPT !.stopping = IF tui.turn = 0 THEN @ ELSE tui.turn,
                                  !.requests = Append(@, tui.turn)]
    /\ events' = Tail(events)
    /\ UNCHANGED <<bridge, notes, chan, core, hist>>

\* turn/interrupt: refused when no turn runs, asked again for the turn that does.
RequestInterrupt ==
    /\ tui.requests # <<>>
    /\ LET id == Head(tui.requests)
       IN /\ core' = IF id = 0 \/ core.turn # 0
                       THEN [core EXCEPT !.subs = Append(@, <<"interrupt">>)] ELSE core
          /\ tui' = [tui EXCEPT !.requests = Tail(@),
                                !.stopping = IF id # 0 /\ core.turn # 0 THEN core.turn ELSE @]
    /\ UNCHANGED <<bridge, events, notes, chan, hist>>

\* The app learns which turn is active before the widget does.
Route ==
    /\ notes # <<>>
    /\ LET n == Head(notes)
       IN tui' = CASE n[1] = "started" -> [tui EXCEPT !.turn = n[2]]
                   [] n[1] \in {"ended", "interrupted"} ->
                        [tui EXCEPT !.turn = IF @ = n[2] THEN 0 ELSE @,
                                    !.stopping = IF @ = n[2] THEN 0 ELSE @]
                   [] OTHER -> tui
    /\ chan' = Append(chan, Head(notes))
    /\ notes' = Tail(notes)
    /\ UNCHANGED <<bridge, events, core, hist>>

\* Mutant: the end of a turn does not close the reply that was cut off.
PublishedQuietly(n) ==
    CASE n[1] = "user"    -> << <<"user", n[2]>> >>
      [] n[1] = "delta"   -> << <<"delta">> >>
      [] n[1] = "final"   -> << <<"final">> >>
      [] OTHER            -> << <<"record">> >>

\* What the bridge makes of a notification.
Published(n) ==
    CASE n[1] = "started" -> << <<"record">> >>
      [] n[1] = "user"    -> << <<"user", n[2]>> >>
      [] n[1] = "delta"   -> << <<"delta">> >>
      [] n[1] = "final"   -> << <<"final">> >>
      [] OTHER            -> << <<"record">>, <<"complete">> >>

Handle(kind) ==
    /\ chan # <<>> /\ Head(chan)[1] = kind
    /\ chan' = Tail(chan)
    /\ outbound' = outbound \o Published(Head(chan))

HandleStarted ==
    /\ Handle("started")
    /\ tui' = [tui EXCEPT !.running = TRUE, !.starting = FALSE]
    /\ UNCHANGED <<cast, store, poll, snap, pub, events, notes, core, hist>>

\* A recorded prompt ends the wait of the steer at the front, if it is that one.
HandleUserMessage ==
    /\ Handle("user")
    /\ LET prompt == Head(chan)[2]
       IN tui' = [tui EXCEPT !.steers =
                    IF @ # <<>> /\ Joined(Head(@)) = Joined(prompt) THEN Tail(@) ELSE @]
    /\ UNCHANGED <<cast, store, poll, snap, pub, events, notes, core, hist>>

HandleAgentMessage ==
    /\ Handle("delta") \/ Handle("final")
    /\ UNCHANGED <<cast, store, poll, snap, pub, events, notes, tui, core, hist>>

\* The widget when its turn is over.
Idle == [tui EXCEPT !.running = FALSE, !.starting = FALSE, !.resubmit = FALSE]

\* Mutant: the queued prompt is submitted and stays in the queue.
HandleEndedAgain ==
    /\ Handle("ended")
    /\ IF tui.queued = <<>>
         THEN tui' = Idle /\ UNCHANGED events
         ELSE /\ tui' = Submitted(Idle, Head(tui.queued))
              /\ events' = Append(events, <<"turn", Head(tui.queued)>>)
    /\ UNCHANGED <<cast, store, poll, snap, pub, notes, core, hist>>

\* A turn that ended or failed: the next queued prompt is submitted.
HandleEnded ==
    /\ Handle("ended")
    /\ IF tui.queued = <<>>
         THEN tui' = Idle /\ UNCHANGED events
         ELSE /\ tui' = [Submitted(Idle, Head(tui.queued)) EXCEPT !.queued = Tail(@)]
              /\ events' = Append(events, <<"turn", Head(tui.queued)>>)
    /\ UNCHANGED <<cast, store, poll, snap, pub, notes, core, hist>>

\* Mutant: the prompts are put side by side, not joined.
RestoredUnjoined == tui.steers \o tui.queued \o tui.composer

\* What was to be kept for the user, as one text.
Restored == FlattenSeq(tui.steers \o tui.queued) \o tui.composer

\* Mutant: the steers are left to a later commit.
HandleInterruptedWaits ==
    /\ Handle("interrupted")
    /\ tui' = [Idle EXCEPT !.queued = <<>>, !.composer = FlattenSeq(tui.queued) \o @]
    /\ UNCHANGED <<cast, store, poll, snap, pub, events, notes, core, hist>>

\* The session has forgotten its pending input.  The steers are submitted
\* again as one prompt, or go back to the composer with the queued prompts.
HandleInterrupted ==
    /\ Handle("interrupted")
    /\ IF tui.resubmit /\ tui.steers # <<>>
         THEN LET prompt == FlattenSeq(tui.steers)
              IN /\ tui' = Submitted([Idle EXCEPT !.steers = <<>>], prompt)
                 /\ events' = Append(events, <<"turn", prompt>>)
         ELSE /\ tui' = [Idle EXCEPT !.steers = <<>>, !.queued = <<>>, !.composer = Restored]
              /\ UNCHANGED events
    /\ UNCHANGED <<cast, store, poll, snap, pub, notes, core, hist>>

(***************************************************************************)
(* The owner at the terminal.                                              *)
(***************************************************************************)

\* Enter, with a new prompt or with what an interrupt left in the composer.
\* The prompt is queued when a turn was submitted that has not started.
Enter(p) ==
    /\ p \in cast.who \ hist.typed
    /\ LET prompt == tui.composer \o <<p>>
           w == [tui EXCEPT !.composer = <<>>]
       IN IF tui.starting /\ ~tui.running
            THEN tui' = [w EXCEPT !.queued = Append(@, prompt)] /\ UNCHANGED events
            ELSE tui' = Submitted(w, prompt) /\ events' = Append(events, <<"turn", prompt>>)
    /\ hist' = [hist EXCEPT !.typed = @ \cup {p}]
    /\ UNCHANGED <<bridge, notes, chan, core>>

\* Esc: with steers that wait, they are to be submitted again.
Escape ==
    /\ tui.running /\ hist.escapes < cast.escapes
    /\ tui' = [tui EXCEPT !.resubmit = @ \/ tui.steers # <<>>]
    /\ events' = Append(events, <<"interrupt">>)
    /\ hist' = [hist EXCEPT !.escapes = @ + 1]
    /\ UNCHANGED <<bridge, notes, chan, core>>

(***************************************************************************)
(* The agent's session, as far as the UI sees it.                          *)
(***************************************************************************)

\* The prompts become part of the conversation.
Recorded(h, prompts) == [h EXCEPT !.recorded = @ \o prompts]

\* Input steers the active turn or starts one.
HandleInput ==
    /\ core.subs # <<>> /\ Head(core.subs)[1] = "input"
    /\ LET prompt == Head(core.subs)[2]
       IN IF core.turn # 0
            THEN /\ core' = [core EXCEPT !.subs = Tail(@), !.pending = Append(@, prompt)]
                 /\ UNCHANGED notes
            ELSE /\ core' = [core EXCEPT !.subs = Tail(@), !.pending = <<prompt>>,
                                         !.turn = core.last + 1, !.last = @ + 1]
                 /\ notes' = Append(notes, <<"started", core.last + 1>>)
    /\ UNCHANGED <<bridge, events, chan, tui, hist>>

\* An interrupted turn takes its pending input with it.
HandleInterrupt ==
    /\ core.subs # <<>> /\ Head(core.subs)[1] = "interrupt"
    /\ IF core.turn = 0
         THEN core' = [core EXCEPT !.subs = Tail(@)] /\ UNCHANGED <<notes, hist>>
         ELSE /\ core' = [core EXCEPT !.subs = Tail(@), !.turn = 0, !.pending = <<>>,
                                      !.speaking = FALSE]
              /\ notes' = Append(notes, <<"interrupted", core.turn>>)
              /\ hist' = [hist EXCEPT
                    !.interrupts = @ + 1,
                    !.dropped = @ \cup (ToSet(FlattenSeq(core.pending))
                                          \ ToSet(FlattenSeq(tui.steers)))]
    /\ UNCHANGED <<bridge, events, chan, tui>>

RecordInput ==
    /\ core.turn # 0 /\ core.pending # <<>>
    /\ core' = [core EXCEPT !.pending = Tail(@)]
    /\ notes' = Append(notes, <<"user", Head(core.pending)>>)
    /\ hist' = Recorded(hist, <<Head(core.pending)>>)
    /\ UNCHANGED <<bridge, events, chan, tui>>

\* The agent's answer arrives in pieces or at once, and may be cut off.
Speak ==
    /\ core.turn # 0
    /\ \/ /\ ~core.speaking /\ core.spoken < cast.replies
          /\ core' = [core EXCEPT !.speaking = TRUE, !.spoken = @ + 1]
          /\ notes' = Append(notes, <<"delta">>)
       \/ /\ core.speaking
          /\ core' = [core EXCEPT !.speaking = FALSE]
          /\ notes' = Append(notes, <<"final">>)
       \/ /\ ~core.speaking /\ core.spoken < cast.replies
          /\ core' = [core EXCEPT !.spoken = @ + 1]
          /\ notes' = Append(notes, <<"final">>)
    /\ UNCHANGED <<bridge, events, chan, tui, hist>>

\* The turn ends; input that came too late for the model is recorded.
EndTurn ==
    /\ core.turn # 0
    /\ core' = [core EXCEPT !.turn = 0, !.pending = <<>>, !.speaking = FALSE]
    /\ notes' = notes \o [i \in DOMAIN core.pending |-> <<"user", core.pending[i]>>]
                      \o << <<"ended", core.turn>> >>
    /\ hist' = Recorded(hist, core.pending)
    /\ UNCHANGED <<bridge, events, chan, tui>>

(***************************************************************************)
(* The specification.  Everybody serves their queue; the owner and the     *)
(* agent's words are free.                                                 *)
(***************************************************************************)
Bridge == LoadClaim \/ SaveClaim \/ Receive \/ Skip \/ LoadCommand \/ SaveCommand
Loop == SubmitRemote \/ SubmitTurn \/ SubmitInterrupt
Widget == HandleStarted \/ HandleUserMessage \/ HandleAgentMessage \/ HandleEnded
          \/ HandleInterrupted
Session == HandleInput \/ HandleInterrupt

Next ==
    \/ \E m \in Remote : Post(m)
    \/ \E p \in Local : Enter(p)
    \/ Escape \/ KillCommand
    \/ Bridge \/ Loop \/ RequestInterrupt \/ Route \/ Widget \/ Session
    \/ RecordInput \/ Speak \/ EndTurn

Spec ==
    /\ Init /\ [][Next]_vars
    /\ WF_vars(SaveClaim) /\ WF_vars(Receive \/ Skip \/ LoadCommand \/ SaveCommand)
    /\ WF_vars(Loop) /\ WF_vars(RequestInterrupt) /\ WF_vars(Route) /\ WF_vars(Widget)
    /\ WF_vars(Session) /\ WF_vars(EndTurn)

(***************************************************************************)
(* What is required.                                                       *)
(***************************************************************************)
Prompts == Seq(Messages)

TypeOK ==
    /\ store.msg \in [Remote -> {"none", "queued", "claimed", "completed"}]
    /\ store.rep \in [Replies -> {"none", "streaming", "completed"}]
    /\ pub.reply \in {0} \cup Replies /\ pub.pending \in Seq(Remote)
    /\ tui.composer \in Prompts
    /\ tui.steers \in Seq(Prompts) /\ tui.queued \in Seq(Prompts)
    /\ core.pending \in Seq(Prompts) /\ {tui.turn, core.turn} \subseteq 0 .. core.last

\* How many elements of a queue are in a set, and how often a message is in
\* some prompts.
Count(q, S) == Cardinality({i \in DOMAIN q : q[i] \in S})

Times(prompts, m) == Count(FlattenSeq(prompts), {m})

(* RecordedOnce: the agent is given a prompt of the phone once for each time *)
(* it is claimed, and a typed one once, but for the turns that were          *)
(* interrupted: on_interrupted_turn submits again what the widget still      *)
(* takes for a pending steer, once for each interrupted turn and each time   *)
(* it was handed to the widget.                                              *)
RecordedOnce ==
    \A m \in Messages :
        Times(hist.recorded, m)
          <= (IF m \in Remote THEN hist.claims[m] ELSE 1) * (1 + hist.interrupts)

(* CompletedAreRecorded: the phone shows no more messages of one text as     *)
(* completed than the agent has recorded prompts that say just that,         *)
(* whatever the order in which claims, notifications and typed prompts meet  *)
(* in take_matching_remote_user_message.                                     *)
CompletedAreRecorded ==
    \A t \in {Text[m] : m \in Remote} :
        Cardinality({m \in Remote : store.msg[m] = "completed" /\ Text[m] = t})
          <= Cardinality({i \in DOMAIN hist.recorded : Joined(hist.recorded[i]) = <<t>>})

(* Delivered: a message the poller handed to the UI, and a prompt typed      *)
(* there, is in the end recorded by the agent, itself or another that says   *)
(* the same, or is back in the composer, unless an interrupted turn took it  *)
(* that the widget did not hold as a pending steer.                          *)
Delivered ==
    \A m \in Messages :
        m \in hist.given \cup (hist.typed \cap Local)
          ~> \/ \E n \in Messages : Text[n] = Text[m] /\ Times(hist.recorded, n) > 0
             \/ m \in ToSet(tui.composer) \/ m \in hist.dropped

(* RepliesEnd: a reply the publisher opened does not stream for ever, also   *)
(* when its turn is interrupted, unless a command failed or two processes    *)
(* overwrote each other's store.                                             *)
RepliesEnd ==
    \A r \in Replies : store.rep[r] = "streaming" ~> (store.rep[r] # "streaming" \/ hist.damaged)
(***************************************************************************)
(* What the proofs need.                                                   *)
(***************************************************************************)
Store == [msg : [Remote -> {"none", "queued", "claimed", "completed"}],
          rep : [Replies -> {"none", "streaming", "completed"}]]
Commands == {<<"start">>, <<"delta">>, <<"close">>, <<"write">>} \cup ({"complete"} \X Remote)
Outbound == {<<"record">>, <<"delta">>, <<"final">>, <<"complete">>}
            \cup ({"claimed"} \X Remote) \cup ({"user"} \X Prompts)
Events == {<<"interrupt">>} \cup ({"remote"} \X Remote) \cup ({"turn"} \X Prompts)
Subs == {<<"interrupt">>} \cup ({"input"} \X Prompts)
Notes == {<<"delta">>, <<"final">>} \cup ({"user"} \X Prompts)
         \cup ({"started", "ended", "interrupted"} \X Nat)

Publishers == [reply : {0} \cup Replies, delta : BOOLEAN, pending : Seq(Remote),
               todo : Seq(Commands), started : Nat]
Widgets == [running : BOOLEAN, starting : BOOLEAN, turn : Nat, steers : Seq(Prompts),
            queued : Seq(Prompts), composer : Prompts, resubmit : BOOLEAN, stopping : Nat,
            requests : Seq(Nat)]
Sessions == [subs : Seq(Subs), turn : Nat, last : Nat, pending : Seq(Prompts),
             speaking : BOOLEAN, spoken : Nat]
Histories == [recorded : Seq(Prompts), claims : [Remote -> Nat], given : SUBSET Messages,
              typed : SUBSET Messages, dropped : SUBSET Messages, escapes : Nat,
              interrupts : Nat, faults : Nat, damaged : BOOLEAN]
Loaded == {<<>>} \cup {<<s>> : s \in Store}

Shapes ==
    /\ cast \in Cast /\ store \in Store /\ poll \in Loaded /\ snap \in Loaded
    /\ outbound \in Seq(Outbound) /\ events \in Seq(Events)
    /\ notes \in Seq(Notes) /\ chan \in Seq(Notes)
    /\ pub \in Publishers /\ tui \in Widgets /\ core \in Sessions /\ hist \in Histories

Signals == {<<"delta">>, <<"final">>}
Starting(todo) == IF todo # <<>> /\ todo[1] = <<"start">> THEN 1 ELSE 0

\* The turns that are known have begun.
Begun(q, last) == \A i \in DOMAIN q : q[i][1] = "started" => q[i][2] <= last
TurnsBegun == tui.turn <= core.last /\ core.turn <= core.last /\ Begun(notes, core.last)

\* A command runs only while its event is served, and opens a reply only first.
StartsFirst(todo) == \A i \in DOMAIN todo : todo[i] = <<"start">> => i = 1
CommandsServed == (snap # <<>> => pub.todo # <<>>) /\ StartsFirst(pub.todo)

\* Each reply of the agent opens at most two in the store.
Opened ==
    pub.started + Starting(pub.todo) + Count(outbound, Signals) + Count(chan, Signals)
      + Count(notes, Signals) + (IF core.speaking THEN 1 ELSE 0)
RepliesBound == core.spoken <= MaxReplies /\ Opened <= 2 * core.spoken

TypeInv == Shapes /\ TurnsBegun /\ CommandsServed /\ RepliesBound

\* The prompts that events and submissions carry.
Carried(e) ==
    CASE e[1] \in {"turn", "input"} -> e[2]
      [] e[1] = "remote" -> <<e[2]>>
      [] OTHER -> <<>>
Carry(q) == [i \in DOMAIN q |-> Carried(q[i])]

\* How often a message was handed to the widget, how often the widget may still
\* submit it, and how many copies are recorded or on their way.
Origin(m) == IF m \in Remote THEN hist.claims[m] ELSE IF m \in hist.typed THEN 1 ELSE 0
Held(m) ==
    Count(events, {<<"remote", m>>}) + Times(tui.steers, m) + Times(tui.queued, m)
      + Times(<<tui.composer>>, m)
Copies(m) ==
    Times(hist.recorded, m) + Times(core.pending, m) + Times(Carry(core.subs), m)
      + Times(Carry(events), m) + Times(tui.queued, m) + Times(<<tui.composer>>, m)

\* Interrupted turns the widget has not heard of, and those it has.
Unheard == Count(notes, {"interrupted"} \X Nat) + Count(chan, {"interrupted"} \X Nat)
Heard == hist.interrupts - Unheard

\* The inductive invariant behind RecordedOnce: copies appear only where the
\* widget hears of an interrupted turn, and then no more than it holds.
CopiesInv ==
    /\ Unheard <= hist.interrupts
    /\ \A m \in Messages :
          /\ Held(m) <= Origin(m)
          /\ Copies(m) <= Origin(m) * (1 + Heard)

\* The messages of a text that are completed in some store, or will be, and the
\* prompts that say it, recorded or among the notifications.
Saying(t) == {p \in Prompts : Joined(p) = <<t>>}
DoneIn(loaded, m) == loaded # <<>> /\ loaded[1].msg[m] = "completed"
ToComplete(todo, m) == \E i \in DOMAIN todo : todo[i] = <<"complete", m>>
Completing(t) ==
    {m \in Remote :
        /\ Text[m] = t
        /\ \/ store.msg[m] = "completed" \/ DoneIn(poll, m) \/ DoneIn(snap, m)
           \/ ToComplete(pub.todo, m)}
Noticed(t) ==
    Count(outbound, {"user"} \X Saying(t)) + Count(chan, {"user"} \X Saying(t))
      + Count(notes, {"user"} \X Saying(t))

\* The inductive invariant behind CompletedAreRecorded: a notification that is
\* used completes one message.
CompletedInv ==
    \A t \in {Text[m] : m \in Remote} :
        Cardinality(Completing(t)) + Noticed(t) <= Count(hist.recorded, Saying(t))
=============================================================================
