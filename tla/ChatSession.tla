------------------------------ MODULE ChatSession ------------------------------
(***************************************************************************)
(* One chat session of hub/chat.py: a conversation in which the model      *)
(* calls tools, some of which stage changes, and "apply", which hands the  *)
(* staged changes to the approval queue.                                   *)
(*                                                                         *)
(* The session is a dict in the memory of the server that all its request  *)
(* threads share without a lock; sessions share nothing with each other.    *)
(* Steps end where another thread can see the difference or a call to the  *)
(* model, to the store or to the client comes in between.  What a message  *)
(* says is left out, and so is the check of the owner: every request here  *)
(* is the owner's.                                                         *)
(***************************************************************************)
EXTENDS Naturals, Sequences, FiniteSets, SequencesExt

Tools == {"read", "propose"}

CONSTANTS
    Threads,    \* request threads
    Talkers,    \* threads that send turns
    Appliers,   \* threads that apply
    Hangups,    \* may the client of a streamed turn disconnect
    FailIn,     \* labels at which a call may raise
    MaxIters,   \* max_iters: rounds of tool calls in one turn
    Answers,    \* the tool calls that an answer of the model may hold
    MaxTurns,   \* bound on turns
    MaxCrashes  \* bound on restarts of the server

ASSUME ChatConstants ==
    /\ Talkers \cup Appliers \subseteq Threads
    /\ Hangups \in BOOLEAN
    /\ Answers \subseteq Seq(Tools) \ {<<>>}
    /\ MaxIters \in Nat /\ MaxTurns \in Nat /\ MaxCrashes \in Nat

VARIABLES
    staged,    \* the staged changes, numbered in the order they were proposed
    messages,  \* the conversation
    pc, local, \* the threads and their locals; "shown" observes what was staged
               \* when an apply began
    submitted, \* the changes handed to the approval queue, in order
    proposed,  \* observation: how many changes were staged so far
    lost,      \* observation: the changes that were staged when the server went down
    cut,       \* observation: the turns whose client disconnected
    turns, crashes

vars == <<staged, messages, pc, local, submitted, proposed, lost, cut, turns, crashes>>

(* "calls" is an answer of the model that calls n tools, "result" one result. *)
Message == [kind : {"user", "calls", "result", "reply"}, turn : Nat, n : Nat]
Msg(kind, turn, n) == [kind |-> kind, turn |-> turn, n |-> n]

Labels == {"idle", "model", "exec", "answer", "final", "head", "take", "submit", "pop"}
NoLocal == [turn |-> 0, stream |-> FALSE, left |-> 0, calls |-> <<>>, item |-> 0,
            shown |-> {}]

Init ==
    /\ staged = <<>>
    /\ messages = <<>>
    /\ pc = [t \in Threads |-> "idle"]
    /\ local = [t \in Threads |-> NoLocal]
    /\ submitted = <<>>
    /\ proposed = 0
    /\ lost = {}
    /\ cut = {}
    /\ turns = 0
    /\ crashes = 0

Goto(t, label) == pc' = [pc EXCEPT ![t] = label]
Return(t) == Goto(t, "idle") /\ local' = [local EXCEPT ![t] = NoLocal]

Say(m) == messages' = Append(messages, m)

(* The next step of t is a call of the model. *)
Asks(t) ==
    \/ pc[t] = "model" /\ local[t].left > 0
    \/ pc[t] = "final" /\ local[t].stream

---------------------------------------------------------------------------------
(* A turn *)

(* turn and turn_stream up to the first call of the model. *)
Turn(t, stream) ==
    /\ pc[t] = "idle"
    /\ t \in Talkers
    /\ turns < MaxTurns
    /\ turns' = turns + 1
    /\ Say(Msg("user", turns + 1, 0))
    /\ local' = [local EXCEPT ![t] = [NoLocal EXCEPT !.turn = turns + 1,
                                         !.stream = stream, !.left = MaxIters]]
    /\ Goto(t, "model")
    /\ UNCHANGED <<staged, submitted, proposed, lost, cut, crashes>>

(* Mutant: a turn that used up its rounds has no reply. *)
NoCallsInTime(t) ==
    /\ pc[t] = "model"
    /\ local[t].left > 0
    /\ Goto(t, "final")
    /\ UNCHANGED <<staged, messages, local, submitted, proposed, lost, cut, turns, crashes>>

(* The model answers with text, or has been asked max_iters times. *)
NoCalls(t) ==
    /\ pc[t] = "model"
    /\ Goto(t, "final")
    /\ UNCHANGED <<staged, messages, local, submitted, proposed, lost, cut, turns, crashes>>

(* The model answers with tool calls. *)
Calls(t, calls) ==
    /\ pc[t] = "model"
    /\ local[t].left > 0
    /\ Say(Msg("calls", local[t].turn, Len(calls)))
    /\ local' = [local EXCEPT ![t].calls = calls, ![t].left = @ - 1]
    /\ Goto(t, "exec")
    /\ UNCHANGED <<staged, submitted, proposed, lost, cut, turns, crashes>>

(* _exec_tool: a proposal is staged; reading tools leave everything alone. *)
Exec(t) ==
    /\ pc[t] = "exec"
    /\ IF Head(local[t].calls) = "propose"
       THEN /\ proposed' = proposed + 1
            /\ staged' = Append(staged, proposed + 1)
       ELSE UNCHANGED <<proposed, staged>>
    /\ Goto(t, "answer")
    /\ UNCHANGED <<messages, local, submitted, lost, cut, turns, crashes>>

(* Mutant: the exception of a tool ends the turn. *)
ToolKillsTurn(t) ==
    /\ pc[t] = "exec"
    /\ "exec" \in FailIn
    /\ Return(t)
    /\ UNCHANGED <<staged, messages, submitted, proposed, lost, cut, turns, crashes>>

(* A tool that raises is answered with its error. *)
ToolFails(t) ==
    /\ pc[t] = "exec"
    /\ "exec" \in FailIn
    /\ Goto(t, "answer")
    /\ UNCHANGED <<staged, messages, local, submitted, proposed, lost, cut, turns, crashes>>

(* Mutant: one tool call too many. *)
AnswerOneMore(t) ==
    /\ pc[t] = "answer"
    /\ Say(Msg("result", local[t].turn, 1))
    /\ local' = [local EXCEPT ![t].calls = Tail(@)]
    /\ Goto(t, IF Len(local[t].calls) > 0 THEN "exec" ELSE "model")
    /\ UNCHANGED <<staged, submitted, proposed, lost, cut, turns, crashes>>

Answer(t) ==
    /\ pc[t] = "answer"
    /\ Say(Msg("result", local[t].turn, 1))
    /\ local' = [local EXCEPT ![t].calls = Tail(@)]
    /\ Goto(t, IF Len(local[t].calls) > 1 THEN "exec" ELSE "model")
    /\ UNCHANGED <<staged, submitted, proposed, lost, cut, turns, crashes>>

(* The reply; a streamed turn asks the model for it once more. *)
Reply(t) ==
    /\ pc[t] = "final"
    /\ Say(Msg("reply", local[t].turn, 0))
    /\ Return(t)
    /\ UNCHANGED <<staged, submitted, proposed, lost, cut, turns, crashes>>

(* The model cannot be reached. *)
ModelFails(t) ==
    /\ Asks(t)
    /\ pc[t] \in FailIn
    /\ Return(t)
    /\ UNCHANGED <<staged, messages, submitted, proposed, lost, cut, turns, crashes>>

(* The client of a streamed turn is gone: the generator is closed where it yields. *)
Hangup(t) ==
    /\ Hangups
    /\ \/ pc[t] = "model" /\ local[t].left = MaxIters
       \/ pc[t] \in {"exec", "final"}
    /\ local[t].stream
    /\ cut' = cut \cup {local[t].turn}
    /\ Return(t)
    /\ UNCHANGED <<staged, messages, submitted, proposed, lost, turns, crashes>>

---------------------------------------------------------------------------------
(* apply *)

Apply(t) ==
    /\ pc[t] = "idle"
    /\ t \in Appliers
    /\ turns > 0
    /\ local' = [local EXCEPT ![t].shown = ToSet(staged)]
    /\ Goto(t, "head")
    /\ UNCHANGED <<staged, messages, submitted, proposed, lost, cut, turns, crashes>>

(* while staged *)
More(t) ==
    /\ pc[t] = "head"
    /\ IF staged = <<>> THEN Return(t) ELSE Goto(t, "take") /\ UNCHANGED local
    /\ UNCHANGED <<staged, messages, submitted, proposed, lost, cut, turns, crashes>>

(* staged[0]; IndexError when another apply has emptied the list. *)
Take(t) ==
    /\ pc[t] = "take"
    /\ IF staged = <<>> THEN Return(t)
       ELSE /\ local' = [local EXCEPT ![t].item = Head(staged)]
            /\ Goto(t, "submit")
    /\ UNCHANGED <<staged, messages, submitted, proposed, lost, cut, turns, crashes>>

Submit(t) ==
    /\ pc[t] = "submit"
    /\ submitted' = Append(submitted, local[t].item)
    /\ Goto(t, "pop")
    /\ UNCHANGED <<staged, messages, local, proposed, lost, cut, turns, crashes>>

(* Mutant: the item is removed whether it was submitted or not. *)
SubmitFailsPopped(t) ==
    /\ pc[t] = "submit"
    /\ "submit" \in FailIn
    /\ staged' = Tail(staged)
    /\ Return(t)
    /\ UNCHANGED <<messages, submitted, proposed, lost, cut, turns, crashes>>

(* submit_change refuses the item or fails: it stays staged. *)
SubmitFails(t) ==
    /\ pc[t] = "submit"
    /\ "submit" \in FailIn
    /\ Return(t)
    /\ UNCHANGED <<staged, messages, submitted, proposed, lost, cut, turns, crashes>>

(* staged.pop(0), whatever is there now. *)
Pop(t) ==
    /\ pc[t] = "pop"
    /\ IF staged = <<>> THEN Return(t) /\ UNCHANGED staged
       ELSE staged' = Tail(staged) /\ Goto(t, "head") /\ UNCHANGED local
    /\ UNCHANGED <<messages, submitted, proposed, lost, cut, turns, crashes>>

---------------------------------------------------------------------------------
(* The server goes down, and its memory with it; the next turn opens a session. *)
Restart ==
    /\ crashes < MaxCrashes
    /\ crashes' = crashes + 1
    /\ lost' = lost \cup ToSet(staged)
    /\ staged' = <<>>
    /\ messages' = <<>>
    /\ pc' = [t \in Threads |-> "idle"]
    /\ local' = [t \in Threads |-> NoLocal]
    /\ UNCHANGED <<submitted, proposed, cut, turns>>

Step(t) ==
    \/ NoCalls(t)
    \/ \E calls \in Answers : Calls(t, calls)
    \/ Exec(t)
    \/ Answer(t)
    \/ Reply(t)
    \/ More(t)
    \/ Take(t)
    \/ Submit(t)
    \/ Pop(t)

Mishap(t) == ToolFails(t) \/ ModelFails(t) \/ Hangup(t) \/ SubmitFails(t)

Ask(t) == Apply(t) \/ \E stream \in BOOLEAN : Turn(t, stream)

Next == Restart \/ \E t \in Threads : Ask(t) \/ Step(t) \/ Mishap(t)

Spec == Init /\ [][Next]_vars

(* The threads run.  The model may call tools as often as it is asked. *)
FairSpec == Spec /\ \A t \in Threads : WF_vars(Step(t))

---------------------------------------------------------------------------------
(* Properties *)

(* Every state is of the declared shape; a tool is run only when one was called, *)
(* and an item is submitted that was proposed (chat.py:156-169, 225-233).          *)
TypeOK ==
    /\ staged \in Seq(1..proposed)
    /\ messages \in Seq(Message)
    /\ pc \in [Threads -> Labels]
    /\ \A t \in Threads :
          /\ local[t].left \in 0..MaxIters
          /\ local[t].calls \in Seq(Tools)
          /\ pc[t] \in {"exec", "answer"} => local[t].calls # <<>>
          /\ local[t].shown \subseteq 1..proposed
          /\ pc[t] \in {"submit", "pop"} => local[t].item \in 1..proposed
    /\ submitted \in Seq(1..proposed)
    /\ proposed \in Nat
    /\ lost \subseteq 1..proposed
    /\ cut \subseteq 1..turns

(* However often an apply fails and is repeated, and whatever is proposed in the  *)
(* meantime: a staged change is submitted once (chat.py:221-222), in the order of *)
(* the proposals, and none disappears but by a restart.                            *)
SubmittedInOrder ==
    \A i, j \in DOMAIN submitted : i < j => submitted[i] < submitted[j]
NothingDisappears ==
    1..proposed = ToSet(staged) \cup ToSet(submitted) \cup lost
ExactlyOnce == SubmittedInOrder /\ NothingDisappears

(* The calls of message i are followed by their results. *)
Answered(i) ==
    /\ i + messages[i].n <= Len(messages)
    /\ \A k \in 1..messages[i].n :
          /\ messages[i + k].kind = "result"
          /\ messages[i + k].turn = messages[i].turn

(* The model is asked only when the results of all its tool calls directly follow *)
(* them in the conversation (chat.py:161-169, 구현스펙-멀티턴생성-펑션콜.md §5), but  *)
(* for those of a turn whose client disconnected.                                 *)
AskedWithResults ==
    (\E t \in Threads : Asks(t)) =>
       \A i \in DOMAIN messages :
          messages[i].kind = "calls" /\ messages[i].turn \notin cut => Answered(i)

(* What an apply submits was staged when the person asked for it: proposals are   *)
(* shown and confirmed before (chat.py:28).                                       *)
OnlyConfirmed ==
    [][\A t \in Threads : Submit(t) => local[t].item \in local[t].shown]_vars

(* A turn ends, whatever the model keeps asking for.                              *)
TurnsEnd == \A t \in Threads : pc[t] = "model" ~> pc[t] \notin {"model", "exec", "answer"}
=================================================================================
