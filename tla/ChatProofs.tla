------------------------------- MODULE ChatProofs -------------------------------
(***************************************************************************)
(* A chat session with one apply at a time submits every staged change once,  *)
(* and with one turn at a time asks the model with all results, for any       *)
(* number of turns, rounds, tool calls, restarts and failures.                *)
(*                                                                         *)
(* Both rest on a position: where the submitted changes end in the staged     *)
(* list (OrderInv), and where the results end that are still due (CallsInv).  *)
(* Which threads these are is what the two assumptions say.                   *)
(***************************************************************************)
EXTENDS ChatSession, SequenceTheorems, TLAPS

InTurn == {"model", "exec", "answer", "final"}
InApply == {"head", "take", "submit", "pop"}

OneApplier == \A t, u \in Appliers : t = u
OneTalker == \A t, u \in Talkers : t = u

Locals == [turn : Nat, stream : BOOLEAN, left : 0..MaxIters, calls : Seq(Tools), item : Nat,
           shown : SUBSET Nat]

(* Thread t is at label p with locals l, after n proposals and m turns. *)
PlaceOK(t, p, l, n, m) ==
    /\ p \in {"exec", "answer"} => l.calls # <<>>
    /\ l.shown \subseteq 1..n
    /\ p \in {"submit", "pop"} => l.item \in 1..n
    /\ p \in InTurn => t \in Talkers /\ l.turn \in 1..m
    /\ p \in InApply => t \in Appliers
ThreadOK(t) == PlaceOK(t, pc[t], local[t], proposed, turns)

Shapes ==
    /\ staged \in Seq(1..proposed) /\ submitted \in Seq(1..proposed)
    /\ messages \in Seq(Message)
    /\ pc \in [Threads -> Labels] /\ local \in [Threads -> Locals]
    /\ \A t \in Threads : ThreadOK(t)
    /\ proposed \in Nat /\ turns \in Nat
    /\ lost \subseteq 1..proposed /\ cut \subseteq 1..turns

---------------------------------------------------------------------------------
(* Sequences *)

LEMMA SeqGrows ==
    ASSUME NEW m \in Nat, NEW n \in Nat, m <= n, NEW s \in Seq(1..m)
    PROVE  s \in Seq(1..n)
<1>1. 1..m \subseteq 1..n
  OBVIOUS
<1> QED
  BY <1>1

LEMMA AppendIs ==
    ASSUME NEW S, NEW s \in Seq(S), NEW e \in S
    PROVE  /\ Append(s, e) \in Seq(S) /\ Len(Append(s, e)) = Len(s) + 1 /\ Len(s) \in Nat
           /\ DOMAIN s = 1..Len(s) /\ DOMAIN Append(s, e) = 1..(Len(s) + 1)
           /\ \A i \in 1..Len(s) : Append(s, e)[i] = s[i]
           /\ Append(s, e)[Len(s) + 1] = e
OBVIOUS

LEMMA TailIs ==
    ASSUME NEW S, NEW s \in Seq(S), s # <<>>
    PROVE  /\ Tail(s) \in Seq(S) /\ Len(Tail(s)) = Len(s) - 1 /\ Len(s) \in Nat \ {0}
           /\ DOMAIN s = 1..Len(s) /\ DOMAIN Tail(s) = 1..(Len(s) - 1)
           /\ \A i \in 1..(Len(s) - 1) : Tail(s)[i] = s[i + 1]
           /\ Head(s) = s[1] /\ s[1] \in S
OBVIOUS

LEMMA SetOfAppend ==
    ASSUME NEW S, NEW s \in Seq(S), NEW e \in S
    PROVE  ToSet(Append(s, e)) = ToSet(s) \cup {e}
<1>1. \A i \in 1..(Len(s) + 1) : i \in 1..Len(s) \/ i = Len(s) + 1
  OBVIOUS
<1>2. 1..Len(s) \subseteq 1..(Len(s) + 1) /\ Len(s) + 1 \in 1..(Len(s) + 1)
  OBVIOUS
<1> QED
  BY <1>1, <1>2, AppendIs DEF ToSet

LEMMA SetOfTail ==
    ASSUME NEW S, NEW s \in Seq(S), s # <<>>
    PROVE  ToSet(s) = {s[1]} \cup ToSet(Tail(s))
<1>1. \A i \in 1..Len(s) : i = 1 \/ (i - 1 \in 1..(Len(s) - 1) /\ Tail(s)[i - 1] = s[i])
  BY TailIs
<1>2. \A i \in 1..(Len(s) - 1) : i + 1 \in 1..Len(s) /\ Tail(s)[i] = s[i + 1]
  BY TailIs
<1>3. 1 \in 1..Len(s) /\ DOMAIN s = 1..Len(s) /\ DOMAIN Tail(s) = 1..(Len(s) - 1)
  BY TailIs
<1>4. ToSet(s) \subseteq {s[1]} \cup ToSet(Tail(s))
  BY <1>1, <1>3 DEF ToSet
<1>5. {s[1]} \cup ToSet(Tail(s)) \subseteq ToSet(s)
  BY <1>2, <1>3 DEF ToSet
<1> QED
  BY <1>4, <1>5

---------------------------------------------------------------------------------
(* Shapes *)

LEMMA Parts ==
    ASSUME Shapes
    PROVE  /\ staged \in Seq(1..proposed) /\ submitted \in Seq(1..proposed)
           /\ messages \in Seq(Message)
           /\ local \in [Threads -> Locals]
           /\ proposed \in Nat /\ turns \in Nat /\ proposed <= proposed /\ turns <= turns
           /\ lost \subseteq 1..proposed /\ cut \subseteq 1..turns
BY DEF Shapes

LEMMA ShapesFrame ==
    ASSUME Shapes, NEW t \in Threads,
           pc' \in [Threads -> Labels], local' \in [Threads -> Locals],
           \A u \in Threads \ {t} : pc'[u] = pc[u] /\ local'[u] = local[u],
           staged' \in Seq(1..proposed'), submitted' \in Seq(1..proposed'),
           messages' \in Seq(Message),
           proposed' \in Nat, proposed <= proposed', turns' \in Nat, turns <= turns',
           lost' \subseteq 1..proposed', cut' \subseteq 1..turns',
           PlaceOK(t, pc'[t], local'[t], proposed', turns')
    PROVE  Shapes'
<1>1. 1..proposed \subseteq 1..proposed' /\ 1..turns \subseteq 1..turns'
  BY DEF Shapes
<1>2. ASSUME NEW u \in Threads PROVE ThreadOK(u)'
  <2>1. CASE u = t
    BY <2>1 DEF ThreadOK
  <2>2. CASE u # t
    <3>1. ThreadOK(u) /\ pc'[u] = pc[u] /\ local'[u] = local[u]
      BY <2>2 DEF Shapes
    <3> QED
      BY <1>1, <3>1 DEF ThreadOK, PlaceOK
  <2> QED
    BY <2>1, <2>2
<1> QED
  BY <1>2 DEF Shapes

LEMMA NoLocalIs == NoLocal \in Locals /\ NoLocal.shown = {}
BY ChatConstants DEF NoLocal, Locals

(* What a thread does with its place and locals. *)
LEMMA Moved ==
    ASSUME Shapes, NEW t \in Threads, NEW label \in Labels, NEW l \in Locals,
           pc' = [pc EXCEPT ![t] = label], local' = [local EXCEPT ![t] = l]
    PROVE  /\ pc' \in [Threads -> Labels] /\ local' \in [Threads -> Locals]
           /\ pc'[t] = label /\ local'[t] = l
           /\ \A u \in Threads \ {t} : pc'[u] = pc[u] /\ local'[u] = local[u]
BY DEF Shapes

LEMMA Stayed ==
    ASSUME Shapes, NEW t \in Threads, NEW label \in Labels,
           pc' = [pc EXCEPT ![t] = label], local' = local
    PROVE  /\ pc' \in [Threads -> Labels] /\ local' \in [Threads -> Locals]
           /\ pc'[t] = label /\ local'[t] = local[t]
           /\ \A u \in Threads \ {t} : pc'[u] = pc[u] /\ local'[u] = local[u]
BY DEF Shapes

LEMMA Returned ==
    ASSUME Shapes, NEW t \in Threads, Return(t)
    PROVE  /\ pc' \in [Threads -> Labels] /\ local' \in [Threads -> Locals]
           /\ pc'[t] = "idle" /\ local'[t] = NoLocal
           /\ \A u \in Threads \ {t} : pc'[u] = pc[u] /\ local'[u] = local[u]
           /\ PlaceOK(t, pc'[t], local'[t], proposed', turns')
<1>1. "idle" \in Labels /\ "idle" \notin InTurn \cup InApply
  BY DEF Labels, InTurn, InApply
<1>2. /\ pc' \in [Threads -> Labels] /\ local' \in [Threads -> Locals]
      /\ pc'[t] = "idle" /\ local'[t] = NoLocal
      /\ \A u \in Threads \ {t} : pc'[u] = pc[u] /\ local'[u] = local[u]
  BY <1>1, NoLocalIs, Moved DEF Return, Goto
<1> QED
  BY <1>1, <1>2, NoLocalIs DEF PlaceOK

LEMMA StartHolds == Init => Shapes
BY NoLocalIs DEF Init, Shapes, ThreadOK, PlaceOK, Labels, InTurn, InApply

LEMMA TurnKeeps ==
    ASSUME Shapes, NEW t \in Threads, NEW stream \in BOOLEAN, Turn(t, stream) PROVE Shapes'
<1> DEFINE l == [NoLocal EXCEPT !.turn = turns + 1, !.stream = stream, !.left = MaxIters]
<1>1. turns \in Nat /\ turns' = turns + 1 /\ UNCHANGED <<staged, submitted, proposed, lost, cut>>
  BY DEF Turn, Shapes
<1>2. l \in Locals /\ l.turn = turns + 1 /\ l.shown = {}
  <2>1. turns + 1 \in Nat /\ MaxIters \in 0..MaxIters
    BY <1>1, ChatConstants
  <2>2. <<>> \in Seq(Tools) /\ {} \in SUBSET Nat
    OBVIOUS
  <2> QED
    BY <2>1, <2>2 DEF Locals, NoLocal
<1>3. messages' \in Seq(Message)
  BY <1>1 DEF Turn, Shapes, Say, Msg, Message
<1>4. "model" \in Labels /\ "model" \in InTurn
      /\ "model" \notin {"exec", "answer", "submit", "pop"} \cup InApply
  BY DEF Labels, InTurn, InApply
<1>5. /\ pc' \in [Threads -> Labels] /\ local' \in [Threads -> Locals]
      /\ pc'[t] = "model" /\ local'[t] = l
      /\ \A u \in Threads \ {t} : pc'[u] = pc[u] /\ local'[u] = local[u]
  <2> HIDE DEF l
  <2>1. local' = [local EXCEPT ![t] = l] /\ pc' = [pc EXCEPT ![t] = "model"]
    BY DEF Turn, Goto, l
  <2> QED
    BY <2>1, <1>2, <1>4, Moved
<1>6. turns + 1 \in 1..turns' /\ t \in Talkers
  BY <1>1 DEF Turn
<1> HIDE DEF l
<1>7. PlaceOK(t, pc'[t], local'[t], proposed', turns')
  BY <1>2, <1>4, <1>5, <1>6 DEF ThreadOK, PlaceOK
<1> QED
  <2>1. /\ staged' \in Seq(1..proposed') /\ submitted' \in Seq(1..proposed')
        /\ proposed' \in Nat /\ proposed <= proposed' /\ lost' \subseteq 1..proposed'
    BY <1>1, Parts
  <2>2. turns' \in Nat /\ turns <= turns' /\ cut' \subseteq 1..turns'
    BY <1>1, Parts
  <2> QED
    BY <1>3, <1>5, <1>7, <2>1, <2>2, ShapesFrame

(* A step of a turn that stays in it. *)
LEMMA TurnGoesOn ==
    ASSUME Shapes, NEW t \in Threads, pc[t] \in InTurn,
           NEW label \in InTurn, NEW l \in Locals,
           pc' = [pc EXCEPT ![t] = label], local' = [local EXCEPT ![t] = l],
           l.turn = local[t].turn, l.shown = local[t].shown,
           label \in {"exec", "answer"} => l.calls # <<>>,
           staged' \in Seq(1..proposed'), proposed' \in Nat, proposed <= proposed',
           messages' \in Seq(Message),
           UNCHANGED <<submitted, lost, cut, turns>>
    PROVE  Shapes'
<1>1. label \in Labels /\ label \notin {"submit", "pop"} \cup InApply
  BY DEF Labels, InTurn, InApply
<1>2. /\ pc' \in [Threads -> Labels] /\ local' \in [Threads -> Locals]
      /\ pc'[t] = label /\ local'[t] = l
      /\ \A u \in Threads \ {t} : pc'[u] = pc[u] /\ local'[u] = local[u]
  BY <1>1, Moved
<1>3. submitted' \in Seq(1..proposed') /\ 1..proposed \subseteq 1..proposed'
  BY SeqGrows DEF Shapes
<1>4. PlaceOK(t, pc'[t], local'[t], proposed', turns')
  BY <1>1, <1>2, <1>3 DEF ThreadOK, PlaceOK, Shapes
<1> QED
  BY <1>2, <1>3, <1>4, ShapesFrame, Parts

LEMMA NoCallsKeeps == ASSUME Shapes, NEW t \in Threads, NoCalls(t) PROVE Shapes'
<1>1. local' = [local EXCEPT ![t] = local[t]] /\ local[t] \in Locals
  BY DEF NoCalls, Shapes
<1>2. /\ pc[t] \in InTurn /\ "final" \in InTurn /\ "final" \notin {"exec", "answer"}
      /\ proposed \in Nat /\ pc' = [pc EXCEPT ![t] = "final"]
      /\ UNCHANGED <<staged, proposed, messages, submitted, lost, cut, turns>>
  BY DEF NoCalls, InTurn, Shapes, Goto
<1> QED
  BY <1>1, <1>2, TurnGoesOn, Parts

LEMMA CallsKeeps ==
    ASSUME Shapes, NEW t \in Threads, NEW calls \in Answers, Calls(t, calls) PROVE Shapes'
<1> DEFINE l == [local[t] EXCEPT !.calls = calls, !.left = @ - 1]
<1>1. local[t] \in Locals /\ local[t].turn \in Nat /\ calls \in Seq(Tools) /\ calls # <<>>
  BY ChatConstants DEF Shapes, Locals
<1>2. local[t].left \in 0..MaxIters /\ local[t].left > 0 /\ local[t].left - 1 \in 0..MaxIters
  BY <1>1, ChatConstants DEF Locals, Calls
<1>3. l \in Locals /\ l.turn = local[t].turn /\ l.shown = local[t].shown /\ l.calls = calls
  BY <1>1, <1>2 DEF Locals
<1>4. local' = [local EXCEPT ![t] = l]
  BY DEF Calls, Shapes
<1>5. messages' \in Seq(Message)
  BY <1>1 DEF Calls, Shapes, Say, Msg, Message
<1>6. /\ pc[t] \in InTurn /\ "exec" \in InTurn /\ proposed \in Nat
      /\ pc' = [pc EXCEPT ![t] = "exec"]
      /\ UNCHANGED <<staged, proposed, submitted, lost, cut, turns>>
  BY DEF Calls, InTurn, Shapes, Goto
<1> HIDE DEF l
<1> QED
  BY <1>1, <1>3, <1>4, <1>5, <1>6, TurnGoesOn, Parts

LEMMA ExecKeeps ==
    ASSUME Shapes, NEW t \in Threads, Exec(t) \/ ToolFails(t) PROVE Shapes'
<1>1. local' = [local EXCEPT ![t] = local[t]] /\ local[t] \in Locals
  BY DEF Exec, ToolFails, Shapes
<1>2. /\ pc[t] \in InTurn /\ "answer" \in InTurn /\ local[t].calls # <<>>
      /\ pc' = [pc EXCEPT ![t] = "answer"]
      /\ UNCHANGED <<messages, submitted, lost, cut, turns>>
  BY DEF Exec, ToolFails, InTurn, Shapes, ThreadOK, PlaceOK, Goto
<1>3. staged' \in Seq(1..proposed') /\ proposed' \in Nat /\ proposed <= proposed'
  <2>1. proposed \in Nat /\ staged \in Seq(1..proposed)
    BY DEF Shapes
  <2>2. CASE UNCHANGED <<proposed, staged>>
    BY <2>1, <2>2
  <2>3. CASE proposed' = proposed + 1 /\ staged' = Append(staged, proposed + 1)
    <3>1. staged \in Seq(1..(proposed + 1))
      BY <2>1, SeqGrows
    <3> QED
      BY <2>1, <2>3, <3>1
  <2> QED
    BY <2>2, <2>3 DEF Exec, ToolFails
<1> QED
  BY <1>1, <1>2, <1>3, TurnGoesOn, Parts

LEMMA AnswerKeeps == ASSUME Shapes, NEW t \in Threads, Answer(t) PROVE Shapes'
<1> DEFINE l == [local[t] EXCEPT !.calls = Tail(@)]
<1> DEFINE label == IF Len(local[t].calls) > 1 THEN "exec" ELSE "model"
<1>1. /\ local[t] \in Locals /\ local[t].turn \in Nat /\ local[t].calls \in Seq(Tools)
      /\ local[t].calls # <<>>
  BY DEF Answer, Shapes, ThreadOK, PlaceOK, Locals
<1>2. Tail(local[t].calls) \in Seq(Tools) /\ Len(Tail(local[t].calls)) = Len(local[t].calls) - 1
  BY <1>1
<1>3. l \in Locals /\ l.turn = local[t].turn /\ l.shown = local[t].shown
      /\ l.calls = Tail(local[t].calls)
  BY <1>1, <1>2 DEF Locals
<1>4. local' = [local EXCEPT ![t] = l]
  BY DEF Answer, Shapes
<1>5. messages' \in Seq(Message)
  BY <1>1 DEF Answer, Shapes, Say, Msg, Message
<1>6. label \in InTurn /\ (label \in {"exec", "answer"} => l.calls # <<>>)
  <2>1. CASE Len(local[t].calls) > 1
    <3>1. Len(l.calls) > 0 /\ l.calls \in Seq(Tools)
      BY <1>1, <1>2, <1>3, <2>1
    <3> HIDE DEF l
    <3> QED
      BY <2>1, <3>1 DEF InTurn
  <2>2. CASE ~(Len(local[t].calls) > 1)
    BY <2>2 DEF InTurn
  <2> QED
    BY <2>1, <2>2
<1>7. /\ pc[t] \in InTurn /\ proposed \in Nat /\ pc' = [pc EXCEPT ![t] = label]
      /\ UNCHANGED <<staged, proposed, submitted, lost, cut, turns>>
  BY DEF Answer, InTurn, Shapes, Goto
<1> HIDE DEF l, label
<1> QED
  BY <1>3, <1>4, <1>5, <1>6, <1>7, TurnGoesOn, Parts

(* A step after which the thread is idle. *)
LEMMA ReturnKeeps ==
    ASSUME Shapes, NEW t \in Threads, Return(t),
           messages' \in Seq(Message), cut' \subseteq 1..turns,
           UNCHANGED <<staged, submitted, proposed, lost, turns>>
    PROVE  Shapes'
BY Returned, ShapesFrame, Parts

LEMMA ReplyKeeps == ASSUME Shapes, NEW t \in Threads, Reply(t) PROVE Shapes'
<1>1. local[t].turn \in Nat
  BY DEF Shapes, Locals
<1>2. messages' \in Seq(Message)
  BY <1>1 DEF Reply, Shapes, Say, Msg, Message
<1> QED
  BY <1>2, ReturnKeeps, Parts DEF Reply

LEMMA HangupKeeps == ASSUME Shapes, NEW t \in Threads, Hangup(t) PROVE Shapes'
<1>1. pc[t] \in InTurn
  BY DEF Hangup, InTurn
<1>2. cut' \subseteq 1..turns
  BY <1>1 DEF Hangup, Shapes, ThreadOK, PlaceOK
<1> QED
  BY <1>2, ReturnKeeps, Parts DEF Hangup

LEMMA FailureKeeps ==
    ASSUME Shapes, NEW t \in Threads, ModelFails(t) \/ SubmitFails(t) PROVE Shapes'
BY ReturnKeeps, Parts DEF ModelFails, SubmitFails

(* A step of an apply that stays in it. *)
LEMMA ApplyGoesOn ==
    ASSUME Shapes, NEW t \in Threads, t \in Appliers,
           NEW label \in InApply, NEW l \in Locals,
           pc' = [pc EXCEPT ![t] = label], local' = [local EXCEPT ![t] = l],
           l.shown \subseteq 1..proposed,
           label \in {"submit", "pop"} => l.item \in 1..proposed,
           staged' \in Seq(1..proposed), submitted' \in Seq(1..proposed),
           UNCHANGED <<messages, proposed, lost, cut, turns>>
    PROVE  Shapes'
<1>1. label \in Labels /\ label \notin {"exec", "answer"} \cup InTurn
  BY DEF Labels, InTurn, InApply
<1>2. /\ pc' \in [Threads -> Labels] /\ local' \in [Threads -> Locals]
      /\ pc'[t] = label /\ local'[t] = l
      /\ \A u \in Threads \ {t} : pc'[u] = pc[u] /\ local'[u] = local[u]
  BY <1>1, Moved
<1>3. PlaceOK(t, pc'[t], local'[t], proposed', turns')
  BY <1>1, <1>2 DEF ThreadOK, PlaceOK
<1> QED
  BY <1>2, <1>3, ShapesFrame, Parts

LEMMA ApplyKeeps == ASSUME Shapes, NEW t \in Threads, Apply(t) PROVE Shapes'
<1> DEFINE l == [local[t] EXCEPT !.shown = ToSet(staged)]
<1>1. ToSet(staged) \subseteq 1..proposed /\ proposed \in Nat /\ local[t] \in Locals
  BY DEF Shapes, ToSet
<1>2. ToSet(staged) \in SUBSET Nat
  BY <1>1
<1>3. l \in Locals /\ l.shown = ToSet(staged)
  BY <1>1, <1>2 DEF Locals
<1>4. local' = [local EXCEPT ![t] = l]
  BY DEF Apply, Shapes
<1>5. t \in Appliers /\ "head" \in InApply /\ "head" \notin {"submit", "pop"}
      /\ pc' = [pc EXCEPT ![t] = "head"]
      /\ UNCHANGED <<staged, submitted, messages, proposed, lost, cut, turns>>
  BY DEF Apply, InApply, Goto
<1> HIDE DEF l
<1> QED
  BY <1>1, <1>3, <1>4, <1>5, ApplyGoesOn, Parts

LEMMA MoreKeeps == ASSUME Shapes, NEW t \in Threads, More(t) PROVE Shapes'
<1>1. CASE staged = <<>>
  BY <1>1, ReturnKeeps, Parts DEF More
<1>2. CASE staged # <<>>
  <2>1. local' = [local EXCEPT ![t] = local[t]] /\ local[t] \in Locals
    BY <1>2 DEF More, Shapes
  <2>2. t \in Appliers /\ local[t].shown \subseteq 1..proposed
    BY DEF More, Shapes, ThreadOK, PlaceOK, InApply
  <2>3. "take" \in InApply /\ "take" \notin {"submit", "pop"} /\ pc' = [pc EXCEPT ![t] = "take"]
        /\ UNCHANGED <<staged, submitted, messages, proposed, lost, cut, turns>>
    BY <1>2 DEF More, InApply, Goto
  <2> QED
    BY <2>1, <2>2, <2>3, ApplyGoesOn, Parts
<1> QED
  BY <1>1, <1>2

LEMMA TakeKeeps == ASSUME Shapes, NEW t \in Threads, Take(t) PROVE Shapes'
<1>1. CASE staged = <<>>
  BY <1>1, ReturnKeeps, Parts DEF Take
<1>2. CASE staged # <<>>
  <2> DEFINE l == [local[t] EXCEPT !.item = Head(staged)]
  <2>1. Head(staged) \in 1..proposed /\ proposed \in Nat /\ local[t] \in Locals
    BY <1>2 DEF Shapes
  <2>2. l \in Locals /\ l.item = Head(staged) /\ l.shown = local[t].shown
    BY <2>1 DEF Locals
  <2>3. local' = [local EXCEPT ![t] = l]
    BY <1>2 DEF Take, Shapes
  <2>4. t \in Appliers /\ local[t].shown \subseteq 1..proposed
    BY DEF Take, Shapes, ThreadOK, PlaceOK, InApply
  <2>5. "submit" \in InApply /\ pc' = [pc EXCEPT ![t] = "submit"]
        /\ UNCHANGED <<staged, submitted, messages, proposed, lost, cut, turns>>
    BY <1>2 DEF Take, InApply, Goto
  <2> HIDE DEF l
  <2> QED
    BY <2>1, <2>2, <2>3, <2>4, <2>5, ApplyGoesOn, Parts
<1> QED
  BY <1>1, <1>2

LEMMA SubmitKeeps == ASSUME Shapes, NEW t \in Threads, Submit(t) PROVE Shapes'
<1>1. local' = [local EXCEPT ![t] = local[t]] /\ local[t] \in Locals
  BY DEF Submit, Shapes
<1>2. /\ t \in Appliers /\ local[t].shown \subseteq 1..proposed
      /\ local[t].item \in 1..proposed
  BY DEF Submit, Shapes, ThreadOK, PlaceOK, InApply
<1>3. submitted' \in Seq(1..proposed)
  BY <1>2 DEF Submit, Shapes
<1>4. "pop" \in InApply /\ pc' = [pc EXCEPT ![t] = "pop"]
      /\ UNCHANGED <<staged, messages, proposed, lost, cut, turns>>
  BY DEF Submit, InApply, Goto
<1> QED
  BY <1>1, <1>2, <1>3, <1>4, ApplyGoesOn, Parts

LEMMA PopKeeps == ASSUME Shapes, NEW t \in Threads, Pop(t) PROVE Shapes'
<1>1. CASE staged = <<>>
  BY <1>1, ReturnKeeps, Parts DEF Pop
<1>2. CASE staged # <<>>
  <2>1. local' = [local EXCEPT ![t] = local[t]] /\ local[t] \in Locals
    BY <1>2 DEF Pop, Shapes
  <2>2. t \in Appliers /\ local[t].shown \subseteq 1..proposed
    BY DEF Pop, Shapes, ThreadOK, PlaceOK, InApply
  <2>3. staged' \in Seq(1..proposed)
    <3>1. staged' = Tail(staged) /\ staged \in Seq(1..proposed)
      BY <1>2, Parts DEF Pop
    <3> QED
      BY <1>2, <3>1
  <2>4. "head" \in InApply /\ "head" \notin {"submit", "pop"} /\ pc' = [pc EXCEPT ![t] = "head"]
        /\ UNCHANGED <<submitted, messages, proposed, lost, cut, turns>>
    BY <1>2 DEF Pop, InApply, Goto
  <2> QED
    BY <2>1, <2>2, <2>3, <2>4, ApplyGoesOn, Parts
<1> QED
  BY <1>1, <1>2

LEMMA RestartKeeps == ASSUME Shapes, Restart PROVE Shapes'
<1>1. lost' \subseteq 1..proposed
  <2>1. ToSet(staged) \subseteq 1..proposed
    BY Parts DEF ToSet
  <2> QED
    BY <2>1, Parts DEF Restart
<1>2. /\ staged' = <<>> /\ messages' = <<>> /\ UNCHANGED <<submitted, proposed, cut, turns>>
      /\ pc' = [t \in Threads |-> "idle"] /\ local' = [t \in Threads |-> NoLocal]
  BY DEF Restart
<1>3. pc' \in [Threads -> Labels] /\ local' \in [Threads -> Locals]
  BY <1>2, NoLocalIs DEF Labels
<1>4. ASSUME NEW t \in Threads PROVE PlaceOK(t, pc'[t], local'[t], proposed', turns')
  BY <1>2, NoLocalIs DEF PlaceOK, InTurn, InApply
<1> QED
  BY <1>1, <1>2, <1>3, <1>4 DEF Shapes, ThreadOK

LEMMA ShapesKeeps == Shapes /\ [Next]_vars => Shapes'
<1> SUFFICES ASSUME Shapes, [Next]_vars PROVE Shapes'
  OBVIOUS
<1>1. CASE UNCHANGED vars
  BY <1>1 DEF vars, Shapes, ThreadOK
<1>2. CASE Restart
  BY <1>2, RestartKeeps
<1>3. CASE \E t \in Threads : Ask(t) \/ Step(t) \/ Mishap(t)
  <2>1. PICK t \in Threads : Ask(t) \/ Step(t) \/ Mishap(t)
    BY <1>3
  <2>2. CASE Ask(t)
    BY <2>2, TurnKeeps, ApplyKeeps DEF Ask
  <2>3. CASE Mishap(t)
    BY <2>3, ExecKeeps, FailureKeeps, HangupKeeps DEF Mishap
  <2>4. CASE Step(t)
    BY <2>4, NoCallsKeeps, CallsKeeps, ExecKeeps, AnswerKeeps, ReplyKeeps, MoreKeeps, TakeKeeps,
       SubmitKeeps, PopKeeps DEF Step
  <2> QED
    BY <2>1, <2>2, <2>3, <2>4
<1> QED
  BY <1>1, <1>2, <1>3 DEF Next

LEMMA AlwaysShapes == Spec => []Shapes
BY StartHolds, ShapesKeeps, PTL DEF Spec

(* A tool is run only when one was called, an item is submitted that was proposed, and the *)
(* state has its shape (chat.py:156-169, 225-233).                                           *)
THEOREM TypeCorrect == Spec => []TypeOK
<1>1. Shapes => TypeOK
  BY DEF Shapes, ThreadOK, PlaceOK, Locals, TypeOK
<1> QED
  BY <1>1, AlwaysShapes, PTL

---------------------------------------------------------------------------------
(* Every staged change is submitted once: what is submitted comes before what is staged, but *)
(* for the first one while it is submitted and not yet removed.                              *)

Increasing(q) == \A i, j \in DOMAIN q : i < j => q[i] < q[j]
Popping == \E t \in Threads : pc[t] = "pop"
Beyond ==
    \A i \in DOMAIN submitted, j \in DOMAIN staged :
       (Popping => j # 1) => submitted[i] < staged[j]
InHand(t) ==
    /\ pc[t] \in {"submit", "pop"} => staged # <<>> /\ local[t].item = staged[1]
    /\ pc[t] = "pop" => staged[1] \in ToSet(submitted)

OrderInv ==
    /\ Increasing(staged) /\ Increasing(submitted) /\ Beyond
    /\ \A t \in Threads : InHand(t)
    /\ NothingDisappears

LEMMA OrderStarts == Init => OrderInv
BY DEF Init, OrderInv, Increasing, Beyond, InHand, NothingDisappears, ToSet

(* A step that has no part in submitting, other than to take the first item. *)
LEMMA OrderFrame ==
    ASSUME OrderInv, NEW t \in Threads, UNCHANGED <<staged, submitted, proposed, lost>>,
           pc[t] # "pop", pc'[t] # "pop",
           pc'[t] = "submit" => staged # <<>> /\ local'[t].item = staged[1],
           \A u \in Threads \ {t} : pc'[u] = pc[u] /\ local'[u] = local[u]
    PROVE  OrderInv'
<1>1. Popping' = Popping
  BY DEF Popping
<1>2. Increasing(staged)' /\ Increasing(submitted)' /\ Beyond' /\ NothingDisappears'
  BY <1>1 DEF OrderInv, Increasing, Beyond, NothingDisappears, ToSet
<1>3. ASSUME NEW u \in Threads PROVE InHand(u)'
  <2>1. CASE u = t
    BY <2>1 DEF InHand
  <2>2. CASE u # t
    BY <2>2 DEF OrderInv, InHand, ToSet
  <2> QED
    BY <2>1, <2>2
<1> QED
  BY <1>2, <1>3 DEF OrderInv

LEMMA QuietSteps ==
    ASSUME Shapes, NEW t \in Threads,
           \/ \E stream \in BOOLEAN : Turn(t, stream)
           \/ NoCalls(t) \/ (\E calls \in Answers : Calls(t, calls)) \/ ToolFails(t)
           \/ Answer(t) \/ Reply(t) \/ ModelFails(t) \/ Hangup(t)
           \/ Apply(t) \/ More(t) \/ Take(t) \/ SubmitFails(t)
    PROVE  /\ UNCHANGED <<staged, submitted, proposed, lost>>
           /\ pc[t] # "pop" /\ pc'[t] # "pop"
           /\ \A u \in Threads \ {t} : pc'[u] = pc[u] /\ local'[u] = local[u]
<1>1. pc \in [Threads -> Labels] /\ local \in [Threads -> Locals]
  BY DEF Shapes
<1>2. UNCHANGED <<staged, submitted, proposed, lost>>
  BY DEF Turn, NoCalls, Calls, ToolFails, Answer, Reply, ModelFails, Hangup, Apply, More, Take,
         SubmitFails
<1>3. pc[t] # "pop"
  BY DEF Turn, NoCalls, Calls, ToolFails, Answer, Reply, ModelFails, Hangup, Apply, More, Take,
         SubmitFails, Asks
<1>4. pc'[t] # "pop" /\ \A u \in Threads \ {t} : pc'[u] = pc[u]
  BY <1>1 DEF Turn, NoCalls, Calls, ToolFails, Answer, Reply, ModelFails, Hangup, Apply, More, Take,
         SubmitFails, Return, Goto
<1>5. \A u \in Threads \ {t} : local'[u] = local[u]
  BY <1>1 DEF Turn, NoCalls, Calls, ToolFails, Answer, Reply, ModelFails, Hangup, Apply, More, Take,
         SubmitFails, Return
<1> QED
  BY <1>2, <1>3, <1>4, <1>5

(* Which of them goes to "submit". *)
LEMMA OnlyTakeGoesOn ==
    ASSUME Shapes, NEW t \in Threads, pc'[t] = "submit",
           \/ \E stream \in BOOLEAN : Turn(t, stream)
           \/ NoCalls(t) \/ (\E calls \in Answers : Calls(t, calls)) \/ ToolFails(t)
           \/ Answer(t) \/ Reply(t) \/ ModelFails(t) \/ Hangup(t)
           \/ Apply(t) \/ More(t) \/ Take(t) \/ SubmitFails(t)
    PROVE  staged # <<>> /\ local'[t].item = staged[1]
<1>1. pc \in [Threads -> Labels] /\ local \in [Threads -> Locals]
  BY DEF Shapes
<1>2. Take(t)
  BY <1>1 DEF Turn, NoCalls, Calls, ToolFails, Answer, Reply, ModelFails, Hangup, Apply, More,
         SubmitFails, Return, Goto
<1>3. staged # <<>>
  BY <1>1, <1>2 DEF Take, Return, Goto
<1>4. local'[t] = [local[t] EXCEPT !.item = Head(staged)]
  BY <1>1, <1>2, <1>3 DEF Take
<1>5. local'[t].item = Head(staged)
  BY <1>1, <1>4 DEF Locals
<1> QED
  BY <1>3, <1>5

LEMMA ExecOrdered == ASSUME Shapes, OrderInv, NEW t \in Threads, Exec(t) PROVE OrderInv'
<1>1. /\ UNCHANGED <<submitted, lost, local>> /\ pc[t] # "pop" /\ pc'[t] = "answer"
      /\ \A u \in Threads \ {t} : pc'[u] = pc[u] /\ local'[u] = local[u]
  BY DEF Exec, Goto, Shapes
<1>2. CASE UNCHANGED <<proposed, staged>>
  BY <1>1, <1>2, OrderFrame
<1>3. CASE proposed' = proposed + 1 /\ staged' = Append(staged, proposed + 1)
  <2>1. proposed \in Nat /\ staged \in Seq(1..proposed) /\ submitted \in Seq(1..proposed)
    BY DEF Shapes
  <2>2. staged \in Seq(1..(proposed + 1)) /\ proposed + 1 \in 1..(proposed + 1)
    BY <2>1, SeqGrows
  <2>3. /\ Len(staged) \in Nat /\ DOMAIN staged = 1..Len(staged)
        /\ DOMAIN staged' = 1..(Len(staged) + 1)
        /\ \A i \in 1..Len(staged) : staged'[i] = staged[i] /\ staged[i] \in 1..proposed
        /\ staged'[Len(staged) + 1] = proposed + 1
    BY <1>3, <2>1, <2>2, AppendIs
  <2>4. \A i \in DOMAIN submitted : submitted[i] \in 1..proposed
    BY <2>1
  <2>5. Increasing(staged)'
    <3> SUFFICES ASSUME NEW i \in DOMAIN staged', NEW j \in DOMAIN staged', i < j
                 PROVE  staged'[i] < staged'[j]
      BY DEF Increasing
    <3>1. i \in 1..Len(staged) /\ j \in 1..(Len(staged) + 1)
      BY <2>3
    <3>2. CASE j \in 1..Len(staged)
      <4>1. staged[i] < staged[j]
        BY <2>3, <3>1, <3>2 DEF OrderInv, Increasing
      <4> QED
        BY <2>3, <3>1, <3>2, <4>1
    <3>3. CASE j = Len(staged) + 1
      <4>1. staged'[i] \in 1..proposed /\ staged'[j] = proposed + 1
        BY <2>3, <3>1, <3>3
      <4> QED
        BY <2>1, <4>1
    <3> QED
      BY <2>3, <3>1, <3>2, <3>3
  <2>6. Increasing(submitted)'
    BY <1>1 DEF OrderInv, Increasing
  <2>7. Popping' = Popping
    BY <1>1 DEF Popping
  <2>8. Beyond'
    <3> SUFFICES ASSUME NEW i \in DOMAIN submitted, NEW j \in DOMAIN staged', Popping => j # 1
                 PROVE  submitted[i] < staged'[j]
      BY <1>1, <2>7 DEF Beyond
    <3>1. CASE j \in 1..Len(staged)
      <4>1. submitted[i] < staged[j]
        BY <2>3, <3>1 DEF OrderInv, Beyond
      <4> QED
        BY <2>3, <3>1, <4>1
    <3>2. CASE j = Len(staged) + 1
      <4>1. submitted[i] \in 1..proposed /\ staged'[j] = proposed + 1
        BY <2>3, <2>4, <3>2
      <4> QED
        BY <2>1, <4>1
    <3> QED
      BY <2>3, <3>1, <3>2
  <2>9. NothingDisappears'
    <3>1. ToSet(staged') = ToSet(staged) \cup {proposed + 1}
      BY <1>3, <2>2, SetOfAppend
    <3>2. 1..(proposed + 1) = 1..proposed \cup {proposed + 1}
      BY <2>1
    <3>3. 1..proposed = ToSet(staged) \cup ToSet(submitted) \cup lost
      BY DEF OrderInv, NothingDisappears
    <3>4. ToSet(submitted') = ToSet(submitted)
      BY <1>1
    <3> QED
      BY <1>1, <1>3, <3>1, <3>2, <3>3, <3>4 DEF NothingDisappears
  <2>10. ASSUME NEW u \in Threads PROVE InHand(u)'
    <3>1. CASE u = t
      BY <1>1, <3>1 DEF InHand
    <3>2. CASE u # t
      <4>1. InHand(u) /\ pc'[u] = pc[u] /\ local'[u] = local[u] /\ submitted' = submitted
        BY <1>1, <3>2 DEF OrderInv
      <4>2. staged # <<>> => staged' # <<>> /\ staged'[1] = staged[1]
        BY <1>3, <2>1, <2>3
      <4> QED
        BY <4>1, <4>2 DEF InHand
    <3> QED
      BY <3>1, <3>2
  <2> QED
    BY <2>5, <2>6, <2>8, <2>9, <2>10 DEF OrderInv
<1> QED
  BY <1>2, <1>3 DEF Exec

(* No other thread is in an apply. *)
LEMMA AloneInApply ==
    ASSUME Shapes, OneApplier, NEW t \in Threads, pc[t] \in InApply
    PROVE  \A u \in Threads \ {t} : pc[u] \notin InApply
BY DEF Shapes, ThreadOK, PlaceOK, OneApplier

LEMMA SubmitOrdered ==
    ASSUME Shapes, OrderInv, OneApplier, NEW t \in Threads, Submit(t) PROVE OrderInv'
<1>1. /\ UNCHANGED <<staged, lost, local, proposed>> /\ pc[t] = "submit" /\ pc'[t] = "pop"
      /\ \A u \in Threads \ {t} : pc'[u] = pc[u] /\ local'[u] = local[u]
      /\ submitted' = Append(submitted, local[t].item)
  BY DEF Submit, Goto, Shapes
<1>2. \A u \in Threads \ {t} : pc[u] \notin {"submit", "pop"}
  BY <1>1, AloneInApply DEF InApply
<1>3. staged # <<>> /\ local[t].item = staged[1]
  BY <1>1 DEF OrderInv, InHand
<1>4. /\ staged \in Seq(1..proposed) /\ submitted \in Seq(1..proposed) /\ proposed \in Nat
      /\ staged[1] \in 1..proposed /\ 1 \in DOMAIN staged
  BY <1>3, TailIs DEF Shapes
<1>5. /\ Len(submitted) \in Nat /\ DOMAIN submitted = 1..Len(submitted)
      /\ DOMAIN submitted' = 1..(Len(submitted) + 1)
      /\ \A i \in 1..Len(submitted) : submitted'[i] = submitted[i] /\ submitted[i] \in 1..proposed
      /\ submitted'[Len(submitted) + 1] = staged[1]
  BY <1>1, <1>3, <1>4, AppendIs
<1>6. \A i \in DOMAIN submitted, j \in DOMAIN staged : submitted[i] < staged[j]
  BY <1>1, <1>2 DEF OrderInv, Beyond, Popping
<1>7. Increasing(submitted)'
  <2> SUFFICES ASSUME NEW i \in DOMAIN submitted', NEW j \in DOMAIN submitted', i < j
               PROVE  submitted'[i] < submitted'[j]
    BY DEF Increasing
  <2>1. i \in 1..Len(submitted) /\ j \in 1..(Len(submitted) + 1)
    BY <1>5
  <2>2. CASE j \in 1..Len(submitted)
    <3>1. submitted[i] < submitted[j]
      BY <1>5, <2>1, <2>2 DEF OrderInv, Increasing
    <3> QED
      BY <1>5, <2>1, <2>2, <3>1
  <2>3. CASE j = Len(submitted) + 1
    <3>1. submitted[i] < staged[1]
      BY <1>4, <1>5, <1>6, <2>1
    <3> QED
      BY <1>5, <2>1, <2>3, <3>1
  <2> QED
    BY <1>5, <2>1, <2>2, <2>3
<1>8. Increasing(staged)'
  BY <1>1 DEF OrderInv, Increasing
<1>9. Beyond'
  <2> SUFFICES ASSUME NEW i \in DOMAIN submitted', NEW j \in DOMAIN staged', j # 1
               PROVE  submitted'[i] < staged'[j]
    BY <1>1 DEF Beyond, Popping
  <2>1. staged' = staged /\ j \in DOMAIN staged
    BY <1>1
  <2>2. CASE i \in 1..Len(submitted)
    BY <1>5, <1>6, <2>1, <2>2
  <2>3. CASE i = Len(submitted) + 1
    <3>1. 1 < j
      BY <1>4, <2>1
    <3> QED
      BY <1>4, <1>5, <2>1, <2>3, <3>1 DEF OrderInv, Increasing
  <2> QED
    BY <1>5, <2>2, <2>3
<1>10. ToSet(submitted') = ToSet(submitted) \cup {staged[1]}
  BY <1>1, <1>3, <1>4, SetOfAppend
<1>11. staged[1] \in ToSet(staged) /\ ToSet(staged') = ToSet(staged)
  BY <1>1, <1>4 DEF ToSet
<1>12. NothingDisappears'
  BY <1>1, <1>10, <1>11 DEF OrderInv, NothingDisappears
<1>13. ASSUME NEW u \in Threads PROVE InHand(u)'
  BY <1>1, <1>2, <1>3, <1>10 DEF InHand
<1> QED
  BY <1>7, <1>8, <1>9, <1>12, <1>13 DEF OrderInv

LEMMA PopOrdered ==
    ASSUME Shapes, OrderInv, OneApplier, NEW t \in Threads, Pop(t) PROVE OrderInv'
<1>1. pc[t] = "pop" /\ staged # <<>> /\ staged[1] \in ToSet(submitted)
  BY DEF Pop, OrderInv, InHand
<1>2. /\ UNCHANGED <<submitted, lost, local, proposed>> /\ pc'[t] = "head"
      /\ \A u \in Threads \ {t} : pc'[u] = pc[u] /\ local'[u] = local[u]
      /\ staged' = Tail(staged)
  BY <1>1 DEF Pop, Goto, Shapes
<1>3. \A u \in Threads \ {t} : pc[u] \notin {"submit", "pop"}
  BY <1>1, AloneInApply DEF InApply
<1>4. staged \in Seq(1..proposed) /\ proposed \in Nat
  BY DEF Shapes
<1>5. /\ Len(staged) \in Nat \ {0} /\ DOMAIN staged = 1..Len(staged)
      /\ DOMAIN staged' = 1..(Len(staged) - 1)
      /\ \A i \in 1..(Len(staged) - 1) : staged'[i] = staged[i + 1] /\ i + 1 \in 1..Len(staged)
  BY <1>1, <1>2, <1>4, TailIs
<1>6. Increasing(staged)'
  BY <1>5 DEF OrderInv, Increasing
<1>7. Increasing(submitted)'
  BY <1>2 DEF OrderInv, Increasing
<1>8. Beyond'
  <2> SUFFICES ASSUME NEW i \in DOMAIN submitted, NEW j \in DOMAIN staged'
               PROVE  submitted[i] < staged'[j]
    BY <1>2 DEF Beyond
  <2>1. j + 1 \in DOMAIN staged /\ j + 1 # 1 /\ staged'[j] = staged[j + 1]
    BY <1>5
  <2> QED
    BY <2>1 DEF OrderInv, Beyond
<1>9. ToSet(staged) = {staged[1]} \cup ToSet(staged') /\ ToSet(submitted') = ToSet(submitted)
  BY <1>1, <1>2, <1>4, SetOfTail
<1>10. NothingDisappears'
  BY <1>1, <1>2, <1>9 DEF OrderInv, NothingDisappears
<1>11. ASSUME NEW u \in Threads PROVE InHand(u)'
  BY <1>2, <1>3 DEF InHand
<1> QED
  BY <1>6, <1>7, <1>8, <1>10, <1>11 DEF OrderInv

LEMMA RestartOrdered == ASSUME Shapes, OrderInv, Restart PROVE OrderInv'
<1>1. /\ staged' = <<>> /\ UNCHANGED <<submitted, proposed>> /\ lost' = lost \cup ToSet(staged)
      /\ \A t \in Threads : pc'[t] = "idle"
  BY DEF Restart
<1>2. Increasing(staged)' /\ Increasing(submitted)' /\ Beyond'
  BY <1>1 DEF OrderInv, Increasing, Beyond
<1>3. ToSet(staged') = {} /\ ToSet(submitted') = ToSet(submitted)
  BY <1>1 DEF ToSet
<1>4. NothingDisappears'
  BY <1>1, <1>3 DEF OrderInv, NothingDisappears
<1> QED
  BY <1>1, <1>2, <1>4 DEF OrderInv, InHand

LEMMA OrderKeeps == OneApplier /\ Shapes /\ OrderInv /\ [Next]_vars => OrderInv'
<1> SUFFICES ASSUME OneApplier, Shapes, OrderInv, [Next]_vars PROVE OrderInv'
  OBVIOUS
<1>1. CASE UNCHANGED vars
  BY <1>1 DEF vars, OrderInv, Increasing, Beyond, Popping, InHand, NothingDisappears, ToSet
<1>2. CASE Restart
  BY <1>2, RestartOrdered
<1>3. CASE \E t \in Threads : Ask(t) \/ Step(t) \/ Mishap(t)
  <2>1. PICK t \in Threads : Ask(t) \/ Step(t) \/ Mishap(t)
    BY <1>3
  <2>2. CASE Exec(t)
    BY <2>2, ExecOrdered
  <2>3. CASE Submit(t)
    BY <2>3, SubmitOrdered
  <2>4. CASE Pop(t)
    BY <2>4, PopOrdered
  <2>5. CASE ~(Exec(t) \/ Submit(t) \/ Pop(t))
    <3>1. \/ \E stream \in BOOLEAN : Turn(t, stream)
          \/ NoCalls(t) \/ (\E calls \in Answers : Calls(t, calls)) \/ ToolFails(t)
          \/ Answer(t) \/ Reply(t) \/ ModelFails(t) \/ Hangup(t)
          \/ Apply(t) \/ More(t) \/ Take(t) \/ SubmitFails(t)
      BY <2>1, <2>5 DEF Ask, Step, Mishap
    <3> QED
      BY <3>1, QuietSteps, OnlyTakeGoesOn, OrderFrame
  <2> QED
    BY <2>2, <2>3, <2>4, <2>5
<1> QED
  BY <1>1, <1>2, <1>3 DEF Next

(* With one apply at a time, and however often it fails and is repeated: every staged change *)
(* is submitted once, in the order of the proposals, and none disappears but by a restart     *)
(* (chat.py:221-233).                                                                         *)
THEOREM SubmittedOnce == ASSUME OneApplier PROVE Spec => []ExactlyOnce
<1>1. OrderInv => ExactlyOnce
  BY DEF OrderInv, Increasing, ExactlyOnce, SubmittedInOrder
<1>2. Shapes /\ OrderInv /\ [Next]_vars => OrderInv'
  BY OrderKeeps
<1> QED
  BY <1>1, <1>2, AlwaysShapes, OrderStarts, PTL DEF Spec

---------------------------------------------------------------------------------
(* The model is asked with all results: calls without theirs are those of the one thread in  *)
(* a turn, and end the conversation.                                                         *)

Results(i, m) ==
    \A k \in 1..m : messages[i + k].kind = "result" /\ messages[i + k].turn = messages[i].turn
Due(i, t) ==
    /\ pc[t] \in {"exec", "answer"}
    /\ local[t].turn = messages[i].turn
    /\ Len(messages) + Len(local[t].calls) = i + messages[i].n
    /\ Results(i, Len(messages) - i)
Settled(i) == messages[i].kind = "calls" /\ messages[i].turn \notin cut => Answered(i)

CallsInv ==
    \A i \in DOMAIN messages :
       messages[i].kind = "calls" /\ messages[i].turn \notin cut =>
          Answered(i) \/ \E t \in Threads : Due(i, t)

LEMMA CallsStart == Init => CallsInv
BY DEF Init, CallsInv

(* The thread that is in a turn is the only one, and so is one that begins a turn. *)
LEMMA AloneInTurn ==
    ASSUME Shapes, OneTalker, NEW t \in Threads, pc[t] \in InTurn \/ t \in Talkers
    PROVE  \A u \in Threads \ {t} : pc[u] \notin InTurn
BY DEF Shapes, ThreadOK, PlaceOK, OneTalker

LEMMA NothingDue ==
    ASSUME Shapes, CallsInv, OneTalker, NEW t \in Threads, pc[t] \in InTurn \/ t \in Talkers,
           pc[t] \notin {"exec", "answer"}
    PROVE  \A i \in DOMAIN messages : Settled(i)
<1>1. \A u \in Threads : pc[u] \notin {"exec", "answer"}
  BY AloneInTurn DEF InTurn
<1> QED
  BY <1>1 DEF CallsInv, Settled, Due

LEMMA MessageIs ==
    ASSUME NEW kind \in {"user", "calls", "result", "reply"}, NEW turn \in Nat, NEW n \in Nat
    PROVE  /\ Msg(kind, turn, n) \in Message /\ Msg(kind, turn, n).kind = kind
           /\ Msg(kind, turn, n).turn = turn /\ Msg(kind, turn, n).n = n
BY DEF Msg, Message

LEMMA SaidIs ==
    ASSUME Shapes, NEW m \in Message, Say(m)
    PROVE  /\ Len(messages) \in Nat /\ Len(messages') = Len(messages) + 1
           /\ DOMAIN messages = 1..Len(messages) /\ DOMAIN messages' = 1..(Len(messages) + 1)
           /\ \A i \in 1..Len(messages) : messages'[i] = messages[i] /\ messages[i] \in Message
           /\ messages'[Len(messages) + 1] = m
<1>1. messages \in Seq(Message) /\ messages' = Append(messages, m)
  BY DEF Shapes, Say
<1> QED
  BY <1>1, AppendIs

(* What was answered stays so when the conversation goes on. *)
LEMMA AnsweredGrows ==
    ASSUME Shapes, NEW m \in Message, Say(m), NEW i \in DOMAIN messages, Answered(i)
    PROVE  Answered(i)'
<1>1. /\ Len(messages) \in Nat /\ Len(messages') = Len(messages) + 1 /\ i \in 1..Len(messages)
      /\ \A j \in 1..Len(messages) : messages'[j] = messages[j]
  BY SaidIs
<1>2. messages'[i] = messages[i] /\ messages[i].n \in Nat
  BY <1>1, SaidIs DEF Message
<1>3. i + messages[i].n <= Len(messages)
  BY DEF Answered
<1>4. ASSUME NEW k \in 1..messages[i].n PROVE messages'[i + k] = messages[i + k]
  <2>1. i + k \in 1..Len(messages)
    BY <1>1, <1>2, <1>3
  <2> QED
    BY <1>1, <2>1
<1>5. i + messages'[i].n <= Len(messages')
  BY <1>1, <1>2, <1>3
<1> QED
  BY <1>2, <1>4, <1>5 DEF Answered

(* A message that holds no calls, said when none is due. *)
LEMMA SaysMore ==
    ASSUME Shapes, NEW m \in Message, Say(m), m.kind # "calls", UNCHANGED cut,
           \A i \in DOMAIN messages : Settled(i)
    PROVE  CallsInv'
<1>1. /\ DOMAIN messages = 1..Len(messages) /\ DOMAIN messages' = 1..(Len(messages) + 1)
      /\ \A i \in 1..Len(messages) : messages'[i] = messages[i]
      /\ messages'[Len(messages) + 1] = m /\ Len(messages) \in Nat
  BY SaidIs
<1> SUFFICES ASSUME NEW i \in DOMAIN messages', messages'[i].kind = "calls",
                    messages'[i].turn \notin cut
             PROVE  Answered(i)'
  BY DEF CallsInv
<1>2. i \in DOMAIN messages /\ messages'[i] = messages[i]
  BY <1>1
<1> QED
  BY <1>2, AnsweredGrows DEF Settled

LEMMA TurnAsks ==
    ASSUME Shapes, CallsInv, OneTalker, NEW t \in Threads, NEW stream \in BOOLEAN,
           Turn(t, stream)
    PROVE  CallsInv'
<1>1. t \in Talkers /\ pc[t] = "idle" /\ turns + 1 \in Nat /\ UNCHANGED cut
  BY DEF Turn, Shapes
<1>2. Say(Msg("user", turns + 1, 0))
  BY DEF Turn
<1> QED
  BY <1>1, <1>2, NothingDue, MessageIs, SaysMore

LEMMA ReplyAsks ==
    ASSUME Shapes, CallsInv, OneTalker, NEW t \in Threads, Reply(t) PROVE CallsInv'
<1>1. pc[t] = "final" /\ local[t].turn \in Nat /\ UNCHANGED cut
  BY DEF Reply, Shapes, Locals
<1>2. Say(Msg("reply", local[t].turn, 0))
  BY DEF Reply
<1>3. pc[t] \in InTurn
  BY <1>1 DEF InTurn
<1> QED
  BY <1>1, <1>2, <1>3, NothingDue, MessageIs, SaysMore

LEMMA CallsAsks ==
    ASSUME Shapes, CallsInv, OneTalker, NEW t \in Threads, NEW calls \in Answers,
           Calls(t, calls)
    PROVE  CallsInv'
<1> DEFINE m == Msg("calls", local[t].turn, Len(calls))
<1>1. /\ pc[t] = "model" /\ pc[t] \in InTurn /\ UNCHANGED cut /\ Say(m)
      /\ pc \in [Threads -> Labels] /\ local \in [Threads -> Locals]
  BY DEF Calls, InTurn, Shapes
<1>2. local[t].turn \in Nat /\ Len(calls) \in Nat
  BY <1>1, ChatConstants DEF Locals
<1>3. m \in Message /\ m.turn = local[t].turn /\ m.n = Len(calls)
  BY <1>2, MessageIs
<1>4. pc'[t] = "exec" /\ local'[t].calls = calls /\ local'[t].turn = local[t].turn
  BY <1>1 DEF Calls, Goto, Locals
<1> HIDE DEF m
<1>5. /\ DOMAIN messages = 1..Len(messages) /\ DOMAIN messages' = 1..(Len(messages) + 1)
      /\ \A i \in 1..Len(messages) : messages'[i] = messages[i]
      /\ messages'[Len(messages) + 1] = m /\ Len(messages) \in Nat
      /\ Len(messages') = Len(messages) + 1
  BY <1>1, <1>3, SaidIs
<1> SUFFICES ASSUME NEW i \in DOMAIN messages', messages'[i].kind = "calls",
                    messages'[i].turn \notin cut
             PROVE  Answered(i)' \/ Due(i, t)'
  BY <1>1 DEF CallsInv
<1>6. CASE i \in 1..Len(messages)
  <2>1. i \in DOMAIN messages /\ messages'[i] = messages[i]
    BY <1>5, <1>6
  <2>2. Answered(i)
    BY <1>1, <2>1, NothingDue DEF Settled
  <2> QED
    BY <1>1, <1>3, <2>1, <2>2, AnsweredGrows
<1>7. CASE i = Len(messages) + 1
  <2>1. Len(messages') - i = 0 /\ messages'[i] = m
    BY <1>5, <1>7
  <2>2. Results(i, Len(messages) - i)'
    BY <2>1 DEF Results
  <2> QED
    BY <1>2, <1>3, <1>4, <1>5, <1>7, <2>1, <2>2 DEF Due
<1> QED
  BY <1>5, <1>6, <1>7

LEMMA AnswerAsks ==
    ASSUME Shapes, CallsInv, OneTalker, NEW t \in Threads, Answer(t) PROVE CallsInv'
<1> DEFINE m == Msg("result", local[t].turn, 1)
<1>1. /\ pc[t] = "answer" /\ pc[t] \in InTurn /\ UNCHANGED cut /\ Say(m)
      /\ pc \in [Threads -> Labels] /\ local \in [Threads -> Locals]
      /\ local[t].calls # <<>>
  BY DEF Answer, InTurn, Shapes, ThreadOK, PlaceOK
<1>2. local[t].turn \in Nat /\ local[t].calls \in Seq(Tools)
  BY <1>1 DEF Locals
<1>3. m \in Message /\ m.turn = local[t].turn /\ m.kind = "result"
  BY <1>2, MessageIs
<1>4. local'[t].calls = Tail(local[t].calls) /\ local'[t].turn = local[t].turn
  BY <1>1 DEF Answer, Locals
<1>5. pc'[t] = IF Len(local[t].calls) > 1 THEN "exec" ELSE "model"
  BY <1>1 DEF Answer, Goto
<1>6. PICK n \in Nat : n > 0 /\ Len(local[t].calls) = n /\ Len(local'[t].calls) = n - 1
  <2>1. Len(local[t].calls) \in Nat /\ Len(local[t].calls) > 0
    BY <1>1, <1>2
  <2>2. Len(Tail(local[t].calls)) = Len(local[t].calls) - 1
    BY <1>1, <1>2
  <2> QED
    BY <1>4, <2>1, <2>2
<1> HIDE DEF m
<1>7. /\ DOMAIN messages = 1..Len(messages) /\ DOMAIN messages' = 1..(Len(messages) + 1)
      /\ \A i \in 1..Len(messages) : messages'[i] = messages[i] /\ messages[i] \in Message
      /\ messages'[Len(messages) + 1] = m /\ Len(messages) \in Nat
      /\ Len(messages') = Len(messages) + 1
  BY <1>1, <1>3, SaidIs
<1> SUFFICES ASSUME NEW i \in DOMAIN messages', messages'[i].kind = "calls",
                    messages'[i].turn \notin cut
             PROVE  Answered(i)' \/ Due(i, t)'
  BY <1>1 DEF CallsInv
<1>8. /\ i \in 1..Len(messages) /\ i \in DOMAIN messages /\ messages'[i] = messages[i]
      /\ messages[i].n \in Nat
  BY <1>3, <1>7 DEF Message
<1>9. CASE Answered(i)
  BY <1>1, <1>3, <1>8, <1>9, AnsweredGrows
<1>10. CASE Due(i, t)
  <2>1. /\ local[t].turn = messages[i].turn /\ Results(i, Len(messages) - i)
        /\ Len(messages) + Len(local[t].calls) = i + messages[i].n
    BY <1>10 DEF Due
  <2>2. Results(i, Len(messages) - i)'
    <3> SUFFICES ASSUME NEW k \in 1..(Len(messages') - i)
                 PROVE  /\ messages'[i + k].kind = "result"
                        /\ messages'[i + k].turn = messages'[i].turn
      BY DEF Results
    <3>1. CASE k \in 1..(Len(messages) - i)
      <4>1. i + k \in 1..Len(messages)
        BY <1>7, <1>8, <3>1
      <4> QED
        BY <1>7, <1>8, <2>1, <3>1, <4>1 DEF Results
    <3>2. CASE i + k = Len(messages) + 1
      BY <1>3, <1>7, <1>8, <2>1, <3>2
    <3> QED
      BY <1>7, <1>8, <3>1, <3>2
  <2>3. CASE Len(local[t].calls) > 1
    <3>1. Len(messages') + Len(local'[t].calls) = i + messages'[i].n
      <4>1. messages'[i].n = messages[i].n
        BY <1>8
      <4>2. Len(messages') = Len(messages) + 1 /\ Len(messages) \in Nat
        BY <1>7
      <4>3. i \in Nat /\ messages[i].n \in Nat
        BY <1>8, <4>2
      <4> QED
        BY <1>6, <2>1, <4>1, <4>2, <4>3
    <3>2. pc'[t] = "exec" /\ local'[t].turn = messages'[i].turn
      BY <1>4, <1>5, <1>8, <2>1, <2>3
    <3> QED
      BY <2>2, <3>1, <3>2 DEF Due
  <2>4. CASE ~ (Len(local[t].calls) > 1)
    <3>1. Len(messages') = i + messages'[i].n /\ messages'[i].n = Len(messages') - i
      <4>1. n = 1
        BY <1>6, <2>4
      <4>4. messages'[i].n = messages[i].n
        BY <1>8
      <4>2. Len(messages') = Len(messages) + 1 /\ Len(messages) \in Nat
        BY <1>7
      <4>3. i \in Nat /\ messages[i].n \in Nat
        BY <1>8, <4>2
      <4> QED
        BY <1>6, <2>1, <4>1, <4>2, <4>3, <4>4
    <3> QED
      BY <2>2, <3>1, <1>8, <1>7 DEF Results, Answered
  <2> QED
    BY <2>3, <2>4
<1>11. Answered(i) \/ Due(i, t)
  <2>1. \A u \in Threads \ {t} : pc[u] \notin {"exec", "answer"}
    BY <1>1, AloneInTurn DEF InTurn
  <2>2. messages[i].kind = "calls" /\ messages[i].turn \notin cut
    BY <1>8
  <2> QED
    BY <1>8, <2>1, <2>2 DEF CallsInv, Due
<1> QED
  BY <1>9, <1>10, <1>11

(* A step that says nothing and does not end the calls of a turn. *)
LEMMA CallsFrame ==
    ASSUME CallsInv, NEW t \in Threads, UNCHANGED <<messages, cut>>,
           pc[t] \in {"exec", "answer"} =>
              pc'[t] \in {"exec", "answer"} /\ local'[t] = local[t],
           \A u \in Threads \ {t} : pc'[u] = pc[u] /\ local'[u] = local[u]
    PROVE  CallsInv'
<1>1. ASSUME NEW i \in DOMAIN messages, NEW u \in Threads, Due(i, u) PROVE Due(i, u)'
  <2>1. pc'[u] \in {"exec", "answer"} /\ local'[u] = local[u]
    BY <1>1 DEF Due
  <2> QED
    BY <1>1, <2>1 DEF Due, Results
<1>2. ASSUME NEW i \in DOMAIN messages, Answered(i) PROVE Answered(i)'
  BY <1>2 DEF Answered
<1> QED
  BY <1>1, <1>2 DEF CallsInv

(* The turn of a client that is gone is cut, and its calls are the only ones due. *)
LEMMA HangupAsks ==
    ASSUME Shapes, CallsInv, OneTalker, NEW t \in Threads, Hangup(t) PROVE CallsInv'
<1>1. /\ pc[t] \in InTurn /\ cut' = cut \cup {local[t].turn} /\ UNCHANGED messages
  BY DEF Hangup, InTurn
<1>2. \A u \in Threads \ {t} : pc[u] \notin {"exec", "answer"}
  BY <1>1, AloneInTurn DEF InTurn
<1> SUFFICES ASSUME NEW i \in DOMAIN messages, messages[i].kind = "calls",
                    messages[i].turn \notin cut'
             PROVE  Answered(i)'
  BY <1>1 DEF CallsInv
<1>3. ~ Due(i, t)
  BY <1>1 DEF Due
<1>4. Answered(i)
  BY <1>1, <1>2, <1>3 DEF CallsInv, Due
<1> QED
  BY <1>1, <1>4 DEF Answered

LEMMA CallsKeep == OneTalker /\ Shapes /\ CallsInv /\ [Next]_vars => CallsInv'
<1> SUFFICES ASSUME OneTalker, Shapes, CallsInv, [Next]_vars PROVE CallsInv'
  OBVIOUS
<1>1. CASE UNCHANGED vars
  BY <1>1 DEF vars, CallsInv, Answered, Due, Results
<1>2. CASE Restart
  <2>1. DOMAIN messages' = {}
    BY <1>2 DEF Restart
  <2> QED
    BY <2>1 DEF CallsInv
<1>3. CASE \E t \in Threads : Ask(t) \/ Step(t) \/ Mishap(t)
  <2>1. PICK t \in Threads : Ask(t) \/ Step(t) \/ Mishap(t)
    BY <1>3
  <2>2. CASE \E stream \in BOOLEAN : Turn(t, stream)
    BY <2>2, TurnAsks
  <2>3. CASE \E calls \in Answers : Calls(t, calls)
    BY <2>3, CallsAsks
  <2>4. CASE Answer(t)
    BY <2>4, AnswerAsks
  <2>5. CASE Reply(t)
    BY <2>5, ReplyAsks
  <2>6. CASE Hangup(t)
    BY <2>6, HangupAsks
  <2>7. CASE \/ NoCalls(t) \/ Exec(t) \/ ToolFails(t) \/ ModelFails(t) \/ SubmitFails(t)
             \/ Apply(t) \/ More(t) \/ Take(t) \/ Submit(t) \/ Pop(t)
    <3>1. pc \in [Threads -> Labels] /\ local \in [Threads -> Locals]
      BY DEF Shapes
    <3>2. UNCHANGED <<messages, cut>>
      BY <2>7 DEF NoCalls, Exec, ToolFails, ModelFails, SubmitFails, Apply, More, Take, Submit, Pop
    <3>3. \A u \in Threads \ {t} : pc'[u] = pc[u]
      BY <2>7, <3>1 DEF NoCalls, Exec, ToolFails, ModelFails, SubmitFails, Apply, More, Take,
                        Submit, Pop, Return, Goto
    <3>4. \A u \in Threads \ {t} : local'[u] = local[u]
      BY <2>7, <3>1 DEF NoCalls, Exec, ToolFails, ModelFails, SubmitFails, Apply, More, Take,
                        Submit, Pop, Return
    <3>5. pc[t] \in {"exec", "answer"} => pc'[t] = "answer" /\ local' = local
      BY <2>7, <3>1 DEF NoCalls, Exec, ToolFails, ModelFails, SubmitFails, Apply, More, Take,
                        Submit, Pop, Asks, Goto
    <3> QED
      BY <3>2, <3>3, <3>4, <3>5, CallsFrame
  <2> QED
    BY <2>1, <2>2, <2>3, <2>4, <2>5, <2>6, <2>7 DEF Ask, Step, Mishap
<1> QED
  BY <1>1, <1>2, <1>3 DEF Next

(* With one turn at a time: whenever the model is asked, the results of all tool calls but    *)
(* those of a cut turn directly follow them, whatever the tools, the model, the client and    *)
(* the applies beside the turn did (chat.py:161-169).                                         *)
THEOREM AskedProperly == ASSUME OneTalker PROVE Spec => []AskedWithResults
<1>1. Shapes /\ CallsInv => AskedWithResults
  <2> SUFFICES ASSUME Shapes, CallsInv, NEW t \in Threads, Asks(t),
                      NEW i \in DOMAIN messages, messages[i].kind = "calls",
                      messages[i].turn \notin cut
               PROVE  Answered(i)
    BY DEF AskedWithResults
  <2>1. pc[t] \in InTurn /\ pc[t] \notin {"exec", "answer"}
    BY DEF Asks, InTurn
  <2> QED
    BY <2>1, NothingDue DEF Settled
<1>2. Shapes /\ CallsInv /\ [Next]_vars => CallsInv'
  BY CallsKeep
<1> QED
  BY <1>1, <1>2, AlwaysShapes, CallsStart, PTL DEF Spec
=================================================================================
