----------------------------- MODULE ApprovalProofs -----------------------------
(***************************************************************************)
(* Proofs about the approval workflow, for any documents, submissions and  *)
(* threads and any number of crashes.                                      *)
(*                                                                         *)
(* All rest on the submissions lock: a thread between the comparison and   *)
(* the status change of a review is its holder (LockInv).                  *)
(***************************************************************************)
EXTENDS Approval, TLAPS

---------------------------------------------------------------------------------
(* Type correctness *)

(* What is saved is a version (normalize.py:77-91). *)
LEMMA SavedIsVersion == \A raw \in Raw : Saved(raw) \in Version
  BY DEF Saved, Raw, Version

LEMMA OpIsLocal == \A l \in Local, op \in Ops : [l EXCEPT !.op = op] \in Local
  BY DEF Local, Ops

(* The initial states have the declared shape. *)
LEMMA InitTypeOK == Init => TypeOK
  BY ApprovalConstants, NoneIsNothing
  DEF Init, TypeOK, Labels, Locked, NoCall, Local, CallOK

(* A step of a call in progress keeps the shape. *)
LEMMA StepTypeOK ==
  ASSUME TypeOK, NEW t \in Threads, Step(t)
  PROVE  TypeOK'
<1> USE ApprovalConstants, NoneIsNothing DEF TypeOK, CallOK, Goto, Return, Unlock
<1>1. CASE Save(t)
  BY <1>1, SavedIsVersion DEF Save, Reflect, Labels, Locked, NoCall, Local
<1>2. CASE ChooseOp(t)
  <2>1. call[t].doc \in Docs /\ call[t].raw \in Raw
    BY <1>2 DEF ChooseOp, Labels
  <2>2. PICK op \in {"create", "edit"} : call' = [call EXCEPT ![t].op = op]
    BY <1>2 DEF ChooseOp
  <2>3. call' \in [Threads -> Local]
    <3>1. [call[t] EXCEPT !.op = op] \in Local
      BY OpIsLocal DEF Ops
    <3> QED
      BY <2>2, <3>1
  <2>4. pc' = [pc EXCEPT ![t] = "base"]
    BY <1>2 DEF ChooseOp
  <2>5. UNCHANGED <<docs, subs, holder, gate, applied, stale, held, crashes>>
    BY <1>2 DEF ChooseOp
  <2>6. \A u \in Threads : CallOK(u)'
    BY <2>1, <2>2, <2>4, <2>5 DEF Labels, Locked, Local, Ops
  <2> QED BY <2>3, <2>4, <2>5, <2>6 DEF Labels
<1>3. CASE ReadBase(t)
  BY <1>3 DEF ReadBase, Labels, Locked, Local
<1>4. CASE \E s \in SubIds : Create(t, s)
  <2>1. PICK s \in SubIds : Create(t, s) BY <1>4
  <2>2. subs'[s] \in Submission
    BY <2>1 DEF Create, Submission, Local
  <2>3. subs' \in [SubIds -> Submission \cup {None}]
    BY <2>1, <2>2 DEF Create
  <2>4. stale' \in [SubIds -> BOOLEAN]
    BY <2>1 DEF Create
  <2>5. \A u \in SubIds : subs[u] # None => subs'[u] # None
    BY <2>1, <2>2 DEF Create
  <2>6. pc' \in [Threads -> Labels] /\ call' \in [Threads -> Local]
    BY <2>1 DEF Create, Labels, NoCall, Local
  <2>7. \A u \in Threads : CallOK(u)'
    BY <2>1, <2>5 DEF Create, Labels, Locked, NoCall, Local
  <2>8. UNCHANGED <<docs, holder, gate, applied, held, crashes>>
    BY <2>1 DEF Create
  <2> QED BY <2>3, <2>4, <2>6, <2>7, <2>8
<1>5. CASE Acquire(t)
  BY <1>5 DEF Acquire, Labels, Locked
<1>6. CASE LockTimeout(t)
  BY <1>6 DEF LockTimeout, Labels, Locked, NoCall, Local
<1>7. CASE Processed(t)
  BY <1>7 DEF Processed, Labels, Locked, NoCall, Local
<1>8. CASE Compare(t)
  BY <1>8 DEF Compare, Labels, Locked, NoCall, Local
<1>9. CASE ReflectSubmission(t)
  <2>1. call[t].sub \in SubIds /\ Sub(t) \in Submission
    BY <1>9 DEF ReflectSubmission, Locked, Sub
  <2>2. Saved(Sub(t).raw) \in Version /\ Sub(t).doc \in Docs
    BY <2>1, SavedIsVersion DEF Submission
  <2> QED BY <1>9, <2>1, <2>2 DEF ReflectSubmission, Reflect, Labels, Locked
<1>10. CASE MarkApproved(t) \/ MarkRejected(t)
  <2>1. PICK status \in {"approved", "rejected"} :
           SetStatus(t, status) /\ pc[t] \in {"mark", "decline"}
    BY <1>10 DEF MarkApproved, MarkRejected
  <2>2. call[t].sub \in SubIds /\ subs[call[t].sub] \in Submission
    BY <2>1 DEF Locked
  <2>3. subs'[call[t].sub] \in Submission
    BY <2>1, <2>2 DEF SetStatus, Submission
  <2>4. subs' \in [SubIds -> Submission \cup {None}]
    BY <2>1, <2>3 DEF SetStatus
  <2>5. \A u \in SubIds : subs[u] # None => subs'[u] # None
    BY <2>1, <2>2, <2>3 DEF SetStatus
  <2>6. pc' \in [Threads -> Labels] /\ call' \in [Threads -> Local]
    BY <2>1 DEF SetStatus, Labels, NoCall, Local
  <2>7. \A u \in Threads : CallOK(u)'
    BY <2>1, <2>5 DEF SetStatus, Labels, Locked, NoCall, Local
  <2>8. holder' = None /\ UNCHANGED <<docs, gate, applied, stale, held, crashes>>
    BY <2>1 DEF SetStatus
  <2> QED BY <2>4, <2>6, <2>7, <2>8
<1> QED BY <1>1, <1>2, <1>3, <1>4, <1>5, <1>6, <1>7, <1>8, <1>9, <1>10 DEF Step

(* What clients ask for, failures and crashes keep the shape. *)
LEMMA AskTypeOK ==
  ASSUME TypeOK, NEW t \in Threads, Ask(t) \/ Fail(t)
  PROVE  TypeOK'
<1> USE ApprovalConstants, NoneIsNothing DEF TypeOK, CallOK, Goto, Return
<1>1. CASE \E d \in Docs : Read(t, d)
  <2>1. PICK d \in Docs : Read(t, d) BY <1>1
  <2>2. call' \in [Threads -> Local] /\ call'[t].doc \in Docs
    BY <2>1 DEF Read, NoCall, Local
  <2> QED BY <2>1, <2>2 DEF Read, Labels, Locked
<1>2. CASE \E d \in Docs, raw \in Raw : SaveDocument(t, d, raw)
  <2>1. PICK d \in Docs, raw \in Raw : SaveDocument(t, d, raw) BY <1>2
  <2>2. call[t] \in Local /\ call' = [call EXCEPT ![t] = [@ EXCEPT !.doc = d, !.raw = raw]]
    BY <2>1 DEF SaveDocument
  <2>3. [call[t] EXCEPT !.doc = d, !.raw = raw] \in Local
    BY <2>2 DEF Local
  <2>4. call' \in [Threads -> Local] /\ call'[t].doc = d /\ call'[t].raw = raw
    BY <2>2, <2>3 DEF Local
  <2> QED BY <2>1, <2>4 DEF SaveDocument, Labels, Locked
<1>3. CASE \E d \in Docs, raw \in Raw, op \in ChatOps : SubmitChange(t, d, raw, op)
  <2>1. PICK d \in Docs, raw \in Raw, op \in ChatOps : SubmitChange(t, d, raw, op)
    BY <1>3
  <2>2. /\ call[t] \in Local
        /\ call' = [call EXCEPT ![t] = [@ EXCEPT !.doc = d, !.raw = raw, !.op = op]]
    BY <2>1 DEF SubmitChange
  <2>3. [call[t] EXCEPT !.doc = d, !.raw = raw, !.op = op] \in Local
    BY <2>2 DEF Local, Ops
  <2>4. /\ call' \in [Threads -> Local]
        /\ call'[t].doc = d /\ call'[t].raw = raw /\ call'[t].op = op
    BY <2>2, <2>3 DEF Local
  <2> QED BY <2>1, <2>4 DEF SubmitChange, Labels, Locked, Ops
<1>4. CASE \E s \in SubIds, decision \in {"approve", "reject"} : Review(t, s, decision)
  BY <1>4 DEF Review, Labels, Locked, NoCall, Local
<1>5. CASE Fail(t)
  BY <1>5 DEF Fail, Labels, Locked, NoCall, Local
<1> QED BY <1>1, <1>2, <1>3, <1>4, <1>5 DEF Ask

LEMMA CrashTypeOK == TypeOK /\ Crash => TypeOK'
  BY ApprovalConstants, NoneIsNothing
  DEF TypeOK, CallOK, Crash, Labels, Locked, NoCall, Local

(* Every reachable state has the declared shape. *)
THEOREM TypeCorrect == Spec => []TypeOK
<1>1. TypeOK /\ [Next]_vars => TypeOK'
  <2>1. CASE Next
    BY <2>1, StepTypeOK, AskTypeOK, CrashTypeOK DEF Next
  <2>2. CASE UNCHANGED vars
    BY <2>2 DEF vars, TypeOK, CallOK
  <2> QED BY <2>1, <2>2
<1> QED BY <1>1, InitTypeOK, PTL DEF Spec

---------------------------------------------------------------------------------
(* The submissions lock *)

(* A review is decided by the holder of the lock. *)
LockInv == \A t \in Threads : pc[t] \in Locked => holder = t

(* What is about to be reflected or marked is undecided. *)
PendingInv == \A t \in Threads : pc[t] \in {"reflect", "mark"} => Sub(t).status = "pending"

ReviewInv == TypeOK /\ LockInv /\ PendingInv

(* A call that changes only its own locals and place, to "label". *)
Moves(t, label) ==
    /\ pc' = [pc EXCEPT ![t] = label]
    /\ \A u \in Threads \ {t} : call'[u] = call[u]
    /\ UNCHANGED <<docs, subs>>

(* All requests of clients are moves to unlocked places. *)
LEMMA AskMoves ==
  ASSUME TypeOK, NEW t \in Threads, Ask(t)
  PROVE  /\ \E label \in {"edit", "op", "base", "approve", "reject"} \cup
                            (IF gate THEN {} ELSE {"save"}) : Moves(t, label)
         /\ pc[t] \in {"idle", "edit"}
         /\ UNCHANGED <<holder, gate, applied>>
<1> USE DEF TypeOK, Moves, Goto, Written
<1>1. CASE \E d \in Docs : Read(t, d)
  BY <1>1 DEF Read
<1>2. CASE \E d \in Docs, raw \in Raw : SaveDocument(t, d, raw)
  BY <1>2 DEF SaveDocument
<1>3. CASE \E d \in Docs, raw \in Raw, op \in ChatOps : SubmitChange(t, d, raw, op)
  BY <1>3 DEF SubmitChange
<1>4. CASE \E s \in SubIds, decision \in {"approve", "reject"} : Review(t, s, decision)
  BY <1>4 DEF Review
<1> QED BY <1>1, <1>2, <1>3, <1>4 DEF Ask

(* Under the lock nobody else decides a submission (service.py:450-497, 505-516). *)
LEMMA ReviewStep ==
  ASSUME ReviewInv, Next
  PROVE  LockInv' /\ PendingInv'
<1> USE NoneIsNothing DEF ReviewInv, TypeOK, LockInv, PendingInv, Locked, Goto, Return, Unlock, Sub
<1>1. CASE Crash
  BY <1>1 DEF Crash
<1>2. ASSUME NEW t \in Threads, Ask(t) PROVE LockInv' /\ PendingInv'
  BY <1>2, AskMoves DEF Moves
<1>3. ASSUME NEW t \in Threads, Fail(t) PROVE LockInv' /\ PendingInv'
  BY <1>3 DEF Fail
<1>4. ASSUME NEW t \in Threads, Step(t) PROVE LockInv' /\ PendingInv'
  <2>1. CASE Save(t) \/ ChooseOp(t) \/ ReadBase(t)
    BY <2>1 DEF Save, ChooseOp, ReadBase, Reflect
  <2>2. CASE \E s \in SubIds : Create(t, s)
    <3>1. PICK s \in SubIds : Create(t, s) BY <2>2
    <3>2. \A u \in Threads : pc[u] \in Locked => call[u].sub # s
      BY <3>1 DEF Create, CallOK
    <3> QED BY <3>1, <3>2 DEF Create, CallOK
  <2>3. CASE Acquire(t) \/ LockTimeout(t) \/ Processed(t) \/ Compare(t)
    BY <2>3 DEF Acquire, LockTimeout, Processed, Compare
  <2>4. CASE ReflectSubmission(t)
    BY <2>4 DEF ReflectSubmission, Reflect
  <2>5. CASE MarkApproved(t) \/ MarkRejected(t)
    <3>1. \A u \in Threads \ {t} : pc[u] \notin Locked
      BY <2>5 DEF MarkApproved, MarkRejected
    <3> QED BY <2>5, <3>1 DEF MarkApproved, MarkRejected, SetStatus
  <2> QED BY <1>4, <2>1, <2>2, <2>3, <2>4, <2>5 DEF Step
<1> QED BY <1>1, <1>2, <1>3, <1>4 DEF Next

(* Reviews are decided under the lock, and only pending submissions are. *)
THEOREM ReviewsExclude == Spec => []ReviewInv
<1>1. Init => LockInv /\ PendingInv
  BY DEF Init, LockInv, PendingInv, Locked
<1>2. ReviewInv /\ [Next]_vars => LockInv' /\ PendingInv'
  <2>1. CASE UNCHANGED vars
    BY <2>1 DEF vars, ReviewInv, LockInv, PendingInv, Sub
  <2> QED BY <2>1, ReviewStep
<1> QED BY <1>1, <1>2, TypeCorrect, PTL DEF Spec, ReviewInv

---------------------------------------------------------------------------------
(* No approved change is overwritten *)

(* Equal hashes, equal versions. *)
LEMMA HashInjective ==
  ASSUME NEW v \in Version \cup {None}, NEW w \in Version \cup {None},
         VersionHash(v) = VersionHash(w)
  PROVE  v = w
<1> USE NoneIsNothing DEF Version
<1>1. \A x \in Version : <<x.text, x.blanks>> \in Texts \X BOOLEAN
  OBVIOUS
<1>2. CASE v = None \/ w = None
  BY <1>1, <1>2 DEF VersionHash
<1>3. CASE v \in Version /\ w \in Version
  <2>1. v.text = w.text /\ v.blanks = w.blanks BY <1>3 DEF VersionHash
  <2> QED BY <1>3, <2>1
<1> QED BY <1>2, <1>3

(* With the gate on nobody saves without the lock, so what an approval found *)
(* when it compared is still there when it reflects.  A restart may set the  *)
(* gate, but then no request is under way.                                   *)
BaseInv ==
    gate =>
       \A t \in Threads :
          /\ pc[t] # "save"
          /\ pc[t] = "reflect" => docs[Sub(t).doc] = Sub(t).base

LEMMA BaseStep ==
  ASSUME ReviewInv, BaseInv, Next
  PROVE  BaseInv'
<1> USE NoneIsNothing DEF ReviewInv, TypeOK, BaseInv, Goto, Return, Unlock, Sub
<1>1. CASE Crash
  BY <1>1 DEF Crash
<1>2. ASSUME NEW t \in Threads, Ask(t) PROVE BaseInv'
  BY <1>2, AskMoves DEF Moves
<1>3. ASSUME NEW t \in Threads, Fail(t) PROVE BaseInv'
  BY <1>3 DEF Fail
<1>4. ASSUME NEW t \in Threads, Step(t) PROVE BaseInv'
  <2>1. CASE ChooseOp(t) \/ ReadBase(t)
    <3>1. (Moves(t, "base") \/ Moves(t, "create")) /\ UNCHANGED gate
      BY <2>1 DEF ChooseOp, ReadBase, Moves
    <3> QED BY <3>1 DEF Moves
  <2>2. CASE \E s \in SubIds : Create(t, s)
    <3>1. PICK s \in SubIds : Create(t, s) BY <2>2
    <3>2. \A u \in Threads : pc[u] = "reflect" => call[u].sub # s
      BY <3>1 DEF Create, CallOK, Locked
    <3> QED BY <3>1, <3>2 DEF Create, CallOK, Locked
  <2>3. CASE Acquire(t) \/ LockTimeout(t) \/ Processed(t)
    <3>1. /\ \E label \in {"compare", "decline", "idle"} : Moves(t, label)
          /\ UNCHANGED gate
      BY <2>3 DEF Acquire, LockTimeout, Processed, Moves
    <3> QED BY <3>1 DEF Moves
  <2>4. CASE Compare(t)
    <3>1. CASE pc'[t] = "reflect"
      <4>1. Sub(t) \in Submission /\ ~Conflict(t)
        BY <2>4, <3>1 DEF Compare, CallOK, Locked
      <4>2. docs[Sub(t).doc] = Sub(t).base
        BY <4>1, HashInjective DEF Conflict, Submission
      <4> QED BY <2>4, <4>2 DEF Compare
    <3> QED BY <2>4, <3>1 DEF Compare
  <2>5. CASE ReflectSubmission(t)
    <3>1. \A u \in Threads \ {t} : pc[u] # "reflect"
      BY <2>5 DEF ReflectSubmission, LockInv, Locked
    <3> QED BY <2>5, <3>1 DEF ReflectSubmission, Reflect
  <2>6. CASE MarkApproved(t) \/ MarkRejected(t)
    <3>1. \A u \in Threads \ {t} : pc[u] # "reflect"
      BY <2>6 DEF MarkApproved, MarkRejected, LockInv, Locked
    <3>2. pc' = [pc EXCEPT ![t] = "idle"] /\ UNCHANGED gate
      BY <2>6 DEF MarkApproved, MarkRejected, SetStatus
    <3> QED BY <3>1, <3>2
  <2> QED BY <1>4, <2>1, <2>2, <2>3, <2>4, <2>5, <2>6 DEF Step, Save
<1> QED BY <1>1, <1>2, <1>3, <1>4 DEF Next

LEMMA BaseAlways == Spec => []BaseInv
<1>1. Init => BaseInv
  BY DEF Init, BaseInv
<1>2. ReviewInv /\ BaseInv /\ [Next]_vars => BaseInv'
  <2>1. CASE UNCHANGED vars
    BY <2>1 DEF vars, BaseInv, Sub
  <2> QED BY <2>1, BaseStep
<1> QED BY <1>1, <1>2, ReviewsExclude, PTL DEF Spec

(* While the gate is on, a submission is reflected on the version it was made   *)
(* from, however reviews, failures, crashes and changes of the gate interleave  *)
(* (service.py:477-486).                                                        *)
THEOREM NoLostUpdate == Spec => ReflectedOnBase
<1>1. BaseInv => \A t \in Threads : gate /\ ReflectSubmission(t) => docs[Sub(t).doc] = Sub(t).base
  BY DEF BaseInv, ReflectSubmission
<1> QED BY <1>1, BaseAlways, PTL DEF ReflectedOnBase

---------------------------------------------------------------------------------
(* At most once, and only if not rejected *)

(* What was reflected is approved, or its approval is about to say so. *)
OnceInv ==
    \A s \in SubIds :
        /\ applied[s] <= 1
        /\ subs[s] = None => applied[s] = 0
        /\ subs[s] # None /\ applied[s] # 0 => subs[s].status = "approved" \/ s \in Marking

(* A move from another place keeps what is being marked. *)
LEMMA MoveKeepsMarking ==
  ASSUME TypeOK, NEW t \in Threads, NEW label, Moves(t, label), pc[t] # "mark"
  PROVE  /\ Marking \subseteq Marking'
         /\ label # "mark" => UNCHANGED Marking
  BY DEF TypeOK, Moves, Marking

LEMMA OnceStep ==
  ASSUME ReviewInv, OnceInv, Next, "mark" \notin CrashIn, "mark" \notin FailIn
  PROVE  OnceInv'
<1> USE DEF ReviewInv
<1>1. CASE Crash
  <2>1. Marking = {}
    BY <1>1 DEF Crash, Marking
  <2> QED BY <1>1, <2>1 DEF Crash, OnceInv
<1>2. ASSUME NEW t \in Threads, NEW label, Moves(t, label), pc[t] # "mark", UNCHANGED applied
      PROVE  OnceInv'
  BY <1>2, MoveKeepsMarking DEF OnceInv, Moves
<1>3. ASSUME NEW t \in Threads, Ask(t) PROVE OnceInv'
  BY <1>2, <1>3, AskMoves
<1>4. ASSUME NEW t \in Threads, Fail(t) PROVE OnceInv'
  <2>1. Moves(t, "idle") /\ pc[t] # "mark" /\ UNCHANGED applied
    BY <1>4 DEF Fail, Return, Goto, Moves, TypeOK
  <2> QED BY <1>2, <2>1
<1>5. ASSUME NEW t \in Threads, Step(t) PROVE OnceInv'
  <2>1. CASE Save(t)
    <3>1. Marking' = Marking /\ UNCHANGED <<subs, applied>>
      BY <2>1 DEF Save, Return, Goto, Marking, TypeOK
    <3> QED BY <3>1 DEF OnceInv
  <2>2. CASE ChooseOp(t) \/ ReadBase(t) \/ Acquire(t) \/ LockTimeout(t) \/ Processed(t)
             \/ Compare(t)
    <3>1. \E label : Moves(t, label)
      BY <2>2 DEF ChooseOp, ReadBase, Acquire, LockTimeout, Processed, Compare,
                  Return, Goto, Moves, TypeOK
    <3>2. pc[t] # "mark" /\ UNCHANGED applied
      BY <2>2 DEF ChooseOp, ReadBase, Acquire, LockTimeout, Processed, Compare
    <3> QED BY <1>2, <3>1, <3>2
  <2>3. CASE \E s \in SubIds : Create(t, s)
    <3>1. PICK s \in SubIds : Create(t, s) BY <2>3
    <3>2. Marking' = Marking /\ UNCHANGED applied
      BY <3>1 DEF Create, Return, Goto, Marking, TypeOK
    <3>3. \A u \in SubIds \ {s} : subs'[u] = subs[u]
      BY <3>1 DEF Create, TypeOK
    <3>4. applied[s] = 0
      BY <3>1 DEF Create, OnceInv
    <3> QED BY <3>2, <3>3, <3>4 DEF OnceInv
  <2>4. CASE ReflectSubmission(t)
    <3> DEFINE s == call[t].sub
    <3>1. s \in SubIds /\ subs[s] # None /\ subs[s].status = "pending"
      BY <2>4 DEF ReflectSubmission, TypeOK, CallOK, Locked, PendingInv, Sub
    <3>2. Marking = {}
      BY <2>4 DEF ReflectSubmission, Marking, LockInv, Locked
    <3>3. applied[s] = 0
      BY <3>1, <3>2 DEF OnceInv, TypeOK
    <3>4. applied' = [applied EXCEPT ![s] = 1] /\ UNCHANGED subs
      BY <2>4, <3>3 DEF ReflectSubmission
    <3>5. s \in Marking'
      BY <2>4 DEF ReflectSubmission, Goto, Marking, TypeOK
    <3> HIDE DEF s
    <3> QED BY <3>1, <3>2, <3>4, <3>5 DEF OnceInv, TypeOK
  <2>5. CASE MarkApproved(t)
    <3> DEFINE s == call[t].sub
    <3>1. s \in SubIds /\ subs[s] \in Submission
      BY <2>5 DEF MarkApproved, TypeOK, CallOK, Locked
    <3>2. Marking = {s}
      BY <2>5 DEF MarkApproved, Marking, LockInv, Locked
    <3>3. subs' = [subs EXCEPT ![s].status = "approved"] /\ UNCHANGED applied
      BY <2>5 DEF MarkApproved, SetStatus
    <3>4. subs'[s].status = "approved" /\ subs'[s] # None
      BY <3>1, <3>3, NoneIsNothing DEF TypeOK, Submission
    <3> HIDE DEF s
    <3> QED BY <3>1, <3>2, <3>3, <3>4 DEF OnceInv, TypeOK
  <2>6. CASE MarkRejected(t)
    <3> DEFINE s == call[t].sub
    <3>1. s \in SubIds /\ subs[s] \in Submission /\ subs[s] # None /\ subs[s].status = "pending"
      BY <2>6 DEF MarkRejected, TypeOK, CallOK, Locked, Sub
    <3>2. Marking = {}
      BY <2>6 DEF MarkRejected, Marking, LockInv, Locked
    <3>3. subs' = [subs EXCEPT ![s].status = "rejected"] /\ UNCHANGED applied
      BY <2>6 DEF MarkRejected, SetStatus
    <3>4. applied[s] = 0
      BY <3>1, <3>2 DEF OnceInv
    <3> HIDE DEF s
    <3> QED BY <3>1, <3>2, <3>3, <3>4 DEF OnceInv, TypeOK
  <2> QED BY <1>5, <2>1, <2>2, <2>3, <2>4, <2>5, <2>6 DEF Step
<1> QED BY <1>1, <1>3, <1>4, <1>5 DEF Next

(* If no crash and no failed write falls between the save of an approval and its *)
(* status change, a submission is reflected at most once, and never if rejected  *)
(* (service.py:486-497, 510).                                                     *)
THEOREM DecidedOnce ==
  ASSUME "mark" \notin CrashIn, "mark" \notin FailIn
  PROVE  Spec => [](ReflectedOnce /\ RejectedNeverReflected)
<1>1. Init => OnceInv
  BY DEF Init, OnceInv
<1>2. ReviewInv /\ OnceInv /\ [Next]_vars => OnceInv'
  <2>1. CASE UNCHANGED vars
    BY <2>1 DEF vars, OnceInv, Marking
  <2> QED BY <2>1, OnceStep
<1>3. ReviewInv /\ OnceInv => ReflectedOnce /\ RejectedNeverReflected
  <2> SUFFICES ASSUME ReviewInv, OnceInv PROVE ReflectedOnce /\ RejectedNeverReflected
    OBVIOUS
  <2>1. \A s \in Marking : subs[s].status = "pending"
    BY DEF ReviewInv, PendingInv, Marking, Sub
  <2> QED BY <2>1 DEF OnceInv, ReflectedOnce, RejectedNeverReflected
<1> QED BY <1>1, <1>2, <1>3, ReviewsExclude, PTL DEF Spec

---------------------------------------------------------------------------------
(* What is approved was the document *)

(* The history holds what each document is, the content of every approved        *)
(* submission, and of every submission that is about to be marked.               *)
HeldInv ==
    /\ \A d \in Docs : docs[d] # None => docs[d] \in held[d]
    /\ ApprovedWasReflected
    /\ \A t \in Threads : pc[t] = "mark" => Saved(Sub(t).raw) \in held[Sub(t).doc]

(* Only a comparison or a save leads to the status change, and only the status   *)
(* change approves.                                                              *)
LEMMA HeldByOther ==
  ASSUME TypeOK, HeldInv, UNCHANGED <<docs, subs>>, \A d \in Docs : held[d] \subseteq held'[d],
         \A t \in Threads : pc'[t] = "mark" => pc[t] = "mark" /\ call'[t].sub = call[t].sub
  PROVE  HeldInv'
<1>1. \A t \in Threads : pc[t] = "mark" => Sub(t).doc \in Docs
  BY DEF TypeOK, CallOK, Locked, Sub, Submission
<1>2. \A s \in SubIds : subs[s] # None => subs[s].doc \in Docs
  BY DEF TypeOK, Submission
<1>3. ApprovedWasReflected'
  BY <1>2 DEF HeldInv, ApprovedWasReflected
<1>4. \A t \in Threads : (pc[t] = "mark" => Saved(Sub(t).raw) \in held[Sub(t).doc])'
  BY <1>1 DEF HeldInv, Sub
<1> QED BY <1>3, <1>4 DEF HeldInv

(* A save puts what it writes into the history. *)
LEMMA ReflectHolds ==
  ASSUME TypeOK, NEW d \in Docs, NEW raw \in Raw, Reflect(d, raw)
  PROVE  /\ \A e \in Docs : held[e] \subseteq held'[e]
         /\ Saved(raw) \in held'[d]
         /\ (\A e \in Docs : docs[e] # None => docs[e] \in held[e])
               => (\A e \in Docs : docs'[e] # None => docs'[e] \in held'[e])
<1>1. held'[d] = held[d] \cup {Saved(raw)} /\ docs'[d] = Saved(raw)
  BY DEF TypeOK, Reflect
<1>2. \A e \in Docs \ {d} : held'[e] = held[e] /\ docs'[e] = docs[e]
  BY DEF TypeOK, Reflect
<1> QED BY <1>1, <1>2

(* What Compare finds reflected is the document (service.py:461-466). *)
LEMMA ReflectedIsSaved ==
  ASSUME TypeOK, NEW t \in Threads, pc[t] \in Locked, Reflected(t)
  PROVE  docs[Sub(t).doc] = Saved(Sub(t).raw)
<1>1. Sub(t).doc \in Docs /\ Sub(t).raw \in Raw
  BY DEF TypeOK, CallOK, Sub, Submission
<1>2. docs[Sub(t).doc] \in Version
  BY <1>1 DEF TypeOK, Reflected
<1> QED BY <1>1, <1>2, NoneIsNothing DEF Reflected, VersionHash, Saved, Version, Raw

LEMMA HeldStep ==
  ASSUME ReviewInv, HeldInv, Next
  PROVE  HeldInv'
<1> USE DEF ReviewInv
<1>1. CASE Crash
  BY <1>1, HeldByOther DEF Crash, TypeOK
<1>2. ASSUME NEW t \in Threads, NEW label, Moves(t, label), label # "mark", UNCHANGED held
      PROVE  HeldInv'
  BY <1>2, HeldByOther DEF Moves, TypeOK
<1>3. ASSUME NEW t \in Threads, Ask(t) PROVE HeldInv'
  <2>1. UNCHANGED held
    BY <1>3 DEF Ask, Read, SaveDocument, SubmitChange, Review
  <2> QED BY <1>2, <1>3, <2>1, AskMoves
<1>4. ASSUME NEW t \in Threads, Fail(t) PROVE HeldInv'
  <2>1. Moves(t, "idle") /\ UNCHANGED held
    BY <1>4 DEF Fail, Return, Goto, Moves, TypeOK
  <2> QED BY <1>2, <2>1
<1>5. ASSUME NEW t \in Threads, Step(t) PROVE HeldInv'
  <2>1. CASE Save(t)
    <3>1. call[t].doc \in Docs /\ call[t].raw \in Raw
      BY <2>1 DEF Save, TypeOK, CallOK
    <3>2. /\ Reflect(call[t].doc, call[t].raw)
          /\ UNCHANGED subs
          /\ \A u \in Threads : pc'[u] = "mark" => pc[u] = "mark" /\ call'[u] = call[u]
      BY <2>1 DEF Save, Return, Goto, TypeOK
    <3>3. /\ \A e \in Docs : docs'[e] # None => docs'[e] \in held'[e]
          /\ \A e \in Docs : held[e] \subseteq held'[e]
      BY <3>1, <3>2, ReflectHolds DEF HeldInv
    <3>4. ApprovedWasReflected'
      BY <3>2, <3>3 DEF HeldInv, ApprovedWasReflected, TypeOK, Submission
    <3>5. \A u \in Threads : (pc[u] = "mark" => Saved(Sub(u).raw) \in held[Sub(u).doc])'
      <4> SUFFICES ASSUME NEW u \in Threads, pc'[u] = "mark"
                   PROVE  (Saved(Sub(u).raw) \in held[Sub(u).doc])'
        OBVIOUS
      <4>1. pc[u] = "mark" /\ UNCHANGED Sub(u)
        BY <3>2 DEF Sub
      <4>2. Sub(u).doc \in Docs
        BY <4>1 DEF TypeOK, CallOK, Locked, Sub, Submission
      <4> QED BY <3>3, <4>1, <4>2 DEF HeldInv, Saved
    <3> QED BY <3>3, <3>4, <3>5 DEF HeldInv
  <2>2. CASE ChooseOp(t) \/ ReadBase(t) \/ Acquire(t) \/ LockTimeout(t) \/ Processed(t)
    <3>1. \E label \in {"base", "create", "compare", "decline", "idle"} : Moves(t, label)
      BY <2>2 DEF ChooseOp, ReadBase, Acquire, LockTimeout, Processed,
                  Return, Goto, Moves, TypeOK
    <3>2. UNCHANGED held
      BY <2>2 DEF ChooseOp, ReadBase, Acquire, LockTimeout, Processed
    <3> QED BY <1>2, <3>1, <3>2
  <2>3. CASE \E s \in SubIds : Create(t, s)
    <3>1. PICK s \in SubIds : Create(t, s) BY <2>3
    <3>2. /\ UNCHANGED <<docs, held>>
          /\ subs[s] = None /\ subs'[s].status = "pending"
          /\ \A u \in SubIds \ {s} : subs'[u] = subs[u]
      BY <3>1 DEF Create, TypeOK
    <3>3. \A u \in Threads : pc'[u] = "mark" => pc[u] = "mark" /\ call'[u] = call[u]
      BY <3>1 DEF Create, Return, Goto, TypeOK
    <3>4. ApprovedWasReflected'
      BY <3>2 DEF HeldInv, ApprovedWasReflected
    <3>5. \A u \in Threads : (pc[u] = "mark" => Saved(Sub(u).raw) \in held[Sub(u).doc])'
      <4> SUFFICES ASSUME NEW u \in Threads, pc'[u] = "mark"
                   PROVE  (Saved(Sub(u).raw) \in held[Sub(u).doc])'
        OBVIOUS
      <4>1. pc[u] = "mark" /\ call[u].sub \in SubIds \ {s} /\ call'[u] = call[u]
        BY <3>2, <3>3 DEF TypeOK, CallOK, Locked
      <4>2. UNCHANGED Sub(u)
        BY <3>2, <4>1 DEF Sub
      <4> QED BY <3>2, <4>1, <4>2 DEF HeldInv, Saved
    <3> QED BY <3>2, <3>4, <3>5 DEF HeldInv
  <2>4. CASE Compare(t)
    <3>1. CASE Reflected(t)
      <4>1. docs[Sub(t).doc] = Saved(Sub(t).raw) /\ Sub(t).doc \in Docs /\ docs[Sub(t).doc] # None
        BY <2>4, <3>1, ReflectedIsSaved
        DEF Compare, Locked, TypeOK, CallOK, Sub, Submission, Reflected
      <4>2. Saved(Sub(t).raw) \in held[Sub(t).doc]
        BY <4>1 DEF HeldInv
      <4>3. pc' = [pc EXCEPT ![t] = "mark"] /\ UNCHANGED <<docs, subs, held, call>>
        BY <2>4, <3>1 DEF Compare, Goto
      <4> QED BY <4>2, <4>3 DEF HeldInv, ApprovedWasReflected, Sub, TypeOK
    <3>2. CASE ~Reflected(t)
      <4>1. \E label \in {"reflect", "idle"} : Moves(t, label)
        BY <2>4, <3>2 DEF Compare, Goto, Return, Moves, TypeOK
      <4> QED BY <1>2, <2>4, <4>1 DEF Compare
    <3> QED BY <3>1, <3>2
  <2>5. CASE ReflectSubmission(t)
    <3>1. Sub(t).doc \in Docs /\ Sub(t).raw \in Raw
      BY <2>5 DEF ReflectSubmission, TypeOK, CallOK, Locked, Sub, Submission
    <3>2. /\ Reflect(Sub(t).doc, Sub(t).raw)
          /\ pc' = [pc EXCEPT ![t] = "mark"]
          /\ UNCHANGED <<subs, call>>
      BY <2>5 DEF ReflectSubmission, Goto
    <3>3. /\ \A e \in Docs : docs'[e] # None => docs'[e] \in held'[e]
          /\ \A e \in Docs : held[e] \subseteq held'[e]
          /\ Saved(Sub(t).raw) \in held'[Sub(t).doc]
      BY <3>1, <3>2, ReflectHolds DEF HeldInv
    <3>4. ApprovedWasReflected'
      BY <3>2, <3>3 DEF HeldInv, ApprovedWasReflected, TypeOK, Submission
    <3>5. \A u \in Threads \ {t} : pc[u] # "mark"
      BY <2>5 DEF ReflectSubmission, LockInv, Locked
    <3> QED BY <3>2, <3>3, <3>4, <3>5 DEF HeldInv, Sub, TypeOK
  <2>6. CASE MarkApproved(t) \/ MarkRejected(t)
    <3> DEFINE s == call[t].sub
    <3>1. s \in SubIds /\ subs[s] \in Submission
      BY <2>6 DEF MarkApproved, MarkRejected, TypeOK, CallOK, Locked, Sub
    <3>2. PICK status \in {"approved", "rejected"} :
             /\ subs' = [subs EXCEPT ![s].status = status]
             /\ status = "approved" => pc[t] = "mark"
             /\ pc' = [pc EXCEPT ![t] = "idle"]
             /\ UNCHANGED <<docs, held>>
      BY <2>6 DEF MarkApproved, MarkRejected, SetStatus, Return, Goto
    <3>3. /\ subs'[s].raw = subs[s].raw /\ subs'[s].doc = subs[s].doc
          /\ subs'[s].status = status
          /\ \A u \in SubIds \ {s} : subs'[u] = subs[u]
      BY <3>1, <3>2 DEF TypeOK, Submission
    <3>4. pc[t] = "mark" => Saved(subs[s].raw) \in held[subs[s].doc]
      BY DEF HeldInv, Sub
    <3>5. \A u \in Threads : pc'[u] # "mark"
      BY <2>6, <3>2 DEF MarkApproved, MarkRejected, LockInv, Locked, TypeOK
    <3>6. ApprovedWasReflected'
      <4> SUFFICES ASSUME NEW u \in SubIds, subs'[u] # None, subs'[u].status = "approved"
                   PROVE  Saved(subs'[u].raw) \in held[subs'[u].doc]
        BY <3>2 DEF ApprovedWasReflected, Saved
      <4>1. CASE u = s
        BY <3>2, <3>3, <3>4, <4>1 DEF Saved
      <4>2. CASE u # s
        BY <3>3, <4>2 DEF HeldInv, ApprovedWasReflected, Saved
      <4> QED BY <4>1, <4>2
    <3> QED BY <3>2, <3>5, <3>6 DEF HeldInv
  <2> QED BY <1>5, <2>1, <2>2, <2>3, <2>4, <2>5, <2>6 DEF Step
<1> QED BY <1>1, <1>3, <1>4, <1>5 DEF Next

(* Whatever fails and wherever the server is killed, what is marked approved was *)
(* the content of its document at some time (service.py:461-497).                *)
THEOREM ApprovedOnlyAfterSave == Spec => []ApprovedWasReflected
<1>1. Init => HeldInv
  BY DEF Init, HeldInv, ApprovedWasReflected
<1>2. ReviewInv /\ HeldInv /\ [Next]_vars => HeldInv'
  <2>1. CASE UNCHANGED vars
    BY <2>1 DEF vars, HeldInv, ApprovedWasReflected, Sub
  <2> QED BY <2>1, HeldStep
<1>3. HeldInv => ApprovedWasReflected
  BY DEF HeldInv
<1> QED BY <1>1, <1>2, <1>3, ReviewsExclude, PTL DEF Spec

---------------------------------------------------------------------------------
(* The promise of ReviewQueue *)

LEMMA SameQueue ==
  ASSUME UNCHANGED <<subs, Marking>>
  PROVE  UNCHANGED QueueSubs
  BY DEF QueueSubs

(* While no approval is between its save and its status change, the promise sees *)
(* the queue as it is.                                                           *)
LEMMA QuietQueue == TypeOK /\ Marking = {} => QueueSubs = subs
<1> SUFFICES ASSUME TypeOK, Marking = {} PROVE QueueSubs = subs
  OBVIOUS
<1>1. \A s \in SubIds : subs[s] # None => [subs[s] EXCEPT !.status = @] = subs[s]
  BY DEF TypeOK, Submission
<1>2. QueueSubs = [s \in SubIds |-> subs[s]]
  BY <1>1 DEF QueueSubs
<1> QED BY <1>2 DEF TypeOK

(* Where one submission is being marked, the promise sees it approved. *)
LEMMA MarkedQueue ==
  ASSUME TypeOK, NEW s \in SubIds, Marking = {s}, subs[s] # None
  PROVE  QueueSubs = [subs EXCEPT ![s].status = "approved"]
<1>1. \A u \in SubIds : subs[u] # None => [subs[u] EXCEPT !.status = @] = subs[u]
  BY DEF TypeOK, Submission
<1>2. QueueSubs = [u \in SubIds |-> IF u = s THEN [subs[u] EXCEPT !.status = "approved"]
                                    ELSE subs[u]]
  BY <1>1 DEF QueueSubs
<1> QED BY <1>2 DEF TypeOK

(* The save of an approval, or finding it done, is the approval of the promise. *)
LEMMA ApproveQueue ==
  ASSUME TypeOK, TypeOK', NEW s \in SubIds, subs[s] # None, subs[s].status = "pending",
         Marking = {}, Marking' = {s}, UNCHANGED subs,
         docs[subs[s].doc] \in {subs[s].base, Saved(subs[s].raw)},
         docs' = [docs EXCEPT ![subs[s].doc] = Saved(subs[s].raw)]
  PROVE  Queue!Approve(s)
<1>1. QueueSubs = subs BY QuietQueue
<1>2. QueueSubs' = [subs EXCEPT ![s].status = "approved"]
  <2>1. (TypeOK /\ Marking = {s} /\ subs[s] # None
            => QueueSubs = [subs EXCEPT ![s].status = "approved"])'
    BY MarkedQueue, PTL
  <2> QED BY <2>1
<1> QED BY <1>1, <1>2 DEF Queue!Approve

(* Every step of the code is one of the promise, or none. *)
LEMMA QueueStep ==
  ASSUME ReviewInv, BaseInv, gate, TypeOK', Next, "mark" \notin CrashIn, "mark" \notin FailIn
  PROVE  Queue!Next \/ UNCHANGED <<docs, QueueSubs>>
<1> USE DEF ReviewInv
<1>1. ASSUME NEW t \in Threads, NEW label, Moves(t, label), pc[t] # "mark", label # "mark"
      PROVE  UNCHANGED <<docs, QueueSubs>>
  BY <1>1, MoveKeepsMarking, SameQueue DEF Moves
<1>2. CASE Crash
  <2>1. Marking = {} /\ Marking' = {} /\ UNCHANGED <<docs, subs>>
    BY <1>2 DEF Crash, Marking
  <2> QED BY <2>1, SameQueue
<1>3. ASSUME NEW t \in Threads, Ask(t) PROVE UNCHANGED <<docs, QueueSubs>>
  BY <1>1, <1>3, AskMoves
<1>4. ASSUME NEW t \in Threads, Fail(t) PROVE UNCHANGED <<docs, QueueSubs>>
  <2>1. Moves(t, "idle") /\ pc[t] # "mark"
    BY <1>4 DEF Fail, Return, Goto, Moves, TypeOK
  <2> QED BY <1>1, <2>1
<1>5. ASSUME NEW t \in Threads, Step(t) PROVE Queue!Next \/ UNCHANGED <<docs, QueueSubs>>
  <2>1. CASE ChooseOp(t) \/ ReadBase(t) \/ Acquire(t) \/ LockTimeout(t) \/ Processed(t)
    <3>1. \E label \in {"base", "create", "compare", "decline", "idle"} : Moves(t, label)
      BY <2>1 DEF ChooseOp, ReadBase, Acquire, LockTimeout, Processed,
                  Return, Goto, Moves, TypeOK
    <3>2. pc[t] # "mark"
      BY <2>1 DEF ChooseOp, ReadBase, Acquire, LockTimeout, Processed
    <3> QED BY <1>1, <3>1, <3>2
  <2>2. CASE \E s \in SubIds : Create(t, s)
    <3>1. PICK s \in SubIds : Create(t, s) BY <2>2
    <3> DEFINE c == call[t]
    <3>2. c.doc \in Docs /\ c.raw \in Raw /\ c.base \in Version \cup {None} /\ c.op \in Ops
      BY <3>1 DEF Create, TypeOK, CallOK, Local
    <3>3. /\ UNCHANGED <<docs, Marking>>
          /\ subs[s] = None /\ s \notin Marking
          /\ subs' = [subs EXCEPT ![s] = [doc |-> c.doc, raw |-> c.raw, base |-> c.base,
                                          op |-> c.op, status |-> "pending"]]
      BY <3>1 DEF Create, Return, Goto, Marking, TypeOK, CallOK, Locked
    <3> HIDE DEF c
    <3>4. /\ QueueSubs[s] = None
          /\ QueueSubs' = [QueueSubs EXCEPT ![s] =
                              [doc |-> c.doc, raw |-> c.raw, base |-> c.base,
                               op |-> c.op, status |-> "pending"]]
      <4> DEFINE new == [doc |-> c.doc, raw |-> c.raw, base |-> c.base,
                         op |-> c.op, status |-> "pending"]
      <4>1. new \in Submission
        BY <3>2 DEF Submission
      <4>2. new # None /\ [new EXCEPT !.status = @] = new
        BY <4>1, NoneIsNothing
      <4>3. subs' = [subs EXCEPT ![s] = new]
        BY <3>3
      <4> HIDE DEF new
      <4>4. QueueSubs' = [QueueSubs EXCEPT ![s] = new]
        BY <3>3, <4>2, <4>3 DEF QueueSubs, TypeOK
      <4> QED BY <3>3, <4>4 DEF QueueSubs, new
    <3>5. Queue!Submit(s, c.doc, c.raw, c.base, c.op)
      BY <3>3, <3>4 DEF Queue!Submit
    <3> QED BY <3>2, <3>5 DEF Queue!Next
  <2>3. CASE Compare(t)
    <3> DEFINE s == call[t].sub
    <3>1. s \in SubIds /\ subs[s] \in Submission /\ subs[s] # None /\ subs[s].status = "pending"
      BY <2>3 DEF Compare, TypeOK, CallOK, Locked, Sub
    <3>2. CASE pc'[t] = "mark"
      <4>1. Marking = {} /\ Marking' = {s} /\ UNCHANGED <<docs, subs>>
        BY <2>3, <3>2 DEF Compare, Goto, Return, Marking, TypeOK, LockInv, Locked
      <4>2. docs[subs[s].doc] # None /\ VersionHash(docs[subs[s].doc]) = VersionHash(subs[s].raw)
        BY <2>3, <3>2 DEF Compare, Goto, Return, Reflected, Sub, TypeOK
      <4>3. docs[subs[s].doc] \in Version /\ subs[s].raw \in Raw
        BY <3>1, <4>2 DEF TypeOK, Submission
      <4>4. docs[subs[s].doc] = Saved(subs[s].raw)
        BY <4>2, <4>3, NoneIsNothing DEF VersionHash, Saved, Version, Raw
      <4>5. docs' = [docs EXCEPT ![subs[s].doc] = Saved(subs[s].raw)]
        BY <3>1, <4>1, <4>4 DEF TypeOK, Submission
      <4> HIDE DEF s
      <4>6. Queue!Approve(s)
        BY <3>1, <4>1, <4>4, <4>5, ApproveQueue
      <4> QED BY <3>1, <4>6 DEF Queue!Next
    <3>3. CASE pc'[t] # "mark"
      <4>1. \E label \in {"reflect", "idle"} : Moves(t, label)
        BY <2>3, <3>3 DEF Compare, Goto, Return, Moves, TypeOK
      <4> QED BY <1>1, <2>3, <4>1 DEF Compare
    <3> QED BY <3>2, <3>3
  <2>4. CASE ReflectSubmission(t)
    <3> DEFINE s == call[t].sub
    <3>1. s \in SubIds /\ subs[s] # None /\ subs[s].status = "pending"
      BY <2>4 DEF ReflectSubmission, TypeOK, CallOK, Locked, PendingInv, Sub
    <3>2. Marking = {} /\ Marking' = {s} /\ UNCHANGED subs
      BY <2>4 DEF ReflectSubmission, Goto, Marking, TypeOK, LockInv, Locked
    <3>3. /\ docs[subs[s].doc] = subs[s].base
          /\ docs' = [docs EXCEPT ![subs[s].doc] = Saved(subs[s].raw)]
      BY <2>4 DEF ReflectSubmission, Reflect, BaseInv, Sub
    <3> HIDE DEF s
    <3>4. Queue!Approve(s)
      BY <3>1, <3>2, <3>3, ApproveQueue
    <3> QED BY <3>1, <3>4 DEF Queue!Next
  <2>5. CASE MarkApproved(t)
    <3> DEFINE s == call[t].sub
    <3>1. s \in SubIds /\ subs[s] # None
      BY <2>5 DEF MarkApproved, TypeOK, CallOK, Locked
    <3>2. Marking = {s} /\ Marking' = {} /\ UNCHANGED docs
      BY <2>5 DEF MarkApproved, SetStatus, Return, Goto, Marking, TypeOK, LockInv, Locked
    <3>3. subs' = [subs EXCEPT ![s].status = "approved"]
      BY <2>5 DEF MarkApproved, SetStatus
    <3> HIDE DEF s
    <3>4. QueueSubs = subs'
      BY <3>1, <3>2, <3>3, MarkedQueue
    <3>5. QueueSubs' = subs'
      <4>1. (TypeOK /\ Marking = {} => QueueSubs = subs)'
        BY QuietQueue, PTL
      <4> QED BY <3>2, <4>1
    <3> QED BY <3>2, <3>4, <3>5
  <2>6. CASE MarkRejected(t)
    <3> DEFINE s == call[t].sub
    <3>1. s \in SubIds /\ subs[s] # None /\ subs[s].status = "pending"
      BY <2>6 DEF MarkRejected, TypeOK, CallOK, Locked, Sub
    <3>2. Marking = {} /\ Marking' = {} /\ UNCHANGED docs
      BY <2>6 DEF MarkRejected, SetStatus, Return, Goto, Marking, TypeOK, LockInv, Locked
    <3>3. subs' = [subs EXCEPT ![s].status = "rejected"]
      BY <2>6 DEF MarkRejected, SetStatus
    <3> HIDE DEF s
    <3>4. QueueSubs = subs
      BY <3>2, QuietQueue
    <3>5. QueueSubs' = subs'
      <4>1. (TypeOK /\ Marking = {} => QueueSubs = subs)'
        BY QuietQueue, PTL
      <4> QED BY <3>2, <4>1
    <3>6. Queue!Reject(s)
      BY <3>1, <3>2, <3>3, <3>4, <3>5 DEF Queue!Reject
    <3> QED BY <3>1, <3>6 DEF Queue!Next
  <2>7. ~Save(t)
    BY DEF Save, BaseInv
  <2> QED BY <1>5, <2>1, <2>2, <2>3, <2>4, <2>5, <2>6, <2>7 DEF Step
<1> QED BY <1>2, <1>3, <1>4, <1>5 DEF Next

LEMMA GateAlways ==
  ASSUME Gates = {TRUE}
  PROVE  Spec => []gate
<1>1. Init => gate
  BY DEF Init
<1>2. ReviewInv /\ gate /\ [Next]_vars => gate'
  <2> SUFFICES ASSUME ReviewInv, gate, [Next]_vars PROVE gate'
    OBVIOUS
  <2>1. CASE UNCHANGED vars
    BY <2>1 DEF vars
  <2>2. CASE Crash
    BY <2>2 DEF Crash
  <2>3. ASSUME NEW t \in Threads, Ask(t) \/ Step(t) \/ Fail(t) PROVE UNCHANGED gate
    <3>1. CASE Ask(t)
      BY <3>1, AskMoves DEF ReviewInv
    <3>2. CASE Step(t)
      BY <3>2 DEF Step, Save, ChooseOp, ReadBase, Create, Acquire, LockTimeout, Processed,
                  Compare, ReflectSubmission, MarkApproved, MarkRejected, SetStatus
    <3>3. CASE Fail(t)
      BY <3>3 DEF Fail
    <3> QED BY <2>3, <3>1, <3>2, <3>3
  <2> QED BY <2>1, <2>2, <2>3 DEF Next
<1> QED BY <1>1, <1>2, ReviewsExclude, PTL DEF Spec

(* With the gate on, and no crash or failed write between the save of an approval *)
(* and its status change, the workflow keeps the promise of ReviewQueue: an       *)
(* approval is one atomic step (service.py:439-516).                              *)
THEOREM ApprovalRefinesReviewQueue ==
  ASSUME Gates = {TRUE}, "mark" \notin CrashIn, "mark" \notin FailIn
  PROVE  Spec => ImplementsReviewQueue
<1>1. Init => Queue!Init
  BY DEF Init, Queue!Init, QueueSubs
<1>2. ReviewInv /\ BaseInv /\ gate /\ TypeOK' /\ [Next]_vars => [Queue!Next]_<<docs, QueueSubs>>
  <2>1. CASE UNCHANGED vars
    <3>1. UNCHANGED <<docs, subs, Marking>>
      BY <2>1 DEF vars, Marking
    <3> QED BY <3>1, SameQueue
  <2> QED BY <2>1, QueueStep
<1> QED BY <1>1, <1>2, TypeCorrect, ReviewsExclude, BaseAlways, GateAlways, PTL
        DEF Spec, ImplementsReviewQueue, Queue!Spec
=================================================================================
