-------------------------------- MODULE Approval --------------------------------
(***************************************************************************)
(* The approval workflow of hub/service.py over the submission queue of    *)
(* hub/store/submissions.py: a write is queued with the version it was     *)
(* made from; a reviewer approves it, which saves it, or rejects it.       *)
(*                                                                         *)
(* An approval is a comparison, a save and a status change, each a step,   *)
(* under the submissions lock.  Queueing takes no lock.  The save itself   *)
(* is one step that happens or fails: SaveEngine.tla says when that is so. *)
(* Access control is left out: every request here passed it.               *)
(***************************************************************************)
EXTENDS Naturals, FiniteSets

CONSTANTS
    Docs,       \* document ids
    Texts,      \* documents: body and frontmatter without "updated"
    Blanks,     \* may a submitted frontmatter hold empty fields (tags: [])
    SubIds,     \* submission ids (sub-<date>-<random>)
    Threads,    \* request threads
    Editors,    \* threads whose author is observed from reading the document on
    ChatOps,    \* what the chat may call its changes (subset of Ops)
    Gates,      \* the settings of approval.enabled a server may start with
    CrashIn,    \* labels at which the server may be killed
    FailIn,     \* labels at which a call may raise
    MaxCrashes, \* bound on crashes
    None        \* no document, no submission, no lock holder

ASSUME ApprovalConstants ==
    /\ Blanks \subseteq BOOLEAN
    /\ Editors \subseteq Threads
    /\ ChatOps \subseteq {"create", "edit", "deprecate"}
    /\ Gates \subseteq BOOLEAN
    /\ MaxCrashes \in Nat

(* Markdown as it is submitted, and as it is saved. *)
Raw == [text : Texts, blanks : Blanks]
Version == [text : Texts, blanks : {FALSE}]

Ops == {"create", "edit", "deprecate"}

(* The queue stores a hash of base. *)
Submission == [doc : Docs, raw : Raw, base : Version \cup {None}, op : Ops,
               status : {"pending", "approved", "rejected"}]

ASSUME NoneIsNothing ==
    /\ None \notin Threads /\ None \notin SubIds /\ None \notin Docs
    /\ None \notin Raw /\ None \notin Version /\ None \notin Submission
    /\ None \notin Texts \X BOOLEAN

VARIABLES
    docs,     \* [Docs -> saved version or None]
    subs,     \* [SubIds -> submission or None]
    holder,   \* the thread that has the submissions lock, or None
    gate,     \* config.approval.enabled of the running server
    pc, call, \* the threads and the locals of their calls
    applied,  \* observation: [SubIds -> 0, 1 or 2: never, once or more often reflected]
    stale,    \* observation: [SubIds -> whether its author knew an older version]
    held,     \* observation: [Docs -> the versions it ever had]
    crashes

vars == <<docs, subs, holder, gate, pc, call, applied, stale, held, crashes>>

Locked == {"compare", "reflect", "mark", "decline"}
Labels == {"idle", "edit", "save", "op", "base", "create", "approve", "reject"} \cup Locked

NoCall == [doc |-> None, seen |-> None, raw |-> None, op |-> None, base |-> None,
           sub |-> None]
Local == [doc : Docs \cup {None}, seen : Version \cup {None}, raw : Raw \cup {None},
          op : Ops \cup {None}, base : Version \cup {None}, sub : SubIds \cup {None}]

(* The locals a call has at each of its steps. *)
CallOK(t) ==
    /\ pc[t] \in {"edit", "save", "op", "base", "create"} => call[t].doc \in Docs
    /\ pc[t] \in {"save", "op", "base", "create"} => call[t].raw \in Raw
    /\ pc[t] \in {"base", "create"} => call[t].op \in Ops
    /\ pc[t] \in {"approve", "reject"} \cup Locked =>
          /\ call[t].sub \in SubIds
          /\ subs[call[t].sub] # None

Init ==
    /\ docs = [d \in Docs |-> None]
    /\ subs = [s \in SubIds |-> None]
    /\ holder = None
    /\ gate \in Gates
    /\ pc = [t \in Threads |-> "idle"]
    /\ call = [t \in Threads |-> NoCall]
    /\ applied = [s \in SubIds |-> 0]
    /\ stale = [s \in SubIds |-> FALSE]
    /\ held = [d \in Docs |-> {}]
    /\ crashes = 0

---------------------------------------------------------------------------------
(* Helpers *)

(* _dump_frontmatter drops the empty fields. *)
Saved(raw) == [raw EXCEPT !.blanks = FALSE]

(* _version_hash: of the frontmatter as parsed, empty fields included, and the *)
(* body.  SHA-256 is taken as injective.                                       *)
VersionHash(v) == IF v = None THEN None ELSE <<v.text, v.blanks>>

Sub(t) == subs[call[t].sub]

Goto(t, label) == pc' = [pc EXCEPT ![t] = label]

Return(t) ==
    /\ Goto(t, "idle")
    /\ call' = [call EXCEPT ![t] = NoCall]

Unlock == holder' = None

(* The store makes raw the content of d. *)
Reflect(d, raw) ==
    /\ docs' = [docs EXCEPT ![d] = Saved(raw)]
    /\ held' = [held EXCEPT ![d] = @ \cup {Saved(raw)}]

---------------------------------------------------------------------------------
(* Writes *)

(* An author reads the document that the change will be made to. *)
Read(t, d) ==
    /\ pc[t] = "idle"
    /\ t \in Editors
    /\ call' = [call EXCEPT ![t] = [NoCall EXCEPT !.doc = d, !.seen = docs[d]]]
    /\ Goto(t, "edit")
    /\ UNCHANGED <<docs, subs, holder, gate, applied, stale, held, crashes>>

(* Text comes from an observed author who read d, or from anywhere. *)
Written(t, d) ==
    IF t \in Editors THEN pc[t] = "edit" /\ call[t].doc = d ELSE pc[t] = "idle"

(* Bound: every queued change finds a free id. *)
RoomLeft ==
    Cardinality({t \in Threads : pc[t] \in {"op", "base", "create"}})
       < Cardinality({s \in SubIds : subs[s] = None})

(* save_document.  With the gate off the document is saved at once. *)
SaveDocument(t, d, raw) ==
    /\ Written(t, d)
    /\ gate => RoomLeft
    /\ call' = [call EXCEPT ![t].doc = d, ![t].raw = raw]
    /\ Goto(t, IF gate THEN "op" ELSE "save")
    /\ UNCHANGED <<docs, subs, holder, gate, applied, stale, held, crashes>>

Save(t) ==
    /\ pc[t] = "save"
    /\ Reflect(call[t].doc, call[t].raw)
    /\ Return(t)
    /\ UNCHANGED <<subs, holder, gate, applied, stale, crashes>>

(* Whether the reviewer is told "create" or "edit" is looked up here ... *)
ChooseOp(t) ==
    /\ pc[t] = "op"
    /\ LET op == IF docs[call[t].doc] = None THEN "create" ELSE "edit"
       IN  call' = [call EXCEPT ![t].op = op]
    /\ Goto(t, "base")
    /\ UNCHANGED <<docs, subs, holder, gate, applied, stale, held, crashes>>

(* submit_change as the chat calls it, which says itself what the change is. *)
SubmitChange(t, d, raw, op) ==
    /\ Written(t, d)
    /\ RoomLeft
    /\ call' = [call EXCEPT ![t].doc = d, ![t].raw = raw, ![t].op = op]
    /\ Goto(t, "base")
    /\ UNCHANGED <<docs, subs, holder, gate, applied, stale, held, crashes>>

(* ... and the version the submission is made from here. *)
ReadBase(t) ==
    /\ pc[t] = "base"
    /\ call' = [call EXCEPT ![t].base = docs[call[t].doc]]
    /\ Goto(t, "create")
    /\ UNCHANGED <<docs, subs, holder, gate, applied, stale, held, crashes>>

Create(t, s) ==
    /\ pc[t] = "create"
    /\ subs[s] = None
    /\ subs' = [subs EXCEPT ![s] =
                   [doc |-> call[t].doc, raw |-> call[t].raw, base |-> call[t].base,
                    op |-> call[t].op, status |-> "pending"]]
    /\ stale' = [stale EXCEPT ![s] = t \in Editors /\ call[t].seen # call[t].base]
    /\ Return(t)
    /\ UNCHANGED <<docs, holder, gate, applied, held, crashes>>

---------------------------------------------------------------------------------
(* Reviews *)

Review(t, s, decision) ==
    /\ pc[t] = "idle"
    /\ subs[s] # None
    /\ call' = [call EXCEPT ![t] = [NoCall EXCEPT !.sub = s]]
    /\ Goto(t, decision)
    /\ UNCHANGED <<docs, subs, holder, gate, applied, stale, held, crashes>>

(* Mutant: the reviews are not under the lock. *)
AcquireUnlocked(t) ==
    /\ pc[t] \in {"approve", "reject"}
    /\ Goto(t, IF pc[t] = "approve" THEN "compare" ELSE "decline")
    /\ UNCHANGED <<docs, subs, holder, gate, call, applied, stale, held, crashes>>

(* submissions_lock. *)
Acquire(t) ==
    /\ pc[t] \in {"approve", "reject"}
    /\ holder = None
    /\ holder' = t
    /\ Goto(t, IF pc[t] = "approve" THEN "compare" ELSE "decline")
    /\ UNCHANGED <<docs, subs, gate, call, applied, stale, held, crashes>>

(* Mutant: a request waits for the lock without a limit. *)
WaitForever(t) == FALSE

LockTimeout(t) ==
    /\ pc[t] \in {"approve", "reject"}
    /\ holder # None
    /\ Return(t)
    /\ UNCHANGED <<docs, subs, holder, gate, applied, stale, held, crashes>>

(* A submission that was decided already is refused.  Nothing changes its       *)
(* status while the lock is held, so reading it and the document is one step.   *)
Processed(t) ==
    /\ pc[t] \in {"compare", "decline"}
    /\ Sub(t).status # "pending"
    /\ Return(t)
    /\ Unlock
    /\ UNCHANGED <<docs, subs, gate, applied, stale, held, crashes>>

(* The content is there already: only the status is left to set. *)
Reflected(t) ==
    /\ docs[Sub(t).doc] # None
    /\ VersionHash(docs[Sub(t).doc]) = VersionHash(Sub(t).raw)

(* Mutant: the version at the time of the submission is not compared. *)
NoConflict(t) == FALSE

(* The document is not the one the submission was made from. *)
Conflict(t) == VersionHash(docs[Sub(t).doc]) # VersionHash(Sub(t).base)

(* A conflict is reported and the submission stays pending. *)
Compare(t) ==
    /\ pc[t] = "compare"
    /\ Sub(t).status = "pending"
    /\ IF Reflected(t) THEN Goto(t, "mark") /\ UNCHANGED <<holder, call>>
       ELSE IF Conflict(t) THEN Return(t) /\ Unlock
       ELSE Goto(t, "reflect") /\ UNCHANGED <<holder, call>>
    /\ UNCHANGED <<docs, subs, gate, applied, stale, held, crashes>>

(* _reflect: lint and save. *)
ReflectSubmission(t) ==
    /\ pc[t] = "reflect"
    /\ Reflect(Sub(t).doc, Sub(t).raw)
    /\ applied' = [applied EXCEPT ![call[t].sub] = IF @ = 0 THEN 1 ELSE 2]
    /\ Goto(t, "mark")
    /\ UNCHANGED <<subs, holder, gate, call, stale, crashes>>

(* set_submission_status: an atomic replacement of the file. *)
SetStatus(t, status) ==
    /\ subs' = [subs EXCEPT ![call[t].sub].status = status]
    /\ Return(t)
    /\ Unlock
    /\ UNCHANGED <<docs, gate, applied, stale, held, crashes>>

MarkApproved(t) == pc[t] = "mark" /\ SetStatus(t, "approved")

(* Mutant: a submission that was approved is rejected. *)
RejectAnyStatus(t) == pc[t] = "decline" /\ SetStatus(t, "rejected")

MarkRejected(t) ==
    /\ pc[t] = "decline"
    /\ Sub(t).status = "pending"
    /\ SetStatus(t, "rejected")

(* Mutant: the failed save is taken for done. *)
FailUnnoticed(t) ==
    /\ pc[t] \in FailIn
    /\ IF pc[t] = "reflect"
       THEN Goto(t, "mark") /\ UNCHANGED <<holder, call>>
       ELSE Return(t) /\ holder' = IF holder = t THEN None ELSE holder
    /\ UNCHANGED <<docs, subs, gate, applied, stale, held, crashes>>

(* Mutant: the lock is left behind. *)
FailHoldingLock(t) ==
    /\ pc[t] \in FailIn
    /\ Return(t)
    /\ UNCHANGED <<docs, subs, holder, gate, applied, stale, held, crashes>>

(* Lint refuses the document, its lock times out, or a file cannot be written: *)
(* the exception ends the call and releases the lock.                          *)
Fail(t) ==
    /\ pc[t] \in FailIn
    /\ Return(t)
    /\ holder' = IF holder = t THEN None ELSE holder
    /\ UNCHANGED <<docs, subs, gate, applied, stale, held, crashes>>

---------------------------------------------------------------------------------
(* The server is killed when every thread is at one of the labels in CrashIn, and *)
(* started again, maybe with another setting of the gate.  Authors go on editing. *)
Crash ==
    /\ crashes < MaxCrashes
    /\ crashes' = crashes + 1
    /\ \A t \in Threads : pc[t] \in CrashIn
    /\ gate' \in Gates
    /\ holder' = None
    /\ pc' = [t \in Threads |-> IF pc[t] = "edit" THEN "edit" ELSE "idle"]
    /\ call' = [t \in Threads |-> IF pc[t] = "edit" THEN call[t] ELSE NoCall]
    /\ UNCHANGED <<docs, subs, applied, stale, held>>

(* What a call in progress may do next. *)
Step(t) ==
    \/ Save(t)
    \/ ChooseOp(t)
    \/ ReadBase(t)
    \/ \E s \in SubIds : Create(t, s)
    \/ Acquire(t)
    \/ LockTimeout(t)
    \/ Processed(t)
    \/ Compare(t)
    \/ ReflectSubmission(t)
    \/ MarkApproved(t)
    \/ MarkRejected(t)

(* What a client may ask for. *)
Ask(t) ==
    \/ \E d \in Docs : Read(t, d)
    \/ \E d \in Docs, raw \in Raw : SaveDocument(t, d, raw)
    \/ \E d \in Docs, raw \in Raw, op \in ChatOps : SubmitChange(t, d, raw, op)
    \/ \E s \in SubIds, decision \in {"approve", "reject"} : Review(t, s, decision)

Next == Crash \/ \E t \in Threads : Ask(t) \/ Step(t) \/ Fail(t)

Spec == Init /\ [][Next]_vars

(* A request thread that can go on does: each runs in an OS thread.  Nobody       *)
(* promises that requests come, that calls fail, or that the server is killed.    *)
FairSpec == Spec /\ \A t \in Threads : WF_vars(Step(t))

---------------------------------------------------------------------------------
(* Properties *)

(* Every state is of the declared shape.  In particular no saved document and no *)
(* base version has an empty field (normalize.py:77, service.py:396).          *)
TypeOK ==
    /\ docs \in [Docs -> Version \cup {None}]
    /\ subs \in [SubIds -> Submission \cup {None}]
    /\ holder \in Threads \cup {None}
    /\ gate \in BOOLEAN
    /\ pc \in [Threads -> Labels]
    /\ call \in [Threads -> Local]
    /\ \A t \in Threads : CallOK(t)
    /\ applied \in [SubIds -> 0..2]
    /\ stale \in [SubIds -> BOOLEAN]
    /\ held \in [Docs -> SUBSET Version]
    /\ crashes \in 0..MaxCrashes

(* With the gate on a submission is reflected on the very version it was made     *)
(* from, whatever other reviews, submissions and restarts happen between its      *)
(* comparison and its save, also if the gate was off before (service.py:478):     *)
(* otherwise an approved change is silently overwritten.                          *)
ReflectedOnBase ==
    [][\A t \in Threads :
          gate /\ ReflectSubmission(t) => docs[Sub(t).doc] = Sub(t).base]_vars

(* What is marked approved was the content of the document at some time, also    *)
(* when the save failed or the server was killed in the middle of an approval.    *)
ApprovedWasReflected ==
    \A s \in SubIds :
       subs[s] # None =>
          (subs[s].status = "approved" => Saved(subs[s].raw) \in held[subs[s].doc])

(* The submissions whose approval saved them and has yet to say so. *)
Marking == {call[t].sub : t \in {u \in Threads : pc[u] = "mark"}}

(* The queue as the promise sees it: these count as approved. *)
QueueSubs ==
    [s \in SubIds |->
        IF subs[s] = None THEN None
        ELSE [subs[s] EXCEPT !.status = IF s \in Marking THEN "approved" ELSE @]]

Queue == INSTANCE ReviewQueue WITH
    Versions <- Version, Proposals <- Raw, subs <- QueueSubs

(* Comparison, save and status change act as one: documents change only by the   *)
(* approval of a pending submission for them, once, and a decision is final.      *)
ImplementsReviewQueue == Queue!Spec

(* A rejected submission was never reflected (구현스펙-승인워크플로우.md §4, §8).   *)
RejectedNeverReflected ==
    \A s \in SubIds :
       subs[s] # None => (subs[s].status = "rejected" => applied[s] = 0)

(* An approval never reflects a submission a second time: what was reflected     *)
(* before a crash is only marked (service.py:464-466).                            *)
ReflectedOnce == \A s \in SubIds : applied[s] <= 1

(* Approving again what a crash left pending, while the document still is what the *)
(* submission was saved as, marks it and does not report a conflict: "UI 에서         *)
(* 재승인하면 이 경로로 안전하게 수렴한다" (service.py:464-466).                       *)
ReapprovalConverges ==
    [][\A t \in Threads :
          /\ Compare(t)
          /\ applied[call[t].sub] > 0
          /\ docs[Sub(t).doc] = Saved(Sub(t).raw)
          => pc'[t] = "mark"]_vars

(* No approved change is lost to a submission whose author had not seen it        *)
(* (service.py:393-395).                                                          *)
NothingUnseenIsReplaced ==
    [][\A t \in Threads : ReflectSubmission(t) => ~stale[call[t].sub]]_vars

(* What a reviewer approves as the creation of a document replaces none           *)
(* (service.py:319).                                                              *)
CreationReplacesNothing ==
    [][\A t \in Threads :
          ReflectSubmission(t) /\ Sub(t).op = "create" => docs[Sub(t).doc] = None]_vars

(* Every review that is under way gives the lock back.                            *)
LockIsReleased == \A t \in Threads : holder = t ~> holder # t

(* Every request is answered.                                                     *)
RequestsAreAnswered == \A t \in Threads : pc[t] \notin {"idle", "edit"} ~> pc[t] = "idle"
=================================================================================
