--------------------------------- MODULE Ingest ---------------------------------
(***************************************************************************)
(* Ingestion of external sources, ingest_source of hub/service.py, next to  *)
(* the approvals that move what it submits from the queue to the store.     *)
(*                                                                         *)
(* A source is ingested again and again and shall stay one document; its id *)
(* is made up at the first time.  Ingestions hold the ingest lock, but what *)
(* they read, the queue and the documents, is changed by approvals, which   *)
(* do not.  A source stands for a source_ref within one project.  Ids of    *)
(* one prefix are their numbers, and 0 is an id of another form.            *)
(***************************************************************************)
EXTENDS Naturals, Sequences, FiniteSetsExt

CONSTANTS
    None,
    Threads,
    Sources,
    Texts,
    LastNumber,   \* the largest number of four digits
    UserIds,      \* the ids of new documents that people write by hand
    Gates,        \* the settings of approval.enabled
    MaxSubs       \* bound on submissions

ASSUME IngestConstants ==
    /\ None \notin Sources \cup Threads
    /\ None \notin [src : Sources \cup {None}, text : Texts]
    /\ LastNumber \in Nat
    /\ UserIds \subseteq 0..LastNumber
    /\ Gates \subseteq BOOLEAN

VARIABLES
    docs,     \* [Ids -> None or [src, text]]
    subs,     \* submissions in the order of their creation
    holder,   \* of the ingest lock
    marking,  \* the submission whose approval has reflected it, or 0
    gate,
    pc, local

vars == <<docs, subs, holder, marking, gate, pc, local>>

(* A number of five digits may be given out and queued, but is not seen as one, and a *)
(* document of it is not saved: the lint of the save refuses it.                       *)
Ids == 0..(LastNumber + 1)
Lint(i) == i <= LastNumber

Labels == {"idle", "pending", "docs", "ids", "base", "submit", "reflect"}
NoLocal == [src |-> None, text |-> None, queue |-> <<>>, id |-> 0, base |-> None]

Init ==
    /\ docs = [i \in Ids |-> None]
    /\ subs = <<>>
    /\ holder = None
    /\ marking = 0
    /\ gate \in Gates
    /\ pc = [t \in Threads |-> "idle"]
    /\ local = [t \in Threads |-> NoLocal]

Goto(t, label, l) == pc' = [pc EXCEPT ![t] = label] /\ local' = [local EXCEPT ![t] = l]
Return(t) == Goto(t, "idle", NoLocal)
Release == holder' = None

Present == {i \in Ids : docs[i] # None}

(* The queue: the pending submissions, each under its place among all. *)
Waiting == {n \in DOMAIN subs : subs[n].status = "pending"}
Pending == [n \in Waiting |-> subs[n]]

NewSub(i, src, text, base) ==
    [id |-> i, src |-> src, text |-> text, base |-> base, status |-> "pending"]

Room == Len(subs) + Cardinality({t \in Threads : pc[t] # "idle"}) < MaxSubs

---------------------------------------------------------------------------------
(* ingest_source, under the ingest lock *)

Ingest(t, src, text) ==
    /\ pc[t] = "idle"
    /\ holder = None
    /\ Room
    /\ holder' = t
    /\ Goto(t, "pending", [NoLocal EXCEPT !.src = src, !.text = text])
    /\ UNCHANGED <<docs, subs, marking, gate>>

(* Mutant: the queue is not looked at. *)
SkipPending(t) ==
    /\ pc[t] = "pending"
    /\ Goto(t, "docs", local[t])
    /\ UNCHANGED <<docs, subs, holder, marking, gate>>

ReadPending(t) ==
    /\ pc[t] = "pending"
    /\ Goto(t, "docs", [local[t] EXCEPT !.queue = Pending])
    /\ UNCHANGED <<docs, subs, holder, marking, gate>>

(* The newest submission of the source in the queue as it was read. *)
Matches(t) == {n \in DOMAIN local[t].queue : local[t].queue[n].src = local[t].src}

(* A document of the source, else a submission of it, else a new id. *)
ReadDocs(t) ==
    LET existing == {i \in Present : docs[i].src = local[t].src}
    IN  /\ pc[t] = "docs"
        /\ \/ /\ existing # {}
              /\ \E i \in existing : Goto(t, "base", [local[t] EXCEPT !.id = i])
           \/ /\ existing = {} /\ Matches(t) # {}
              /\ Goto(t, "base", [local[t] EXCEPT !.id = local[t].queue[Max(Matches(t))].id])
           \/ /\ existing = {} /\ Matches(t) = {}
              /\ Goto(t, "ids", local[t])
        /\ UNCHANGED <<docs, subs, holder, marking, gate>>

(* _next_id *)
NextId(ids) == 1 + Max({0} \cup (ids \cap 1..LastNumber))

(* Mutant: ids that only the queue knows are given out again. *)
NewIdOfDocs(t) ==
    /\ pc[t] = "ids"
    /\ Goto(t, "base", [local[t] EXCEPT !.id = NextId(Present)])
    /\ UNCHANGED <<docs, subs, holder, marking, gate>>

NewId(t) ==
    /\ pc[t] = "ids"
    /\ Goto(t, "base", [local[t] EXCEPT !.id =
          NextId(Present \cup {local[t].queue[n].id : n \in DOMAIN local[t].queue})])
    /\ UNCHANGED <<docs, subs, holder, marking, gate>>

(* save_document: with the gate on, the version that the change is made from is *)
(* read when the id has long been chosen.                                       *)
ReadBase(t) ==
    /\ pc[t] = "base"
    /\ IF gate THEN Goto(t, "submit", [local[t] EXCEPT !.base = docs[local[t].id]])
       ELSE Goto(t, "reflect", local[t])
    /\ UNCHANGED <<docs, subs, holder, marking, gate>>

Submit(t) ==
    /\ pc[t] = "submit"
    /\ subs' = Append(subs, NewSub(local[t].id, local[t].src, local[t].text, local[t].base))
    /\ Release
    /\ Return(t)
    /\ UNCHANGED <<docs, marking, gate>>

Save(i, src, text) == docs' = [docs EXCEPT ![i] = [src |-> src, text |-> text]]

ReflectNow(t) ==
    /\ pc[t] = "reflect"
    /\ IF Lint(local[t].id) THEN Save(local[t].id, local[t].src, local[t].text)
       ELSE UNCHANGED docs
    /\ Release
    /\ Return(t)
    /\ UNCHANGED <<subs, marking, gate>>

(* Mutant: the lock is not released on the way out. *)
FailLocked(t) ==
    /\ pc[t] # "idle"
    /\ Return(t)
    /\ UNCHANGED <<docs, subs, holder, marking, gate>>

(* Any call raises. *)
Fail(t) ==
    /\ pc[t] # "idle"
    /\ Release
    /\ Return(t)
    /\ UNCHANGED <<docs, subs, marking, gate>>

---------------------------------------------------------------------------------
(* What people do meanwhile *)

(* A document with an id of a person's own choice, or an edit of any document. *)
Write(i, text) ==
    /\ i \in UserIds \cup Present
    /\ LET src == IF docs[i] = None THEN None ELSE docs[i].src
       IN  IF gate
           THEN /\ Room
                /\ subs' = Append(subs, NewSub(i, src, text, docs[i]))
                /\ UNCHANGED docs
           ELSE Save(i, src, text) /\ UNCHANGED subs
    /\ UNCHANGED <<holder, marking, gate, pc, local>>

(* approve_submission, under the submissions lock: compare and save, ... *)
Approve(n) ==
    /\ marking = 0
    /\ subs[n].status = "pending"
    /\ docs[subs[n].id] = subs[n].base
    /\ Lint(subs[n].id)
    /\ Save(subs[n].id, subs[n].src, subs[n].text)
    /\ marking' = n
    /\ UNCHANGED <<subs, holder, gate, pc, local>>

(* ... then the status. *)
Mark ==
    /\ marking # 0
    /\ subs' = [subs EXCEPT ![marking].status = "approved"]
    /\ marking' = 0
    /\ UNCHANGED <<docs, holder, gate, pc, local>>

Reject(n) ==
    /\ marking = 0
    /\ subs[n].status = "pending"
    /\ subs' = [subs EXCEPT ![n].status = "rejected"]
    /\ UNCHANGED <<docs, holder, marking, gate, pc, local>>

Step(t) ==
    \/ ReadPending(t)
    \/ ReadDocs(t)
    \/ NewId(t)
    \/ ReadBase(t)
    \/ Submit(t)
    \/ ReflectNow(t)

Next ==
    \/ \E t \in Threads : Step(t) \/ Fail(t)
    \/ \E t \in Threads, src \in Sources, text \in Texts : Ingest(t, src, text)
    \/ \E i \in Ids, text \in Texts : Write(i, text)
    \/ \E n \in DOMAIN subs : Approve(n) \/ Reject(n)
    \/ Mark

Spec == Init /\ [][Next]_vars

(* Requests run; reviewers need not come. *)
FairSpec == Spec /\ \A t \in Threads : WF_vars(Step(t))

---------------------------------------------------------------------------------
(* Properties *)

(* Every variable has its shape, and an ingestion under way has the lock           *)
(* (service.py:699).                                                               *)
TypeOK ==
    /\ \A i \in Present : docs[i].src \in Sources \cup {None} /\ docs[i].text \in Texts
    /\ \A n \in DOMAIN subs :
          subs[n].id \in Ids /\ subs[n].status \in {"pending", "approved", "rejected"}
    /\ holder \in Threads \cup {None}
    /\ marking \in 0..Len(subs)
    /\ \A t \in Threads :
          /\ pc[t] \in Labels
          /\ pc[t] # "idle" <=> holder = t

(* However often a source is ingested and whatever is approved or rejected while  *)
(* it is: it is one document (service.py:690, "멱등").                              *)
OneDocumentPerSource ==
    \A i, j \in Present : docs[i].src = docs[j].src /\ docs[i].src # None => i = j

(* A document is never replaced by another source's: an id is given out once, to   *)
(* one source, also while its first submission waits (service.py:693-695, 700-701). *)
SourceKeepsItsDocument ==
    [][\A i \in Present : docs[i]'.src = docs[i].src]_vars

(* The lock is released, whatever approvals come in between.                       *)
LockIsReleased == \A t \in Threads : holder = t ~> holder # t
=================================================================================
