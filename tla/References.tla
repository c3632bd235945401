------------------------------- MODULE References -------------------------------
(***************************************************************************)
(* The references between documents, as saves make them: the lint that asks  *)
(* whether what a document refers to exists (store/lint.py), before the      *)
(* document is locked, and the kind of change that the history records       *)
(* (store/history.py), from the frontmatter that is replaced.                *)
(*                                                                         *)
(* A save is the part of SaveEngine.tla that decides these: history, file,   *)
(* row of the index, in this order, and a rollback that takes all of them    *)
(* back at once.  References are those of the field supersedes; related is   *)
(* checked the same way and recorded as any field is.  Bodies are left out.   *)
(*                                                                         *)
(* Beside the saves one call of get_related, from Lineage.tla, on whatever    *)
(* references the documents have when it reads them.                          *)
(***************************************************************************)
EXTENDS Lineage

CONSTANTS
    None,
    Threads,
    Written,     \* the frontmatter that is considered
    ChangeTypes, \* what a caller gives as change_type: "ingest" or nothing, None
    Readables,   \* the sets of documents that a caller may read
    MaxSaves     \* bound on saves

Statuses == {"accepted", "deprecated"}
Frontmatter == [supersedes : SUBSET Docs, status : Statuses]

ASSUME ReferenceConstants ==
    /\ None \notin Threads \cup Frontmatter
    /\ Written \subseteq Frontmatter
    /\ Superseding = [Docs -> SUBSET Docs]
    /\ Readables \subseteq SUBSET Docs
    /\ "revision" \notin ChangeTypes
    /\ MaxSaves \in Nat

VARIABLES
    file,      \* [Docs -> frontmatter or None]
    row,       \* the documents that the index has
    history,   \* [Docs -> Seq([type, supersedes])]: the entry's type, the save it is of
    lock,      \* [Docs -> a thread or None]
    pc, local,
    early,     \* observation: <<d, e>> if a save of d was linted while e was being created
    saves

saving == <<file, row, history, lock, pc, local, early, saves>>
vars == <<saving, lineage>>

Labels == {"idle", "lock", "record", "write", "index", "commit"}
NoLocal == [doc |-> None, new |-> None, asked |-> None, prev |-> None, size |-> 0]

Init ==
    /\ file = [d \in Docs |-> None]
    /\ row = {}
    /\ history = [d \in Docs |-> <<>>]
    /\ lock = [d \in Docs |-> None]
    /\ pc = [t \in Threads |-> "idle"]
    /\ local = [t \in Threads |-> NoLocal]
    /\ early = {}
    /\ saves = 0
    /\ way = "none"
    /\ supersedes = <<>> /\ related = <<>> /\ readable = {} /\ doc = None
    /\ queue = <<>> /\ seen = {} /\ order = <<>> /\ result = None

Goto(t, label, l) == pc' = [pc EXCEPT ![t] = label] /\ local' = [local EXCEPT ![t] = l]
Doc(t) == local[t].doc
New(t) == local[t].new

(* The index has the document, and the save that creates it can still fail. *)
Creating(e) == \E t \in Threads : pc[t] = "commit" /\ Doc(t) = e /\ local[t].prev = None

(* No reference to what does not exist; one to itself is not asked about. *)
Lint(d, new) == new.supersedes \subseteq row \cup {d}

Save(t, d, new, asked) ==
    /\ pc[t] = "idle"
    /\ saves < MaxSaves
    /\ saves' = saves + 1
    /\ Lint(d, new)
    /\ early' = early \cup {<<d, e>> : e \in {c \in new.supersedes \cap row : Creating(c)}}
    /\ Goto(t, "lock", [NoLocal EXCEPT !.doc = d, !.new = new, !.asked = asked])
    /\ UNCHANGED <<file, row, history, lock>>

LockTimeout(t) ==
    /\ pc[t] = "lock"
    /\ lock[Doc(t)] # None
    /\ Goto(t, "idle", NoLocal)
    /\ UNCHANGED <<file, row, history, lock, early, saves>>

(* Mutant: the frontmatter that is replaced is read when the lock is asked for. *)
AcquireLate(t) ==
    /\ pc[t] = "lock"
    /\ IF local[t].prev = None /\ file[Doc(t)] # None
       THEN /\ Goto(t, "lock", [local[t] EXCEPT !.prev = file[Doc(t)]])
            /\ UNCHANGED lock
       ELSE /\ lock[Doc(t)] = None
            /\ lock' = [lock EXCEPT ![Doc(t)] = t]
            /\ Goto(t, "record", [local[t] EXCEPT !.size = Len(history[Doc(t)])])
    /\ UNCHANGED <<file, row, history, early, saves>>

Acquire(t) ==
    /\ pc[t] = "lock"
    /\ lock[Doc(t)] = None
    /\ lock' = [lock EXCEPT ![Doc(t)] = t]
    /\ Goto(t, "record", [local[t] EXCEPT !.prev = file[Doc(t)], !.size = Len(history[Doc(t)])])
    /\ UNCHANGED <<file, row, history, early, saves>>

(* determine_change_type; a first save has no snapshot. *)
ChangeType(prev, new) ==
    CASE prev = None -> "created"
      [] prev # None /\ prev.status = "accepted" /\ new.status = "deprecated" -> "deprecation"
      [] OTHER -> IF new.supersedes \ prev.supersedes # {} THEN "supersede" ELSE "revision"

(* An entry, unless nothing has changed. *)
Record(t) ==
    LET prev == local[t].prev
        asked == local[t].asked
        type == IF asked = None THEN ChangeType(prev, New(t)) ELSE asked
    IN  /\ pc[t] = "record"
        /\ history' = IF prev = New(t) THEN history
                      ELSE [history EXCEPT ![Doc(t)] =
                               Append(@, [type |-> type, supersedes |-> New(t).supersedes])]
        /\ Goto(t, "write", local[t])
        /\ UNCHANGED <<file, row, lock, early, saves>>

WriteFile(t) ==
    /\ pc[t] = "write"
    /\ file' = [file EXCEPT ![Doc(t)] = New(t)]
    /\ Goto(t, "index", local[t])
    /\ UNCHANGED <<row, history, lock, early, saves>>

Reindex(t) ==
    /\ pc[t] = "index"
    /\ row' = row \cup {Doc(t)}
    /\ Goto(t, "commit", local[t])
    /\ UNCHANGED <<file, history, lock, early, saves>>

Leave(t) ==
    /\ lock' = [lock EXCEPT ![Doc(t)] = None]
    /\ Goto(t, "idle", NoLocal)

Commit(t) ==
    /\ pc[t] = "commit"
    /\ Leave(t)
    /\ UNCHANGED <<file, row, history, early, saves>>

(* Mutant: the row is removed whatever was there before the save. *)
RollbackRow(t) ==
    /\ pc[t] \in {"record", "write", "index", "commit"}
    /\ file' = [file EXCEPT ![Doc(t)] = local[t].prev]
    /\ history' = [history EXCEPT ![Doc(t)] = SubSeq(@, 1, local[t].size)]
    /\ row' = row \ {Doc(t)}
    /\ Leave(t)
    /\ UNCHANGED <<early, saves>>

(* Any step raises: a first save leaves no row behind. *)
Rollback(t) ==
    /\ pc[t] \in {"record", "write", "index", "commit"}
    /\ file' = [file EXCEPT ![Doc(t)] = local[t].prev]
    /\ history' = [history EXCEPT ![Doc(t)] = SubSeq(@, 1, local[t].size)]
    /\ row' = IF local[t].prev = None THEN row \ {Doc(t)} ELSE row
    /\ Leave(t)
    /\ UNCHANGED <<early, saves>>

Step(t) ==
    \/ Acquire(t)
    \/ LockTimeout(t)
    \/ Record(t)
    \/ WriteFile(t)
    \/ Reindex(t)
    \/ Commit(t)
    \/ Rollback(t)

(* The documents whose text is being put in place: read just then, one is cut short *)
(* and has no frontmatter.                                                          *)
BeingWritten == {Doc(t) : t \in {u \in Threads : pc[u] = "write"}}

(* The call begins: a document that the index has and the caller may read is asked  *)
(* for, and all documents are read, whatever saves are under way.  Who may read a   *)
(* document is in its row: one without is not held back (_doc_readable).            *)
GetRelated(d, readers) ==
    /\ way = "none"
    /\ d \in row \cap readers
    /\ way' = "supersedes"
    /\ \E torn \in SUBSET BeingWritten :
          supersedes' = [e \in Docs |->
             IF e \in row \ torn /\ file[e] # None THEN file[e].supersedes ELSE {}]
    /\ related' \in Relating
    /\ readable' = readers \cup (Docs \ row)
    /\ doc' = d
    /\ queue' = Sorted(supersedes'[d])
    /\ seen' = {d}
    /\ order' = <<>>
    /\ result' = [supersedes |-> <<>>, superseded_by |-> <<>>, related |-> {}]

SaveStep ==
    \E t \in Threads :
       \/ \E d \in Docs, new \in Written, asked \in ChangeTypes : Save(t, d, new, asked)
       \/ Step(t)

Lookup ==
    \/ \E d \in Docs, readers \in Readables : GetRelated(d, readers)
    \/ LineageNext

Next ==
    \/ SaveStep /\ UNCHANGED lineage
    \/ Lookup /\ UNCHANGED saving

Spec == Init /\ [][Next]_vars

(* The call goes on: its loop waits for nothing. *)
FairSpec == Spec /\ WF_vars(LineageNext /\ UNCHANGED saving)

---------------------------------------------------------------------------------
(* Properties *)

(* Every variable has its shape, and who holds a lock is saving that document        *)
(* (save.py:63).                                                                     *)
TypeOK ==
    /\ \A d \in Docs : file[d] \in Frontmatter \cup {None}
    /\ row \subseteq Docs /\ early \subseteq Docs \X Docs
    /\ \A t \in Threads : pc[t] \in Labels
    /\ \A d \in Docs, t \in Threads :
          lock[d] = t <=> Doc(t) = d /\ pc[t] \notin {"idle", "lock"}

(* What a document refers to exists, whatever is saved and rolled back meanwhile.     *)
(* Excepted is a reference whose lint saw a document that was still being created: its *)
(* first save may fail afterwards (lint.py:87-101, save.py:160-180).                   *)
NothingDangles ==
    \A d \in Docs : file[d] # None =>
       \A e \in file[d].supersedes \ {d} : e \in row \/ <<d, e>> \in early

(* The history tells the lineage: its last entry has the references of the document,  *)
(* and every reference that appeared did so in an entry whose type says it, or that an  *)
(* ingestion made, however saves overlap and fail (history.py:4-5, save.py:122-143).    *)
HistoryTellsLineage ==
    \A d \in Docs :
       LET h == history[d]
           Before(n) == IF n = 1 THEN {} ELSE h[n - 1].supersedes
       IN  /\ lock[d] = None /\ h # <<>> => file[d].supersedes = h[Len(h)].supersedes
           /\ \A n \in DOMAIN h :
                 h[n].supersedes \subseteq Before(n) \/ h[n].type # "revision"
=================================================================================
