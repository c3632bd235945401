---------------------------- MODULE SaveEngineProofs ----------------------------
(***************************************************************************)
(* Proofs about SaveEngine.tla, for any number of documents, threads,      *)
(* requests and crashes, and whatever fails.                               *)
(***************************************************************************)
EXTENDS SaveEngine, TLAPS

(* ---- Sequences: truncation, extension and prefixes ---- *)

(* Truncate gives a sequence of the length asked for. *)
LEMMA TruncateType ==
    ASSUME NEW S, NEW h \in Seq(S \cup {Torn}), NEW n \in Nat
    PROVE  /\ Truncate(h, n) \in Seq(S \cup {Torn})
           /\ Len(Truncate(h, n)) = n
  <1>1. Truncate(h, n) \in [1..n -> S \cup {Torn}]
    BY DEF Truncate
  <1>2. Truncate(h, n) \in Seq(S \cup {Torn})
    BY <1>1
  <1>3. DOMAIN Truncate(h, n) = 1..n
    BY DEF Truncate
  <1>4. QED
    BY <1>2, <1>3

(* A prefix no longer than the cut survives a truncation. *)
LEMMA TruncateKeeps ==
    ASSUME NEW S, NEW a \in Seq(S \cup {Torn}), NEW h \in Seq(S \cup {Torn}),
           NEW n \in Nat, Prefix(a, h), Len(a) <= n
    PROVE  Prefix(a, Truncate(h, n))
  <1>1. Len(Truncate(h, n)) = n
    BY TruncateType
  <1>2. ASSUME NEW i \in 1..Len(a)
        PROVE  a[i] = Truncate(h, n)[i]
    <2>1. i \in 1..n /\ i <= Len(h) /\ a[i] = h[i]
      BY DEF Prefix
    <2>2. QED
      BY <2>1 DEF Truncate
  <1>3. QED
    BY <1>1, <1>2 DEF Prefix

(* A prefix survives an append. *)
LEMMA AppendKeeps ==
    ASSUME NEW S, NEW a \in Seq(S), NEW h \in Seq(S), NEW e \in Seq(S),
           Prefix(a, h)
    PROVE  Prefix(a, h \o e)
  BY DEF Prefix

LEMMA SeqWidens ==
    ASSUME NEW S, NEW T, NEW s \in Seq(S)
    PROVE  s \in Seq(S \cup T)
  OBVIOUS

(* ---- Type correctness ---- *)

(* What the code may read of a document under the type invariant. *)
LEMMA Locals ==
    ASSUME TypeOK, NEW t \in Threads, pc[t] # "idle"
    PROVE  /\ Doc(t) \in Docs
           /\ New(t) \in Content
           /\ req[t].intent \in Intents \cup {None}
           /\ prev[t].doc \in Document
           /\ prev[t].size \in Nat
           /\ prev[t].snap \in Bodies \cup {None, Torn}
           /\ prev[t].diff \in Intents \cup {None}
           /\ entries[t] \in Seq(Entry)
  BY DEF TypeOK, ThreadsOK, Doc, New, Requested, PrevOf

(* Leaving a call puts a thread back where it has no locals. *)
LEMMA LeaveType ==
    ASSUME TypeOK, NEW t \in Threads, Leave(t), lock' \in [Docs -> Threads \cup {None}]
    PROVE  ThreadsOK'
  BY DEF TypeOK, ThreadsOK, Leave, Goto, NoReq, NoPrev, Requested, PrevOf, Document,
     Labels

(* A thread that goes on inside the lock keeps its request. *)
LEMMA GotoType ==
    ASSUME TypeOK, NEW t \in Threads, pc[t] # "idle", NEW label \in Labels,
           Goto(t, label), req' = req,
           lock' \in [Docs -> Threads \cup {None}],
           prev' \in [Threads -> PrevOf], entries' \in [Threads -> Seq(Entry)]
    PROVE  ThreadsOK'
  BY DEF TypeOK, ThreadsOK, Goto

LEMMA BuildEntriesType ==
    ASSUME TypeOK, NEW d \in Docs, NEW c \in Content
    PROVE  BuildEntries(d, c) \in Seq(Entry)
  <1>1. LoadSnapshot(d) \in Bodies \cup {None}
    BY DEF TypeOK, DiskOK, LoadSnapshot
  <1>2. [old |-> LoadSnapshot(d), new |-> c] \in Entry
    BY <1>1 DEF Entry
  <1>3. <<[old |-> LoadSnapshot(d), new |-> c]>> \in Seq(Entry)
    BY <1>2
  <1>4. \/ BuildEntries(d, c) = <<>>
        \/ BuildEntries(d, c) = <<[old |-> LoadSnapshot(d), new |-> c]>>
    BY Zenon DEF BuildEntries
  <1>5. <<>> \in Seq(Entry)
    OBVIOUS
  <1>6. QED
    BY <1>3, <1>4, <1>5, Zenon

(* Every step of a request keeps the types.  What a step writes to the directory *)
(* is typed by what the thread captured; the thread itself moves on or leaves.   *)
LEMMA ThreadType ==
    ASSUME TypeOK, NEW t \in Threads, ThreadStep(t) \/ Fail(t) \/ FailEarly(t)
    PROVE  TypeOK'
  <1> USE ConstantsAreSane
  <1>1. CASE Acquire(t)
    <2>1. Doc(t) \in Docs
      BY <1>1, Locals DEF Acquire
    <2>2. ThreadsOK'
      BY <1>1, <2>1, GotoType DEF Acquire, TypeOK, ThreadsOK, Labels, Critical
    <2>3. QED
      BY <1>1, <2>2 DEF Acquire, TypeOK, DiskOK, ProcsOK, disk, procs, ghosts, bounds
  <1>2. CASE LockTimeout(t)
    <2>1. ThreadsOK'
      BY <1>2, LeaveType DEF LockTimeout, TypeOK, ThreadsOK
    <2>2. QED
      BY <1>2, <2>1 DEF LockTimeout, TypeOK, DiskOK, ProcsOK, disk, procs, ghosts,
         bounds
  <1>3. CASE RejectType(t)
    <2>1. ThreadsOK'
      BY <1>3, LeaveType DEF RejectType, TypeOK, ThreadsOK, Unlock
    <2>2. QED
      BY <1>3, <2>1 DEF RejectType, TypeOK, DiskOK, ProcsOK, disk, procs, ghosts,
         bounds
  <1>4. CASE Commit(t)
    <2>1. ThreadsOK'
      BY <1>4, LeaveType DEF Commit, TypeOK, ThreadsOK, Unlock
    <2>2. DiskOK'
      BY <1>4 DEF Commit, TypeOK, DiskOK
    <2>3. QED
      BY <1>4, <2>1, <2>2 DEF Commit, TypeOK, DiskOK, ProcsOK, procs, bounds
  <1>5. CASE RolledBack(t)
    <2>1. ThreadsOK'
      BY <1>5, LeaveType DEF RolledBack, TypeOK, ThreadsOK, Unlock
    <2>2. DiskOK'
      BY <1>5 DEF RolledBack, TypeOK, DiskOK
    <2>3. QED
      BY <1>5, <2>1, <2>2 DEF RolledBack, TypeOK, DiskOK, ProcsOK, procs, bounds
  <1>6. CASE FailEarly(t)
    <2>1. ThreadsOK'
      BY <1>6, LeaveType DEF FailEarly, TypeOK, ThreadsOK, Unlock
    <2>2. QED
      BY <1>6, <2>1 DEF FailEarly, TypeOK, DiskOK, ProcsOK, disk, procs, ghosts,
         bounds
  <1>7. CASE RollbackFails(t)
    <2>1. ThreadsOK'
      BY <1>7, LeaveType DEF RollbackFails, TypeOK, ThreadsOK, Unlock
    <2>2. QED
      BY <1>7, <2>1 DEF RollbackFails, TypeOK, DiskOK, ProcsOK, disk, procs, ghosts,
         bounds
  <1>8. CASE Begin(t)
    <2>1. DiskOK'
      BY <1>8, Locals DEF Begin, TypeOK, DiskOK, Journal, PrevOf, Document, FileAt
    <2>a. Doc(t) \in Docs /\ New(t).type \in Types
      BY <1>8, Locals DEF Begin, Content
    <2>b. /\ FileAt(Doc(t), New(t).type) \in Document
          /\ Len(history[Doc(t)]) \in Nat
          /\ snaps[Doc(t)] \in Bodies \cup {None, Torn}
          /\ diffs[Doc(t)] \in Intents \cup {None}
      BY <2>a DEF TypeOK, DiskOK, FileAt
    <2>c. prev' \in [Threads -> PrevOf]
      BY <1>8, <2>b DEF Begin, TypeOK, ThreadsOK, PrevOf
    <2>2. ThreadsOK'
      BY <1>8, <2>c, GotoType, Locals DEF Begin, TypeOK, ThreadsOK, Labels, Critical,
         Trying, Undoing
    <2>3. QED
      BY <1>8, <2>1, <2>2 DEF Begin, TypeOK, ProcsOK, procs, bounds
  <1>9. CASE Intent(t)
    <2>1. DiskOK'
      BY <1>9, Locals DEF Intent, TypeOK, DiskOK, WriteJournal, Journal
    <2>a. BuildEntries(Doc(t), New(t)) \in Seq(Entry)
      BY <1>9, Locals, BuildEntriesType DEF Intent
    <2>b. entries' \in [Threads -> Seq(Entry)]
      BY <1>9, <2>a DEF Intent, TypeOK, ThreadsOK
    <2>2. ThreadsOK'
      BY <1>9, <2>b, GotoType, Locals DEF Intent, TypeOK, ThreadsOK, Inside, Labels,
         Critical, Trying, Undoing
    <2>3. QED
      BY <1>9, <2>1, <2>2 DEF Intent, TypeOK, ProcsOK, Inside, procs, ghosts, bounds
  <1>10. CASE AppendHistory(t)
    <2>1. DiskOK'
      BY <1>10, Locals DEF AppendHistory, TypeOK, DiskOK
    <2>2. ThreadsOK'
      BY <1>10, GotoType, Locals DEF AppendHistory, TypeOK, ThreadsOK, Inside, Labels,
         Critical, Trying, Undoing
    <2>3. QED
      BY <1>10, <2>1, <2>2 DEF AppendHistory, TypeOK, ProcsOK, Inside, procs, ghosts,
         bounds
  <1>11. CASE OpenDoc(t)
    <2>1. DiskOK'
      BY <1>11, Locals DEF OpenDoc, TypeOK, DiskOK, WriteFile, Document
    <2>2. ThreadsOK'
      BY <1>11, GotoType, Locals DEF OpenDoc, TypeOK, ThreadsOK, Inside, Labels,
         Critical, Trying, Undoing
    <2>3. QED
      BY <1>11, <2>1, <2>2 DEF OpenDoc, TypeOK, ProcsOK, Inside, procs, ghosts, bounds
  <1>12. CASE WriteDoc(t)
    <2>1. DiskOK'
      BY <1>12, Locals DEF WriteDoc, TypeOK, DiskOK, WriteFile, Document
    <2>2. ThreadsOK'
      BY <1>12, GotoType, Locals DEF WriteDoc, TypeOK, ThreadsOK, Inside, Labels,
         Critical, Trying, Undoing
    <2>3. QED
      BY <1>12, <2>1, <2>2 DEF WriteDoc, TypeOK, ProcsOK, Inside, procs, ghosts,
         bounds
  <1>13. CASE MarkDoc(t)
    <2>1. DiskOK'
      BY <1>13, Locals DEF MarkDoc, TypeOK, DiskOK, WriteJournal, Journal
    <2>2. ThreadsOK'
      BY <1>13, GotoType, Locals DEF MarkDoc, TypeOK, ThreadsOK, Inside, Labels,
         Critical, Trying, Undoing
    <2>3. QED
      BY <1>13, <2>1, <2>2 DEF MarkDoc, TypeOK, ProcsOK, Inside, procs, ghosts, bounds
  <1>14. CASE OpenSnapshot(t)
    <2>1. DiskOK'
      BY <1>14, Locals DEF OpenSnapshot, TypeOK, DiskOK
    <2>2. ThreadsOK'
      BY <1>14, GotoType, Locals DEF OpenSnapshot, TypeOK, ThreadsOK, Inside, Labels,
         Critical, Trying, Undoing
    <2>3. QED
      BY <1>14, <2>1, <2>2 DEF OpenSnapshot, TypeOK, ProcsOK, Inside, procs, ghosts,
         bounds
  <1>15. CASE WriteSnapshot(t)
    <2>1. DiskOK'
      BY <1>15, Locals DEF WriteSnapshot, TypeOK, DiskOK, Content, WriteJournal,
         Journal
    <2>2. ThreadsOK'
      BY <1>15, GotoType, Locals DEF WriteSnapshot, TypeOK, ThreadsOK, Inside, Labels,
         Critical, Trying, Undoing
    <2>3. QED
      BY <1>15, <2>1, <2>2 DEF WriteSnapshot, TypeOK, ProcsOK, Inside, procs, ghosts,
         bounds
  <1>16. CASE WriteDiff(t)
    <2>1. DiskOK'
      BY <1>16, Locals DEF WriteDiff, TypeOK, DiskOK, WriteJournal, Journal
    <2>2. ThreadsOK'
      BY <1>16, GotoType, Locals DEF WriteDiff, TypeOK, ThreadsOK, Inside, Labels,
         Critical, Trying, Undoing
    <2>3. QED
      BY <1>16, <2>1, <2>2 DEF WriteDiff, TypeOK, ProcsOK, Inside, procs, ghosts,
         bounds
  <1>17. CASE Reindex(t)
    <2>1. DiskOK'
      BY <1>17, Locals DEF Reindex, TypeOK, DiskOK, WriteJournal, Journal
    <2>2. ThreadsOK'
      BY <1>17, GotoType, Locals DEF Reindex, TypeOK, ThreadsOK, Inside, Labels,
         Critical, Trying, Undoing
    <2>3. QED
      BY <1>17, <2>1, <2>2 DEF Reindex, TypeOK, ProcsOK, Inside, procs, ghosts, bounds
  <1>18. CASE UndoDoc(t)
    <2>a. Doc(t) \in Docs
      BY <1>18, Locals DEF UndoDoc
    <2>b. PICK v \in {None, Torn} :
              files' = [files EXCEPT ![Doc(t)][New(t).type] = v]
      BY <1>18 DEF UndoDoc, WriteFile
    <2>c. files' \in [Docs -> [Types -> Document]]
      BY <2>a, <2>b DEF TypeOK, DiskOK, Document
    <2>1. DiskOK'
      BY <1>18, <2>c DEF UndoDoc, TypeOK, DiskOK
    <2>2. ThreadsOK'
      BY <1>18, GotoType, Locals DEF UndoDoc, TypeOK, ThreadsOK, Inside, Labels,
         Critical, Trying, Undoing
    <2>3. QED
      BY <1>18, <2>1, <2>2 DEF UndoDoc, TypeOK, ProcsOK, Inside, procs, ghosts, bounds
  <1>19. CASE UndoWrite(t)
    <2>1. DiskOK'
      BY <1>19, Locals DEF UndoWrite, TypeOK, DiskOK, WriteFile, Document
    <2>2. ThreadsOK'
      BY <1>19, GotoType, Locals DEF UndoWrite, TypeOK, ThreadsOK, Inside, Labels,
         Critical, Trying, Undoing
    <2>3. QED
      BY <1>19, <2>1, <2>2 DEF UndoWrite, TypeOK, ProcsOK, Inside, procs, ghosts,
         bounds
  <1>20. CASE UndoHistory(t)
    <2> DEFINE d == Doc(t)
    <2>a. d \in Docs /\ history[d] \in Seq(Entry \cup {Torn}) /\ prev[t].size \in Nat
      BY <1>20, Locals DEF UndoHistory, TypeOK, DiskOK
    <2>b. Truncate(history[d], prev[t].size) \in Seq(Entry \cup {Torn})
      BY <2>a, TruncateType
    <2>c. history' = [history EXCEPT ![d] =
                         IF history[d] = <<>> THEN history[d]
                         ELSE Truncate(history[d], prev[t].size)]
      BY <1>20, <2>a DEF UndoHistory, TypeOK, DiskOK
    <2>d. history' \in [Docs -> Seq(Entry \cup {Torn})]
      <3> HIDE DEF d
      <3>1. QED
        BY <2>a, <2>b, <2>c DEF TypeOK, DiskOK
    <2>1. DiskOK'
      BY <1>20, <2>d DEF UndoHistory, TypeOK, DiskOK
    <2>2. ThreadsOK'
      BY <1>20, GotoType, Locals DEF UndoHistory, TypeOK, ThreadsOK, Inside, Labels,
         Critical, Trying, Undoing
    <2>3. QED
      BY <1>20, <2>1, <2>2 DEF UndoHistory, TypeOK, ProcsOK, Inside, procs, ghosts,
         bounds
  <1>21. CASE UndoSnapshot(t)
    <2>1. DiskOK'
      BY <1>21, Locals DEF UndoSnapshot, TypeOK, DiskOK
    <2>2. ThreadsOK'
      BY <1>21, GotoType, Locals DEF UndoSnapshot, TypeOK, ThreadsOK, Inside, Labels,
         Critical, Trying, Undoing
    <2>3. QED
      BY <1>21, <2>1, <2>2 DEF UndoSnapshot, TypeOK, ProcsOK, Inside, procs, ghosts,
         bounds
  <1>22. CASE UndoDiff(t)
    <2>1. DiskOK'
      BY <1>22, Locals DEF UndoDiff, TypeOK, DiskOK
    <2>2. ThreadsOK'
      BY <1>22, GotoType, Locals DEF UndoDiff, TypeOK, ThreadsOK, Inside, Labels,
         Critical, Trying, Undoing
    <2>3. QED
      BY <1>22, <2>1, <2>2 DEF UndoDiff, TypeOK, ProcsOK, Inside, procs, ghosts,
         bounds
  <1>23. CASE UndoSnapWrite(t)
    <2>1. DiskOK'
      BY <1>23, Locals DEF UndoSnapWrite, TypeOK, DiskOK
    <2>2. ThreadsOK'
      BY <1>23, GotoType, Locals DEF UndoSnapWrite, TypeOK, ThreadsOK, Inside, Labels,
         Critical, Trying, Undoing
    <2>3. QED
      BY <1>23, <2>1, <2>2 DEF UndoSnapWrite, TypeOK, ProcsOK, Inside, procs, ghosts,
         bounds
  <1>24. CASE UndoIndex(t)
    <2>1. DiskOK'
      BY <1>24, Locals DEF UndoIndex, TypeOK, DiskOK, Document
    <2>2. ThreadsOK'
      BY <1>24, GotoType, Locals DEF UndoIndex, TypeOK, ThreadsOK, Inside, Labels,
         Critical, Trying, Undoing
    <2>3. QED
      BY <1>24, <2>1, <2>2 DEF UndoIndex, TypeOK, ProcsOK, Inside, procs, ghosts,
         bounds
  <1>25. CASE Fail(t)
    <2>1. DiskOK'
      BY <1>25, Locals DEF Fail, TypeOK, DiskOK, disk, Labels, Critical, Trying,
         Undoing
    <2>2. ThreadsOK'
      BY <1>25, GotoType, Locals DEF Fail, TypeOK, ThreadsOK, Inside, Labels,
         Critical, Trying, Undoing
    <2>3. QED
      BY <1>25, <2>1, <2>2 DEF Fail, TypeOK, ProcsOK, Inside, procs, ghosts, bounds,
         disk
  <1>26. QED
    BY <1>1, <1>2, <1>3, <1>4, <1>5, <1>6, <1>7, <1>8, <1>9, <1>10, <1>11, <1>12,
       <1>13, <1>14, <1>15, <1>16, <1>17, <1>18, <1>19, <1>20, <1>21, <1>22, <1>23,
       <1>24, <1>25 DEF ThreadStep

(* A recovery step: the phase and the record of one process. *)
LEMMA SetPhaseType ==
    ASSUME TypeOK, NEW p \in Procs, NEW to \in Phases, NEW r \in Recovery,
           SetPhase(p, to, r),
           to \in {"undo", "clear", "resnap", "resnapWrite"} => r.doc \in Docs,
           to \in {"resnap", "resnapWrite"} => r.body \in Bodies
    PROVE  ProcsOK'
  BY DEF TypeOK, ProcsOK, SetPhase

LEMMA NoRecType == NoRec \in Recovery
  BY DEF NoRec, Recovery

LEMMA RequestType ==
    ASSUME TypeOK, NEW t \in Threads, NEW d \in Docs, NEW c \in Content,
           NEW i \in Intents \cup {None}, Request(t, d, c, i)
    PROVE  TypeOK'
  <1>1. ThreadsOK'
    BY DEF TypeOK, ThreadsOK, Request, Goto, Requested, Labels
  <1>2. saves' \in 0..MaxSaves
    BY ConstantsAreSane DEF TypeOK, Request
  <1>3. QED
    BY <1>1, <1>2 DEF TypeOK, DiskOK, ProcsOK, Request, disk, procs, ghosts

(* Every step of a recovery keeps the types. *)
LEMMA ProcType ==
    ASSUME TypeOK, NEW p \in Procs, ProcStep(p)
    PROVE  TypeOK'
  <1> USE SetPhaseType, NoRecType
  <1>r. rec[p] \in Recovery
    BY DEF TypeOK, ProcsOK
  <1>1. CASE Open(p)
    <2>1. [NoRec EXCEPT !.todo = Pending] \in Recovery
      BY DEF NoRec, Recovery, Pending
    <2>2. ProcsOK'
      BY <1>1, <2>1 DEF Open, Phases
    <2>3. QED
      BY <1>1, <2>2 DEF Open, TypeOK, DiskOK, ThreadsOK, Recovering, disk, threads,
         ghosts, bounds
  <1>2. ASSUME NEW d \in Docs, LoadJournal(p, d)
        PROVE  TypeOK'
    <2> DEFINE j == journals[d]
               orphan == j # None /\ "history" \in j.steps /\ "doc" \notin j.steps
               r == [rec[p] EXCEPT !.doc = d, !.undo = orphan,
                                   !.size = IF j = None THEN 0 ELSE j.size]
    <2>1. (IF j = None THEN 0 ELSE j.size) \in Nat /\ orphan \in BOOLEAN
      BY DEF TypeOK, DiskOK, Journal
    <2>2. r \in Recovery /\ r.doc = d
      <3> HIDE DEF orphan, j
      <3>1. QED
        BY <1>r, <2>1 DEF Recovery
    <2>3. SetPhase(p, "undo", r)
      BY <1>2 DEF LoadJournal
    <2>4. ProcsOK'
      <3> HIDE DEF r
      <3>1. QED
        BY <2>2, <2>3 DEF Phases
    <2>5. QED
      BY <1>2, <2>4 DEF LoadJournal, TypeOK, DiskOK, ThreadsOK, Recovering, disk,
         threads, ghosts, bounds
  <1>3. CASE UndoOrphan(p)
    <2> DEFINE d == rec[p].doc
    <2>1. d \in Docs /\ rec[p].size \in Nat /\ history[d] \in Seq(Entry \cup {Torn})
      BY <1>3 DEF UndoOrphan, TypeOK, ProcsOK, DiskOK, Recovery
    <2>2. Truncate(history[d], rec[p].size) \in Seq(Entry \cup {Torn})
      BY <2>1, TruncateType
    <2>3. \/ history' = history
          \/ history' = [history EXCEPT ![d] = Truncate(history[d], rec[p].size)]
      BY <1>3, <2>1 DEF UndoOrphan, TypeOK, DiskOK
    <2>4. history' \in [Docs -> Seq(Entry \cup {Torn})]
      <3> HIDE DEF d
      <3>1. QED
        BY <2>1, <2>2, <2>3 DEF TypeOK, DiskOK
    <2>5. ProcsOK'
      BY <1>3, <1>r, <2>1 DEF UndoOrphan, Phases
    <2>6. QED
      BY <1>3, <2>4, <2>5 DEF UndoOrphan, TypeOK, DiskOK, ThreadsOK, Recovering,
         threads, ghosts, bounds
  <1>4. CASE ClearJournal(p)
    <2>1. [rec[p] EXCEPT !.todo = @ \ {rec[p].doc}] \in Recovery
      BY <1>r DEF Recovery
    <2>2. ProcsOK'
      BY <1>4, <2>1 DEF ClearJournal, Phases
    <2>3. DiskOK'
      BY <1>4 DEF ClearJournal, TypeOK, DiskOK
    <2>4. QED
      BY <1>4, <2>2, <2>3 DEF ClearJournal, TypeOK, ThreadsOK, threads, bounds
  <1>5. CASE StartScan(p)
    <2>1. [NoRec EXCEPT !.todo = Existing] \in Recovery
      BY DEF NoRec, Recovery, Existing
    <2>2. ProcsOK'
      BY <1>5, <2>1 DEF StartScan, Phases
    <2>3. QED
      BY <1>5, <2>2 DEF StartScan, TypeOK, DiskOK, ThreadsOK, Recovering, disk,
         threads, ghosts, bounds
  <1>6. ASSUME NEW d \in Docs, NEW y \in Types, ScanDoc(p, d, y)
        PROVE  TypeOK'
    <2> DEFINE doc == FileAt(d, y)
               rest == [rec[p] EXCEPT !.todo = @ \ {<<d, y>>}]
               found == [rest EXCEPT !.doc = d, !.body = doc.body, !.seen = @ \cup {d}]
    <2>0. doc \in Document
      BY DEF TypeOK, DiskOK, FileAt
    <2>1. rest \in Recovery
      BY <1>r DEF Recovery
    <2>2. CASE doc = None
      <3>1. SetPhase(p, "down", NoRec) /\ UNCHANGED index
        BY <1>6, <2>2, ConstantsAreSane DEF ScanDoc
      <3>2. ProcsOK'
        BY <3>1 DEF Phases
      <3>3. QED
        BY <1>6, <3>1, <3>2 DEF ScanDoc, TypeOK, DiskOK, ThreadsOK, Recovering,
           threads, ghosts, bounds
    <2>3. CASE doc = Torn
      <3>1. SetPhase(p, "scan", rest) /\ UNCHANGED index
        BY <1>6, <2>3, ConstantsAreSane DEF ScanDoc
      <3>2. ProcsOK'
        BY <2>1, <3>1 DEF Phases
      <3>3. QED
        BY <1>6, <3>1, <3>2 DEF ScanDoc, TypeOK, DiskOK, ThreadsOK, Recovering,
           threads, ghosts, bounds
    <2>4. CASE doc \notin {None, Torn}
      <3>1. doc \in Content /\ doc.body \in Bodies
        BY <2>0, <2>4 DEF Document, Content
      <3>2. /\ index' = IF Stale(index[d], doc) THEN [index EXCEPT ![d] = doc] ELSE index
            /\ SetPhase(p, "resnap", found)
        BY <1>6, <2>4 DEF ScanDoc
      <3>3. found \in Recovery /\ found.doc = d /\ found.body = doc.body
        <4> HIDE DEF doc
        <4>1. QED
          BY <1>r, <3>1 DEF Recovery
      <3>4. ProcsOK'
        <4> HIDE DEF found, doc
        <4>1. QED
          BY <3>1, <3>2, <3>3 DEF Phases
      <3>5. index' \in [Docs -> Content \cup {None}]
        <4> HIDE DEF doc
        <4>1. index' = index \/ index' = [index EXCEPT ![d] = doc]
          BY <3>2
        <4>2. QED
          BY <3>1, <4>1 DEF TypeOK, DiskOK
      <3>6. QED
        BY <1>6, <3>4, <3>5 DEF ScanDoc, TypeOK, DiskOK, ThreadsOK, Recovering,
           threads, ghosts, bounds
    <2>5. QED
      BY <2>2, <2>3, <2>4
  <1>7. CASE CheckSnapshot(p)
    <2>1. rec[p].doc \in Docs /\ rec[p].body \in Bodies
      BY <1>7 DEF CheckSnapshot, TypeOK, ProcsOK
    <2>2. \/ SetPhase(p, "scan", rec[p]) /\ snaps' = snaps
          \/ SetPhase(p, "resnapWrite", rec[p])
             /\ snaps' = [snaps EXCEPT ![rec[p].doc] = Torn]
      BY <1>7 DEF CheckSnapshot
    <2>3. ProcsOK'
      BY <1>r, <2>1, <2>2 DEF Phases
    <2>4. snaps' \in [Docs -> Bodies \cup {None, Torn}]
      BY <2>1, <2>2 DEF TypeOK, DiskOK
    <2>5. QED
      BY <1>7, <2>3, <2>4 DEF CheckSnapshot, TypeOK, DiskOK, ThreadsOK, Recovering,
         threads, ghosts, bounds
  <1>8. CASE RewriteSnapshot(p)
    <2>1. rec[p].doc \in Docs /\ rec[p].body \in Bodies
      BY <1>8 DEF RewriteSnapshot, TypeOK, ProcsOK
    <2>2. ProcsOK'
      BY <1>8, <1>r, <2>1 DEF RewriteSnapshot, Phases
    <2>3. DiskOK'
      BY <1>8, <2>1 DEF RewriteSnapshot, TypeOK, DiskOK
    <2>4. QED
      BY <1>8, <2>2, <2>3 DEF RewriteSnapshot, TypeOK, ThreadsOK, Recovering, threads,
         ghosts, bounds
  <1>9. CASE FinishRecovery(p)
    <2>1. ProcsOK'
      BY <1>9 DEF FinishRecovery, Phases
    <2>2. DiskOK'
      BY <1>9 DEF FinishRecovery, TypeOK, DiskOK
    <2>3. QED
      BY <1>9, <2>1, <2>2 DEF FinishRecovery, TypeOK, ThreadsOK, Recovering, threads,
         ghosts, bounds
  <1>10. QED
    BY <1>1, <1>2, <1>3, <1>4, <1>5, <1>6, <1>7, <1>8, <1>9 DEF ProcStep

LEMMA CrashType ==
    ASSUME TypeOK, NEW p \in Procs, Crash(p)
    PROVE  TypeOK'
  <1>1. ThreadsOK'
    BY DEF Crash, TypeOK, ThreadsOK, NoReq, NoPrev, Requested, PrevOf, Document,
       Labels
  <1>2. ProcsOK'
    BY SetPhaseType, NoRecType DEF Crash, Phases
  <1>3. crashes' \in 0..MaxCrashes
    BY ConstantsAreSane DEF Crash, TypeOK
  <1>4. QED
    BY <1>1, <1>2, <1>3 DEF Crash, TypeOK, DiskOK, disk, ghosts

LEMMA InitType == Init => TypeOK
  <1> SUFFICES ASSUME Init PROVE TypeOK
    OBVIOUS
  <1>1. DiskOK
    BY DEF Init, DiskOK, Document
  <1>2. ThreadsOK
    BY DEF Init, ThreadsOK, Labels, NoReq, Requested, NoPrev, PrevOf, Document
  <1>3. ProcsOK
    BY NoRecType DEF Init, ProcsOK, Phases
  <1>4. QED
    BY <1>1, <1>2, <1>3, ConstantsAreSane DEF Init, TypeOK

LEMMA TypeStep == TypeOK /\ [Next]_vars => TypeOK'
  <1> SUFFICES ASSUME TypeOK, [Next]_vars PROVE TypeOK'
    OBVIOUS
  <1>1. CASE UNCHANGED vars
    BY <1>1 DEF TypeOK, DiskOK, ThreadsOK, ProcsOK, vars, disk, threads, procs,
       ghosts, bounds
  <1>2. CASE Next
    BY <1>2, RequestType, ThreadType, ProcType, CrashType DEF Next
  <1>3. QED
    BY <1>1, <1>2

(* Whatever the requests, failures and crashes, every variable keeps a value the *)
(* program can hold, for every number of documents, threads and processes.       *)
THEOREM TypeCorrect == Spec => []TypeOK
  BY InitType, TypeStep, PTL DEF Spec

(* ---- Acknowledged history ---- *)

(* AckedHistoryKept is not inductive: what cuts a history is the size a thread    *)
(* captured, the size in a journal, or the size a recovery read from a journal.   *)
(* None of the three may fall below what was acknowledged since it was taken:     *)
(* only the holder of the document's lock acknowledges, and it is served by a     *)
(* process that is open, so with one process no recovery runs beside it.          *)
OneServer == \A p, q \in Procs : p = q

ServedWhenUp == \A t \in Threads : pc[t] # "idle" => phase[ProcOf[t]] = "up"
LockHeld == \A t \in Threads : pc[t] \in Critical => lock[Doc(t)] = t
LockInv == ServedWhenUp /\ LockHeld

JournalCovers ==
    \A d \in Docs : journals[d] # None => Len(acked[d]) <= journals[d].size
CaptureCovers ==
    \A t \in Threads : pc[t] \in Trying \cup Undoing =>
        Len(acked[Doc(t)]) <= prev[t].size
OrphanCovers ==
    \A p \in Procs : phase[p] = "undo" /\ rec[p].undo =>
        Len(acked[rec[p].doc]) <= rec[p].size
KeptInv == JournalCovers /\ CaptureCovers /\ OrphanCovers /\ AckedHistoryKept

(* The holder of a lock is the only thread past it, and its process is open. *)
LEMMA LockStep == TypeOK /\ LockInv /\ [Next]_vars => LockInv'
  <1> SUFFICES ASSUME TypeOK, LockInv, [Next]_vars PROVE LockInv'
    OBVIOUS
  <1> USE ConstantsAreSane
  <1>1. ASSUME NEW t \in Threads, NEW d \in Docs, NEW c \in Content,
               NEW i \in Intents \cup {None}, Request(t, d, c, i)
        PROVE  LockInv'
    BY <1>1 DEF Request, LockInv, ServedWhenUp, LockHeld, TypeOK, ThreadsOK, Goto,
       Doc, procs, Critical, Trying, Undoing
  <1>2. ASSUME NEW t \in Threads, Acquire(t) PROVE LockInv'
    BY <1>2 DEF Acquire, LockInv, ServedWhenUp, LockHeld, TypeOK, ThreadsOK, Goto,
       Doc, procs, Critical, Trying, Undoing
  <1>3. ASSUME NEW t \in Threads, LockTimeout(t) PROVE LockInv'
    BY <1>3 DEF LockTimeout, LockInv, ServedWhenUp, LockHeld, TypeOK, ThreadsOK,
       Leave, NoReq, Goto, Doc, procs, Critical, Trying, Undoing
  <1>4. ASSUME NEW t \in Threads, RejectType(t) PROVE LockInv'
    BY <1>4 DEF RejectType, LockInv, ServedWhenUp, LockHeld, TypeOK, ThreadsOK, Leave,
       NoReq, Unlock, Goto, Doc, procs, Critical, Trying, Undoing
  <1>5. ASSUME NEW t \in Threads, FailEarly(t) PROVE LockInv'
    BY <1>5 DEF FailEarly, LockInv, ServedWhenUp, LockHeld, TypeOK, ThreadsOK, Leave,
       NoReq, Unlock, Goto, Doc, procs, Critical, Trying, Undoing
  <1>6. ASSUME NEW t \in Threads, Begin(t) PROVE LockInv'
    BY <1>6 DEF Begin, LockInv, ServedWhenUp, LockHeld, TypeOK, ThreadsOK, Goto, Doc,
       procs, Critical, Trying, Undoing
  <1>7. ASSUME NEW t \in Threads, Intent(t) PROVE LockInv'
    BY <1>7 DEF Intent, LockInv, ServedWhenUp, LockHeld, TypeOK, ThreadsOK, Inside,
       Goto, Doc, procs, Critical, Trying, Undoing
  <1>8. ASSUME NEW t \in Threads, AppendHistory(t) PROVE LockInv'
    BY <1>8 DEF AppendHistory, LockInv, ServedWhenUp, LockHeld, TypeOK, ThreadsOK,
       Inside, Goto, Doc, procs, Critical, Trying, Undoing
  <1>9. ASSUME NEW t \in Threads, OpenDoc(t) PROVE LockInv'
    BY <1>9 DEF OpenDoc, LockInv, ServedWhenUp, LockHeld, TypeOK, ThreadsOK, Inside,
       Goto, Doc, procs, Critical, Trying, Undoing
  <1>10. ASSUME NEW t \in Threads, WriteDoc(t) PROVE LockInv'
    BY <1>10 DEF WriteDoc, LockInv, ServedWhenUp, LockHeld, TypeOK, ThreadsOK, Inside,
       Goto, Doc, procs, Critical, Trying, Undoing
  <1>11. ASSUME NEW t \in Threads, MarkDoc(t) PROVE LockInv'
    BY <1>11 DEF MarkDoc, LockInv, ServedWhenUp, LockHeld, TypeOK, ThreadsOK, Inside,
       Goto, Doc, procs, Critical, Trying, Undoing
  <1>12. ASSUME NEW t \in Threads, OpenSnapshot(t) PROVE LockInv'
    BY <1>12 DEF OpenSnapshot, LockInv, ServedWhenUp, LockHeld, TypeOK, ThreadsOK,
       Inside, Goto, Doc, procs, Critical, Trying, Undoing
  <1>13. ASSUME NEW t \in Threads, WriteSnapshot(t) PROVE LockInv'
    BY <1>13 DEF WriteSnapshot, LockInv, ServedWhenUp, LockHeld, TypeOK, ThreadsOK,
       Inside, Goto, Doc, procs, Critical, Trying, Undoing
  <1>14. ASSUME NEW t \in Threads, WriteDiff(t) PROVE LockInv'
    BY <1>14 DEF WriteDiff, LockInv, ServedWhenUp, LockHeld, TypeOK, ThreadsOK,
       Inside, Goto, Doc, procs, Critical, Trying, Undoing
  <1>15. ASSUME NEW t \in Threads, Reindex(t) PROVE LockInv'
    BY <1>15 DEF Reindex, LockInv, ServedWhenUp, LockHeld, TypeOK, ThreadsOK, Inside,
       Goto, Doc, procs, Critical, Trying, Undoing
  <1>16. ASSUME NEW t \in Threads, Commit(t) PROVE LockInv'
    BY <1>16 DEF Commit, LockInv, ServedWhenUp, LockHeld, TypeOK, ThreadsOK, Leave,
       NoReq, Unlock, Goto, Doc, procs, Critical, Trying, Undoing
  <1>17. ASSUME NEW t \in Threads, UndoDoc(t) PROVE LockInv'
    BY <1>17 DEF UndoDoc, LockInv, ServedWhenUp, LockHeld, TypeOK, ThreadsOK, Inside,
       Goto, Doc, procs, Critical, Trying, Undoing
  <1>18. ASSUME NEW t \in Threads, UndoWrite(t) PROVE LockInv'
    BY <1>18 DEF UndoWrite, LockInv, ServedWhenUp, LockHeld, TypeOK, ThreadsOK,
       Inside, Goto, Doc, procs, Critical, Trying, Undoing
  <1>19. ASSUME NEW t \in Threads, UndoHistory(t) PROVE LockInv'
    BY <1>19 DEF UndoHistory, LockInv, ServedWhenUp, LockHeld, TypeOK, ThreadsOK,
       Inside, Goto, Doc, procs, Critical, Trying, Undoing
  <1>20. ASSUME NEW t \in Threads, UndoSnapshot(t) PROVE LockInv'
    BY <1>20 DEF UndoSnapshot, LockInv, ServedWhenUp, LockHeld, TypeOK, ThreadsOK,
       Inside, Goto, Doc, procs, Critical, Trying, Undoing
  <1>21. ASSUME NEW t \in Threads, UndoSnapWrite(t) PROVE LockInv'
    BY <1>21 DEF UndoSnapWrite, LockInv, ServedWhenUp, LockHeld, TypeOK, ThreadsOK,
       Inside, Goto, Doc, procs, Critical, Trying, Undoing
  <1>22. ASSUME NEW t \in Threads, UndoDiff(t) PROVE LockInv'
    BY <1>22 DEF UndoDiff, LockInv, ServedWhenUp, LockHeld, TypeOK, ThreadsOK, Inside,
       Goto, Doc, procs, Critical, Trying, Undoing
  <1>23. ASSUME NEW t \in Threads, UndoIndex(t) PROVE LockInv'
    BY <1>23 DEF UndoIndex, LockInv, ServedWhenUp, LockHeld, TypeOK, ThreadsOK,
       Inside, Goto, Doc, procs, Critical, Trying, Undoing
  <1>24. ASSUME NEW t \in Threads, RolledBack(t) PROVE LockInv'
    BY <1>24 DEF RolledBack, LockInv, ServedWhenUp, LockHeld, TypeOK, ThreadsOK,
       Leave, NoReq, Unlock, Goto, Doc, procs, Critical, Trying, Undoing
  <1>25. ASSUME NEW t \in Threads, RollbackFails(t) PROVE LockInv'
    BY <1>25 DEF RollbackFails, LockInv, ServedWhenUp, LockHeld, TypeOK, ThreadsOK,
       Leave, NoReq, Unlock, Goto, Doc, procs, Critical, Trying, Undoing
  <1>26. ASSUME NEW t \in Threads, Fail(t) PROVE LockInv'
    BY <1>26 DEF Fail, LockInv, ServedWhenUp, LockHeld, TypeOK, ThreadsOK, Inside,
       Goto, Doc, procs, Critical, Trying, Undoing
  <1>27. ASSUME NEW p \in Procs, Open(p) PROVE LockInv'
    BY <1>27 DEF Open, LockInv, ServedWhenUp, LockHeld, TypeOK, ThreadsOK, ProcsOK,
       SetPhase, Recovering, threads, Doc
  <1>28. ASSUME NEW p \in Procs, NEW d \in Docs, LoadJournal(p, d) PROVE LockInv'
    BY <1>28 DEF LoadJournal, LockInv, ServedWhenUp, LockHeld, TypeOK, ThreadsOK,
       ProcsOK, SetPhase, Recovering, threads, Doc
  <1>29. ASSUME NEW p \in Procs, UndoOrphan(p) PROVE LockInv'
    BY <1>29 DEF UndoOrphan, LockInv, ServedWhenUp, LockHeld, TypeOK, ThreadsOK,
       ProcsOK, SetPhase, Recovering, threads, Doc
  <1>30. ASSUME NEW p \in Procs, ClearJournal(p) PROVE LockInv'
    BY <1>30 DEF ClearJournal, LockInv, ServedWhenUp, LockHeld, TypeOK, ThreadsOK,
       ProcsOK, SetPhase, Recovering, threads, Doc
  <1>31. ASSUME NEW p \in Procs, StartScan(p) PROVE LockInv'
    BY <1>31 DEF StartScan, LockInv, ServedWhenUp, LockHeld, TypeOK, ThreadsOK,
       ProcsOK, SetPhase, Recovering, threads, Doc
  <1>32. ASSUME NEW p \in Procs, NEW d \in Docs, NEW y \in Types, ScanDoc(p, d, y)
        PROVE  LockInv'
    BY <1>32 DEF ScanDoc, LockInv, ServedWhenUp, LockHeld, TypeOK, ThreadsOK, ProcsOK,
       SetPhase, Recovering, threads, Doc
  <1>33. ASSUME NEW p \in Procs, CheckSnapshot(p) PROVE LockInv'
    BY <1>33 DEF CheckSnapshot, LockInv, ServedWhenUp, LockHeld, TypeOK, ThreadsOK,
       ProcsOK, SetPhase, Recovering, threads, Doc
  <1>34. ASSUME NEW p \in Procs, RewriteSnapshot(p) PROVE LockInv'
    BY <1>34 DEF RewriteSnapshot, LockInv, ServedWhenUp, LockHeld, TypeOK, ThreadsOK,
       ProcsOK, SetPhase, Recovering, threads, Doc
  <1>35. ASSUME NEW p \in Procs, FinishRecovery(p) PROVE LockInv'
    BY <1>35 DEF FinishRecovery, LockInv, ServedWhenUp, LockHeld, TypeOK, ThreadsOK,
       ProcsOK, SetPhase, Recovering, threads, Doc
  <1>36. ASSUME NEW p \in Procs, Crash(p) PROVE LockInv'
    BY <1>36 DEF Crash, LockInv, ServedWhenUp, LockHeld, TypeOK, ThreadsOK, ProcsOK,
       SetPhase, Doc, Critical, Trying, Undoing
  <1>37. CASE UNCHANGED vars
    BY <1>37 DEF LockInv, ServedWhenUp, LockHeld, vars, threads, procs, Doc
  <1>38. QED
    BY <1>1, <1>2, <1>3, <1>4, <1>5, <1>6, <1>7, <1>8, <1>9, <1>10, <1>11, <1>12,
       <1>13, <1>14, <1>15, <1>16, <1>17, <1>18, <1>19, <1>20, <1>21, <1>22, <1>23,
       <1>24, <1>25, <1>26, <1>27, <1>28, <1>29, <1>30, <1>31, <1>32, <1>33, <1>34,
       <1>35, <1>36, <1>37 DEF Next, ThreadStep, ProcStep

(* A step that writes neither the history nor what was acknowledged of it. *)
LEMMA QuietKept ==
    ASSUME KeptInv, UNCHANGED <<history, acked>>,
           JournalCovers', CaptureCovers', OrphanCovers'
    PROVE  KeptInv'
  BY DEF KeptInv, AckedHistoryKept, Prefix

(* The lengths compared are naturals. *)
LEMMA Sizes ==
    ASSUME TypeOK
    PROVE  /\ \A d \in Docs : /\ Len(acked[d]) \in Nat
                              /\ Len(history[d]) \in Nat
                              /\ journals[d] # None => journals[d].size \in Nat
           /\ \A t \in Threads : prev[t].size \in Nat
           /\ \A p \in Procs : rec[p].size \in Nat
  <1>1. \A d \in Docs : journals[d] # None => journals[d].size \in Nat
    BY DEF TypeOK, DiskOK, Journal
  <1>2. \A t \in Threads : prev[t].size \in Nat
    BY DEF TypeOK, ThreadsOK, PrevOf
  <1>3. \A p \in Procs : rec[p].size \in Nat
    BY DEF TypeOK, ProcsOK, Recovery
  <1>4. QED
    BY <1>1, <1>2, <1>3 DEF TypeOK, DiskOK

(* A recovery may enter "undo" only with a size that covers what was acknowledged. *)
LEMMA OrphanFrame ==
    ASSUME TypeOK, KeptInv, NEW p \in Procs, NEW to, NEW r, SetPhase(p, to, r),
           acked' = acked,
           to = "undo" /\ r.undo => Len(acked[r.doc]) <= r.size
    PROVE  OrphanCovers'
  BY DEF TypeOK, ProcsOK, KeptInv, OrphanCovers, SetPhase

(* No step of a request or of a recovery lets a cut reach acknowledged entries. *)
LEMMA KeptStep ==
    ASSUME OneServer, TypeOK, TypeOK', LockInv, KeptInv, [Next]_vars
    PROVE  KeptInv'
  <1> USE ConstantsAreSane, Sizes
  <1>1. ASSUME NEW t \in Threads, NEW d \in Docs, NEW c \in Content,
               NEW i \in Intents \cup {None}, Request(t, d, c, i)
        PROVE  KeptInv'
    BY <1>1, QuietKept DEF Request, JournalCovers, CaptureCovers, OrphanCovers,
       KeptInv, TypeOK, DiskOK, ThreadsOK, Goto, disk, procs, ghosts, Doc, Trying,
       Undoing
  <1>2. ASSUME NEW t \in Threads, Acquire(t)
        PROVE  KeptInv'
    BY <1>2, QuietKept DEF Acquire, JournalCovers, CaptureCovers, OrphanCovers,
       KeptInv, TypeOK, DiskOK, ThreadsOK, Goto, procs, ghosts, disk, Doc, Critical,
       Trying, Undoing
  <1>3. ASSUME NEW t \in Threads, LockTimeout(t)
        PROVE  KeptInv'
    BY <1>3, QuietKept DEF LockTimeout, JournalCovers, CaptureCovers, OrphanCovers,
       KeptInv, TypeOK, DiskOK, ThreadsOK, Leave, NoReq, Goto, procs, ghosts, disk,
       Doc, Trying, Undoing
  <1>4. ASSUME NEW t \in Threads, RejectType(t)
        PROVE  KeptInv'
    BY <1>4, QuietKept DEF RejectType, JournalCovers, CaptureCovers, OrphanCovers,
       KeptInv, TypeOK, DiskOK, ThreadsOK, Leave, NoReq, Goto, procs, ghosts, disk,
       Doc, Trying, Undoing
  <1>5. ASSUME NEW t \in Threads, FailEarly(t)
        PROVE  KeptInv'
    BY <1>5, QuietKept DEF FailEarly, JournalCovers, CaptureCovers, OrphanCovers,
       KeptInv, TypeOK, DiskOK, ThreadsOK, Leave, NoReq, Goto, procs, ghosts, disk,
       Doc, Trying, Undoing
  <1>6. ASSUME NEW t \in Threads, OpenDoc(t)
        PROVE  KeptInv'
    BY <1>6, QuietKept DEF OpenDoc, JournalCovers, CaptureCovers, OrphanCovers,
       KeptInv, TypeOK, DiskOK, ThreadsOK, Inside, Goto, procs, ghosts, Doc, Trying,
       Undoing
  <1>7. ASSUME NEW t \in Threads, WriteDoc(t)
        PROVE  KeptInv'
    BY <1>7, QuietKept DEF WriteDoc, JournalCovers, CaptureCovers, OrphanCovers,
       KeptInv, TypeOK, DiskOK, ThreadsOK, Inside, Goto, procs, ghosts, Doc, Trying,
       Undoing
  <1>8. ASSUME NEW t \in Threads, OpenSnapshot(t)
        PROVE  KeptInv'
    BY <1>8, QuietKept DEF OpenSnapshot, JournalCovers, CaptureCovers, OrphanCovers,
       KeptInv, TypeOK, DiskOK, ThreadsOK, Inside, Goto, procs, ghosts, Doc, Trying,
       Undoing
  <1>9. ASSUME NEW t \in Threads, UndoDoc(t)
        PROVE  KeptInv'
    BY <1>9, QuietKept DEF UndoDoc, JournalCovers, CaptureCovers, OrphanCovers,
       KeptInv, TypeOK, DiskOK, ThreadsOK, Inside, Goto, procs, ghosts, Doc, Trying,
       Undoing
  <1>10. ASSUME NEW t \in Threads, UndoWrite(t)
        PROVE  KeptInv'
    BY <1>10, QuietKept DEF UndoWrite, JournalCovers, CaptureCovers, OrphanCovers,
       KeptInv, TypeOK, DiskOK, ThreadsOK, Inside, Goto, procs, ghosts, Doc, Trying,
       Undoing
  <1>11. ASSUME NEW t \in Threads, UndoSnapshot(t)
        PROVE  KeptInv'
    BY <1>11, QuietKept DEF UndoSnapshot, JournalCovers, CaptureCovers, OrphanCovers,
       KeptInv, TypeOK, DiskOK, ThreadsOK, Inside, Goto, procs, ghosts, Doc, Trying,
       Undoing
  <1>12. ASSUME NEW t \in Threads, UndoSnapWrite(t)
        PROVE  KeptInv'
    BY <1>12, QuietKept DEF UndoSnapWrite, JournalCovers, CaptureCovers, OrphanCovers,
       KeptInv, TypeOK, DiskOK, ThreadsOK, Inside, Goto, procs, ghosts, Doc, Trying,
       Undoing
  <1>13. ASSUME NEW t \in Threads, UndoDiff(t)
        PROVE  KeptInv'
    BY <1>13, QuietKept DEF UndoDiff, JournalCovers, CaptureCovers, OrphanCovers,
       KeptInv, TypeOK, DiskOK, ThreadsOK, Inside, Goto, procs, ghosts, Doc, Trying,
       Undoing
  <1>14. ASSUME NEW t \in Threads, UndoIndex(t)
        PROVE  KeptInv'
    BY <1>14, QuietKept DEF UndoIndex, JournalCovers, CaptureCovers, OrphanCovers,
       KeptInv, TypeOK, DiskOK, ThreadsOK, Inside, Goto, procs, ghosts, Doc, Trying,
       Undoing
  <1>15. ASSUME NEW t \in Threads, Fail(t)
        PROVE  KeptInv'
    BY <1>15, QuietKept DEF Fail, JournalCovers, CaptureCovers, OrphanCovers, KeptInv,
       TypeOK, DiskOK, ThreadsOK, disk, Inside, Goto, procs, ghosts, Doc, Trying,
       Undoing
  <1>16. ASSUME NEW t \in Threads, Intent(t)
        PROVE  KeptInv'
    BY <1>16, QuietKept DEF Intent, JournalCovers, CaptureCovers, OrphanCovers,
       KeptInv, TypeOK, DiskOK, ThreadsOK, WriteJournal, Inside, Goto, procs, ghosts,
       Doc, Trying, Undoing
  <1>17. ASSUME NEW t \in Threads, MarkDoc(t)
        PROVE  KeptInv'
    BY <1>17, QuietKept DEF MarkDoc, JournalCovers, CaptureCovers, OrphanCovers,
       KeptInv, TypeOK, DiskOK, ThreadsOK, WriteJournal, Inside, Goto, procs, ghosts,
       Doc, Trying, Undoing
  <1>18. ASSUME NEW t \in Threads, WriteSnapshot(t)
        PROVE  KeptInv'
    BY <1>18, QuietKept DEF WriteSnapshot, JournalCovers, CaptureCovers, OrphanCovers,
       KeptInv, TypeOK, DiskOK, ThreadsOK, WriteJournal, Inside, Goto, procs, ghosts,
       Doc, Trying, Undoing
  <1>19. ASSUME NEW t \in Threads, WriteDiff(t)
        PROVE  KeptInv'
    BY <1>19, QuietKept DEF WriteDiff, JournalCovers, CaptureCovers, OrphanCovers,
       KeptInv, TypeOK, DiskOK, ThreadsOK, WriteJournal, Inside, Goto, procs, ghosts,
       Doc, Trying, Undoing
  <1>20. ASSUME NEW t \in Threads, Reindex(t)
        PROVE  KeptInv'
    BY <1>20, QuietKept DEF Reindex, JournalCovers, CaptureCovers, OrphanCovers,
       KeptInv, TypeOK, DiskOK, ThreadsOK, WriteJournal, Inside, Goto, procs, ghosts,
       Doc, Trying, Undoing
  <1>21. ASSUME NEW t \in Threads, RolledBack(t)
        PROVE  KeptInv'
    BY <1>21, QuietKept DEF RolledBack, JournalCovers, CaptureCovers, OrphanCovers,
       KeptInv, TypeOK, DiskOK, ThreadsOK, Leave, NoReq, Goto, procs, Doc, Trying,
       Undoing
  <1>22. ASSUME NEW t \in Threads, RollbackFails(t)
        PROVE  KeptInv'
    BY <1>22, QuietKept DEF RollbackFails, JournalCovers, CaptureCovers, OrphanCovers,
       KeptInv, TypeOK, DiskOK, ThreadsOK, Leave, NoReq, Goto, procs, ghosts, disk,
       Doc, Trying, Undoing
  <1>23. ASSUME NEW p \in Procs, Open(p)
        PROVE  KeptInv'
    <2>1. PICK to \in {"journals", "up"}, r \in {NoRec, [NoRec EXCEPT !.todo = Pending]} :
              SetPhase(p, to, r)
      BY <1>23 DEF Open
    <2>2. OrphanCovers'
      BY <1>23, <2>1, OrphanFrame DEF Open, Recovering, ghosts
    <2>3. QED
      BY <1>23, <2>2, QuietKept DEF Open, JournalCovers, CaptureCovers, OrphanCovers,
         KeptInv, TypeOK, DiskOK, ThreadsOK, disk, NoRec, SetPhase, Recovering,
         threads, ghosts, Doc, ProcsOK
  <1>24. ASSUME NEW p \in Procs, NEW d \in Docs, LoadJournal(p, d)
        PROVE  KeptInv'
    <2>1. PICK r : /\ SetPhase(p, "undo", r)
                   /\ r.doc = d
                   /\ r.undo => journals[d] # None /\ r.size = journals[d].size
      <3> DEFINE j == journals[d]
                 orphan == j # None /\ "history" \in j.steps /\ "doc" \notin j.steps
                 r == [rec[p] EXCEPT !.doc = d, !.undo = orphan,
                                     !.size = IF j = None THEN 0 ELSE j.size]
      <3>1. SetPhase(p, "undo", r)
        BY <1>24 DEF LoadJournal
      <3>2. rec[p] \in Recovery
        BY DEF TypeOK, ProcsOK
      <3>3. r.doc = d /\ r.undo = orphan /\ r.size = IF j = None THEN 0 ELSE j.size
        <4> HIDE DEF orphan, j
        <4>1. QED
          BY <3>2 DEF Recovery
      <3>4. QED
        BY <3>1, <3>3
    <2>2. OrphanCovers'
      BY <1>24, <2>1, OrphanFrame DEF LoadJournal, Recovering, ghosts, KeptInv,
         JournalCovers
    <2>3. QED
      BY <1>24, <2>2, QuietKept DEF LoadJournal, JournalCovers, CaptureCovers,
         OrphanCovers, KeptInv, TypeOK, DiskOK, ThreadsOK, disk, NoRec, SetPhase,
         Recovering, threads, ghosts, Doc, ProcsOK
  <1>25. ASSUME NEW p \in Procs, StartScan(p)
        PROVE  KeptInv'
    BY <1>25, QuietKept DEF StartScan, JournalCovers, CaptureCovers, OrphanCovers,
       KeptInv, TypeOK, DiskOK, ThreadsOK, disk, NoRec, SetPhase, Recovering, threads,
       ghosts, Doc, ProcsOK
  <1>26. ASSUME NEW p \in Procs, NEW d \in Docs, NEW y \in Types, ScanDoc(p, d, y)
        PROVE  KeptInv'
    <2>1. PICK to \in {"down", "scan", "resnap"} : \E r : SetPhase(p, to, r)
      BY <1>26, Zenon DEF ScanDoc
    <2>a. PICK r : SetPhase(p, to, r)
      BY <2>1
    <2>2. OrphanCovers'
      BY <1>26, <2>1, <2>a, OrphanFrame DEF ScanDoc, Recovering, ghosts
    <2>3. QED
      BY <1>26, <2>2, QuietKept DEF ScanDoc, JournalCovers, CaptureCovers,
         OrphanCovers, KeptInv, TypeOK, DiskOK, ThreadsOK, NoRec, SetPhase,
         Recovering, threads, ghosts, Doc, ProcsOK
  <1>27. ASSUME NEW p \in Procs, CheckSnapshot(p)
        PROVE  KeptInv'
    <2>1. PICK to \in {"scan", "resnapWrite"} : SetPhase(p, to, rec[p])
      BY <1>27 DEF CheckSnapshot
    <2>2. OrphanCovers'
      BY <1>27, <2>1, OrphanFrame DEF CheckSnapshot, Recovering, ghosts
    <2>3. QED
      BY <1>27, <2>2, QuietKept DEF CheckSnapshot, JournalCovers, CaptureCovers,
         OrphanCovers, KeptInv, TypeOK, DiskOK, ThreadsOK, NoRec, SetPhase,
         Recovering, threads, ghosts, Doc, ProcsOK
  <1>28. ASSUME NEW p \in Procs, RewriteSnapshot(p)
        PROVE  KeptInv'
    BY <1>28, QuietKept DEF RewriteSnapshot, JournalCovers, CaptureCovers,
       OrphanCovers, KeptInv, TypeOK, DiskOK, ThreadsOK, NoRec, SetPhase, Recovering,
       threads, ghosts, Doc, ProcsOK
  <1>29. ASSUME NEW p \in Procs, FinishRecovery(p)
        PROVE  KeptInv'
    BY <1>29, QuietKept DEF FinishRecovery, JournalCovers, CaptureCovers,
       OrphanCovers, KeptInv, TypeOK, DiskOK, ThreadsOK, NoRec, SetPhase, Recovering,
       threads, ghosts, Doc, ProcsOK
  <1>30. ASSUME NEW p \in Procs, ClearJournal(p)
        PROVE  KeptInv'
    BY <1>30, QuietKept DEF ClearJournal, JournalCovers, CaptureCovers, OrphanCovers,
       KeptInv, TypeOK, DiskOK, ThreadsOK, SetPhase, threads, Doc, ProcsOK
  <1>31. ASSUME NEW p \in Procs, Crash(p)
        PROVE  KeptInv'
    BY <1>31, QuietKept DEF Crash, JournalCovers, CaptureCovers, OrphanCovers,
       KeptInv, TypeOK, DiskOK, ThreadsOK, SetPhase, disk, ghosts, NoRec, Doc,
       ProcsOK, Trying, Undoing
  <1>32. ASSUME NEW t \in Threads, Begin(t)
        PROVE  KeptInv'
    <2>1. Doc(t) \in Docs /\ Len(acked[Doc(t)]) <= Len(history[Doc(t)])
      BY <1>32, Locals DEF Begin, KeptInv, AckedHistoryKept, Prefix
    <2>2. QED
      BY <1>32, <2>1, QuietKept DEF Begin, KeptInv, JournalCovers, CaptureCovers,
         OrphanCovers, TypeOK, DiskOK, ThreadsOK, Goto, procs, Doc, Trying, Undoing
  <1>33. ASSUME NEW t \in Threads, AppendHistory(t)
        PROVE  KeptInv'
    <2>1. Doc(t) \in Docs /\ entries[t] \in Seq(Entry \cup {Torn})
      BY <1>33, Locals, SeqWidens DEF AppendHistory
    <2>2. \A d \in Docs : history'[d] = IF d = Doc(t) THEN history[d] \o entries[t]
                                        ELSE history[d]
      BY <1>33 DEF AppendHistory, TypeOK, DiskOK
    <2>3. ASSUME NEW d \in Docs
          PROVE  Prefix(acked[d], history'[d])
      <3>1. /\ acked[d] \in Seq(Entry \cup {Torn})
            /\ history[d] \in Seq(Entry \cup {Torn})
            /\ Prefix(acked[d], history[d])
        BY DEF TypeOK, DiskOK, KeptInv, AckedHistoryKept
      <3>2. QED
        BY <2>1, <2>2, <3>1, AppendKeeps
    <2>4. acked' = acked
      BY <1>33 DEF AppendHistory, Inside, ghosts
    <2>5. JournalCovers' /\ CaptureCovers' /\ OrphanCovers'
      BY <1>33 DEF AppendHistory, KeptInv, JournalCovers, CaptureCovers, OrphanCovers,
         TypeOK, ThreadsOK, Inside, Goto, procs, ghosts, Doc, Trying, Undoing
    <2>6. QED
      BY <2>3, <2>4, <2>5 DEF KeptInv, AckedHistoryKept
  <1>34. ASSUME NEW t \in Threads, UndoHistory(t)
        PROVE  KeptInv'
    <2>1. /\ Doc(t) \in Docs /\ prev[t].size \in Nat
          /\ Len(acked[Doc(t)]) <= prev[t].size
      BY <1>34, Locals DEF UndoHistory, KeptInv, CaptureCovers, Undoing
    <2>2. \A d \in Docs : \/ history'[d] = history[d]
                          \/ d = Doc(t) /\ history'[d] = Truncate(history[d], prev[t].size)
      BY <1>34 DEF UndoHistory, TypeOK, DiskOK
    <2>3. ASSUME NEW d \in Docs
          PROVE  Prefix(acked[d], history'[d])
      <3>1. /\ acked[d] \in Seq(Entry \cup {Torn})
            /\ history[d] \in Seq(Entry \cup {Torn})
            /\ Prefix(acked[d], history[d])
        BY DEF TypeOK, DiskOK, KeptInv, AckedHistoryKept
      <3>2. ASSUME d = Doc(t)
            PROVE  Prefix(acked[d], Truncate(history[d], prev[t].size))
        BY <2>1, <3>1, <3>2, TruncateKeeps
      <3>3. QED
        BY <2>2, <3>1, <3>2
    <2>4. acked' = acked
      BY <1>34 DEF UndoHistory, Inside, ghosts
    <2>5. JournalCovers' /\ CaptureCovers' /\ OrphanCovers'
      BY <1>34 DEF UndoHistory, KeptInv, JournalCovers, CaptureCovers, OrphanCovers,
         TypeOK, ThreadsOK, Inside, Goto, procs, ghosts, Doc, Trying, Undoing
    <2>6. QED
      BY <2>3, <2>4, <2>5 DEF KeptInv, AckedHistoryKept
  <1>35. ASSUME NEW p \in Procs, UndoOrphan(p)
        PROVE  KeptInv'
    <2> DEFINE x == rec[p].doc
    <2>1. \/ history' = history
          \/ /\ rec[p].undo
             /\ history' = [history EXCEPT ![x] = Truncate(history[x], rec[p].size)]
      BY <1>35 DEF UndoOrphan, TypeOK, DiskOK
    <2>2. x \in Docs /\ rec[p].size \in Nat
      BY <1>35 DEF UndoOrphan, TypeOK, ProcsOK
    <2>3. rec[p].undo => Len(acked[x]) <= rec[p].size
      BY <1>35 DEF UndoOrphan, KeptInv, OrphanCovers
    <2>4. ASSUME NEW d \in Docs
          PROVE  Prefix(acked[d], history'[d])
      <3>1. /\ acked[d] \in Seq(Entry \cup {Torn})
            /\ history[d] \in Seq(Entry \cup {Torn})
            /\ Prefix(acked[d], history[d])
        BY DEF TypeOK, DiskOK, KeptInv, AckedHistoryKept
      <3>2. CASE history' = history
        BY <3>1, <3>2
      <3>3. CASE /\ rec[p].undo
                 /\ history' = [history EXCEPT ![x] = Truncate(history[x], rec[p].size)]
        <4>1. \/ history'[d] = history[d]
              \/ d = x /\ history'[d] = Truncate(history[d], rec[p].size)
          BY <3>3 DEF TypeOK, DiskOK
        <4>2. ASSUME d = x
              PROVE  Prefix(acked[d], Truncate(history[d], rec[p].size))
          <5>1. Len(acked[d]) <= rec[p].size
            BY <2>3, <3>3, <4>2
          <5>2. QED
            BY <2>2, <3>1, <5>1, TruncateKeeps
        <4>3. QED
          BY <3>1, <4>1, <4>2
      <3>4. QED
        BY <2>1, <3>2, <3>3
    <2>5. acked' = acked
      BY <1>35 DEF UndoOrphan, Recovering, ghosts
    <2>6. JournalCovers' /\ CaptureCovers' /\ OrphanCovers'
      BY <1>35 DEF UndoOrphan, KeptInv, JournalCovers, CaptureCovers, OrphanCovers,
         TypeOK, ProcsOK, SetPhase, Recovering, threads, ghosts, Doc
    <2>7. QED
      BY <2>4, <2>5, <2>6 DEF KeptInv, AckedHistoryKept
  <1>36. ASSUME NEW t \in Threads, Commit(t)
        PROVE  KeptInv'
    <2>1. Doc(t) \in Docs
      BY <1>36, Locals DEF Commit
    <2>2. phase[ProcOf[t]] = "up" /\ ProcOf[t] \in Procs
      BY <1>36 DEF Commit, LockInv, ServedWhenUp
    <2>3. \A p \in Procs : phase'[p] = "up"
      BY <1>36, <2>2 DEF Commit, OneServer, procs
    <2>4. \A d \in Docs : \/ d = Doc(t) /\ acked'[d] = history[d] /\ journals'[d] = None
                          \/ d # Doc(t) /\ acked'[d] = acked[d]
                             /\ journals'[d] = journals[d]
      BY <1>36 DEF Commit, TypeOK, DiskOK
    <2>5. ASSUME NEW u \in Threads, pc'[u] \in Trying \cup Undoing
          PROVE  u # t /\ Doc(u) \in Docs /\ Doc(u) # Doc(t)
                 /\ pc[u] = pc'[u] /\ req'[u] = req[u] /\ prev'[u] = prev[u]
      <3>1. u # t /\ pc[u] = pc'[u] /\ req'[u] = req[u] /\ prev'[u] = prev[u]
        BY <1>36, <2>5 DEF Commit, Leave, Goto, TypeOK, ThreadsOK, Trying, Undoing
      <3>2. lock[Doc(u)] = u /\ lock[Doc(t)] = t
        BY <1>36, <2>5, <3>1 DEF Commit, LockInv, LockHeld, Critical, Trying
      <3>3. Doc(u) \in Docs
        BY <2>5, <3>1, Locals DEF Trying, Undoing
      <3>4. QED
        BY <3>1, <3>2, <3>3
    <2>6. JournalCovers'
      BY <2>4 DEF KeptInv, JournalCovers
    <2>7. CaptureCovers'
      BY <2>4, <2>5 DEF KeptInv, CaptureCovers, Doc
    <2>8. OrphanCovers'
      BY <2>3 DEF OrphanCovers
    <2>9. AckedHistoryKept'
      <3>1. history' = history
        BY <1>36 DEF Commit
      <3>2. ASSUME NEW d \in Docs PROVE Prefix(acked'[d], history[d])
        <4>1. Prefix(history[d], history[d]) /\ Prefix(acked[d], history[d])
          BY DEF KeptInv, AckedHistoryKept, Prefix
        <4>2. QED
          BY <2>4, <4>1
      <3>3. QED
        BY <3>1, <3>2 DEF AckedHistoryKept
    <2>10. QED
      BY <2>6, <2>7, <2>8, <2>9 DEF KeptInv
  <1>37. CASE UNCHANGED vars
    BY <1>37, QuietKept DEF JournalCovers, CaptureCovers, OrphanCovers, KeptInv, vars,
       disk, threads, procs, ghosts, Doc
  <1>38. QED
    BY <1>1, <1>2, <1>3, <1>4, <1>5, <1>6, <1>7, <1>8, <1>9, <1>10, <1>11, <1>12,
       <1>13, <1>14, <1>15, <1>16, <1>17, <1>18, <1>19, <1>20, <1>21, <1>22, <1>23,
       <1>24, <1>25, <1>26, <1>27, <1>28, <1>29, <1>30, <1>31, <1>32, <1>33, <1>34,
       <1>35, <1>36, <1>37 DEF Next, ThreadStep, ProcStep

LEMMA KeptInit == Init => LockInv /\ KeptInv
  <1> SUFFICES ASSUME Init PROVE LockInv /\ KeptInv
    OBVIOUS
  <1>1. LockInv
    BY DEF Init, LockInv, ServedWhenUp, LockHeld, Critical, Trying, Undoing
  <1>2. JournalCovers /\ CaptureCovers /\ OrphanCovers
    BY DEF Init, JournalCovers, CaptureCovers, OrphanCovers, Trying, Undoing
  <1>3. AckedHistoryKept
    BY DEF Init, AckedHistoryKept, Prefix
  <1>4. QED
    BY <1>1, <1>2, <1>3 DEF KeptInv

(* With one server process on a root, the entries of every save that returned stay *)
(* in the history, for any number of documents, threads, failures and crashes.     *)
THEOREM AcknowledgedHistorySurvives ==
    ASSUME OneServer
    PROVE  Spec => []AckedHistoryKept
  <1>1. Init => TypeOK /\ LockInv /\ KeptInv
    BY InitType, KeptInit
  <1>2. TypeOK /\ LockInv /\ KeptInv /\ [Next]_vars => (TypeOK /\ LockInv /\ KeptInv)'
    BY OneServer, TypeStep, LockStep, KeptStep
  <1>3. TypeOK /\ LockInv /\ KeptInv => AckedHistoryKept
    BY DEF KeptInv
  <1>4. QED
    BY <1>1, <1>2, <1>3, PTL DEF Spec

(* ---- Recovery converges ---- *)

(* RecoveryConverges speaks of the last step of a recovery.  What the scan has  *)
(* done until then: every document file is still listed or its document was     *)
(* seen; a document that was seen agrees with its row and its snapshot, but for *)
(* the snapshot of the one being looked at, whose body the recovery remembers.  *)
Scanning == {"scan", "resnap", "resnapWrite"}

Settled(d) ==
    \E y \in Readable(d) :
        ~Stale(index[d], files[d][y]) /\ snaps[d] = files[d][y].body

Remembered(d, body) ==
    \E y \in Readable(d) : ~Stale(index[d], files[d][y]) /\ body = files[d][y].body

ScanListed(p) ==
    \A d \in Docs : \A y \in Readable(d) :
        <<d, y>> \in rec[p].todo \/ d \in rec[p].seen
ScanSettled(p) ==
    \A d \in rec[p].seen : Settled(d) \/ (phase[p] # "scan" /\ rec[p].doc = d)
ScanBody(p) == phase[p] # "scan" => Remembered(rec[p].doc, rec[p].body)
ScanInv ==
    \A p \in Procs : phase[p] \in Scanning =>
        ScanListed(p) /\ ScanSettled(p) /\ ScanBody(p)

(* With one server process a running request finds every process open. *)
LEMMA ServedMeansUp ==
    ASSUME TypeOK, LockInv, OneServer, NEW t \in Threads, pc[t] # "idle",
           NEW p \in Procs
    PROVE  phase[p] = "up"
  BY ConstantsAreSane DEF LockInv, ServedWhenUp, OneServer

(* A request never changes the phase of a process, and runs in an open one. *)
LEMMA ThreadRunsUp ==
    ASSUME TypeOK, LockInv, OneServer, NEW t \in Threads,
           \/ ThreadStep(t) \/ Fail(t) \/ FailEarly(t)
           \/ \E d \in Docs, c \in Content, i \in Intents \cup {None} : Request(t, d, c, i)
    PROVE  UNCHANGED procs /\ \A p \in Procs : phase[p] = "up"
  <1>1. CASE \E d \in Docs, c \in Content, i \in Intents \cup {None} : Request(t, d, c, i)
    BY <1>1, ConstantsAreSane DEF Request, OneServer
  <1>2. CASE ThreadStep(t) \/ Fail(t) \/ FailEarly(t)
    <2>1. pc[t] # "idle"
      BY <1>2 DEF ThreadStep, Fail, FailEarly, Acquire, LockTimeout, RejectType, Begin,
         Intent, AppendHistory, OpenDoc, WriteDoc, MarkDoc, OpenSnapshot, WriteSnapshot,
         WriteDiff, Reindex, Commit, UndoDoc, UndoWrite, UndoHistory, UndoSnapshot,
         UndoSnapWrite, UndoDiff, UndoIndex, RolledBack, RollbackFails, Trying, Undoing
    <2>2. UNCHANGED procs
      BY <1>2 DEF ThreadStep, Fail, FailEarly, Acquire, LockTimeout, RejectType, Begin,
         Intent, AppendHistory, OpenDoc, WriteDoc, MarkDoc, OpenSnapshot, WriteSnapshot,
         WriteDiff, Reindex, Commit, UndoDoc, UndoWrite, UndoHistory, UndoSnapshot,
         UndoSnapWrite, UndoDiff, UndoIndex, RolledBack, RollbackFails, Inside
    <2> QED BY <2>1, <2>2, ServedMeansUp
  <1> QED BY <1>1, <1>2

(* The fields SetPhase gives the only process. *)
LEMMA OnlyProc ==
    ASSUME TypeOK, OneServer, NEW p \in Procs, NEW to, NEW r, SetPhase(p, to, r),
           NEW q \in Procs
    PROVE  q = p /\ phase'[q] = to /\ rec'[q] = r
  BY DEF TypeOK, ProcsOK, SetPhase, OneServer

LEMMA ScanStep ==
    TypeOK /\ LockInv /\ OneServer /\ ScanInv /\ [Next]_vars => ScanInv'
  <1> SUFFICES ASSUME TypeOK, LockInv, OneServer, ScanInv, [Next]_vars
               PROVE  ScanInv'
    OBVIOUS
  <1> USE ConstantsAreSane
  <1>1. CASE UNCHANGED vars
    BY <1>1 DEF vars, disk, procs, ScanInv, ScanListed, ScanSettled, ScanBody, Settled,
       Remembered, Readable
  <1>2. ASSUME NEW t \in Threads,
               \/ ThreadStep(t) \/ Fail(t) \/ FailEarly(t)
               \/ \E d \in Docs, c \in Content, i \in Intents \cup {None} :
                     Request(t, d, c, i)
        PROVE  ScanInv'
    <2>1. UNCHANGED procs /\ \A p \in Procs : phase[p] = "up"
      BY <1>2, ThreadRunsUp
    <2> QED BY <2>1 DEF ScanInv, Scanning, procs
  <1>3. ASSUME NEW p \in Procs, NEW to \in Phases \ Scanning, NEW r, SetPhase(p, to, r)
        PROVE  ScanInv'
    BY <1>3, OnlyProc DEF ScanInv
  <1>4. ASSUME NEW p \in Procs,
               \/ Open(p) \/ UndoOrphan(p) \/ ClearJournal(p) \/ FinishRecovery(p)
               \/ Crash(p) \/ \E d \in Docs : LoadJournal(p, d)
        PROVE  ScanInv'
    <2>1. \E to \in Phases \ Scanning : \E r : SetPhase(p, to, r)
      BY <1>4 DEF Open, UndoOrphan, ClearJournal, FinishRecovery, Crash, LoadJournal,
         Phases, Scanning
    <2> QED BY <1>3, <2>1
  <1>5. ASSUME NEW p \in Procs, StartScan(p) PROVE ScanInv'
    <2> DEFINE r == [NoRec EXCEPT !.todo = Existing]
    <2>1. r.todo = Existing /\ r.seen = {}
      BY DEF NoRec
    <2>2. SetPhase(p, "scan", r) /\ UNCHANGED disk
      BY <1>5 DEF StartScan
    <2> HIDE DEF r
    <2>3. \A d \in Docs : \A y \in Readable(d)' : <<d, y>> \in Existing
      BY <2>2 DEF disk, Readable, Existing
    <2> QED BY <2>1, <2>2, <2>3, OnlyProc DEF ScanInv, ScanListed, ScanSettled, ScanBody
  <1>6. ASSUME NEW p \in Procs, NEW d \in Docs, NEW y \in Types, ScanDoc(p, d, y)
        PROVE  ScanInv'
    <2> DEFINE doc == FileAt(d, y)
               rest == [rec[p] EXCEPT !.todo = @ \ {<<d, y>>}]
               found == [rest EXCEPT !.doc = d, !.body = doc.body, !.seen = @ \cup {d}]
    <2>0. doc \in Document /\ doc = files[d][y] /\ rec[p] \in Recovery
      BY DEF TypeOK, DiskOK, ProcsOK, FileAt
    <2>1. /\ rest.todo = rec[p].todo \ {<<d, y>>} /\ rest.seen = rec[p].seen
          /\ found.todo = rec[p].todo \ {<<d, y>>} /\ found.seen = rec[p].seen \cup {d}
          /\ found.doc = d /\ found.body = doc.body
      BY <2>0 DEF Recovery
    <2>2. UNCHANGED <<files, snaps>> /\ phase[p] = "scan"
      BY <1>6 DEF ScanDoc
    <2>3. /\ ScanListed(p)
          /\ \A e \in rec[p].seen : Settled(e)
      BY <2>2 DEF ScanInv, ScanSettled, Scanning
    <2>4. CASE doc = None
      <3>1. SetPhase(p, "down", NoRec)
        BY <1>6, <2>4 DEF ScanDoc
      <3> QED BY <1>3, <3>1 DEF Phases, Scanning
    <2>5. CASE doc = Torn
      <3>1. SetPhase(p, "scan", rest) /\ UNCHANGED index
        BY <1>6, <2>5 DEF ScanDoc
      <3>2. y \notin Readable(d)
        BY <2>0, <2>5 DEF Readable
      <3> HIDE DEF rest, found, doc
      <3>3. \A e \in Docs : Readable(e)' = Readable(e)
        BY <2>2 DEF Readable
      <3>a. \A e \in Docs : Settled(e) => Settled(e)'
        BY <2>2, <3>1, <3>3 DEF Settled
      <3>4. rec'[p] = rest /\ phase'[p] = "scan" /\ \A q \in Procs : q = p
        BY <3>1, OnlyProc
      <3>5. rest.seen \subseteq Docs
        BY <2>0, <2>1 DEF Recovery
      <3>6. ScanListed(p)'
        <4> SUFFICES ASSUME NEW e \in Docs, NEW z \in Readable(e)
                     PROVE  <<e, z>> \in rest.todo \/ e \in rest.seen
          BY <3>3, <3>4 DEF ScanListed
        <4>1. <<e, z>> \in rec[p].todo \/ e \in rec[p].seen
          BY <2>3 DEF ScanListed
        <4>2. <<e, z>> # <<d, y>>
          BY <3>2
        <4> QED BY <2>1, <4>1, <4>2
      <3>7. ScanSettled(p)'
        BY <2>1, <2>3, <3>a, <3>4, <3>5 DEF ScanSettled
      <3> QED BY <3>4, <3>6, <3>7 DEF ScanInv, ScanBody
    <2>6. CASE doc \notin {None, Torn}
      <3>1. /\ SetPhase(p, "resnap", found)
            /\ index' = IF Stale(index[d], doc) THEN [index EXCEPT ![d] = doc] ELSE index
        BY <1>6, <2>6 DEF ScanDoc
      <3>2. y \in Readable(d) /\ doc \in Content
        BY <2>0, <2>6 DEF Readable, Document
      <3>3. \A e \in Docs : Readable(e)' = Readable(e)
        BY <2>2 DEF Readable
      <3>4. ~Stale(index'[d], files'[d][y]) /\ found.body = files'[d][y].body
        <4>1. ~Stale(doc, doc)
          BY <2>6 DEF Stale
        <4>2. \/ index'[d] = doc
              \/ index'[d] = index[d] /\ ~Stale(index[d], doc)
          BY <3>1 DEF TypeOK, DiskOK
        <4> QED BY <2>0, <2>1, <2>2, <4>1, <4>2
      <3> HIDE DEF rest, found, doc
      <3>6. \A e \in Docs \ {d} : Settled(e) => Settled(e)'
        <4>1. \A e \in Docs \ {d} : index'[e] = index[e]
          BY <3>1 DEF TypeOK, DiskOK
        <4> QED BY <2>2, <3>3, <4>1 DEF Settled
      <3>7. rec'[p] = found /\ phase'[p] = "resnap" /\ \A q \in Procs : q = p
        BY <3>1, OnlyProc
      <3>8. rec[p].seen \subseteq Docs
        BY <2>0 DEF Recovery
      <3>9. ScanListed(p)'
        <4> SUFFICES ASSUME NEW e \in Docs, NEW z \in Readable(e)
                     PROVE  <<e, z>> \in found.todo \/ e \in found.seen
          BY <3>3, <3>7 DEF ScanListed
        <4>1. <<e, z>> \in rec[p].todo \/ e \in rec[p].seen
          BY <2>3 DEF ScanListed
        <4>2. e # d => <<e, z>> # <<d, y>>
          OBVIOUS
        <4> QED BY <2>1, <4>1, <4>2
      <3>10. ScanSettled(p)'
        BY <2>1, <2>3, <3>6, <3>7, <3>8 DEF ScanSettled
      <3>11. ScanBody(p)'
        <4>1. y \in Readable(d)'
          BY <3>2, <3>3
        <4> QED BY <2>1, <3>4, <3>7, <4>1 DEF ScanBody, Remembered
      <3> QED BY <3>7, <3>9, <3>10, <3>11 DEF ScanInv
    <2> QED BY <2>4, <2>5, <2>6
  <1>7. ASSUME NEW p \in Procs, NEW d \in Docs, NEW to \in Scanning, NEW body \in Bodies,
               phase[p] # "scan", phase[p] \in Scanning,
               rec[p].doc = d, rec[p].body = body,
               SetPhase(p, to, rec[p]), UNCHANGED <<files, index>>,
               \A e \in Docs \ {d} : snaps'[e] = snaps[e],
               to = "scan" => snaps'[d] = body
        PROVE  ScanInv'
    <2>1. ScanListed(p) /\ ScanSettled(p) /\ Remembered(d, body)
      BY <1>7 DEF ScanInv, ScanBody
    <2>2. rec'[p] = rec[p] /\ phase'[p] = to /\ \A q \in Procs : q = p
      BY <1>7, OnlyProc
    <2>3. \A e \in Docs : Readable(e)' = Readable(e)
      BY <1>7 DEF Readable
    <2>4. \A e \in Docs \ {d} : Settled(e) => Settled(e)'
      BY <1>7, <2>3 DEF Settled
    <2>5. to = "scan" => Settled(d)'
      BY <1>7, <2>1, <2>3 DEF Settled, Remembered
    <2>6. rec[p].seen \subseteq Docs
      BY DEF TypeOK, ProcsOK, Recovery
    <2>7. ScanListed(p)'
      BY <2>1, <2>2, <2>3 DEF ScanListed
    <2>8. ScanSettled(p)'
      BY <1>7, <2>1, <2>2, <2>4, <2>5, <2>6 DEF ScanSettled
    <2>9. ScanBody(p)'
      BY <1>7, <2>1, <2>2, <2>3 DEF ScanBody, Remembered
    <2> QED BY <2>2, <2>7, <2>8, <2>9 DEF ScanInv
  <1>8. ASSUME NEW p \in Procs, CheckSnapshot(p) PROVE ScanInv'
    <2>1. rec[p].doc \in Docs /\ rec[p].body \in Bodies
      BY <1>8 DEF CheckSnapshot, TypeOK, ProcsOK
    <2>2. CASE LoadSnapshot(rec[p].doc) = rec[p].body
      <3>1. snaps[rec[p].doc] = rec[p].body
        BY <2>1, <2>2 DEF LoadSnapshot
      <3> QED BY <1>7, <1>8, <2>1, <2>2, <3>1 DEF CheckSnapshot, Scanning
    <2>3. CASE LoadSnapshot(rec[p].doc) # rec[p].body
      <3>1. \A e \in Docs \ {rec[p].doc} : snaps'[e] = snaps[e]
        BY <1>8, <2>3 DEF CheckSnapshot, TypeOK, DiskOK
      <3> QED BY <1>7, <1>8, <2>1, <2>3, <3>1 DEF CheckSnapshot, Scanning
    <2> QED BY <2>2, <2>3
  <1>9. ASSUME NEW p \in Procs, RewriteSnapshot(p) PROVE ScanInv'
    <2>1. rec[p].doc \in Docs /\ rec[p].body \in Bodies
      BY <1>9 DEF RewriteSnapshot, TypeOK, ProcsOK
    <2>2. \A e \in Docs : snaps'[e] = IF e = rec[p].doc THEN rec[p].body ELSE snaps[e]
      BY <1>9 DEF RewriteSnapshot, TypeOK, DiskOK
    <2> QED BY <1>7, <1>9, <2>1, <2>2 DEF RewriteSnapshot, Scanning
  <1> QED BY <1>1, <1>2, <1>4, <1>5, <1>6, <1>8, <1>9 DEF Next, ProcStep

(* The last step of a recovery removes the rows of documents it has not seen.  *)
LEMMA RecoveryAgrees ==
    TypeOK /\ LockInv /\ OneServer /\ ScanInv /\ [Next]_vars =>
        \A p \in Procs : phase[p] = "scan" /\ phase'[p] = "up" =>
            \A d \in Docs : Agrees(d)'
  <1> SUFFICES ASSUME TypeOK, LockInv, OneServer, ScanInv, [Next]_vars,
                      NEW p \in Procs, phase[p] = "scan", phase'[p] = "up",
                      NEW d \in Docs
               PROVE  Agrees(d)'
    OBVIOUS
  <1>1. FinishRecovery(p)
    <2>1. CASE UNCHANGED vars
      BY <2>1 DEF vars, procs
    <2>2. ASSUME NEW t \in Threads,
                 \/ ThreadStep(t) \/ Fail(t) \/ FailEarly(t)
                 \/ \E e \in Docs, c \in Content, i \in Intents \cup {None} :
                       Request(t, e, c, i)
          PROVE  FALSE
      BY <2>2, ThreadRunsUp
    <2>3. ASSUME NEW q \in Procs, ProcStep(q) \/ Crash(q)
          PROVE  FinishRecovery(p)
      <3>1. q = p
        BY DEF OneServer
      <3>2. CASE FinishRecovery(q)
        BY <3>1, <3>2
      <3>3. CASE \/ Open(q) \/ UndoOrphan(q) \/ ClearJournal(q) \/ StartScan(q)
                 \/ CheckSnapshot(q) \/ RewriteSnapshot(q)
                 \/ \E e \in Docs : LoadJournal(q, e)
        BY <3>1, <3>3 DEF Open, UndoOrphan, ClearJournal, StartScan, CheckSnapshot,
           RewriteSnapshot, LoadJournal
      <3>4. CASE Crash(q) \/ \E e \in Docs, y \in Types : ScanDoc(q, e, y)
        <4>1. \E to \in {"down", "scan", "resnap"} : \E r : SetPhase(q, to, r)
          BY <3>4, Zenon DEF Crash, ScanDoc
        <4> QED BY <3>1, <4>1, OnlyProc
      <3> QED BY <2>3, <3>2, <3>3, <3>4 DEF ProcStep
    <2> QED BY <2>1, <2>2, <2>3 DEF Next
  <1>2. /\ rec[p].todo = {} /\ UNCHANGED <<files, snaps>>
        /\ index'[d] = IF d \in rec[p].seen THEN index[d] ELSE None
    BY <1>1 DEF FinishRecovery
  <1>3. Readable(d)' = Readable(d)
    BY <1>2 DEF Readable
  <1>4. ScanListed(p) /\ ScanSettled(p)
    BY DEF ScanInv, Scanning
  <1>5. CASE d \in rec[p].seen
    <2>1. Settled(d)
      BY <1>4, <1>5 DEF ScanSettled
    <2> QED BY <1>2, <1>3, <1>5, <2>1 DEF Settled, Agrees
  <1>6. CASE d \notin rec[p].seen
    <2>1. Readable(d) = {}
      BY <1>2, <1>4, <1>6 DEF ScanListed
    <2> QED BY <1>2, <1>3, <1>6, <2>1 DEF Agrees
  <1> QED BY <1>5, <1>6

(* With one server process on a root, a recovery that completes leaves every     *)
(* document agreeing with its row and its snapshot: for any number of documents, *)
(* types and threads, wherever the process was killed before it, in a save, in a *)
(* rollback or in an earlier recovery, and whatever raised.                      *)
THEOREM RecoveryMakesTheIndexAgree ==
    ASSUME OneServer
    PROVE  Spec => RecoveryConverges
  <1>1. Init => TypeOK /\ LockInv /\ ScanInv
    BY InitType, KeptInit DEF Init, ScanInv, Scanning
  <1>2. TypeOK /\ LockInv /\ ScanInv /\ [Next]_vars => (TypeOK /\ LockInv /\ ScanInv)'
    BY OneServer, TypeStep, LockStep, ScanStep
  <1>3. TypeOK /\ LockInv /\ ScanInv /\ [Next]_vars =>
            [\A p \in Procs : phase[p] = "scan" /\ phase'[p] = "up" =>
                 \A d \in Docs : Agrees(d)']_vars
    BY OneServer, RecoveryAgrees
  <1> QED BY <1>1, <1>2, <1>3, PTL DEF Spec, RecoveryConverges

(* ---- A save is atomic ---- *)

(* AgreesAtRest, FailedSaveLeavesNoTrace and the refinement of DeltaStore rest on *)
(* one invariant.  What the directory held when a save of a document began (base) *)
(* was sound; from there the label of the writer says how far each of the places  *)
(* has moved; a journal without a writer is one that recovery turns into the old  *)
(* or the new state; and without both the document is sound again.                *)

(* The points at which a kill leaves that so.  The others leave a torn document, a *)
(* document beside a history or a snapshot that is not its own, or, in a recovery  *)
(* that has cleared its last journal, rows that nothing tells about any more.      *)
KilledWhereRestored ==
    CrashIn \subseteq ({"up", "down", "undo", "clear"} \cup Labels)
                       \ {"write", "undoWrite", "mark", "undoDoc", "undoHistory", "undoSnap"}

(* No exception in a rollback before file, history and snapshot are put back; no   *)
(* exception in a rollback at all.                                                *)
RollbacksRestore ==
    FailIn \cap {"undoDoc", "undoWrite", "undoHistory", "undoSnap", "undoSnapWrite"} = {}
RollbacksSucceed == FailIn \cap Undoing = {}

FilesOK(f) ==
    \A y \in Types : f[y] # None =>
        /\ f[y] # Torn
        /\ f[y].type = y
        /\ \A z \in Types : f[z] # None => z = y
Empty(f) == \A y \in Types : f[y] = None
OnlyType(f, y) == \A z \in Types : f[z] # None => z = y

(* The files of a document, its snapshot and its row belong together. *)
Sound(f, snap, row) ==
    /\ FilesOK(f)
    /\ Empty(f) => snap = None /\ row = None
    /\ \A y \in Types : f[y] # None => ~Stale(row, f[y]) /\ snap = f[y].body

(* The same as far as a save relies on it: a rollback that raised late leaves the *)
(* row of the save that failed.                                                   *)
Usable(f, snap, row) ==
    /\ FilesOK(f)
    /\ Empty(f) => snap = None
    /\ \A y \in Types : f[y] # None => row # None /\ row.type = y /\ snap = f[y].body

(* What Begin keeps of the directory. *)
Captures == [files : [Types -> Document], history : Seq(Entry \cup {Torn}),
             snap : Bodies \cup {None, Torn}, diff : Intents \cup {None},
             index : Content \cup {None}]
BaseOK(B) ==
    /\ B \in Captures
    /\ Usable(B.files, B.snap, B.index)
    /\ RollbacksSucceed => Sound(B.files, B.snap, B.index)

DeltaOf(f, c) == Abstract!Delta(TheFile(f), c)
Orphan(j) == "history" \in j.steps /\ "doc" \notin j.steps

(* A directory without a writer: as before the save, as before but for entries    *)
(* nobody acknowledged, or with the save done.                                    *)
Kept(B, f, h) == f = B.files /\ h = B.history
Made(B, f, h) ==
    \E c \in Content : /\ OnlyType(B.files, c.type)
                       /\ f = [B.files EXCEPT ![c.type] = c]
                       /\ h = B.history \o DeltaOf(B.files, c)
Appended(B, f, h) == f = B.files /\ \E e \in Seq(Entry) : h = B.history \o e
Recoverable(B, f, h, snap, j) ==
    /\ BaseOK(B)
    /\ j.size = Len(B.history)
    /\ Empty(f) => snap = None
    /\ \/ Kept(B, f, h)
       \/ Appended(B, f, h) /\ Orphan(j)
       \/ Made(B, f, h) /\ ~Orphan(j)

Writing == Trying \cup Undoing
Busy(d) == \E t \in Threads : pc[t] \in Writing /\ Doc(t) = d

(* A document nobody writes.  Without a journal it is sound, unless a recovery is  *)
(* at work or about to be; a journal waits for one, or was left by a rollback that *)
(* raised once it had put back what counts.                                        *)
Quiet(d) ==
    IF journals[d] = None
    THEN /\ FilesOK(files[d])
         /\ Empty(files[d]) => snaps[d] = None
         /\ (\A p \in Procs : phase[p] = "up" \/ (phase[p] = "down" /\ Pending = {})) =>
               Sound(files[d], snaps[d], index[d])
    ELSE /\ Recoverable(base[d], files[d], history[d], snaps[d], journals[d])
         /\ \/ \E p \in Procs : phase[p] \in {"down", "journals", "undo", "clear"}
            \/ /\ ~RollbacksSucceed
               /\ Kept(base[d], files[d], history[d])
               /\ Usable(files[d], snaps[d], index[d])
QuietInv == \A d \in Docs : ~Busy(d) => Quiet(d)

(* How far a writer at a label has moved each place from the base B. *)
FileOld == {"intent", "append", "open", "undoHistory", "undoSnap", "undoSnapWrite",
            "undoDiff", "undoIndex", "undone"}
FileNew == {"mark", "snap", "snapWrite", "diff", "index", "commit"}
HistoryOld == {"intent", "append", "undoSnap", "undoSnapWrite", "undoDiff",
               "undoIndex", "undone"}
HistoryNew == {"open", "write"} \cup FileNew
SnapOld == {"intent", "append", "open", "write", "mark", "snap", "undoDiff",
            "undoIndex", "undone"}
SnapNew == {"diff", "index", "commit"}

CaptureAt(c, B, P) ==
    /\ P = [doc |-> B.files[c.type], size |-> Len(B.history), snap |-> B.snap,
            diff |-> B.diff]
    /\ OnlyType(B.files, c.type)
FileAtLabel(l, c, B, f) ==
    /\ \A z \in Types \ {c.type} : f[z] = B.files[z]
    /\ l \in FileOld => f[c.type] = B.files[c.type]
    /\ l \in FileNew => f[c.type] = c
HistoryAt(l, c, B, es, h) ==
    /\ l \in HistoryOld => h = B.history
    /\ l \in HistoryNew => h = B.history \o DeltaOf(B.files, c)
    /\ \E e \in Seq(Entry) : h = B.history \o e
    /\ l = "append" => es = DeltaOf(B.files, c)
SnapAt(l, c, B, snap) ==
    /\ l \in SnapOld => snap = B.snap
    /\ l \in SnapNew => snap = c.body
    /\ l = "undoSnapWrite" => B.snap # None
DiffAt(l, i, B, diff) ==
    /\ i = None \/ l \in {"undoIndex", "undone"} => diff = B.diff
    /\ l = "diff" => i # None
RowAt(l, c, B, row) ==
    /\ l = "intent" => row = B.index
    /\ l = "commit" => row = c
    /\ l = "undone" => row = B.files[c.type]
    /\ row \in {B.index, c, B.files[c.type]}
JournalAt(l, B, j) ==
    /\ j # None /\ j.size = Len(B.history)
    /\ l \in {"append", "open"} => Orphan(j)
    /\ l \in FileNew \ {"mark"} => ~Orphan(j)
WriterAt(l, q, P, es, B, f, h, snap, diff, row, j) ==
    /\ CaptureAt(q.new, B, P)
    /\ FileAtLabel(l, q.new, B, f)
    /\ HistoryAt(l, q.new, B, es, h)
    /\ SnapAt(l, q.new, B, snap)
    /\ DiffAt(l, q.intent, B, diff)
    /\ RowAt(l, q.new, B, row)
    /\ JournalAt(l, B, j)
Writer(t, d) ==
    /\ BaseOK(base[d])
    /\ WriterAt(pc[t], req[t], prev[t], entries[t], base[d], files[d], history[d],
                snaps[d], diffs[d], index[d], journals[d])
WriterInv == \A t \in Threads : pc[t] \in Writing => Writer(t, Doc(t))

(* What a recovery knows of the journals it found. *)
Recovers(p) ==
    /\ phase[p] \in {"journals", "undo", "clear"} => rec[p].todo = Pending
    /\ phase[p] \in {"undo", "clear"} => rec[p].doc \in Pending
    /\ phase[p] = "undo" =>
          /\ rec[p].undo = Orphan(journals[rec[p].doc])
          /\ rec[p].size = journals[rec[p].doc].size
    /\ phase[p] = "clear" =>
          LET d == rec[p].doc IN
          \/ Kept(base[d], files[d], history[d])
          \/ Made(base[d], files[d], history[d])
    /\ phase[p] \in Scanning => rec[p].todo \subseteq Existing /\ Pending = {}
RecoverInv == \A p \in Procs : Recovers(p)

BaseType == base \in [Docs -> Captures \cup {None}]
AtomicInv == BaseType /\ QuietInv /\ WriterInv /\ RecoverInv

LEMMA SoundIsUsable ==
    ASSUME NEW f, NEW snap, NEW row, Sound(f, snap, row)
    PROVE  Usable(f, snap, row)
  BY DEF Sound, Usable, FilesOK, Stale

LEMMA TheFileOf ==
    ASSUME NEW f, FilesOK(f)
    PROVE  /\ \A y \in Types : f[y] # None => TheFile(f) = f[y]
           /\ Empty(f) => TheFile(f) = None
  <1>1. ASSUME NEW y \in Types, f[y] # None PROVE TheFile(f) = f[y]
    <2>1. \E z \in Types : f[z] # None
      BY <1>1
    <2>2. (CHOOSE z \in Types : f[z] # None) = y
      BY <1>1 DEF FilesOK
    <2> QED BY <2>1, <2>2 DEF TheFile
  <1>2. ASSUME Empty(f) PROVE TheFile(f) = None
    BY <1>2 DEF Empty, TheFile
  <1> QED BY <1>1, <1>2

LEMMA DeltaType ==
    ASSUME NEW f \in [Types -> Document], FilesOK(f), NEW c \in Content
    PROVE  DeltaOf(f, c) \in Seq(Entry)
  <1>1. TheFile(f) \in Content \cup {None}
    <2>1. CASE Empty(f)
      BY <2>1, TheFileOf
    <2>2. CASE ~Empty(f)
      <3>1. PICK y \in Types : f[y] # None
        BY <2>2 DEF Empty
      <3>2. f[y] \in Content
        BY <3>1 DEF FilesOK, Document
      <3> QED BY <3>1, <3>2, TheFileOf
    <2> QED BY <2>1, <2>2
  <1>2. TheFile(f) # None => TheFile(f).body \in Bodies
    BY <1>1 DEF Content
  <1>3. [old |-> None, new |-> c] \in Entry
    BY DEF Entry
  <1>4. TheFile(f) # None => [old |-> TheFile(f).body, new |-> c] \in Entry
    BY <1>2 DEF Entry
  <1> DEFINE x == TheFile(f)
  <1> HIDE DEF x
  <1>5. \A e \in Entry : <<e>> \in Seq(Entry)
    OBVIOUS
  <1>6. CASE x = None
    <2>1. Abstract!Delta(x, c) = <<[old |-> None, new |-> c]>>
      BY <1>6 DEF Abstract!Delta
    <2> QED BY <1>3, <1>5, <2>1 DEF DeltaOf, x
  <1>7. CASE x # None
    <2>1. \/ Abstract!Delta(x, c) = <<>>
          \/ Abstract!Delta(x, c) = <<[old |-> x.body, new |-> c]>>
      BY <1>7, Zenon DEF Abstract!Delta
    <2>2. [old |-> x.body, new |-> c] \in Entry
      BY <1>4, <1>7 DEF x
    <2>3. <<[old |-> x.body, new |-> c]>> \in Seq(Entry) /\ <<>> \in Seq(Entry)
      BY <1>5, <2>2
    <2> QED BY <2>1, <2>3, Zenon DEF DeltaOf, x
  <1> QED BY <1>6, <1>7

(* Cutting a history to where it was gives the history that was. *)
LEMMA TruncateBack ==
    ASSUME NEW S, NEW h \in Seq(S \cup {Torn}), NEW e \in Seq(S)
    PROVE  Truncate(h \o e, Len(h)) = h
  <1>1. \A i \in 1..Len(h) : i <= Len(h \o e) /\ (h \o e)[i] = h[i]
    OBVIOUS
  <1>2. Truncate(h \o e, Len(h)) = [i \in 1..Len(h) |-> h[i]]
    BY <1>1 DEF Truncate
  <1>3. h = [i \in 1..Len(h) |-> h[i]]
    OBVIOUS
  <1> QED BY <1>2, <1>3, Zenon

(* From a sound directory the code builds the entries the promise asks for. *)
LEMMA BuildsDelta ==
    ASSUME TypeOK, NEW d \in Docs, NEW c \in Content,
           Usable(files[d], snaps[d], index[d]), OnlyType(files[d], c.type)
    PROVE  BuildEntries(d, c) = DeltaOf(files[d], c)
  <1> DEFINE f == files[d]
             fm == PrevFrontmatter(d)
             old == LoadSnapshot(d)
  <1> USE ConstantsAreSane
  <1>1. FilesOK(f) /\ f \in [Types -> Document] /\ c.body \in Bodies /\ c.type \in Types
    BY DEF Usable, TypeOK, DiskOK, Content
  <1>2. CASE Empty(f)
    <2>1. snaps[d] = None
      BY <1>2 DEF Usable
    <2>2. old = None
      BY <2>1 DEF LoadSnapshot
    <2>3. TheFile(f) = None
      BY <1>1, <1>2, TheFileOf
    <2>4. DeltaOf(f, c) = <<[old |-> None, new |-> c]>>
      BY <2>3 DEF DeltaOf, Abstract!Delta
    <2>5. BuildEntries(d, c) = <<[old |-> None, new |-> c]>>
      BY <1>1, <2>2 DEF BuildEntries
    <2> QED BY <2>4, <2>5
  <1>3. CASE ~Empty(f)
    <2>1. f[c.type] # None /\ f[c.type] \in Content /\ f[c.type].type = c.type
      <3>1. PICK y \in Types : f[y] # None
        BY <1>3 DEF Empty
      <3>2. y = c.type
        BY <3>1 DEF OnlyType
      <3> QED BY <1>1, <3>1, <3>2 DEF FilesOK, Document
    <2> DEFINE now == f[c.type]
    <2>2. /\ snaps[d] = now.body /\ now.body \in Bodies
          /\ index[d] # None /\ index[d].type = c.type
      BY <1>1, <2>1 DEF Usable, Content
    <2>3. old = now.body
      BY <2>2 DEF LoadSnapshot
    <2>5. fm = now /\ now # Torn
      BY <1>1, <2>1, <2>2 DEF PrevFrontmatter, FileAt, FilesOK
    <2>6. TheFile(f) = now
      BY <1>1, <2>1, TheFileOf
    <2>7. now.body = c.body /\ SameFrontmatter(now, c) <=> now = c
      BY <2>1 DEF SameFrontmatter, Content
    <2> HIDE DEF now, f, fm, old
    <2>8. BuildEntries(d, c) = IF now = c THEN <<>> ELSE <<[old |-> now.body, new |-> c]>>
      <3>1. CASE now = c
        BY <2>1, <2>3, <2>5, <2>7, <3>1 DEF BuildEntries, fm, old
      <3>2. CASE now # c
        BY <2>1, <2>3, <2>5, <2>7, <3>2 DEF BuildEntries, fm, old
      <3> QED BY <3>1, <3>2
    <2>9. DeltaOf(f, c) = IF now = c THEN <<>> ELSE <<[old |-> now.body, new |-> c]>>
      <3>1. now # None
        BY <2>1 DEF now
      <3> QED BY <2>6, <3>1, Zenon DEF DeltaOf, Abstract!Delta
    <2> QED BY <2>8, <2>9 DEF f
  <1> QED BY <1>2, <1>3

(* ---- The steps of a writer ---- *)

Elsewhere(d) ==
    \A e \in Docs \ {d} :
        /\ files'[e] = files[e] /\ history'[e] = history[e] /\ snaps'[e] = snaps[e]
        /\ diffs'[e] = diffs[e] /\ index'[e] = index[e]
        /\ journals'[e] = journals[e] /\ base'[e] = base[e]
Alone(t) ==
    \A u \in Threads \ {t} :
        /\ pc'[u] = pc[u] /\ req'[u] = req[u]
        /\ prev'[u] = prev[u] /\ entries'[u] = entries[u]

(* A writer touches its own document and its own variables. *)
LEMMA OwnStep ==
    ASSUME TypeOK, BaseType, NEW t \in Threads, pc[t] \in {"check"} \cup Writing,
           ThreadStep(t) \/ Fail(t)
    PROVE  Elsewhere(Doc(t)) /\ Alone(t) /\ UNCHANGED procs
  <1> USE DEF Elsewhere, Alone, TypeOK, DiskOK, ThreadsOK, BaseType, Goto, Inside, disk,
              ghosts
  <1>1. CASE Begin(t) \/ Intent(t) \/ AppendHistory(t)
    BY <1>1 DEF Begin, Intent, AppendHistory, WriteJournal
  <1>2. CASE OpenDoc(t) \/ WriteDoc(t) \/ UndoDoc(t) \/ UndoWrite(t)
    <2>1. PICK v : files' = [files EXCEPT ![Doc(t)][New(t).type] = v]
      BY <1>2 DEF OpenDoc, WriteDoc, UndoDoc, UndoWrite, WriteFile
    <2>2. UNCHANGED <<history, snaps, diffs, index, journals, base, req, prev, entries, procs>>
      BY <1>2 DEF OpenDoc, WriteDoc, UndoDoc, UndoWrite
    <2>3. \E label : Goto(t, label)
      BY <1>2 DEF OpenDoc, WriteDoc, UndoDoc, UndoWrite
    <2> QED BY <2>1, <2>2, <2>3
  <1>3. CASE MarkDoc(t) \/ OpenSnapshot(t) \/ WriteSnapshot(t) \/ WriteDiff(t) \/ Reindex(t)
    BY <1>3 DEF MarkDoc, OpenSnapshot, WriteSnapshot, WriteDiff, Reindex, WriteJournal
  <1>4. CASE Commit(t) \/ RolledBack(t) \/ RollbackFails(t) \/ RejectType(t)
    BY <1>4 DEF Commit, RolledBack, RollbackFails, RejectType, Leave
  <1>5. CASE UndoHistory(t) \/ UndoSnapshot(t) \/ UndoSnapWrite(t)
    BY <1>5 DEF UndoHistory, UndoSnapshot, UndoSnapWrite
  <1>6. CASE UndoDiff(t) \/ UndoIndex(t) \/ Fail(t)
    BY <1>6 DEF UndoDiff, UndoIndex, Fail
  <1>7. ~Acquire(t) /\ ~LockTimeout(t)
    BY DEF Acquire, LockTimeout, Writing, Trying, Undoing
  <1> QED BY <1>1, <1>2, <1>3, <1>4, <1>5, <1>6, <1>7 DEF ThreadStep

(* While a document is being written no other thread writes it. *)
LEMMA WritersDiffer ==
    ASSUME LockInv, NEW t \in Threads, NEW u \in Threads \ {t},
           pc[t] \in {"check"} \cup Writing, pc[u] \in Writing
    PROVE  Doc(u) # Doc(t)
  BY DEF LockInv, LockHeld, Critical, Writing

(* A step into or between writing labels keeps the invariant if it keeps what the *)
(* label says.                                                                    *)
LEMMA MidStep ==
    ASSUME TypeOK, LockInv, AtomicInv, \A p \in Procs : phase[p] = "up",
           NEW t \in Threads, pc[t] \in {"check"} \cup Writing, pc'[t] \in Writing,
           Elsewhere(Doc(t)), Alone(t), UNCHANGED <<req, procs>>, BaseType',
           Writer(t, Doc(t))'
    PROVE  AtomicInv'
  <1> USE DEF AtomicInv
  <1>1. \A u \in Threads \ {t} : pc'[u] \in Writing <=> pc[u] \in Writing
    BY DEF Alone
  <1>2. WriterInv'
    <2> SUFFICES ASSUME NEW u \in Threads \ {t}, pc[u] \in Writing
                 PROVE  Writer(u, Doc(u))'
      BY <1>1 DEF WriterInv
    <2>1. Doc(u) \in Docs /\ Doc(u) # Doc(t)
      BY WritersDiffer, Locals DEF Writing, Trying, Undoing
    <2>2. Writer(u, Doc(u))
      BY DEF WriterInv
    <2> QED BY <2>1, <2>2 DEF Writer, Elsewhere, Alone, Doc
  <1>3. QuietInv'
    <2> SUFFICES ASSUME NEW d \in Docs, ~Busy(d)' PROVE Quiet(d)'
      BY DEF QuietInv
    <2>1. d # Doc(t) /\ ~Busy(d)
      BY <1>1 DEF Busy, Doc
    <2>2. Quiet(d)
      BY <2>1 DEF QuietInv
    <2> QED BY <2>1, <2>2 DEF Quiet, Elsewhere, procs
  <1>4. RecoverInv'
    BY DEF RecoverInv, Recovers, Scanning, procs
  <1> QED BY <1>2, <1>3, <1>4

(* A writer that ends leaves a quiet document behind. *)
LEMMA EndStep ==
    ASSUME TypeOK, LockInv, AtomicInv, \A p \in Procs : phase[p] = "up",
           NEW t \in Threads, pc[t] \in Writing, pc'[t] \notin Writing,
           Elsewhere(Doc(t)), Alone(t), UNCHANGED procs, BaseType',
           NEW x \in Docs, x = Doc(t), Quiet(x)'
    PROVE  AtomicInv'
  <1> USE DEF AtomicInv
  <1>1. \A u \in Threads \ {t} : pc'[u] \in Writing <=> pc[u] \in Writing
    BY DEF Alone
  <1>2. WriterInv'
    <2> SUFFICES ASSUME NEW u \in Threads \ {t}, pc[u] \in Writing
                 PROVE  Writer(u, Doc(u))'
      BY <1>1 DEF WriterInv
    <2>1. Doc(u) \in Docs /\ Doc(u) # Doc(t)
      BY WritersDiffer, Locals DEF Writing, Trying, Undoing
    <2>2. Writer(u, Doc(u))
      BY DEF WriterInv
    <2> QED BY <2>1, <2>2 DEF Writer, Elsewhere, Alone, Doc
  <1>3. QuietInv'
    <2> SUFFICES ASSUME NEW d \in Docs, ~Busy(d)' PROVE Quiet(d)'
      BY DEF QuietInv
    <2>1. CASE d = x
      BY <2>1
    <2>2. CASE d # x
      <3>1. ~Busy(d)
        BY <1>1, <2>2 DEF Busy, Doc, Alone
      <3>2. Quiet(d)
        BY <3>1 DEF QuietInv
      <3> QED BY <2>2, <3>2 DEF Quiet, Elsewhere, procs
    <2> QED BY <2>1, <2>2
  <1>4. RecoverInv'
    BY DEF RecoverInv, Recovers, Scanning, procs
  <1> QED BY <1>2, <1>3, <1>4

(* A step that leaves the directory and the writers alone. *)
LEMMA IdleStep ==
    ASSUME AtomicInv, UNCHANGED <<disk, base, procs>>,
           \A u \in Threads : /\ pc'[u] \in Writing <=> pc[u] \in Writing
                              /\ pc[u] \in Writing =>
                                    /\ pc'[u] = pc[u] /\ req'[u] = req[u]
                                    /\ prev'[u] = prev[u] /\ entries'[u] = entries[u]
    PROVE  AtomicInv'
  <1> USE DEF AtomicInv, disk, procs
  <1>1. WriterInv'
    BY DEF WriterInv, Writer, Doc
  <1>2. QuietInv'
    <2> SUFFICES ASSUME NEW d \in Docs, ~Busy(d)' PROVE Quiet(d)'
      BY DEF QuietInv
    <2>1. ~Busy(d)
      BY DEF Busy, Doc
    <2> QED BY <2>1 DEF QuietInv, Quiet, Pending
  <1>3. RecoverInv'
    BY DEF RecoverInv, Recovers, Pending, Existing
  <1> QED BY <1>1, <1>2, <1>3 DEF BaseType

(* What the label of a writer says, after each step inside the lock. *)
LEMMA WriterMoves ==
    ASSUME TypeOK, AtomicInv, NEW t \in Threads, pc[t] \in Writing,
           \/ Intent(t) \/ AppendHistory(t) \/ OpenDoc(t) \/ WriteDoc(t) \/ MarkDoc(t)
           \/ OpenSnapshot(t) \/ WriteSnapshot(t) \/ WriteDiff(t) \/ Reindex(t)
           \/ UndoDoc(t) \/ UndoWrite(t) \/ UndoHistory(t) \/ UndoSnapshot(t)
           \/ UndoSnapWrite(t) \/ UndoDiff(t) \/ UndoIndex(t) \/ Fail(t)
    PROVE  /\ Writer(t, Doc(t))' /\ pc'[t] \in Writing /\ UNCHANGED <<req, procs, base>>
  <1> DEFINE d == Doc(t)
             c == New(t)
             q == req[t]
             B == base[d]
  <1>1. /\ d \in Docs /\ c \in Content /\ c.type \in Types /\ q.new = c /\ q.doc = d
        /\ t \in Threads
    BY Locals DEF Content, New, Doc, Writing, Trying, Undoing
  <1>2. BaseOK(B) /\ B \in Captures /\ Usable(B.files, B.snap, B.index)
    BY DEF AtomicInv, WriterInv, Writer, BaseOK
  <1>3. /\ CaptureAt(c, B, prev[t]) /\ FileAtLabel(pc[t], c, B, files[d])
        /\ HistoryAt(pc[t], c, B, entries[t], history[d]) /\ SnapAt(pc[t], c, B, snaps[d])
        /\ DiffAt(pc[t], q.intent, B, diffs[d]) /\ RowAt(pc[t], c, B, index[d])
        /\ JournalAt(pc[t], B, journals[d])
    BY <1>1 DEF AtomicInv, WriterInv, Writer, WriterAt
  <1>4. prev[t].doc = B.files[c.type] /\ prev[t].size = Len(B.history)
        /\ prev[t].snap = B.snap /\ prev[t].diff = B.diff /\ OnlyType(B.files, c.type)
    BY <1>3 DEF CaptureAt
  <1>5. B.files \in [Types -> Document] /\ B.history \in Seq(Entry \cup {Torn})
    BY <1>2 DEF Captures
  <1>6. ASSUME pc'[t] \in Writing, UNCHANGED <<req, prev, procs, base>>,
               FileAtLabel(pc'[t], c, B, files'[d]),
               HistoryAt(pc'[t], c, B, entries'[t], history'[d]),
               SnapAt(pc'[t], c, B, snaps'[d]),
               DiffAt(pc'[t], q.intent, B, diffs'[d]),
               RowAt(pc'[t], c, B, index'[d]), JournalAt(pc'[t], B, journals'[d])
        PROVE  /\ Writer(t, Doc(t))' /\ pc'[t] \in Writing /\ UNCHANGED <<req, procs, base>>
    BY <1>1, <1>2, <1>3, <1>6 DEF Writer, WriterAt, Doc
  <1>7. CASE Intent(t)
    <2>1. /\ pc[t] = "intent" /\ pc'[t] = "append"
          /\ UNCHANGED <<req, prev, procs, base>> /\ files'[d] = files[d]
          /\ history'[d] = history[d] /\ snaps'[d] = snaps[d] /\ diffs'[d] = diffs[d]
          /\ index'[d] = index[d]
          /\ journals'[d] = [size |-> prev[t].size, steps |-> {"history"}]
          /\ entries'[t] = BuildEntries(d, c)
      BY <1>1, <1>7 DEF Intent, WriteJournal, Inside, Goto, ghosts, disk, TypeOK, DiskOK,
         ThreadsOK
    <2>2. files[d] = B.files
      <3>1. \A z \in Types : files[d][z] = B.files[z]
        BY <1>1, <1>3, <2>1 DEF FileAtLabel, FileOld
      <3> QED BY <1>1, <1>5, <3>1 DEF TypeOK, DiskOK
    <2>3. snaps[d] = B.snap /\ index[d] = B.index
      BY <1>3, <2>1 DEF SnapAt, SnapOld, RowAt
    <2>4. BuildEntries(d, c) = DeltaOf(B.files, c)
      BY <1>1, <1>2, <1>4, <2>2, <2>3, BuildsDelta
    <2>10. FileAtLabel(pc'[t], c, B, files'[d])
      <3> HIDE DEF d, c, q, B
      <3> QED BY <1>3, <1>4, <1>5, <2>1, <2>4 DEF FileAtLabel, FileOld, FileNew
    <2>11. HistoryAt(pc'[t], c, B, entries'[t], history'[d])
      <3> HIDE DEF d, c, q, B
      <3> QED BY <1>3, <1>4, <1>5, <2>1, <2>4 DEF HistoryAt, HistoryOld, HistoryNew, FileNew
    <2>12. SnapAt(pc'[t], c, B, snaps'[d])
      <3> HIDE DEF d, c, q, B
      <3> QED BY <1>3, <1>4, <1>5, <2>1, <2>4 DEF SnapAt, SnapOld, SnapNew
    <2>13. DiffAt(pc'[t], q.intent, B, diffs'[d])
      <3> HIDE DEF d, c, q, B
      <3> QED BY <1>3, <1>4, <1>5, <2>1, <2>4 DEF DiffAt
    <2>14. RowAt(pc'[t], c, B, index'[d])
      <3> HIDE DEF d, c, q, B
      <3> QED BY <1>3, <1>4, <1>5, <2>1, <2>4 DEF RowAt
    <2>15. JournalAt(pc'[t], B, journals'[d])
      <3> DEFINE j == [size |-> Len(B.history), steps |-> {"history"}]
      <3>1. j \in Journal /\ j.size = Len(B.history) /\ j.steps = {"history"}
        BY <1>5 DEF Journal
      <3>2. journals'[d] = j
        BY <1>4, <2>1
      <3>3. j # None /\ Orphan(j)
        BY <3>1, ConstantsAreSane DEF Orphan
      <3> HIDE DEF j, d, c, q, B
      <3> QED BY <2>1, <3>1, <3>2, <3>3 DEF JournalAt, FileNew
    <2> QED BY <1>6, <2>1, <2>10, <2>11, <2>12, <2>13, <2>14, <2>15 DEF Writing, Trying, Undoing
  <1>8. CASE AppendHistory(t)
    <2>1. /\ pc[t] = "append" /\ pc'[t] = "open"
          /\ UNCHANGED <<req, prev, procs, base>> /\ files'[d] = files[d]
          /\ snaps'[d] = snaps[d] /\ diffs'[d] = diffs[d] /\ index'[d] = index[d]
          /\ journals'[d] = journals[d] /\ entries'[t] = entries[t]
          /\ history'[d] = history[d] \o entries[t]
      BY <1>1, <1>8 DEF AppendHistory, Inside, Goto, ghosts, disk, TypeOK, DiskOK, ThreadsOK
    <2>2. DeltaOf(B.files, c) \in Seq(Entry)
      BY <1>1, <1>2, <1>5, DeltaType DEF Usable
    <2>10. FileAtLabel(pc'[t], c, B, files'[d])
      <3> HIDE DEF d, c, q, B
      <3> QED BY <1>3, <1>4, <1>5, <2>1, <2>2 DEF FileAtLabel, FileOld, FileNew
    <2>11. HistoryAt(pc'[t], c, B, entries'[t], history'[d])
      <3> HIDE DEF d, c, q, B
      <3> QED BY <1>3, <1>4, <1>5, <2>1, <2>2 DEF HistoryAt, HistoryOld, HistoryNew, FileNew
    <2>12. SnapAt(pc'[t], c, B, snaps'[d])
      <3> HIDE DEF d, c, q, B
      <3> QED BY <1>3, <1>4, <1>5, <2>1, <2>2 DEF SnapAt, SnapOld, SnapNew
    <2>13. DiffAt(pc'[t], q.intent, B, diffs'[d])
      <3> HIDE DEF d, c, q, B
      <3> QED BY <1>3, <1>4, <1>5, <2>1, <2>2 DEF DiffAt
    <2>14. RowAt(pc'[t], c, B, index'[d])
      <3> HIDE DEF d, c, q, B
      <3> QED BY <1>3, <1>4, <1>5, <2>1, <2>2 DEF RowAt
    <2>15. JournalAt(pc'[t], B, journals'[d])
      <3> HIDE DEF d, c, q, B
      <3> QED BY <1>3, <1>4, <1>5, <2>1, <2>2 DEF JournalAt, FileNew
    <2> QED BY <1>6, <2>1, <2>10, <2>11, <2>12, <2>13, <2>14, <2>15 DEF Writing, Trying, Undoing
  <1>9. CASE OpenDoc(t)
    <2>1. /\ pc[t] = "open" /\ pc'[t] = "write"
          /\ UNCHANGED <<req, prev, procs, base>> /\ history'[d] = history[d]
          /\ snaps'[d] = snaps[d] /\ diffs'[d] = diffs[d] /\ index'[d] = index[d]
          /\ journals'[d] = journals[d] /\ entries'[t] = entries[t]
          /\ \A z \in Types \ {c.type} : files'[d][z] = files[d][z]
      BY <1>1, <1>9 DEF OpenDoc, WriteFile, Inside, Goto, ghosts, disk, TypeOK, DiskOK,
         ThreadsOK
    <2>10. FileAtLabel(pc'[t], c, B, files'[d])
      <3> HIDE DEF d, c, q, B
      <3> QED BY <1>3, <1>4, <1>5, <2>1 DEF FileAtLabel, FileOld, FileNew
    <2>11. HistoryAt(pc'[t], c, B, entries'[t], history'[d])
      <3> HIDE DEF d, c, q, B
      <3> QED BY <1>3, <1>4, <1>5, <2>1 DEF HistoryAt, HistoryOld, HistoryNew, FileNew
    <2>12. SnapAt(pc'[t], c, B, snaps'[d])
      <3> HIDE DEF d, c, q, B
      <3> QED BY <1>3, <1>4, <1>5, <2>1 DEF SnapAt, SnapOld, SnapNew
    <2>13. DiffAt(pc'[t], q.intent, B, diffs'[d])
      <3> HIDE DEF d, c, q, B
      <3> QED BY <1>3, <1>4, <1>5, <2>1 DEF DiffAt
    <2>14. RowAt(pc'[t], c, B, index'[d])
      <3> HIDE DEF d, c, q, B
      <3> QED BY <1>3, <1>4, <1>5, <2>1 DEF RowAt
    <2>15. JournalAt(pc'[t], B, journals'[d])
      <3> HIDE DEF d, c, q, B
      <3> QED BY <1>3, <1>4, <1>5, <2>1 DEF JournalAt, FileNew
    <2> QED BY <1>6, <2>1, <2>10, <2>11, <2>12, <2>13, <2>14, <2>15 DEF Writing, Trying, Undoing
  <1>10. CASE WriteDoc(t)
    <2>1. /\ pc[t] = "write" /\ pc'[t] = "mark"
          /\ UNCHANGED <<req, prev, procs, base>> /\ history'[d] = history[d]
          /\ snaps'[d] = snaps[d] /\ diffs'[d] = diffs[d] /\ index'[d] = index[d]
          /\ journals'[d] = journals[d] /\ entries'[t] = entries[t]
          /\ \A z \in Types \ {c.type} : files'[d][z] = files[d][z]
          /\ files'[d][c.type] = c
      BY <1>1, <1>10 DEF WriteDoc, WriteFile, Inside, Goto, ghosts, disk, TypeOK, DiskOK,
         ThreadsOK
    <2>10. FileAtLabel(pc'[t], c, B, files'[d])
      <3> HIDE DEF d, c, q, B
      <3> QED BY <1>3, <1>4, <1>5, <2>1 DEF FileAtLabel, FileOld, FileNew
    <2>11. HistoryAt(pc'[t], c, B, entries'[t], history'[d])
      <3> HIDE DEF d, c, q, B
      <3> QED BY <1>3, <1>4, <1>5, <2>1 DEF HistoryAt, HistoryOld, HistoryNew, FileNew
    <2>12. SnapAt(pc'[t], c, B, snaps'[d])
      <3> HIDE DEF d, c, q, B
      <3> QED BY <1>3, <1>4, <1>5, <2>1 DEF SnapAt, SnapOld, SnapNew
    <2>13. DiffAt(pc'[t], q.intent, B, diffs'[d])
      <3> HIDE DEF d, c, q, B
      <3> QED BY <1>3, <1>4, <1>5, <2>1 DEF DiffAt
    <2>14. RowAt(pc'[t], c, B, index'[d])
      <3> HIDE DEF d, c, q, B
      <3> QED BY <1>3, <1>4, <1>5, <2>1 DEF RowAt
    <2>15. JournalAt(pc'[t], B, journals'[d])
      <3> HIDE DEF d, c, q, B
      <3> QED BY <1>3, <1>4, <1>5, <2>1 DEF JournalAt, FileNew
    <2> QED BY <1>6, <2>1, <2>10, <2>11, <2>12, <2>13, <2>14, <2>15 DEF Writing, Trying, Undoing
  <1>11. CASE MarkDoc(t)
    <2>1. /\ pc[t] = "mark" /\ pc'[t] = "snap" /\ UNCHANGED <<req, prev, procs, base>>
          /\ files'[d] = files[d] /\ history'[d] = history[d] /\ snaps'[d] = snaps[d]
          /\ diffs'[d] = diffs[d] /\ index'[d] = index[d] /\ entries'[t] = entries[t]
          /\ journals'[d] = [size |-> prev[t].size, steps |-> {"history", "doc"}]
      BY <1>1, <1>11 DEF MarkDoc, WriteJournal, Inside, Goto, ghosts, disk, TypeOK,
         DiskOK, ThreadsOK
    <2>10. FileAtLabel(pc'[t], c, B, files'[d])
      <3> HIDE DEF d, c, q, B
      <3> QED BY <1>3, <1>4, <1>5, <2>1 DEF FileAtLabel, FileOld, FileNew
    <2>11. HistoryAt(pc'[t], c, B, entries'[t], history'[d])
      <3> HIDE DEF d, c, q, B
      <3> QED BY <1>3, <1>4, <1>5, <2>1 DEF HistoryAt, HistoryOld, HistoryNew, FileNew
    <2>12. SnapAt(pc'[t], c, B, snaps'[d])
      <3> HIDE DEF d, c, q, B
      <3> QED BY <1>3, <1>4, <1>5, <2>1 DEF SnapAt, SnapOld, SnapNew
    <2>13. DiffAt(pc'[t], q.intent, B, diffs'[d])
      <3> HIDE DEF d, c, q, B
      <3> QED BY <1>3, <1>4, <1>5, <2>1 DEF DiffAt
    <2>14. RowAt(pc'[t], c, B, index'[d])
      <3> HIDE DEF d, c, q, B
      <3> QED BY <1>3, <1>4, <1>5, <2>1 DEF RowAt
    <2>15. JournalAt(pc'[t], B, journals'[d])
      <3> DEFINE j == [size |-> Len(B.history), steps |-> {"history", "doc"}]
      <3>1. j \in Journal /\ j.size = Len(B.history) /\ j.steps = {"history", "doc"}
        BY <1>5 DEF Journal
      <3>2. journals'[d] = j
        BY <1>4, <2>1
      <3>3. j # None /\ ~Orphan(j)
        BY <3>1, ConstantsAreSane DEF Orphan
      <3> HIDE DEF j, d, c, q, B
      <3> QED BY <2>1, <3>1, <3>2, <3>3 DEF JournalAt, FileNew
    <2> QED BY <1>6, <2>1, <2>10, <2>11, <2>12, <2>13, <2>14, <2>15 DEF Writing, Trying, Undoing
  <1>12. CASE OpenSnapshot(t)
    <2>1. /\ pc[t] = "snap" /\ pc'[t] = "snapWrite"
          /\ UNCHANGED <<req, prev, procs, base>> /\ files'[d] = files[d]
          /\ history'[d] = history[d] /\ diffs'[d] = diffs[d] /\ index'[d] = index[d]
          /\ journals'[d] = journals[d] /\ entries'[t] = entries[t]
      BY <1>1, <1>12 DEF OpenSnapshot, Inside, Goto, ghosts, disk, TypeOK, DiskOK, ThreadsOK
    <2>10. FileAtLabel(pc'[t], c, B, files'[d])
      <3> HIDE DEF d, c, q, B
      <3> QED BY <1>3, <1>4, <1>5, <2>1 DEF FileAtLabel, FileOld, FileNew
    <2>11. HistoryAt(pc'[t], c, B, entries'[t], history'[d])
      <3> HIDE DEF d, c, q, B
      <3> QED BY <1>3, <1>4, <1>5, <2>1 DEF HistoryAt, HistoryOld, HistoryNew, FileNew
    <2>12. SnapAt(pc'[t], c, B, snaps'[d])
      <3> HIDE DEF d, c, q, B
      <3> QED BY <1>3, <1>4, <1>5, <2>1 DEF SnapAt, SnapOld, SnapNew
    <2>13. DiffAt(pc'[t], q.intent, B, diffs'[d])
      <3> HIDE DEF d, c, q, B
      <3> QED BY <1>3, <1>4, <1>5, <2>1 DEF DiffAt
    <2>14. RowAt(pc'[t], c, B, index'[d])
      <3> HIDE DEF d, c, q, B
      <3> QED BY <1>3, <1>4, <1>5, <2>1 DEF RowAt
    <2>15. JournalAt(pc'[t], B, journals'[d])
      <3> HIDE DEF d, c, q, B
      <3> QED BY <1>3, <1>4, <1>5, <2>1 DEF JournalAt, FileNew
    <2> QED BY <1>6, <2>1, <2>10, <2>11, <2>12, <2>13, <2>14, <2>15 DEF Writing, Trying, Undoing
  <1>13. CASE WriteSnapshot(t)
    <2>1. /\ pc[t] = "snapWrite" /\ pc'[t] \in {"index", "diff"}
          /\ UNCHANGED <<req, prev, procs, base>> /\ files'[d] = files[d]
          /\ history'[d] = history[d] /\ diffs'[d] = diffs[d] /\ index'[d] = index[d]
          /\ entries'[t] = entries[t] /\ snaps'[d] = c.body
          /\ pc'[t] = "diff" => q.intent # None
          /\ journals'[d] = [size |-> prev[t].size, steps |-> {"history", "doc"}]
      BY <1>1, <1>13 DEF WriteSnapshot, WriteJournal, Inside, Goto, ghosts, disk, TypeOK,
         DiskOK, ThreadsOK
    <2>10. FileAtLabel(pc'[t], c, B, files'[d])
      <3> HIDE DEF d, c, q, B
      <3> QED BY <1>3, <1>4, <1>5, <2>1 DEF FileAtLabel, FileOld, FileNew
    <2>11. HistoryAt(pc'[t], c, B, entries'[t], history'[d])
      <3> HIDE DEF d, c, q, B
      <3> QED BY <1>3, <1>4, <1>5, <2>1 DEF HistoryAt, HistoryOld, HistoryNew, FileNew
    <2>12. SnapAt(pc'[t], c, B, snaps'[d])
      <3> HIDE DEF d, c, q, B
      <3> QED BY <1>3, <1>4, <1>5, <2>1 DEF SnapAt, SnapOld, SnapNew
    <2>13. DiffAt(pc'[t], q.intent, B, diffs'[d])
      <3> HIDE DEF d, c, q, B
      <3> QED BY <1>3, <1>4, <1>5, <2>1 DEF DiffAt
    <2>14. RowAt(pc'[t], c, B, index'[d])
      <3> HIDE DEF d, c, q, B
      <3> QED BY <1>3, <1>4, <1>5, <2>1 DEF RowAt
    <2>15. JournalAt(pc'[t], B, journals'[d])
      <3> DEFINE j == [size |-> Len(B.history), steps |-> {"history", "doc"}]
      <3>1. j \in Journal /\ j.size = Len(B.history) /\ j.steps = {"history", "doc"}
        BY <1>5 DEF Journal
      <3>2. journals'[d] = j
        BY <1>4, <2>1
      <3>3. j # None /\ ~Orphan(j)
        BY <3>1, ConstantsAreSane DEF Orphan
      <3> HIDE DEF j, d, c, q, B
      <3> QED BY <2>1, <3>1, <3>2, <3>3 DEF JournalAt, FileNew
    <2> QED BY <1>6, <2>1, <2>10, <2>11, <2>12, <2>13, <2>14, <2>15 DEF Writing, Trying, Undoing
  <1>14. CASE WriteDiff(t)
    <2>1. /\ pc[t] = "diff" /\ pc'[t] = "index"
          /\ UNCHANGED <<req, prev, procs, base>> /\ files'[d] = files[d]
          /\ history'[d] = history[d] /\ snaps'[d] = snaps[d] /\ index'[d] = index[d]
          /\ entries'[t] = entries[t]
          /\ journals'[d] = [size |-> prev[t].size, steps |-> {"history", "doc"}]
      BY <1>1, <1>14 DEF WriteDiff, WriteJournal, Inside, Goto, ghosts, disk, TypeOK,
         DiskOK, ThreadsOK
    <2>10. FileAtLabel(pc'[t], c, B, files'[d])
      <3> HIDE DEF d, c, q, B
      <3> QED BY <1>3, <1>4, <1>5, <2>1 DEF FileAtLabel, FileOld, FileNew
    <2>11. HistoryAt(pc'[t], c, B, entries'[t], history'[d])
      <3> HIDE DEF d, c, q, B
      <3> QED BY <1>3, <1>4, <1>5, <2>1 DEF HistoryAt, HistoryOld, HistoryNew, FileNew
    <2>12. SnapAt(pc'[t], c, B, snaps'[d])
      <3> HIDE DEF d, c, q, B
      <3> QED BY <1>3, <1>4, <1>5, <2>1 DEF SnapAt, SnapOld, SnapNew
    <2>13. DiffAt(pc'[t], q.intent, B, diffs'[d])
      <3> HIDE DEF d, c, q, B
      <3> QED BY <1>3, <1>4, <1>5, <2>1 DEF DiffAt
    <2>14. RowAt(pc'[t], c, B, index'[d])
      <3> HIDE DEF d, c, q, B
      <3> QED BY <1>3, <1>4, <1>5, <2>1 DEF RowAt
    <2>15. JournalAt(pc'[t], B, journals'[d])
      <3> DEFINE j == [size |-> Len(B.history), steps |-> {"history", "doc"}]
      <3>1. j \in Journal /\ j.size = Len(B.history) /\ j.steps = {"history", "doc"}
        BY <1>5 DEF Journal
      <3>2. journals'[d] = j
        BY <1>4, <2>1
      <3>3. j # None /\ ~Orphan(j)
        BY <3>1, ConstantsAreSane DEF Orphan
      <3> HIDE DEF j, d, c, q, B
      <3> QED BY <2>1, <3>1, <3>2, <3>3 DEF JournalAt, FileNew
    <2> QED BY <1>6, <2>1, <2>10, <2>11, <2>12, <2>13, <2>14, <2>15 DEF Writing, Trying, Undoing
  <1>15. CASE Reindex(t)
    <2>1. /\ pc[t] = "index" /\ pc'[t] = "commit"
          /\ UNCHANGED <<req, prev, procs, base>> /\ files'[d] = files[d]
          /\ history'[d] = history[d] /\ snaps'[d] = snaps[d] /\ diffs'[d] = diffs[d]
          /\ entries'[t] = entries[t] /\ index'[d] = c
          /\ journals'[d] = [size |-> prev[t].size, steps |-> {"history", "doc"}]
      BY <1>1, <1>15 DEF Reindex, WriteJournal, Inside, Goto, ghosts, disk, TypeOK,
         DiskOK, ThreadsOK
    <2>10. FileAtLabel(pc'[t], c, B, files'[d])
      <3> HIDE DEF d, c, q, B
      <3> QED BY <1>3, <1>4, <1>5, <2>1 DEF FileAtLabel, FileOld, FileNew
    <2>11. HistoryAt(pc'[t], c, B, entries'[t], history'[d])
      <3> HIDE DEF d, c, q, B
      <3> QED BY <1>3, <1>4, <1>5, <2>1 DEF HistoryAt, HistoryOld, HistoryNew, FileNew
    <2>12. SnapAt(pc'[t], c, B, snaps'[d])
      <3> HIDE DEF d, c, q, B
      <3> QED BY <1>3, <1>4, <1>5, <2>1 DEF SnapAt, SnapOld, SnapNew
    <2>13. DiffAt(pc'[t], q.intent, B, diffs'[d])
      <3> HIDE DEF d, c, q, B
      <3> QED BY <1>3, <1>4, <1>5, <2>1 DEF DiffAt
    <2>14. RowAt(pc'[t], c, B, index'[d])
      <3> HIDE DEF d, c, q, B
      <3> QED BY <1>3, <1>4, <1>5, <2>1 DEF RowAt
    <2>15. JournalAt(pc'[t], B, journals'[d])
      <3> DEFINE j == [size |-> Len(B.history), steps |-> {"history", "doc"}]
      <3>1. j \in Journal /\ j.size = Len(B.history) /\ j.steps = {"history", "doc"}
        BY <1>5 DEF Journal
      <3>2. journals'[d] = j
        BY <1>4, <2>1
      <3>3. j # None /\ ~Orphan(j)
        BY <3>1, ConstantsAreSane DEF Orphan
      <3> HIDE DEF j, d, c, q, B
      <3> QED BY <2>1, <3>1, <3>2, <3>3 DEF JournalAt, FileNew
    <2> QED BY <1>6, <2>1, <2>10, <2>11, <2>12, <2>13, <2>14, <2>15 DEF Writing, Trying, Undoing
  <1>16. CASE UndoDoc(t)
    <2>1. /\ pc[t] = "undoDoc" /\ pc'[t] \in {"undoHistory", "undoWrite"}
          /\ UNCHANGED <<req, prev, procs, base>> /\ history'[d] = history[d]
          /\ snaps'[d] = snaps[d] /\ diffs'[d] = diffs[d] /\ index'[d] = index[d]
          /\ journals'[d] = journals[d] /\ entries'[t] = entries[t]
          /\ \A z \in Types \ {c.type} : files'[d][z] = files[d][z]
          /\ pc'[t] = "undoHistory" => files'[d][c.type] = prev[t].doc
      BY <1>1, <1>16 DEF UndoDoc, WriteFile, Inside, Goto, ghosts, disk, TypeOK, DiskOK,
         ThreadsOK
    <2>10. FileAtLabel(pc'[t], c, B, files'[d])
      <3> HIDE DEF d, c, q, B
      <3> QED BY <1>3, <1>4, <1>5, <2>1 DEF FileAtLabel, FileOld, FileNew
    <2>11. HistoryAt(pc'[t], c, B, entries'[t], history'[d])
      <3> HIDE DEF d, c, q, B
      <3> QED BY <1>3, <1>4, <1>5, <2>1 DEF HistoryAt, HistoryOld, HistoryNew, FileNew
    <2>12. SnapAt(pc'[t], c, B, snaps'[d])
      <3> HIDE DEF d, c, q, B
      <3> QED BY <1>3, <1>4, <1>5, <2>1 DEF SnapAt, SnapOld, SnapNew
    <2>13. DiffAt(pc'[t], q.intent, B, diffs'[d])
      <3> HIDE DEF d, c, q, B
      <3> QED BY <1>3, <1>4, <1>5, <2>1 DEF DiffAt
    <2>14. RowAt(pc'[t], c, B, index'[d])
      <3> HIDE DEF d, c, q, B
      <3> QED BY <1>3, <1>4, <1>5, <2>1 DEF RowAt
    <2>15. JournalAt(pc'[t], B, journals'[d])
      <3> HIDE DEF d, c, q, B
      <3> QED BY <1>3, <1>4, <1>5, <2>1 DEF JournalAt, FileNew
    <2> QED BY <1>6, <2>1, <2>10, <2>11, <2>12, <2>13, <2>14, <2>15 DEF Writing, Trying, Undoing
  <1>17. CASE UndoWrite(t)
    <2>1. /\ pc[t] = "undoWrite" /\ pc'[t] = "undoHistory"
          /\ UNCHANGED <<req, prev, procs, base>> /\ history'[d] = history[d]
          /\ snaps'[d] = snaps[d] /\ diffs'[d] = diffs[d] /\ index'[d] = index[d]
          /\ journals'[d] = journals[d] /\ entries'[t] = entries[t]
          /\ \A z \in Types \ {c.type} : files'[d][z] = files[d][z]
          /\ files'[d][c.type] = prev[t].doc
      BY <1>1, <1>17 DEF UndoWrite, WriteFile, Inside, Goto, ghosts, disk, TypeOK,
         DiskOK, ThreadsOK
    <2>10. FileAtLabel(pc'[t], c, B, files'[d])
      <3> HIDE DEF d, c, q, B
      <3> QED BY <1>3, <1>4, <1>5, <2>1 DEF FileAtLabel, FileOld, FileNew
    <2>11. HistoryAt(pc'[t], c, B, entries'[t], history'[d])
      <3> HIDE DEF d, c, q, B
      <3> QED BY <1>3, <1>4, <1>5, <2>1 DEF HistoryAt, HistoryOld, HistoryNew, FileNew
    <2>12. SnapAt(pc'[t], c, B, snaps'[d])
      <3> HIDE DEF d, c, q, B
      <3> QED BY <1>3, <1>4, <1>5, <2>1 DEF SnapAt, SnapOld, SnapNew
    <2>13. DiffAt(pc'[t], q.intent, B, diffs'[d])
      <3> HIDE DEF d, c, q, B
      <3> QED BY <1>3, <1>4, <1>5, <2>1 DEF DiffAt
    <2>14. RowAt(pc'[t], c, B, index'[d])
      <3> HIDE DEF d, c, q, B
      <3> QED BY <1>3, <1>4, <1>5, <2>1 DEF RowAt
    <2>15. JournalAt(pc'[t], B, journals'[d])
      <3> HIDE DEF d, c, q, B
      <3> QED BY <1>3, <1>4, <1>5, <2>1 DEF JournalAt, FileNew
    <2> QED BY <1>6, <2>1, <2>10, <2>11, <2>12, <2>13, <2>14, <2>15 DEF Writing, Trying, Undoing
  <1>18. CASE UndoHistory(t)
    <2>1. /\ pc[t] = "undoHistory" /\ pc'[t] = "undoSnap"
          /\ UNCHANGED <<req, prev, procs, base>> /\ files'[d] = files[d]
          /\ snaps'[d] = snaps[d] /\ diffs'[d] = diffs[d] /\ index'[d] = index[d]
          /\ journals'[d] = journals[d] /\ entries'[t] = entries[t]
          /\ history'[d] = IF history[d] = <<>> THEN history[d]
                            ELSE Truncate(history[d], prev[t].size)
      BY <1>1, <1>18 DEF UndoHistory, Inside, Goto, ghosts, disk, TypeOK, DiskOK, ThreadsOK
    <2>2. PICK e \in Seq(Entry) : history[d] = B.history \o e
      BY <1>3 DEF HistoryAt
    <2>3. Truncate(history[d], prev[t].size) = B.history
      BY <1>4, <1>5, <2>2, TruncateBack
    <2>4. history[d] = <<>> => B.history = <<>>
      <3> DEFINE h == B.history
      <3>1. h \in Seq(Entry \cup {Torn}) /\ e \in Seq(Entry)
        BY <1>5, <2>2
      <3> HIDE DEF h
      <3>2. Len(h \o e) = Len(h) + Len(e) /\ Len(h) \in Nat /\ Len(e) \in Nat
        BY <3>1
      <3>3. h \o e = <<>> => Len(h) = 0
        BY <3>2
      <3>4. Len(h) = 0 => h = <<>>
        BY <3>1
      <3> QED BY <2>2, <3>3, <3>4 DEF h
    <2>5. history'[d] = B.history /\ B.history = B.history \o <<>> /\ <<>> \in Seq(Entry)
      BY <1>5, <2>1, <2>3, <2>4
    <2>10. FileAtLabel(pc'[t], c, B, files'[d])
      <3> HIDE DEF d, c, q, B
      <3> QED BY <1>3, <1>4, <1>5, <2>1, <2>5 DEF FileAtLabel, FileOld, FileNew
    <2>11. HistoryAt(pc'[t], c, B, entries'[t], history'[d])
      <3> HIDE DEF d, c, q, B
      <3> QED BY <1>3, <1>4, <1>5, <2>1, <2>5 DEF HistoryAt, HistoryOld, HistoryNew, FileNew
    <2>12. SnapAt(pc'[t], c, B, snaps'[d])
      <3> HIDE DEF d, c, q, B
      <3> QED BY <1>3, <1>4, <1>5, <2>1, <2>5 DEF SnapAt, SnapOld, SnapNew
    <2>13. DiffAt(pc'[t], q.intent, B, diffs'[d])
      <3> HIDE DEF d, c, q, B
      <3> QED BY <1>3, <1>4, <1>5, <2>1, <2>5 DEF DiffAt
    <2>14. RowAt(pc'[t], c, B, index'[d])
      <3> HIDE DEF d, c, q, B
      <3> QED BY <1>3, <1>4, <1>5, <2>1, <2>5 DEF RowAt
    <2>15. JournalAt(pc'[t], B, journals'[d])
      <3> HIDE DEF d, c, q, B
      <3> QED BY <1>3, <1>4, <1>5, <2>1, <2>5 DEF JournalAt, FileNew
    <2> QED BY <1>6, <2>1, <2>10, <2>11, <2>12, <2>13, <2>14, <2>15 DEF Writing, Trying, Undoing
  <1>19. CASE UndoSnapshot(t)
    <2>1. /\ pc[t] = "undoSnap" /\ pc'[t] \in {"undoDiff", "undoSnapWrite"}
          /\ UNCHANGED <<req, prev, procs, base>> /\ files'[d] = files[d]
          /\ history'[d] = history[d] /\ diffs'[d] = diffs[d] /\ index'[d] = index[d]
          /\ journals'[d] = journals[d] /\ entries'[t] = entries[t]
          /\ pc'[t] = "undoDiff" => snaps'[d] = None /\ prev[t].snap = None
          /\ pc'[t] = "undoSnapWrite" => prev[t].snap # None
      BY <1>1, <1>19 DEF UndoSnapshot, Inside, Goto, ghosts, disk, TypeOK, DiskOK, ThreadsOK
    <2>10. FileAtLabel(pc'[t], c, B, files'[d])
      <3> HIDE DEF d, c, q, B
      <3> QED BY <1>3, <1>4, <1>5, <2>1 DEF FileAtLabel, FileOld, FileNew
    <2>11. HistoryAt(pc'[t], c, B, entries'[t], history'[d])
      <3> HIDE DEF d, c, q, B
      <3> QED BY <1>3, <1>4, <1>5, <2>1 DEF HistoryAt, HistoryOld, HistoryNew, FileNew
    <2>12. SnapAt(pc'[t], c, B, snaps'[d])
      <3> HIDE DEF d, c, q, B
      <3> QED BY <1>3, <1>4, <1>5, <2>1 DEF SnapAt, SnapOld, SnapNew
    <2>13. DiffAt(pc'[t], q.intent, B, diffs'[d])
      <3> HIDE DEF d, c, q, B
      <3> QED BY <1>3, <1>4, <1>5, <2>1 DEF DiffAt
    <2>14. RowAt(pc'[t], c, B, index'[d])
      <3> HIDE DEF d, c, q, B
      <3> QED BY <1>3, <1>4, <1>5, <2>1 DEF RowAt
    <2>15. JournalAt(pc'[t], B, journals'[d])
      <3> HIDE DEF d, c, q, B
      <3> QED BY <1>3, <1>4, <1>5, <2>1 DEF JournalAt, FileNew
    <2> QED BY <1>6, <2>1, <2>10, <2>11, <2>12, <2>13, <2>14, <2>15 DEF Writing, Trying, Undoing
  <1>20. CASE UndoSnapWrite(t)
    <2>1. /\ pc[t] = "undoSnapWrite" /\ pc'[t] = "undoDiff"
          /\ UNCHANGED <<req, prev, procs, base>> /\ files'[d] = files[d]
          /\ history'[d] = history[d] /\ diffs'[d] = diffs[d] /\ index'[d] = index[d]
          /\ journals'[d] = journals[d] /\ entries'[t] = entries[t]
          /\ snaps'[d] = prev[t].snap
      BY <1>1, <1>20 DEF UndoSnapWrite, Inside, Goto, ghosts, disk, TypeOK, DiskOK, ThreadsOK
    <2>10. FileAtLabel(pc'[t], c, B, files'[d])
      <3> HIDE DEF d, c, q, B
      <3> QED BY <1>3, <1>4, <1>5, <2>1 DEF FileAtLabel, FileOld, FileNew
    <2>11. HistoryAt(pc'[t], c, B, entries'[t], history'[d])
      <3> HIDE DEF d, c, q, B
      <3> QED BY <1>3, <1>4, <1>5, <2>1 DEF HistoryAt, HistoryOld, HistoryNew, FileNew
    <2>12. SnapAt(pc'[t], c, B, snaps'[d])
      <3> HIDE DEF d, c, q, B
      <3> QED BY <1>3, <1>4, <1>5, <2>1 DEF SnapAt, SnapOld, SnapNew
    <2>13. DiffAt(pc'[t], q.intent, B, diffs'[d])
      <3> HIDE DEF d, c, q, B
      <3> QED BY <1>3, <1>4, <1>5, <2>1 DEF DiffAt
    <2>14. RowAt(pc'[t], c, B, index'[d])
      <3> HIDE DEF d, c, q, B
      <3> QED BY <1>3, <1>4, <1>5, <2>1 DEF RowAt
    <2>15. JournalAt(pc'[t], B, journals'[d])
      <3> HIDE DEF d, c, q, B
      <3> QED BY <1>3, <1>4, <1>5, <2>1 DEF JournalAt, FileNew
    <2> QED BY <1>6, <2>1, <2>10, <2>11, <2>12, <2>13, <2>14, <2>15 DEF Writing, Trying, Undoing
  <1>21. CASE UndoDiff(t)
    <2>1. /\ pc[t] = "undoDiff" /\ pc'[t] = "undoIndex"
          /\ UNCHANGED <<req, prev, procs, base>> /\ files'[d] = files[d]
          /\ history'[d] = history[d] /\ snaps'[d] = snaps[d] /\ index'[d] = index[d]
          /\ journals'[d] = journals[d] /\ entries'[t] = entries[t]
          /\ diffs'[d] = IF q.intent = None THEN diffs[d] ELSE prev[t].diff
      BY <1>1, <1>21 DEF UndoDiff, Inside, Goto, ghosts, disk, TypeOK, DiskOK, ThreadsOK
    <2>10. FileAtLabel(pc'[t], c, B, files'[d])
      <3> HIDE DEF d, c, q, B
      <3> QED BY <1>3, <1>4, <1>5, <2>1 DEF FileAtLabel, FileOld, FileNew
    <2>11. HistoryAt(pc'[t], c, B, entries'[t], history'[d])
      <3> HIDE DEF d, c, q, B
      <3> QED BY <1>3, <1>4, <1>5, <2>1 DEF HistoryAt, HistoryOld, HistoryNew, FileNew
    <2>12. SnapAt(pc'[t], c, B, snaps'[d])
      <3> HIDE DEF d, c, q, B
      <3> QED BY <1>3, <1>4, <1>5, <2>1 DEF SnapAt, SnapOld, SnapNew
    <2>13. DiffAt(pc'[t], q.intent, B, diffs'[d])
      <3> HIDE DEF d, c, q, B
      <3> QED BY <1>3, <1>4, <1>5, <2>1 DEF DiffAt
    <2>14. RowAt(pc'[t], c, B, index'[d])
      <3> HIDE DEF d, c, q, B
      <3> QED BY <1>3, <1>4, <1>5, <2>1 DEF RowAt
    <2>15. JournalAt(pc'[t], B, journals'[d])
      <3> HIDE DEF d, c, q, B
      <3> QED BY <1>3, <1>4, <1>5, <2>1 DEF JournalAt, FileNew
    <2> QED BY <1>6, <2>1, <2>10, <2>11, <2>12, <2>13, <2>14, <2>15 DEF Writing, Trying, Undoing
  <1>22. CASE UndoIndex(t)
    <2>1. /\ pc[t] = "undoIndex" /\ pc'[t] = "undone"
          /\ UNCHANGED <<req, prev, procs, base>> /\ files'[d] = files[d]
          /\ history'[d] = history[d] /\ snaps'[d] = snaps[d] /\ diffs'[d] = diffs[d]
          /\ journals'[d] = journals[d] /\ entries'[t] = entries[t]
          /\ index'[d] = prev[t].doc
      BY <1>1, <1>22 DEF UndoIndex, Inside, Goto, ghosts, disk, TypeOK, DiskOK, ThreadsOK
    <2>10. FileAtLabel(pc'[t], c, B, files'[d])
      <3> HIDE DEF d, c, q, B
      <3> QED BY <1>3, <1>4, <1>5, <2>1 DEF FileAtLabel, FileOld, FileNew
    <2>11. HistoryAt(pc'[t], c, B, entries'[t], history'[d])
      <3> HIDE DEF d, c, q, B
      <3> QED BY <1>3, <1>4, <1>5, <2>1 DEF HistoryAt, HistoryOld, HistoryNew, FileNew
    <2>12. SnapAt(pc'[t], c, B, snaps'[d])
      <3> HIDE DEF d, c, q, B
      <3> QED BY <1>3, <1>4, <1>5, <2>1 DEF SnapAt, SnapOld, SnapNew
    <2>13. DiffAt(pc'[t], q.intent, B, diffs'[d])
      <3> HIDE DEF d, c, q, B
      <3> QED BY <1>3, <1>4, <1>5, <2>1 DEF DiffAt
    <2>14. RowAt(pc'[t], c, B, index'[d])
      <3> HIDE DEF d, c, q, B
      <3> QED BY <1>3, <1>4, <1>5, <2>1 DEF RowAt
    <2>15. JournalAt(pc'[t], B, journals'[d])
      <3> HIDE DEF d, c, q, B
      <3> QED BY <1>3, <1>4, <1>5, <2>1 DEF JournalAt, FileNew
    <2> QED BY <1>6, <2>1, <2>10, <2>11, <2>12, <2>13, <2>14, <2>15 DEF Writing, Trying, Undoing
  <1>23. CASE Fail(t)
    <2>1. /\ pc'[t] = "undoDoc" /\ UNCHANGED <<req, prev, procs, base>>
          /\ pc[t] \in Trying /\ files'[d] = files[d] /\ history'[d] = history[d]
          /\ snaps'[d] = snaps[d] /\ diffs'[d] = diffs[d] /\ index'[d] = index[d]
          /\ journals'[d] = journals[d] /\ entries'[t] = entries[t]
      BY <1>1, <1>23 DEF Fail, Inside, Goto, ghosts, disk, TypeOK, DiskOK, ThreadsOK
    <2>10. FileAtLabel(pc'[t], c, B, files'[d])
      <3> HIDE DEF d, c, q, B
      <3> QED BY <1>3, <1>4, <1>5, <2>1 DEF FileAtLabel, FileOld, FileNew, Trying
    <2>11. HistoryAt(pc'[t], c, B, entries'[t], history'[d])
      <3> HIDE DEF d, c, q, B
      <3> QED BY <1>3, <1>4, <1>5, <2>1 DEF HistoryAt, HistoryOld, HistoryNew, FileNew, Trying
    <2>12. SnapAt(pc'[t], c, B, snaps'[d])
      <3> HIDE DEF d, c, q, B
      <3> QED BY <1>3, <1>4, <1>5, <2>1 DEF SnapAt, SnapOld, SnapNew, Trying
    <2>13. DiffAt(pc'[t], q.intent, B, diffs'[d])
      <3> HIDE DEF d, c, q, B
      <3> QED BY <1>3, <1>4, <1>5, <2>1 DEF DiffAt, Trying
    <2>14. RowAt(pc'[t], c, B, index'[d])
      <3> HIDE DEF d, c, q, B
      <3> QED BY <1>3, <1>4, <1>5, <2>1 DEF RowAt, Trying
    <2>15. JournalAt(pc'[t], B, journals'[d])
      <3> HIDE DEF d, c, q, B
      <3> QED BY <1>3, <1>4, <1>5, <2>1 DEF JournalAt, FileNew, Trying
    <2> QED BY <1>6, <2>1, <2>10, <2>11, <2>12, <2>13, <2>14, <2>15 DEF Writing, Trying, Undoing
  <1> QED BY <1>7, <1>8, <1>9, <1>10, <1>11, <1>12, <1>13, <1>14, <1>15, <1>16, <1>17,
     <1>18, <1>19, <1>20, <1>21, <1>22, <1>23

(* Begin finds a sound document, and keeps it. *)
LEMMA BeginStep ==
    ASSUME TypeOK, LockInv, AtomicInv, NEW t \in Threads, Begin(t),
           phase[ProcOf[t]] = "up", \A p \in Procs : phase[p] = "up"
    PROVE  /\ Writer(t, Doc(t))' /\ pc'[t] = "intent" /\ BaseType' /\ UNCHANGED req
           /\ base'[Doc(t)].files = files[Doc(t)]
           /\ base'[Doc(t)].history = history[Doc(t)]
           /\ journals[Doc(t)] # None =>
                 Kept(base[Doc(t)], files[Doc(t)], history[Doc(t)])
  <1> DEFINE d == Doc(t)
             c == New(t)
             B == [files |-> files[d], history |-> history[d], snap |-> snaps[d],
                   diff |-> diffs[d], index |-> index[d]]
             P == [doc |-> FileAt(d, c.type), size |-> Len(history[d]),
                   snap |-> snaps[d], diff |-> diffs[d]]
             j == [size |-> Len(history[d]), steps |-> {}]
  <1>1. d \in Docs /\ c \in Content /\ c.type \in Types /\ req[t].new = c
    BY Locals DEF Begin, Content, New
  <1>2. ~Busy(d)
    <2> SUFFICES ASSUME NEW u \in Threads, pc[u] \in Writing, Doc(u) = d PROVE FALSE
      BY DEF Busy
    <2>1. u # t
      BY DEF Begin, Writing, Trying, Undoing
    <2> QED BY <2>1, WritersDiffer DEF Begin
  <1>3. /\ journals[d] # None => Kept(base[d], files[d], history[d])
        /\ Usable(files[d], snaps[d], index[d])
        /\ RollbacksSucceed => Sound(files[d], snaps[d], index[d])
    <2>1. Quiet(d)
      BY <1>1, <1>2 DEF AtomicInv, QuietInv
    <2>2. CASE journals[d] = None
      <3>1. Sound(files[d], snaps[d], index[d])
        BY <2>1, <2>2 DEF Quiet
      <3> QED BY <2>2, <3>1, SoundIsUsable
    <2>3. CASE journals[d] # None
      BY <2>1, <2>3 DEF Quiet
    <2> QED BY <2>2, <2>3
  <1>4. OnlyType(files[d], c.type)
    <2> SUFFICES ASSUME NEW z \in Types, files[d][z] # None PROVE z = c.type
      BY DEF OnlyType
    <2>1. index[d] # None /\ index[d].type = z
      BY <1>3 DEF Usable
    <2> QED BY <2>1 DEF Begin, TypeChanges
  <1>5. /\ prev'[t] = P /\ journals'[d] = j /\ base'[d] = B /\ pc'[t] = "intent"
        /\ UNCHANGED <<req, entries>>
        /\ files'[d] = files[d] /\ history'[d] = history[d] /\ snaps'[d] = snaps[d]
        /\ diffs'[d] = diffs[d] /\ index'[d] = index[d]
    BY <1>1 DEF Begin, Goto, TypeOK, DiskOK, ThreadsOK, AtomicInv, BaseType
  <1>6. /\ B.files = files[d] /\ B.history = history[d] /\ B.snap = snaps[d]
        /\ B.diff = diffs[d] /\ B.index = index[d]
    OBVIOUS
  <1>7. B \in Captures
    BY <1>1 DEF Captures, TypeOK, DiskOK
  <1>8. j \in Journal /\ j.size = Len(history[d])
    BY <1>1 DEF Journal, TypeOK, DiskOK
  <1>9. P.doc = files[d][c.type] /\ P = [doc |-> B.files[c.type], size |-> Len(B.history),
                                         snap |-> B.snap, diff |-> B.diff]
    BY DEF FileAt
  <1>10. BaseType'
    <2> HIDE DEF B
    <2> QED BY <1>1, <1>7, <1>5 DEF Begin, AtomicInv, BaseType
  <1>11. history[d] = history[d] \o <<>> /\ <<>> \in Seq(Entry)
    BY <1>1 DEF TypeOK, DiskOK
  <1>12. j # None
    BY <1>8, ConstantsAreSane
  <1> HIDE DEF B, P, j
  <1>13. Writer(t, d)'
    <2> HIDE DEF c, d
    <2>1. BaseOK(B)
      BY <1>3, <1>6, <1>7 DEF BaseOK
    <2>2. CaptureAt(c, B, P)
      BY <1>4, <1>6, <1>9 DEF CaptureAt
    <2>3. FileAtLabel("intent", c, B, files[d])
      BY <1>6 DEF FileAtLabel, FileNew
    <2>4. HistoryAt("intent", c, B, entries[t], history[d])
      BY <1>6, <1>11 DEF HistoryAt, HistoryNew, FileNew
    <2>5. SnapAt("intent", c, B, snaps[d]) /\ RowAt("intent", c, B, index[d])
          /\ DiffAt("intent", req[t].intent, B, diffs[d])
      BY <1>6 DEF SnapAt, SnapNew, RowAt, DiffAt
    <2>6. JournalAt("intent", B, j)
      BY <1>6, <1>8, <1>12 DEF JournalAt, FileNew
    <2>7. WriterAt("intent", req[t], P, entries[t], B, files[d], history[d], snaps[d],
                   diffs[d], index[d], j)
      BY <1>1, <2>2, <2>3, <2>4, <2>5, <2>6 DEF WriterAt
    <2>8. req'[t] = req[t] /\ entries'[t] = entries[t] /\ d' = d
      BY <1>5 DEF d, Doc
    <2> QED BY <1>5, <2>1, <2>7, <2>8 DEF Writer
  <1> QED BY <1>3, <1>5, <1>6, <1>10, <1>13

(* The steps of a request outside the try block. *)
LEMMA AsideStep ==
    ASSUME TypeOK, AtomicInv, NEW t \in Threads,
           \/ Acquire(t) \/ LockTimeout(t) \/ RejectType(t) \/ FailEarly(t)
           \/ \E d \in Docs, c \in Content, i \in Intents \cup {None} : Request(t, d, c, i)
    PROVE  AtomicInv' /\ UNCHANGED <<disk, base>>
  <1>1. UNCHANGED <<disk, base, procs>>
    BY DEF Acquire, LockTimeout, RejectType, FailEarly, Request, ghosts
  <1>2. pc[t] \notin Writing /\ pc'[t] \notin Writing
    BY DEF Acquire, LockTimeout, RejectType, FailEarly, Request, Goto, Leave, Writing,
           Trying, Undoing, TypeOK, ThreadsOK
  <1>3. Alone(t)
    BY DEF Acquire, LockTimeout, RejectType, FailEarly, Request, Goto, Leave, Alone,
           TypeOK, ThreadsOK
  <1> QED BY <1>1, <1>2, <1>3, IdleStep DEF Alone

(* Where a kill is tolerated, a writer leaves what recovery can tell from its    *)
(* journal.                                                                      *)
LEMMA WriterRecoverable ==
    ASSUME TypeOK, NEW t \in Threads, NEW d \in Docs, d = Doc(t), pc[t] \in Writing,
           pc[t] \notin {"write", "undoWrite", "mark", "undoDoc", "undoHistory", "undoSnap"},
           Writer(t, d)
    PROVE  /\ journals[d] # None
           /\ Recoverable(base[d], files[d], history[d], snaps[d], journals[d])
  <1> DEFINE l == pc[t]
             c == New(t)
             B == base[d]
             f == files[d]
             h == history[d]
             snap == snaps[d]
             j == journals[d]
  <1>1. c \in Content /\ c.type \in Types /\ req[t].new = c
    BY Locals DEF Writing, Trying, Undoing, Content, New
  <1>2. /\ BaseOK(B) /\ OnlyType(B.files, c.type) /\ FileAtLabel(l, c, B, f)
        /\ HistoryAt(l, c, B, entries[t], h) /\ SnapAt(l, c, B, snap) /\ JournalAt(l, B, j)
    BY <1>1 DEF Writer, WriterAt, CaptureAt
  <1>3. f \in [Types -> Document] /\ B.files \in [Types -> Document] /\ c # None
        /\ FilesOK(B.files) /\ (Empty(B.files) => B.snap = None)
    BY <1>1, <1>2, ConstantsAreSane DEF TypeOK, DiskOK, BaseOK, Captures, Usable
  <1>4. \/ l \in FileOld \ {"open", "undoHistory", "undoSnap", "undoSnapWrite"}
        \/ l \in {"open", "undoSnapWrite"}
        \/ l \in FileNew \ {"mark"}
    BY DEF Writing, Trying, Undoing, FileOld, FileNew
  <1> HIDE DEF l, c, B, f, h, snap, j
  <1>5. j # None /\ j.size = Len(B.history)
    BY <1>2 DEF JournalAt
  <1>6. l \in FileOld => f = B.files
    <2> SUFFICES ASSUME l \in FileOld PROVE \A z \in Types : f[z] = B.files[z]
      BY <1>3
    <2> QED BY <1>2 DEF FileAtLabel
  <1>7. CASE l \in FileOld \ {"open", "undoHistory", "undoSnap", "undoSnapWrite"}
    <2>1. l \in HistoryOld /\ l \in SnapOld
      BY <1>7 DEF FileOld, HistoryOld, SnapOld
    <2>2. Kept(B, f, h) /\ snap = B.snap
      BY <1>2, <1>6, <1>7, <2>1 DEF Kept, HistoryAt, SnapAt
    <2> QED BY <1>2, <1>3, <1>5, <1>6, <1>7, <2>2 DEF Recoverable, j, B, f, h, snap
  <1>8. CASE l \in {"open", "undoSnapWrite"}
    <2>1. l \in FileOld
      BY <1>8 DEF FileOld
    <2>2. CASE l = "open"
      <3>1. snap = B.snap /\ Orphan(j) /\ \E e \in Seq(Entry) : h = B.history \o e
        BY <1>2, <2>2 DEF SnapAt, SnapOld, JournalAt, HistoryAt
      <3>2. Appended(B, f, h)
        BY <1>6, <2>1, <3>1 DEF Appended
      <3> QED BY <1>2, <1>3, <1>5, <1>6, <2>1, <3>1, <3>2
              DEF Recoverable, j, B, f, h, snap
    <2>3. CASE l = "undoSnapWrite"
      <3>1. B.snap # None /\ h = B.history
        BY <1>2, <2>3 DEF SnapAt, HistoryAt, HistoryOld
      <3>2. Kept(B, f, h) /\ ~Empty(f)
        BY <1>3, <1>6, <2>1, <3>1 DEF Kept
      <3> QED BY <1>2, <1>5, <3>2 DEF Recoverable, j, B, f, h, snap
    <2> QED BY <1>8, <2>2, <2>3
  <1>9. CASE l \in FileNew \ {"mark"}
    <2>1. /\ h = B.history \o DeltaOf(B.files, c) /\ ~Orphan(j)
          /\ f[c.type] = c /\ \A z \in Types \ {c.type} : f[z] = B.files[z]
      BY <1>2, <1>9 DEF HistoryAt, HistoryNew, JournalAt, FileAtLabel
    <2>2. f = [B.files EXCEPT ![c.type] = c]
      BY <1>1, <1>3, <2>1
    <2>3. Made(B, f, h)
      BY <1>1, <1>2, <2>1, <2>2 DEF Made
    <2>4. ~Empty(f)
      BY <1>1, <1>3, <2>1 DEF Empty
    <2> QED BY <1>2, <1>5, <2>1, <2>3, <2>4 DEF Recoverable, j, B, f, h, snap
  <1> QED BY <1>4, <1>7, <1>8, <1>9

(* A rollback that raises has put back what was captured, which is a document or  *)
(* nothing, and leaves the journal to the next start.                             *)
LEMMA AbandonStep ==
    ASSUME TypeOK, AtomicInv, RollbacksRestore, NEW t \in Threads, RollbackFails(t),
           NEW d \in Docs, d = Doc(t), \A p \in Procs : phase[p] = "up"
    PROVE  Quiet(d)' /\ pc'[t] = "idle" /\ UNCHANGED <<disk, base>>
  <1> DEFINE B == base[d]
             c == New(t)
             l == pc[t]
  <1>1. pc[t] \in Undoing /\ c \in Content /\ c.type \in Types /\ req[t].new = c
    BY Locals DEF RollbackFails, Undoing, Content, New
  <1>2. Writer(t, d)
    BY <1>1 DEF AtomicInv, WriterInv, Writing
  <1>3. /\ BaseOK(B) /\ CaptureAt(c, B, prev[t]) /\ FileAtLabel(l, c, B, files[d])
        /\ HistoryAt(l, c, B, entries[t], history[d]) /\ SnapAt(l, c, B, snaps[d])
        /\ RowAt(l, c, B, index[d]) /\ JournalAt(l, B, journals[d])
    BY <1>1, <1>2 DEF Writer, WriterAt
  <1>4. prev[t].doc # Torn
    BY <1>1, <1>3, ConstantsAreSane DEF CaptureAt, BaseOK, Usable, FilesOK
  <1>5. l \in {"undoDiff", "undoIndex", "undone"} /\ ~RollbacksSucceed
    BY <1>1, <1>4 DEF RollbackFails, RollbacksRestore, RollbacksSucceed, Undoing
  <1>6. UNCHANGED <<disk, files, history, snaps, index, journals, base, procs>>
        /\ pc'[t] = "idle"
    BY <1>1 DEF RollbackFails, Leave, Goto, disk, ghosts, TypeOK, ThreadsOK
  <1>7. Recoverable(B, files[d], history[d], snaps[d], journals[d]) /\ journals[d] # None
    BY <1>1, <1>2, <1>5, WriterRecoverable DEF Writing
  <1>8. files[d] \in [Types -> Document] /\ B.files \in [Types -> Document]
        /\ OnlyType(B.files, c.type) /\ Usable(B.files, B.snap, B.index)
    BY <1>3 DEF TypeOK, DiskOK, BaseOK, Captures, CaptureAt
  <1> HIDE DEF B, c, l
  <1>9. files[d] = B.files /\ history[d] = B.history /\ snaps[d] = B.snap
    <2>1. \A z \in Types : files[d][z] = B.files[z]
      BY <1>3, <1>5 DEF FileAtLabel, FileOld
    <2> QED BY <1>3, <1>5, <1>8, <2>1 DEF HistoryAt, HistoryOld, SnapAt, SnapOld
  <1>10. Usable(files[d], snaps[d], index[d])
    <2> SUFFICES ASSUME NEW y \in Types, B.files[y] # None
                 PROVE  index[d] # None /\ index[d].type = y
      BY <1>8, <1>9 DEF Usable
    <2>1. y = c.type
      BY <1>8 DEF OnlyType
    <2> QED BY <1>1, <1>3, <1>8, <2>1, ConstantsAreSane DEF RowAt, Usable, FilesOK
  <1>11. Kept(B, files[d], history[d])
    BY <1>9 DEF Kept
  <1> QED BY <1>5, <1>6, <1>7, <1>10, <1>11 DEF Quiet, B

(* A save that ends leaves the new document, a rollback the old one. *)
LEMMA CommitStep ==
    ASSUME TypeOK, AtomicInv, NEW t \in Threads, Commit(t)
    PROVE  LET d == Doc(t)
               c == New(t)
               B == base[d]
           IN  /\ d \in Docs /\ c \in Content /\ journals[d] # None
               /\ journals'[d] = None /\ BaseType' /\ pc'[t] = "idle"
               /\ FilesOK(B.files) /\ OnlyType(B.files, c.type)
               /\ UNCHANGED <<files, history>>
               /\ FilesOK(files[d]) /\ files[d][c.type] = c
               /\ history[d] = B.history \o DeltaOf(B.files, c)
               /\ Sound(files'[d], snaps'[d], index'[d])
  <1> DEFINE d == Doc(t)
             c == New(t)
             B == base[d]
  <1>1. pc[t] = "commit" /\ d \in Docs /\ c \in Content /\ c.type \in Types
        /\ req[t].new = c
    BY Locals DEF Commit, Content, New
  <1>2. Writer(t, d)
    BY <1>1 DEF AtomicInv, WriterInv, Writing, Trying
  <1>3. /\ BaseOK(B) /\ CaptureAt(c, B, prev[t]) /\ FileAtLabel("commit", c, B, files[d])
        /\ HistoryAt("commit", c, B, entries[t], history[d])
        /\ SnapAt("commit", c, B, snaps[d]) /\ RowAt("commit", c, B, index[d])
        /\ JournalAt("commit", B, journals[d])
    BY <1>1, <1>2 DEF Writer, WriterAt
  <1>4. /\ journals'[d] = None /\ pc'[t] = "idle"
        /\ UNCHANGED <<files, history, snaps, diffs, index>>
    BY <1>1 DEF Commit, Leave, Goto, TypeOK, DiskOK, ThreadsOK
  <1>5. BaseType'
    BY <1>1 DEF Commit, AtomicInv, BaseType
  <1> HIDE DEF d, c, B
  <1>6. FilesOK(B.files) /\ OnlyType(B.files, c.type)
    BY <1>3 DEF BaseOK, Usable, CaptureAt
  <1>7. files[d][c.type] = c /\ \A z \in Types \ {c.type} : files[d][z] = None
    BY <1>3, <1>6 DEF FileAtLabel, FileNew, OnlyType
  <1>8. c # None /\ c # Torn /\ ~Stale(c, c)
    BY <1>1, ConstantsAreSane DEF Stale
  <1>9. FilesOK(files[d])
    BY <1>7, <1>8 DEF FilesOK
  <1>10. snaps[d] = c.body /\ index[d] = c
    BY <1>3 DEF SnapAt, SnapNew, RowAt
  <1>11. Sound(files[d], snaps[d], index[d])
    BY <1>1, <1>7, <1>8, <1>9, <1>10 DEF Sound, Empty
  <1>12. history[d] = B.history \o DeltaOf(B.files, c) /\ journals[d] # None
    BY <1>3 DEF HistoryAt, HistoryNew, FileNew, JournalAt
  <1>13. Sound(files'[d], snaps'[d], index'[d])
    BY <1>4, <1>11
  <1> QED BY <1>1, <1>4, <1>5, <1>6, <1>7, <1>9, <1>12, <1>13 DEF d, c, B

(* At the end of a rollback every place is what the save found. *)
LEMMA UndoneAsFound ==
    ASSUME TypeOK, AtomicInv, NEW t \in Threads, pc[t] = "undone"
    PROVE  LET d == Doc(t) IN
           /\ d \in Docs /\ journals[d] # None
           /\ files[d] = base[d].files /\ history[d] = base[d].history
           /\ snaps[d] = base[d].snap /\ diffs[d] = base[d].diff
           /\ RollbacksSucceed => SameRow(index[d], base[d].index)
           /\ Sound(files[d], snaps[d], index[d])
  <1> DEFINE d == Doc(t)
             c == New(t)
             B == base[d]
  <1>1. d \in Docs /\ c \in Content /\ c.type \in Types /\ req[t].new = c
    BY Locals DEF Content, New
  <1>2. Writer(t, d)
    BY <1>1 DEF AtomicInv, WriterInv, Writing, Undoing
  <1>3. /\ BaseOK(B) /\ CaptureAt(c, B, prev[t]) /\ FileAtLabel("undone", c, B, files[d])
        /\ HistoryAt("undone", c, B, entries[t], history[d])
        /\ SnapAt("undone", c, B, snaps[d]) /\ RowAt("undone", c, B, index[d])
        /\ DiffAt("undone", req[t].intent, B, diffs[d]) /\ JournalAt("undone", B, journals[d])
    BY <1>1, <1>2 DEF Writer, WriterAt
  <1>4. files[d] \in [Types -> Document] /\ index[d] \in Content \cup {None}
    BY <1>1 DEF TypeOK, DiskOK
  <1> HIDE DEF d, c, B
  <1>5. files[d] = B.files
    <2>1. \A z \in Types : files[d][z] = B.files[z]
      BY <1>3 DEF FileAtLabel, FileOld
    <2>2. B.files \in [Types -> Document]
      BY <1>3 DEF BaseOK, Captures
    <2> QED BY <1>4, <2>1, <2>2
  <1>6. history[d] = B.history /\ snaps[d] = B.snap /\ diffs[d] = B.diff
        /\ index[d] = B.files[c.type] /\ journals[d] # None
    BY <1>3 DEF HistoryAt, HistoryOld, SnapAt, SnapOld, DiffAt, RowAt, JournalAt
  <1>7. /\ OnlyType(B.files, c.type) /\ Usable(B.files, B.snap, B.index)
        /\ RollbacksSucceed => Sound(B.files, B.snap, B.index)
    BY <1>3 DEF CaptureAt, BaseOK
  <1>8. CASE Empty(B.files)
    <2>1. index[d] = None /\ (RollbacksSucceed => B.index = None)
      BY <1>1, <1>6, <1>7, <1>8 DEF Empty, Sound
    <2>2. Sound(files[d], snaps[d], index[d])
      BY <1>5, <1>6, <1>7, <1>8, <2>1 DEF Sound, Usable, Empty
    <2> QED BY <1>1, <1>5, <1>6, <2>1, <2>2 DEF SameRow, d, B
  <1>9. CASE ~Empty(B.files)
    <2> DEFINE now == B.files[c.type]
    <2>1. now # None /\ \A z \in Types : B.files[z] # None => z = c.type
      BY <1>7, <1>9 DEF Empty, OnlyType
    <2>2. B.snap = now.body /\ ~Stale(now, now)
          /\ (RollbacksSucceed => ~Stale(B.index, now))
      BY <1>1, <1>7, <2>1 DEF Sound, Usable, Stale
    <2>3. Sound(files[d], snaps[d], index[d])
      BY <1>5, <1>6, <1>7, <1>9, <2>1, <2>2 DEF Sound, Usable
    <2>4. RollbacksSucceed => SameRow(index[d], B.index)
      BY <1>6, <2>1, <2>2 DEF SameRow, Stale
    <2> QED BY <1>1, <1>5, <1>6, <2>3, <2>4 DEF d, B
  <1> QED BY <1>8, <1>9

(* ---- The store of the promise ---- *)

TheStore == [d \in Docs |-> StoreOf(d)]
StoreKept == \A d \in Docs : StoreOf(d)' = StoreOf(d)
StoreSaves == \E d \in Docs, c \in Content : Abstract!Save(d, c)

LEMMA SaveHappens ==
    ASSUME NEW d \in Docs, NEW c \in Content, NEW x, NEW h, x # None => x.type = c.type,
           \A e \in Docs \ {d} : StoreOf(e)' = StoreOf(e),
           StoreOf(d) = [doc |-> x, history |-> h],
           StoreOf(d)' = [doc |-> c, history |-> h \o Abstract!Delta(x, c)]
    PROVE  StoreSaves
  <1>1. TheStore[d].doc = x /\ TheStore[d].history = h
    BY DEF TheStore
  <1>2. TheStore' = [e \in Docs |-> StoreOf(e)']
    BY DEF TheStore
  <1>3. TheStore' = [TheStore EXCEPT ![d] =
                        [doc |-> c, history |-> h \o Abstract!Delta(x, c)]]
    BY <1>2 DEF TheStore
  <1>4. TheStore' = [TheStore EXCEPT ![d] =
                        [doc |-> c,
                         history |-> TheStore[d].history \o Abstract!Delta(TheStore[d].doc, c)]]
    BY <1>1, <1>3
  <1> QED BY <1>1, <1>4 DEF StoreSaves, Abstract!Save, TheStore

(* What a save may be seen to replace. *)
LEMMA ReplacedType ==
    ASSUME NEW f, FilesOK(f), NEW c \in Content, OnlyType(f, c.type)
    PROVE  TheFile(f) # None => TheFile(f).type = c.type
  <1> SUFFICES ASSUME TheFile(f) # None PROVE TheFile(f).type = c.type
    OBVIOUS
  <1>1. PICK y \in Types : f[y] # None
    BY TheFileOf DEF Empty
  <1>2. y = c.type /\ f[y].type = y /\ TheFile(f) = f[y]
    BY <1>1, TheFileOf DEF OnlyType, FilesOK
  <1> QED BY <1>2

LEMMA StoreFrame ==
    ASSUME UNCHANGED <<files, history, journals, base>>
    PROVE  StoreKept
  BY DEF StoreKept, StoreOf

LEMMA StoreElsewhere ==
    ASSUME NEW d \in Docs, Elsewhere(d)
    PROVE  \A e \in Docs \ {d} : StoreOf(e)' = StoreOf(e)
  BY DEF Elsewhere, StoreOf

(* Every step of a writer keeps the invariant, and is a save of the promise or *)
(* nothing.                                                                     *)
LEMMA WriterAtomic ==
    ASSUME TypeOK, LockInv, OneServer, AtomicInv, RollbacksRestore, NEW t \in Threads,
           pc[t] \in {"check"} \cup Writing, ~RejectType(t), ThreadStep(t) \/ Fail(t),
           NEW d \in Docs, d = Doc(t)
    PROVE  AtomicInv' /\ (StoreKept \/ StoreSaves)
  <1>1. UNCHANGED procs /\ \A p \in Procs : phase[p] = "up"
    BY ThreadRunsUp
  <1>2. Elsewhere(d) /\ Alone(t)
    BY OwnStep DEF AtomicInv
  <1>3. CASE Begin(t)
    <2>1. /\ Writer(t, Doc(t))' /\ pc'[t] = "intent" /\ BaseType' /\ UNCHANGED req
          /\ base'[d].files = files[d] /\ base'[d].history = history[d]
          /\ (journals[d] # None => Kept(base[d], files[d], history[d]))
      BY <1>1, <1>3, BeginStep, ConstantsAreSane
    <2>2. Elsewhere(d) /\ Alone(t) /\ pc[t] = "check" /\ d \in Docs
      BY <1>3, OwnStep, Locals DEF AtomicInv, Begin, ThreadStep
    <2>3. AtomicInv'
      BY <1>1, <2>1, <2>2, MidStep DEF Writing, Trying
    <2>4. journals'[d] # None
      BY <2>1, <2>2 DEF Writer, WriterAt, JournalAt, Doc
    <2>5. StoreOf(d)' = StoreOf(d)
      <3> QED BY <2>1, <2>4 DEF StoreOf, Kept
    <2> QED BY <2>2, <2>3, <2>5, StoreElsewhere DEF StoreKept
  <1>4. CASE \/ Intent(t) \/ AppendHistory(t) \/ OpenDoc(t) \/ WriteDoc(t) \/ MarkDoc(t)
             \/ OpenSnapshot(t) \/ WriteSnapshot(t) \/ WriteDiff(t) \/ Reindex(t)
             \/ UndoDoc(t) \/ UndoWrite(t) \/ UndoHistory(t) \/ UndoSnapshot(t)
             \/ UndoSnapWrite(t) \/ UndoDiff(t) \/ UndoIndex(t) \/ Fail(t)
    <2>1. pc[t] \in Writing
      BY <1>4 DEF Intent, AppendHistory, OpenDoc, WriteDoc, MarkDoc, OpenSnapshot,
         WriteSnapshot, WriteDiff, Reindex, UndoDoc, UndoWrite, UndoHistory,
         UndoSnapshot, UndoSnapWrite, UndoDiff, UndoIndex, Fail, Writing, Trying, Undoing
    <2>2. Writer(t, Doc(t))' /\ pc'[t] \in Writing /\ UNCHANGED <<req, procs, base>>
      BY <1>4, <2>1, WriterMoves
    <2>3. Elsewhere(d) /\ Alone(t) /\ d \in Docs
      BY <1>4, <2>1, OwnStep, Locals DEF AtomicInv, ThreadStep, Writing, Trying, Undoing
    <2>4. BaseType'
      BY <2>2 DEF AtomicInv, BaseType
    <2>5. AtomicInv'
      BY <1>1, <2>1, <2>2, <2>3, <2>4, MidStep
    <2>6. journals[d] # None /\ journals'[d] # None
      <3>1. Writer(t, d)
        BY <2>1 DEF AtomicInv, WriterInv
      <3> QED BY <2>2, <3>1 DEF Writer, WriterAt, JournalAt, Doc
    <2>7. StoreOf(d)' = StoreOf(d)
      <3> QED BY <2>2, <2>6 DEF StoreOf
    <2> QED BY <2>3, <2>5, <2>7, StoreElsewhere DEF StoreKept
  <1>5. CASE Commit(t)
    <2> DEFINE c == New(t)
               B == base[d]
    <2>1. /\ d \in Docs /\ c \in Content /\ journals[d] # None
          /\ journals'[d] = None /\ BaseType' /\ pc'[t] = "idle"
          /\ FilesOK(B.files) /\ OnlyType(B.files, c.type)
          /\ UNCHANGED <<files, history>>
          /\ FilesOK(files[d]) /\ files[d][c.type] = c
          /\ history[d] = B.history \o DeltaOf(B.files, c)
          /\ Sound(files'[d], snaps'[d], index'[d])
      BY <1>5, CommitStep
    <2>2. pc[t] \in Writing /\ pc'[t] \notin Writing
      BY <1>5, <2>1 DEF Commit, Writing, Trying, Undoing
    <2>3. Elsewhere(d) /\ Alone(t)
      BY <1>5, <2>2, OwnStep DEF AtomicInv, ThreadStep
    <2>4. AtomicInv'
      <3>1. Quiet(d)'
        BY <2>1 DEF Quiet, Sound
      <3> HIDE DEF c, B
      <3> QED BY <1>1, <2>1, <2>2, <2>3, <3>1, EndStep
    <2>5. TheFile(files[d]) = c
      BY <2>1, TheFileOf, ConstantsAreSane DEF Content
    <2>6. StoreOf(d) = [doc |-> TheFile(B.files), history |-> B.history]
      BY <2>1 DEF StoreOf
    <2>7. StoreOf(d)' = [doc |-> c,
                         history |-> B.history \o Abstract!Delta(TheFile(B.files), c)]
      <3> HIDE DEF c, B
      <3> QED BY <2>1, <2>5 DEF StoreOf, DeltaOf
    <2>8. TheFile(B.files) # None => TheFile(B.files).type = c.type
      BY <2>1, ReplacedType
    <2> HIDE DEF c, B
    <2> QED BY <2>1, <2>3, <2>4, <2>6, <2>7, <2>8, StoreElsewhere, SaveHappens
  <1>6. CASE RolledBack(t)
    <2>1. pc[t] = "undone" /\ pc'[t] = "idle" /\ UNCHANGED <<files, history, snaps, index>>
      BY <1>6 DEF RolledBack, Leave, Goto, TypeOK, ThreadsOK
    <2>2. /\ d \in Docs /\ journals[d] # None
          /\ files[d] = base[d].files /\ history[d] = base[d].history
          /\ Sound(files[d], snaps[d], index[d])
      BY <2>1, UndoneAsFound
    <2>3. journals'[d] = None /\ BaseType'
      BY <1>6, <2>2 DEF RolledBack, TypeOK, DiskOK, AtomicInv, BaseType
    <2>4. pc[t] \in Writing /\ pc'[t] \notin Writing
      BY <2>1 DEF Writing, Trying, Undoing
    <2>5. Elsewhere(d) /\ Alone(t)
      BY <1>6, <2>4, OwnStep DEF AtomicInv, ThreadStep
    <2>6. AtomicInv'
      <3>1. Sound(files'[d], snaps'[d], index'[d])
        BY <2>1, <2>2
      <3>2. Quiet(d)'
        BY <2>3, <3>1 DEF Quiet, Sound
      <3> QED BY <1>1, <2>3, <2>4, <2>5, <3>2, EndStep
    <2>7. StoreOf(d)' = StoreOf(d)
      <3> QED BY <2>1, <2>2, <2>3 DEF StoreOf
    <2> QED BY <2>2, <2>5, <2>6, <2>7, StoreElsewhere DEF StoreKept
  <1>7. CASE RollbackFails(t)
    <2>1. Quiet(d)' /\ pc'[t] = "idle" /\ UNCHANGED <<disk, base>>
      BY <1>1, <1>7, AbandonStep
    <2>2. pc[t] \in Writing /\ pc'[t] \notin Writing
      BY <1>7, <2>1 DEF RollbackFails, Writing, Trying, Undoing
    <2>3. BaseType'
      BY <2>1 DEF AtomicInv, BaseType
    <2>4. AtomicInv'
      BY <1>1, <1>2, <2>1, <2>2, <2>3, EndStep
    <2> QED BY <2>1, <2>4, StoreFrame DEF disk
  <1>8. ~Acquire(t) /\ ~LockTimeout(t)
    BY DEF Acquire, LockTimeout, Writing, Trying, Undoing
  <1> QED BY <1>3, <1>4, <1>5, <1>6, <1>7, <1>8 DEF ThreadStep

LEMMA RequestAtomic ==
    ASSUME TypeOK, LockInv, OneServer, AtomicInv, RollbacksRestore, NEW t \in Threads,
           \/ ThreadStep(t) \/ Fail(t) \/ FailEarly(t)
           \/ \E d \in Docs, c \in Content, i \in Intents \cup {None} : Request(t, d, c, i)
    PROVE  AtomicInv' /\ (StoreKept \/ StoreSaves)
  <1>1. CASE \/ Acquire(t) \/ LockTimeout(t) \/ RejectType(t) \/ FailEarly(t)
             \/ \E e \in Docs, c \in Content, i \in Intents \cup {None} : Request(t, e, c, i)
    BY <1>1, AsideStep DEF StoreKept, StoreOf, disk
  <1>2. CASE /\ ThreadStep(t) \/ Fail(t)
             /\ ~Acquire(t) /\ ~LockTimeout(t) /\ ~RejectType(t)
    <2>1. pc[t] \in {"check"} \cup Writing
      BY <1>2 DEF ThreadStep, Fail, Begin, Intent, AppendHistory, OpenDoc, WriteDoc,
         MarkDoc, OpenSnapshot, WriteSnapshot, WriteDiff, Reindex, Commit, UndoDoc,
         UndoWrite, UndoHistory, UndoSnapshot, UndoSnapWrite, UndoDiff, UndoIndex,
         RolledBack, RollbackFails, Writing, Trying, Undoing
    <2>2. Doc(t) \in Docs
      BY <2>1, Locals DEF Writing, Trying, Undoing
    <2> QED BY <1>2, <2>1, <2>2, WriterAtomic
  <1> QED BY <1>1, <1>2

(* ---- Recovery and crashes ---- *)

(* While a process is not open no request is under way. *)
LEMMA NobodyWrites ==
    ASSUME TypeOK, LockInv, OneServer, NEW p \in Procs, phase[p] # "up"
    PROVE  /\ \A t \in Threads : pc[t] = "idle"
           /\ \A d \in Docs : ~Busy(d)
  <1>1. \A t \in Threads : pc[t] = "idle"
    BY ServedMeansUp
  <1> QED BY <1>1 DEF Busy, Writing, Trying, Undoing

(* A recovery step keeps the invariant if it keeps what a directory without a    *)
(* writer is, and what the recovery knows.                                       *)
LEMMA RecoveryStep ==
    ASSUME TypeOK, LockInv, OneServer, AtomicInv, NEW p \in Procs, phase[p] # "up",
           UNCHANGED threads, BaseType', \A d \in Docs : Quiet(d)', Recovers(p)'
    PROVE  AtomicInv'
  <1>1. \A t \in Threads : pc'[t] \notin Writing
    BY NobodyWrites DEF threads, Writing, Trying, Undoing
  <1>2. WriterInv'
    BY <1>1 DEF WriterInv
  <1>3. QuietInv'
    BY DEF QuietInv
  <1>4. RecoverInv'
    BY DEF RecoverInv, OneServer
  <1> QED BY <1>2, <1>3, <1>4 DEF AtomicInv

(* What recovery reads of the directory of a document at rest. *)
LEMMA AllQuiet ==
    ASSUME TypeOK, LockInv, OneServer, AtomicInv, NEW p \in Procs, phase[p] # "up"
    PROVE  \A d \in Docs : Quiet(d)
  BY NobodyWrites DEF AtomicInv, QuietInv

LEMMA BaseTypeKept ==
    ASSUME BaseType, base' = base
    PROVE  BaseType'
  BY DEF BaseType

(* A document nobody writes, without a journal: it stays quiet while a recovery *)
(* runs, whatever happens to its row.                                            *)
LEMMA QuietInRecovery ==
    ASSUME NEW d \in Docs, Quiet(d), journals[d] = None, journals'[d] = None,
           files'[d] = files[d], Empty(files[d]) => snaps'[d] = None,
           NEW p \in Procs, phase'[p] \notin {"down", "up"}
    PROVE  Quiet(d)'
  BY DEF Quiet

LEMMA OpenStep ==
    ASSUME TypeOK, LockInv, OneServer, AtomicInv, NEW p \in Procs, Open(p)
    PROVE  AtomicInv'
  <1> USE DEF disk
  <1>1. phase[p] = "down" /\ UNCHANGED <<disk, threads, base>>
    BY DEF Open, Recovering, ghosts
  <1>2. \A d \in Docs : Quiet(d)
    BY <1>1, AllQuiet
  <1>3. BaseType'
    BY <1>1, BaseTypeKept DEF AtomicInv
  <1>4. CASE NeedsReconcile
    <2> DEFINE r == [NoRec EXCEPT !.todo = Pending]
    <2>1. SetPhase(p, "journals", r) /\ r.todo = Pending
      BY <1>4 DEF Open, NoRec
    <2> HIDE DEF r
    <2>2. phase'[p] = "journals" /\ rec'[p] = r /\ \A q \in Procs : q = p
      BY <2>1, OnlyProc
    <2>3. Recovers(p)'
      BY <1>1, <2>1, <2>2 DEF Recovers, Pending, Scanning
    <2>4. \A d \in Docs : Quiet(d)'
      BY <1>1, <1>2, <2>2 DEF Quiet
    <2> QED BY <1>1, <1>3, <2>3, <2>4, RecoveryStep
  <1>5. CASE ~NeedsReconcile
    <2>1. phase'[p] = "up" /\ Pending = {} /\ \A q \in Procs : q = p
      BY <1>5, OnlyProc DEF Open, NeedsReconcile
    <2>2. Recovers(p)'
      BY <2>1 DEF Recovers, Scanning
    <2>3. \A d \in Docs : Quiet(d)'
      <3> SUFFICES ASSUME NEW d \in Docs PROVE Quiet(d)'
        OBVIOUS
      <3>1. journals[d] = None
        BY <2>1 DEF Pending
      <3>2. Sound(files[d], snaps[d], index[d])
        BY <1>1, <1>2, <2>1, <3>1 DEF Quiet
      <3> QED BY <1>1, <3>1, <3>2 DEF Quiet, Sound
    <2> QED BY <1>1, <1>3, <2>2, <2>3, RecoveryStep
  <1> QED BY <1>4, <1>5

LEMMA LoadStep ==
    ASSUME TypeOK, LockInv, OneServer, AtomicInv, NEW p \in Procs, NEW d \in Docs,
           LoadJournal(p, d)
    PROVE  AtomicInv'
  <1> DEFINE j == journals[d]
             orphan == j # None /\ "history" \in j.steps /\ "doc" \notin j.steps
             r == [rec[p] EXCEPT !.doc = d, !.undo = orphan,
                                 !.size = IF j = None THEN 0 ELSE j.size]
  <1>1. phase[p] = "journals" /\ UNCHANGED <<disk, threads, base>> /\ d \in rec[p].todo
        /\ SetPhase(p, "undo", r)
    BY DEF LoadJournal, Recovering, ghosts
  <1>2. \A e \in Docs : Quiet(e)
    BY <1>1, AllQuiet
  <1>3. rec[p].todo = Pending /\ j # None
    BY <1>1 DEF AtomicInv, RecoverInv, Recovers, Pending
  <1>4. /\ r.doc = d /\ r.undo = orphan /\ r.todo = rec[p].todo
        /\ r.size = IF j = None THEN 0 ELSE j.size
    <2>1. rec[p] \in Recovery
      BY DEF TypeOK, ProcsOK
    <2> HIDE DEF orphan, j
    <2> QED BY <2>1 DEF Recovery
  <1> HIDE DEF r
  <1>5. phase'[p] = "undo" /\ rec'[p] = r /\ \A q \in Procs : q = p
    BY <1>1, OnlyProc
  <1>6. journals'[d] = journals[d] /\ Pending' = Pending
    BY <1>1 DEF disk, Pending
  <1>7. Recovers(p)'
    BY <1>1, <1>3, <1>4, <1>5, <1>6 DEF Recovers, Scanning, Orphan
  <1>8. \A e \in Docs : Quiet(e)'
    BY <1>1, <1>2, <1>5 DEF Quiet, disk
  <1>9. BaseType'
    BY <1>1, BaseTypeKept DEF AtomicInv
  <1> QED BY <1>1, <1>7, <1>8, <1>9, RecoveryStep

(* Nothing is appended to nothing. *)
LEMMA EmptyAppend ==
    ASSUME NEW S, NEW h \in Seq(S \cup {Torn}), NEW e \in Seq(S), h \o e = <<>>
    PROVE  h = <<>>
  <1>1. Len(h \o e) = Len(h) + Len(e) /\ Len(h) \in Nat /\ Len(e) \in Nat
    OBVIOUS
  <1>2. Len(h) = 0
    BY <1>1
  <1> QED BY <1>2

(* Cutting the orphans gives what the save found; a save that is done stays.    *)
LEMMA UndoStep ==
    ASSUME TypeOK, LockInv, OneServer, AtomicInv, NEW p \in Procs, UndoOrphan(p)
    PROVE  AtomicInv' /\ rec[p].doc \in Pending
  <1> DEFINE B(d) == base[d]
  <1>0. PICK d \in Docs : d = rec[p].doc
    BY DEF UndoOrphan, TypeOK, ProcsOK
  <1>1. /\ phase[p] = "undo" /\ SetPhase(p, "clear", rec[p])
        /\ UNCHANGED <<files, snaps, diffs, index, journals, threads, base>>
        /\ history' = IF rec[p].undo /\ history[d] # <<>>
                      THEN [history EXCEPT ![d] = Truncate(history[d], rec[p].size)]
                      ELSE history
    BY <1>0 DEF UndoOrphan, Recovering, ghosts, TypeOK, DiskOK
  <1>2. \A e \in Docs : Quiet(e)
    BY <1>1, AllQuiet
  <1>3. /\ d \in Pending /\ rec[p].todo = Pending /\ journals[d] # None
        /\ rec[p].undo = Orphan(journals[d]) /\ rec[p].size = journals[d].size
    BY <1>0, <1>1 DEF AtomicInv, RecoverInv, Recovers, Pending
  <1>4. phase'[p] = "clear" /\ rec'[p] = rec[p] /\ \A q \in Procs : q = p
    BY <1>1, OnlyProc
  <1>5. Recoverable(base[d], files[d], history[d], snaps[d], journals[d])
    BY <1>2, <1>3 DEF Quiet
  <1>6. /\ base[d].history \in Seq(Entry \cup {Torn}) /\ rec[p].size = Len(base[d].history)
        /\ history[d] \in Seq(Entry \cup {Torn})
    BY <1>3, <1>5 DEF Recoverable, BaseOK, Captures, TypeOK, DiskOK
  <1>7. history'[d] = IF rec[p].undo /\ history[d] # <<>>
                      THEN Truncate(history[d], rec[p].size) ELSE history[d]
    BY <1>1 DEF TypeOK, DiskOK
  <1>8. \/ Kept(base[d], files[d], history'[d])
        \/ Made(base[d], files[d], history'[d]) /\ ~Orphan(journals[d])
    <2>1. ASSUME NEW e \in Seq(Entry), history[d] = base[d].history \o e
          PROVE  rec[p].undo => history'[d] = base[d].history
      <3>1. Truncate(history[d], rec[p].size) = base[d].history
        BY <1>6, <2>1, TruncateBack
      <3>2. history[d] = <<>> => base[d].history = <<>>
        BY <1>6, <2>1, EmptyAppend
      <3> QED BY <1>7, <3>1, <3>2
    <2>2. CASE Kept(base[d], files[d], history[d])
      <3>1. <<>> \in Seq(Entry) /\ history[d] = base[d].history \o <<>>
        BY <1>6, <2>2 DEF Kept
      <3> QED BY <1>7, <2>1, <2>2, <3>1 DEF Kept
    <2>3. CASE Appended(base[d], files[d], history[d]) /\ Orphan(journals[d])
      BY <1>3, <2>1, <2>3 DEF Appended, Kept
    <2>4. CASE Made(base[d], files[d], history[d]) /\ ~Orphan(journals[d])
      BY <1>3, <1>7, <2>4
    <2> QED BY <1>5, <2>2, <2>3, <2>4 DEF Recoverable
  <1>9. Quiet(d)'
    BY <1>1, <1>3, <1>4, <1>5, <1>8 DEF Quiet, Recoverable
  <1>10. ASSUME NEW e \in Docs \ {d} PROVE Quiet(e)'
    <2>1. history'[e] = history[e]
      BY <1>1 DEF TypeOK, DiskOK
    <2> QED BY <1>1, <1>2, <1>4, <2>1 DEF Quiet
  <1>11. Recovers(p)'
    <2>1. Pending' = Pending
      BY <1>1 DEF Pending
    <2>2. rec'[p].doc = d
      BY <1>0, <1>4
    <2> QED BY <1>0, <1>1, <1>3, <1>4, <1>8, <2>1, <2>2 DEF Recovers, Scanning
  <1>12. BaseType'
    BY <1>1, BaseTypeKept DEF AtomicInv
  <1> QED BY <1>0, <1>1, <1>3, <1>9, <1>10, <1>11, <1>12, RecoveryStep

(* A cleared journal leaves the old document with its history, or the new one    *)
(* with its own: a save of the promise, or nothing.                              *)
LEMMA ClearStep ==
    ASSUME TypeOK, LockInv, OneServer, AtomicInv, NEW p \in Procs, ClearJournal(p)
    PROVE  AtomicInv' /\ (StoreKept \/ StoreSaves)
  <1>0. PICK d \in Docs : d = rec[p].doc
    BY DEF ClearJournal, TypeOK, ProcsOK
  <1> DEFINE B == base[d]
             r == [rec[p] EXCEPT !.todo = @ \ {rec[p].doc}]
  <1>1. /\ phase[p] = "clear" /\ SetPhase(p, "journals", r)
        /\ UNCHANGED <<files, history, snaps, diffs, index, threads>>
        /\ journals' = [journals EXCEPT ![d] = None] /\ base' = [base EXCEPT ![d] = None]
    BY <1>0 DEF ClearJournal
  <1>2. \A e \in Docs : Quiet(e)
    BY <1>1, AllQuiet
  <1>3. /\ d \in Pending /\ rec[p].todo = Pending /\ journals[d] # None
        /\ Kept(B, files[d], history[d]) \/ Made(B, files[d], history[d])
    BY <1>0, <1>1 DEF AtomicInv, RecoverInv, Recovers, Pending
  <1>4. r.todo = Pending \ {d}
    BY <1>0, <1>3 DEF TypeOK, ProcsOK, Recovery
  <1> HIDE DEF r
  <1>5. phase'[p] = "journals" /\ rec'[p] = r /\ \A q \in Procs : q = p
    BY <1>1, OnlyProc
  <1>6. /\ BaseOK(B) /\ (Empty(files[d]) => snaps[d] = None)
        /\ FilesOK(B.files) /\ B.files \in [Types -> Document]
    BY <1>2, <1>3 DEF Quiet, Recoverable, BaseOK, Usable, Captures
  <1>7. journals'[d] = None /\ base'[d] = None
        /\ \A e \in Docs \ {d} : journals'[e] = journals[e] /\ base'[e] = base[e]
    BY <1>1 DEF TypeOK, DiskOK, AtomicInv, BaseType
  <1>8. ASSUME NEW c \in Content, OnlyType(B.files, c.type),
               files[d] = [B.files EXCEPT ![c.type] = c]
        PROVE  FilesOK(files[d]) /\ TheFile(files[d]) = c
    <2>1. c.type \in Types /\ c # None /\ c # Torn
      BY ConstantsAreSane DEF Content
    <2>2. files[d][c.type] = c /\ \A z \in Types \ {c.type} : files[d][z] = None
      BY <1>6, <1>8, <2>1 DEF OnlyType
    <2>3. FilesOK(files[d])
      BY <2>1, <2>2 DEF FilesOK
    <2> QED BY <2>1, <2>2, <2>3, TheFileOf
  <1>9. FilesOK(files[d])
    BY <1>3, <1>6, <1>8 DEF Kept, Made
  <1>10. Quiet(d)'
    BY <1>1, <1>5, <1>6, <1>7, <1>9 DEF Quiet
  <1>11. \A e \in Docs \ {d} : Quiet(e)'
    BY <1>1, <1>2, <1>5, <1>7 DEF Quiet
  <1>12. Recovers(p)'
    <2>1. Pending' = Pending \ {d}
      BY <1>7 DEF Pending
    <2> QED BY <1>4, <1>5, <2>1 DEF Recovers, Scanning
  <1>13. BaseType'
    BY <1>1 DEF AtomicInv, BaseType
  <1>14. AtomicInv'
    BY <1>1, <1>10, <1>11, <1>12, <1>13, RecoveryStep
  <1>15. StoreOf(d) = [doc |-> TheFile(B.files), history |-> B.history]
         /\ StoreOf(d)' = [doc |-> TheFile(files[d]), history |-> history[d]]
    BY <1>1, <1>3, <1>7 DEF StoreOf
  <1>16. \A e \in Docs \ {d} : StoreOf(e)' = StoreOf(e)
    BY <1>1, <1>7 DEF StoreOf
  <1>17. CASE Kept(B, files[d], history[d])
    BY <1>14, <1>15, <1>16, <1>17 DEF Kept, StoreKept
  <1>18. CASE Made(B, files[d], history[d])
    <2>1. PICK c \in Content : /\ OnlyType(B.files, c.type)
                               /\ files[d] = [B.files EXCEPT ![c.type] = c]
                               /\ history[d] = B.history \o DeltaOf(B.files, c)
      BY <1>18 DEF Made
    <2>2. TheFile(files[d]) = c
      BY <1>8, <2>1
    <2>3. TheFile(B.files) # None => TheFile(B.files).type = c.type
      BY <1>6, <2>1, ReplacedType
    <2>4. StoreOf(d)' = [doc |-> c,
                         history |-> B.history \o Abstract!Delta(TheFile(B.files), c)]
      BY <1>15, <2>1, <2>2 DEF DeltaOf
    <2> HIDE DEF B
    <2> QED BY <1>14, <1>15, <1>16, <2>3, <2>4, SaveHappens
  <1> QED BY <1>3, <1>17, <1>18

(* Pending, Existing and the store read only these. *)
LEMMA ScanFrame ==
    ASSUME UNCHANGED <<files, journals>>
    PROVE  Pending' = Pending /\ Existing' = Existing
  BY DEF Pending, Existing

(* All journals are cleared when the scan begins. *)
LEMMA StartStep ==
    ASSUME TypeOK, LockInv, OneServer, AtomicInv, NEW p \in Procs, StartScan(p)
    PROVE  AtomicInv'
  <1> DEFINE r == [NoRec EXCEPT !.todo = Existing]
  <1>1. /\ phase[p] = "journals" /\ rec[p].todo = {} /\ SetPhase(p, "scan", r)
        /\ UNCHANGED <<files, history, snaps, index, journals, threads, base>>
    BY DEF StartScan, Recovering, ghosts, disk
  <1>2. r.todo = Existing
    BY DEF NoRec
  <1> HIDE DEF r
  <1>3. Pending = {}
    BY <1>1 DEF AtomicInv, RecoverInv, Recovers
  <1>4. phase'[p] = "scan" /\ rec'[p] = r
    BY <1>1, OnlyProc
  <1>5. Pending' = Pending /\ Existing' = Existing
    BY <1>1, ScanFrame
  <1>6. Recovers(p)'
    BY <1>2, <1>3, <1>4, <1>5 DEF Recovers, Scanning
  <1>7. \A d \in Docs : Quiet(d)'
    <2> SUFFICES ASSUME NEW d \in Docs PROVE Quiet(d)'
      OBVIOUS
    <2>1. Quiet(d) /\ journals[d] = None
      BY <1>1, <1>3, AllQuiet DEF Pending
    <2>2. Empty(files[d]) => snaps'[d] = None
      BY <1>1, <2>1 DEF Quiet
    <2> QED BY <1>1, <1>4, <2>1, <2>2, QuietInRecovery
  <1>8. BaseType'
    BY <1>1, BaseTypeKept DEF AtomicInv
  <1> QED BY <1>1, <1>6, <1>7, <1>8, RecoveryStep

(* A step of the scan reads listed files only and writes rows and snapshots. *)
LEMMA ScanningStep ==
    ASSUME TypeOK, LockInv, OneServer, AtomicInv, NEW p \in Procs, phase[p] \in Scanning,
           NEW to \in Scanning, NEW r, SetPhase(p, to, r), r.todo \subseteq rec[p].todo,
           UNCHANGED <<files, journals, threads, base>>,
           \A d \in Docs : Empty(files[d]) /\ snaps[d] = None => snaps'[d] = None
    PROVE  AtomicInv'
  <1>1. rec[p].todo \subseteq Existing /\ Pending = {} /\ phase[p] # "up"
    BY DEF AtomicInv, RecoverInv, Recovers, Scanning
  <1>2. phase'[p] = to /\ rec'[p] = r
    BY OnlyProc
  <1>3. Pending' = Pending /\ Existing' = Existing
    BY ScanFrame
  <1>4. Recovers(p)'
    BY <1>1, <1>2, <1>3 DEF Recovers, Scanning
  <1>5. \A d \in Docs : Quiet(d)'
    <2> SUFFICES ASSUME NEW d \in Docs PROVE Quiet(d)'
      OBVIOUS
    <2>1. Quiet(d) /\ journals[d] = None
      BY <1>1, AllQuiet DEF Pending
    <2>2. Empty(files[d]) => snaps'[d] = None
      BY <2>1 DEF Quiet
    <2> QED BY <1>2, <2>1, <2>2, QuietInRecovery DEF Scanning
  <1>6. BaseType'
    BY BaseTypeKept DEF AtomicInv
  <1> QED BY <1>1, <1>4, <1>5, <1>6, RecoveryStep

LEMMA ScanDocStep ==
    ASSUME TypeOK, LockInv, OneServer, AtomicInv, NEW p \in Procs,
           NEW d \in Docs, NEW y \in Types, ScanDoc(p, d, y)
    PROVE  AtomicInv'
  <1> DEFINE doc == FileAt(d, y)
             rest == [rec[p] EXCEPT !.todo = @ \ {<<d, y>>}]
             found == [rest EXCEPT !.doc = d, !.body = doc.body, !.seen = @ \cup {d}]
  <1>1. /\ phase[p] = "scan" /\ <<d, y>> \in rec[p].todo
        /\ UNCHANGED <<files, history, snaps, journals, threads, base>>
    BY DEF ScanDoc, Recovering, ghosts
  <1>2. doc # None
    BY <1>1 DEF AtomicInv, RecoverInv, Recovers, Scanning, Existing, FileAt
  <1>3. SetPhase(p, "scan", rest) \/ SetPhase(p, "resnap", found)
    BY <1>2 DEF ScanDoc
  <1>4. rest.todo \subseteq rec[p].todo /\ found.todo \subseteq rec[p].todo
    BY DEF TypeOK, ProcsOK, Recovery
  <1> HIDE DEF rest, found, doc
  <1> QED BY <1>1, <1>3, <1>4, ScanningStep DEF Scanning

(* A snapshot is rewritten only beside a document. *)
LEMMA SnapshotStep ==
    ASSUME TypeOK, LockInv, OneServer, ScanInv, AtomicInv, NEW p \in Procs,
           CheckSnapshot(p) \/ RewriteSnapshot(p)
    PROVE  AtomicInv'
  <1>0. PICK d \in Docs : d = rec[p].doc
    BY DEF CheckSnapshot, RewriteSnapshot, TypeOK, ProcsOK
  <1>1. /\ phase[p] \in {"resnap", "resnapWrite"}
        /\ UNCHANGED <<files, history, journals, threads, base>>
        /\ \E to \in Scanning : SetPhase(p, to, rec[p])
    BY DEF CheckSnapshot, RewriteSnapshot, Recovering, ghosts, Scanning
  <1>2. \A e \in Docs \ {d} : snaps'[e] = snaps[e]
    BY <1>0 DEF CheckSnapshot, RewriteSnapshot, TypeOK, DiskOK
  <1>3. ~Empty(files[d])
    <2>1. Remembered(d, rec[p].body)
      BY <1>0, <1>1 DEF ScanInv, ScanBody, Scanning
    <2> QED BY <2>1 DEF Remembered, Readable, Empty
  <1> QED BY <1>1, <1>2, <1>3, ScanningStep DEF Scanning

(* A row and a snapshot that agree with the only file of a document are sound. *)
LEMMA AgreesIsSound ==
    ASSUME NEW f, NEW snap, NEW row, FilesOK(f), Empty(f) => snap = None,
           IF {y \in Types : f[y] \notin {None, Torn}} = {} THEN row = None
           ELSE \E y \in {z \in Types : f[z] \notin {None, Torn}} :
                   ~Stale(row, f[y]) /\ snap = f[y].body
    PROVE  Sound(f, snap, row)
  <1> DEFINE R == {y \in Types : f[y] \notin {None, Torn}}
  <1>1. \A y \in Types : f[y] # None <=> y \in R
    BY DEF FilesOK
  <1>2. Empty(f) => row = None
    BY <1>1 DEF Empty
  <1>3. ASSUME NEW z \in Types, f[z] # None PROVE ~Stale(row, f[z]) /\ snap = f[z].body
    <2>1. z \in R
      BY <1>1, <1>3
    <2>2. PICK y \in R : ~Stale(row, f[y]) /\ snap = f[y].body
      BY <2>1
    <2>3. y = z
      BY <1>1, <1>3 DEF FilesOK
    <2> QED BY <2>2, <2>3
  <1> QED BY <1>2, <1>3 DEF Sound

LEMMA FinishStep ==
    ASSUME TypeOK, LockInv, OneServer, ScanInv, AtomicInv, NEW p \in Procs,
           FinishRecovery(p)
    PROVE  AtomicInv'
  <1>1. /\ phase[p] = "scan" /\ SetPhase(p, "up", NoRec)
        /\ UNCHANGED <<files, history, snaps, journals, threads, base>>
    BY DEF FinishRecovery, Recovering, ghosts
  <1>2. phase'[p] = "up"
    BY <1>1, OnlyProc
  <1>3. \A d \in Docs : Agrees(d)'
    <2>1. [Next]_vars
      BY DEF Next, ProcStep
    <2> QED BY <1>1, <1>2, <2>1, RecoveryAgrees
  <1>4. Pending = {}
    BY <1>1 DEF AtomicInv, RecoverInv, Recovers, Scanning
  <1>5. Recovers(p)'
    BY <1>2 DEF Recovers, Scanning
  <1>6. ASSUME NEW d \in Docs PROVE Quiet(d)'
    <2>1. Quiet(d) /\ journals[d] = None
      BY <1>1, <1>4, AllQuiet DEF Pending
    <2>2. FilesOK(files[d]) /\ (Empty(files[d]) => snaps[d] = None)
      BY <2>1 DEF Quiet
    <2>3. files'[d] = files[d] /\ snaps'[d] = snaps[d] /\ journals'[d] = None
      BY <1>1, <2>1
    <2>4. Sound(files[d], snaps[d], index'[d])
      BY <1>3, <2>2, <2>3, AgreesIsSound DEF Agrees, Readable
    <2> QED BY <2>2, <2>3, <2>4 DEF Quiet
  <1>7. BaseType'
    BY <1>1, BaseTypeKept DEF AtomicInv
  <1> QED BY <1>1, <1>5, <1>6, <1>7, RecoveryStep

(* A kill at a tolerated point leaves the document to its journal. *)
LEMMA CrashStep ==
    ASSUME TypeOK, LockInv, OneServer, AtomicInv, KilledWhereRestored, NEW p \in Procs,
           Crash(p)
    PROVE  AtomicInv'
  <1> USE ConstantsAreSane
  <1>1. /\ UNCHANGED <<disk, files, history, snaps, index, journals, base>>
        /\ SetPhase(p, "down", NoRec) /\ Pending' = Pending
    BY DEF Crash, disk, ghosts, Pending
  <1>2. phase[p] \in {"up", "down", "undo", "clear"}
    <2>1. phase[p] \in Phases /\ phase[p] \in {"up", "down", "undo", "clear"} \cup Labels
      BY DEF Crash, KilledWhereRestored, TypeOK, ProcsOK
    <2> QED BY <2>1 DEF Phases, Labels, Critical, Trying, Undoing
  <1>3. phase'[p] = "down" /\ \A q \in Procs : q = p
    BY <1>1, OnlyProc
  <1>4. \A t \in Threads : pc[t] \in CrashIn /\ pc'[t] = "idle"
    BY <1>3 DEF Crash
  <1>5. WriterInv'
    BY <1>4 DEF WriterInv, Writing, Trying, Undoing
  <1>6. RecoverInv'
    BY <1>3 DEF RecoverInv, Recovers, Scanning
  <1>7. BaseType'
    BY <1>1, BaseTypeKept DEF AtomicInv
  <1>8. phase[p] \in {"undo", "clear"} => Pending # {}
    BY DEF AtomicInv, RecoverInv, Recovers
  <1>9. ASSUME NEW d \in Docs PROVE Quiet(d)'
    <2>1. CASE Busy(d)
      <3>1. PICK t \in Threads : pc[t] \in Writing /\ Doc(t) = d
        BY <2>1 DEF Busy
      <3>2. Writer(t, d)
        BY <3>1 DEF AtomicInv, WriterInv
      <3>3. pc[t] \notin {"write", "undoWrite", "mark", "undoDoc", "undoHistory", "undoSnap"}
        BY <1>4 DEF KilledWhereRestored
      <3>4. journals[d] # None
            /\ Recoverable(base[d], files[d], history[d], snaps[d], journals[d])
        BY <3>1, <3>2, <3>3, WriterRecoverable
      <3> QED BY <1>1, <1>3, <3>4 DEF Quiet
    <2>2. CASE ~Busy(d)
      <3>1. Quiet(d)
        BY <2>2 DEF AtomicInv, QuietInv
      <3>2. CASE journals[d] # None
        BY <1>1, <1>3, <3>1, <3>2 DEF Quiet
      <3>3. CASE journals[d] = None
        BY <1>1, <1>2, <1>3, <1>8, <3>1, <3>3 DEF Quiet, Sound
      <3> QED BY <3>2, <3>3
    <2> QED BY <2>1, <2>2
  <1>10. QuietInv'
    BY <1>9 DEF QuietInv
  <1> QED BY <1>5, <1>6, <1>7, <1>10 DEF AtomicInv

LEMMA RecoveryAtomic ==
    ASSUME TypeOK, LockInv, OneServer, ScanInv, AtomicInv, KilledWhereRestored,
           NEW p \in Procs, ProcStep(p) \/ Crash(p)
    PROVE  AtomicInv' /\ (StoreKept \/ StoreSaves)
  <1>1. CASE ClearJournal(p)
    BY <1>1, ClearStep
  <1>2. CASE UndoOrphan(p)
    <2>0. PICK d \in Docs : d = rec[p].doc
      BY <1>2 DEF UndoOrphan, TypeOK, ProcsOK
    <2>1. AtomicInv' /\ journals[d] # None
      BY <1>2, <2>0, UndoStep DEF Pending
    <2>2. /\ UNCHANGED <<files, journals, base>>
          /\ \A e \in Docs \ {d} : history'[e] = history[e]
      BY <1>2, <2>0 DEF UndoOrphan, Recovering, ghosts, TypeOK, DiskOK
    <2>3. StoreOf(d)' = StoreOf(d)
      BY <2>1, <2>2 DEF StoreOf
    <2>4. \A e \in Docs \ {d} : StoreOf(e)' = StoreOf(e)
      BY <2>2 DEF StoreOf
    <2> QED BY <2>1, <2>3, <2>4 DEF StoreKept
  <1>3. CASE \/ Open(p) \/ StartScan(p) \/ CheckSnapshot(p) \/ RewriteSnapshot(p)
             \/ FinishRecovery(p) \/ Crash(p)
             \/ \E d \in Docs : LoadJournal(p, d)
             \/ \E d \in Docs, y \in Types : ScanDoc(p, d, y)
    <2>1. AtomicInv'
      BY <1>3, OpenStep, StartStep, SnapshotStep, FinishStep, CrashStep, LoadStep,
         ScanDocStep
    <2>2. UNCHANGED <<files, history, journals, base>>
      BY <1>3 DEF Open, StartScan, CheckSnapshot, RewriteSnapshot, FinishRecovery, Crash,
         LoadJournal, ScanDoc, Recovering, ghosts, disk
    <2> QED BY <2>1, <2>2, StoreFrame
  <1> QED BY <1>1, <1>2, <1>3 DEF ProcStep

LEMMA AtomicStep ==
    TypeOK /\ LockInv /\ OneServer /\ ScanInv /\ AtomicInv /\ KilledWhereRestored
    /\ RollbacksRestore /\ [Next]_vars =>
        AtomicInv' /\ (StoreKept \/ StoreSaves)
  <1> SUFFICES ASSUME TypeOK, LockInv, OneServer, ScanInv, AtomicInv, KilledWhereRestored,
                      RollbacksRestore, [Next]_vars
               PROVE  AtomicInv' /\ (StoreKept \/ StoreSaves)
    OBVIOUS
  <1>1. CASE UNCHANGED vars
    <2>1. UNCHANGED <<disk, base, procs>> /\ UNCHANGED threads
      BY <1>1 DEF vars, ghosts
    <2>2. AtomicInv'
      BY <2>1, IdleStep DEF threads
    <2> QED BY <2>1, <2>2, StoreFrame DEF disk
  <1>2. CASE Next
    BY <1>2, RequestAtomic, RecoveryAtomic DEF Next
  <1> QED BY <1>1, <1>2

LEMMA AtomicInit == Init => AtomicInv
  <1> SUFFICES ASSUME Init PROVE AtomicInv
    OBVIOUS
  <1>1. BaseType
    BY DEF Init, BaseType
  <1>2. \A d \in Docs : Quiet(d)
    BY DEF Init, Quiet, FilesOK, Sound, Empty
  <1>3. WriterInv
    BY DEF Init, WriterInv, Writing, Trying, Undoing
  <1>4. RecoverInv
    BY DEF Init, RecoverInv, Recovers, Scanning
  <1> QED BY <1>1, <1>2, <1>3, <1>4 DEF AtomicInv, QuietInv

LEMMA AtomicAlways ==
    ASSUME OneServer, KilledWhereRestored, RollbacksRestore
    PROVE  Spec => [](TypeOK /\ LockInv /\ ScanInv /\ AtomicInv)
  <1> DEFINE I == TypeOK /\ LockInv /\ ScanInv /\ AtomicInv
  <1>1. Init => I
    BY InitType, KeptInit, AtomicInit DEF Init, ScanInv, Scanning
  <1>2. I /\ [Next]_vars => I'
    BY OneServer, KilledWhereRestored, RollbacksRestore, TypeStep, LockStep, ScanStep,
       AtomicStep
  <1> QED BY <1>1, <1>2, PTL DEF Spec

(* At rest nobody writes: the document is sound. *)
LEMMA RestIsSound ==
    ASSUME TypeOK, AtomicInv, NEW d \in Docs, AtRest(d)
    PROVE  Agrees(d)
  <1>1. ~Busy(d)
    <2> SUFFICES ASSUME NEW t \in Threads, pc[t] \in Writing, Doc(t) = d PROVE FALSE
      BY DEF Busy
    <2>1. Writer(t, d)
      BY DEF AtomicInv, WriterInv
    <2> QED BY <2>1 DEF Writer, WriterAt, JournalAt, AtRest
  <1>2. Sound(files[d], snaps[d], index[d])
    BY <1>1 DEF AtRest, AtomicInv, QuietInv, Quiet
  <1>3. CASE Readable(d) = {}
    <2>1. Empty(files[d])
      BY <1>2, <1>3 DEF Sound, FilesOK, Empty, Readable
    <2> QED BY <1>2, <1>3, <2>1 DEF Sound, Agrees
  <1>4. CASE Readable(d) # {}
    <2>1. PICK y \in Types : y \in Readable(d) /\ files[d][y] # None
      BY <1>4 DEF Readable
    <2> QED BY <1>2, <1>4, <2>1 DEF Sound, Agrees
  <1> QED BY <1>3, <1>4

(* With one server process, killed only where recovery can restore the document,   *)
(* and rollbacks that put the document back before they raise, a document at rest  *)
(* agrees with its index row and its snapshot: for any number of documents, types, *)
(* threads, requests and crashes, whatever raises in the try block of a save.      *)
THEOREM AtRestTheIndexAgrees ==
    ASSUME OneServer, KilledWhereRestored, RollbacksRestore
    PROVE  Spec => []AgreesAtRest
  <1>1. TypeOK /\ AtomicInv => AgreesAtRest
    BY RestIsSound DEF AgreesAtRest
  <1> QED BY <1>1, AtomicAlways, OneServer, KilledWhereRestored, RollbacksRestore, PTL

(* Under the same conditions the write path implements DeltaStore: seen through    *)
(* its journal, a save changes a document and its history in one step or not at    *)
(* all, and the entry it adds is the difference between the two documents.         *)
THEOREM SavesRefineDeltaStore ==
    ASSUME OneServer, KilledWhereRestored, RollbacksRestore
    PROVE  Spec => ImplementsDeltaStore
  <1>1. Init => Abstract!Init
    <2> SUFFICES ASSUME Init PROVE Abstract!Init
      OBVIOUS
    <2>1. \A d \in Docs : StoreOf(d) = [doc |-> None, history |-> <<>>]
      BY DEF Init, StoreOf, TheFile
    <2> QED BY <2>1 DEF Abstract!Init
  <1>2. TypeOK /\ LockInv /\ ScanInv /\ AtomicInv /\ [Next]_vars =>
            [Abstract!Next]_([d \in Docs |-> StoreOf(d)])
    <2> SUFFICES ASSUME TypeOK, LockInv, ScanInv, AtomicInv, [Next]_vars
                 PROVE  [Abstract!Next]_([d \in Docs |-> StoreOf(d)])
      OBVIOUS
    <2>1. StoreKept \/ StoreSaves
      BY OneServer, KilledWhereRestored, RollbacksRestore, AtomicStep
    <2>2. CASE StoreKept
      <3>1. [d \in Docs |-> StoreOf(d)]' = [d \in Docs |-> StoreOf(d)']
        OBVIOUS
      <3> QED BY <2>2, <3>1 DEF StoreKept
    <2>3. CASE StoreSaves
      BY <2>3 DEF StoreSaves, Abstract!Next
    <2> QED BY <2>1, <2>2, <2>3
  <1> QED BY <1>1, <1>2, AtomicAlways, OneServer, KilledWhereRestored, RollbacksRestore,
             PTL DEF Spec, ImplementsDeltaStore, Abstract!Spec

(* If nothing raises in a rollback, a save that raised and rolled back has put the *)
(* file, the history, the snapshot, the docs-diff and the row back as it found     *)
(* them.                                                                           *)
THEOREM RollbackRestoresTheDirectory ==
    ASSUME OneServer, KilledWhereRestored, RollbacksSucceed
    PROVE  Spec => FailedSaveLeavesNoTrace
  <1>1. TypeOK /\ AtomicInv /\ [Next]_vars =>
            [\A t \in Threads : pc[t] = "undone" /\ journals'[Doc(t)] # journals[Doc(t)] =>
                LET d == Doc(t) IN
                /\ files[d] = base[d].files
                /\ history[d] = base[d].history
                /\ snaps[d] = base[d].snap
                /\ diffs[d] = base[d].diff
                /\ SameRow(index[d], base[d].index)]_vars
    BY RollbacksSucceed, UndoneAsFound
  <1>2. RollbacksRestore
    BY RollbacksSucceed DEF RollbacksRestore, RollbacksSucceed, Undoing
  <1> QED BY <1>1, <1>2, AtomicAlways, OneServer, KilledWhereRestored, PTL
          DEF Spec, FailedSaveLeavesNoTrace

=================================================================================
