------------------------------- MODULE SaveEngine -------------------------------
(***************************************************************************)
(* The write path of the file backend: hub/store/save.py with journal.py,  *)
(* locking.py, history.py, snapshots.py, and the recovery that reconcile.py *)
(* runs when a process opens the store (file_store.py).                    *)
(*                                                                         *)
(* A save touches five places that no transaction covers: the document     *)
(* file, the history file, the snapshot, the docs-diff file and the row of  *)
(* the SQLite index.  Every file write the code issues is a step here, so a *)
(* crash (Crash) or an exception (Fail) falls between any two of them.      *)
(*                                                                         *)
(* write_text truncates and then writes, so a document or a snapshot is     *)
(* Torn in between.  Small files are flushed by one write: no other partial *)
(* content is modelled.  Journal writes are atomic (temp file + rename).    *)
(***************************************************************************)
EXTENDS Naturals, Sequences, FiniteSets

CONSTANTS
    Docs,       \* document ids
    Types,      \* document types; the path of a document is docs/<type>/<id>.md
    Bodies,     \* normalised bodies (a body hash is the body: sha256 is injective here)
    Metas,      \* frontmatter that reconcile compares: title, status, tags, source
    Projects,   \* the project field, in the index but not compared by reconcile
    Intents,    \* texts of an intended change (docs-diff)
    Threads,    \* request threads
    Procs,      \* server processes that share one root directory
    ProcOf,     \* the process a thread belongs to
    CrashIn,    \* labels at which a process may be killed
    FailIn,     \* labels at which an I/O or SQLite call may raise
    MaxSaves,   \* bound on requests
    MaxCrashes, \* bound on crashes
    None,       \* no file, no row, no holder
    Torn        \* a file cut short by a crash; also NUL padding in a history

Content == [type : Types, body : Bodies, meta : Metas, project : Projects]

(* One history entry: what the body was diffed against, and the document saved. *)
Entry == [old : Bodies \cup {None}, new : Content]

(* The journal fields recovery reads.  The steps "snapshot", "docs-diff" and  *)
(* "index" are recorded by the code too; nothing reads them, so the journal    *)
(* write that records one is part of the step it follows.                      *)
Journal == [size : Nat, steps : SUBSET {"history", "doc"}]

ASSUME ConstantsAreSane ==
    /\ ProcOf \in [Threads -> Procs]
    /\ MaxSaves \in Nat
    /\ MaxCrashes \in Nat
    /\ None # Torn
    /\ None \notin Threads \cup Bodies \cup Intents \cup Content \cup Journal
    /\ Torn \notin Bodies \cup Content

VARIABLES
    \* the root directory
    files,      \* [Docs -> [Types -> a document, None or Torn]]
    history,    \* [Docs -> Seq(entries)]
    snaps,      \* [Docs -> body, None or Torn]; Torn: the hash does not match
    diffs,      \* [Docs -> docs-diff text or None]
    index,      \* [Docs -> indexed document or None]
    journals,   \* [Docs -> pending journal or None]
    lock,       \* [Docs -> the thread whose flock is granted, or None]
    \* the threads
    pc, req, prev, entries,
    \* the processes
    phase, rec,
    \* observation only
    acked,      \* the history as of the last save that returned to its caller
    base,       \* the directory's state for a document when its save began
    \* bounds
    saves, crashes

disk    == <<files, history, snaps, diffs, index, journals>>
threads == <<pc, req, prev, entries>>
procs   == <<phase, rec>>
ghosts  == <<acked, base>>
bounds  == <<saves, crashes>>
vars    == <<disk, lock, threads, procs, ghosts, bounds>>

---------------------------------------------------------------------------------
(* Labels.  Critical: the document lock is held.  Trying: inside the try block  *)
(* of _save_locked, where an exception starts _rollback.  Undoing: in _rollback. *)
Trying   == {"intent", "append", "open", "write", "mark", "snap", "snapWrite",
             "diff", "index", "commit"}
Undoing  == {"undoDoc", "undoWrite", "undoHistory", "undoSnap", "undoSnapWrite",
             "undoDiff", "undoIndex", "undone"}
Critical == {"check"} \cup Trying \cup Undoing
Labels   == {"idle", "lock"} \cup Critical
Phases   == {"down", "journals", "undo", "clear", "scan", "resnap",
             "resnapWrite", "up"}

NoReq  == [doc |-> None, new |-> None, intent |-> None]
NoPrev == [doc |-> None, size |-> 0, snap |-> None, diff |-> None]
NoRec  == [doc |-> None, undo |-> FALSE, size |-> 0, todo |-> {}, seen |-> {},
           body |-> None]

Init ==
    /\ files = [d \in Docs |-> [y \in Types |-> None]]
    /\ history = [d \in Docs |-> <<>>]
    /\ snaps = [d \in Docs |-> None]
    /\ diffs = [d \in Docs |-> None]
    /\ index = [d \in Docs |-> None]
    /\ journals = [d \in Docs |-> None]
    /\ lock = [d \in Docs |-> None]
    /\ pc = [t \in Threads |-> "idle"]
    /\ req = [t \in Threads |-> NoReq]
    /\ prev = [t \in Threads |-> NoPrev]
    /\ entries = [t \in Threads |-> <<>>]
    /\ phase = [p \in Procs |-> "down"]
    /\ rec = [p \in Procs |-> NoRec]
    /\ acked = [d \in Docs |-> <<>>]
    /\ base = [d \in Docs |-> None]
    /\ saves = 0
    /\ crashes = 0

---------------------------------------------------------------------------------
(* Helpers *)

(* Mutant: the last acknowledged entry is cut too. *)
TruncateTooFar(h, n) == [i \in 1..(n - 1) |-> h[i]]

(* file.truncate(n): a file shorter than n is padded. *)
Truncate(h, n) == [i \in 1..n |-> IF i <= Len(h) THEN h[i] ELSE Torn]

(* The file a row or a request addresses. *)
FileAt(d, y) == files[d][y]

(* snapshots.load: the body, or None when it is missing or its hash differs. *)
LoadSnapshot(d) == IF snaps[d] = Torn THEN None ELSE snaps[d]

(* _read_prev_frontmatter: through the path in the index row. *)
PrevFrontmatter(d) ==
    IF index[d] = None THEN None ELSE FileAt(d, index[d].type)

SameFrontmatter(a, b) == /\ a.type = b.type
                         /\ a.meta = b.meta
                         /\ a.project = b.project

(* diffing.diff against the snapshot, then history.build: one entry for a     *)
(* changed body, else one for changed frontmatter, else none.  The anchors of *)
(* the hunks and the rendering of the delta are not modelled.                 *)
BuildEntries(d, new) ==
    LET old == LoadSnapshot(d)
        fm  == PrevFrontmatter(d)
    IN  IF /\ old = new.body
           /\ fm \notin {None, Torn}
           /\ SameFrontmatter(fm, new)
        THEN <<>>
        ELSE <<[old |-> old, new |-> new]>>

Doc(t) == req[t].doc
New(t) == req[t].new

(* journal.step rewrites the whole file from the thread's own copy. *)
WriteJournal(t, steps) ==
    journals' = [journals EXCEPT ![Doc(t)] =
                    [size |-> prev[t].size, steps |-> steps]]

Goto(t, label) == pc' = [pc EXCEPT ![t] = label]

(* Leave the lock and the call; the locals of the call die with it. *)
Leave(t) ==
    /\ Goto(t, "idle")
    /\ req' = [req EXCEPT ![t] = NoReq]
    /\ prev' = [prev EXCEPT ![t] = NoPrev]
    /\ entries' = [entries EXCEPT ![t] = <<>>]
Unlock(t) == lock' = [lock EXCEPT ![Doc(t)] = None]

(* The variables a step inside _save_locked leaves alone, whatever it writes. *)
Inside == UNCHANGED <<lock, req, procs, ghosts, bounds>>

---------------------------------------------------------------------------------
(* A save *)

(* A request that passed normalize and lint (save_document, before the lock). *)
Request(t, d, c, i) ==
    /\ pc[t] = "idle"
    /\ phase[ProcOf[t]] = "up"
    /\ saves < MaxSaves
    /\ saves' = saves + 1
    /\ req' = [req EXCEPT ![t] = [doc |-> d, new |-> c, intent |-> i]]
    /\ Goto(t, "lock")
    /\ UNCHANGED <<disk, lock, prev, entries, procs, ghosts, crashes>>

(* doc_lock: flock on .locks/<id>.lock, polled until the timeout. *)
Acquire(t) ==
    /\ pc[t] = "lock"
    /\ lock[Doc(t)] = None
    /\ lock' = [lock EXCEPT ![Doc(t)] = t]
    /\ Goto(t, "check")
    /\ UNCHANGED <<disk, req, prev, entries, procs, ghosts, bounds>>

LockTimeout(t) ==
    /\ pc[t] = "lock"
    /\ lock[Doc(t)] # None
    /\ Leave(t)
    /\ UNCHANGED <<disk, lock, procs, ghosts, bounds>>

TypeChanges(t) ==
    /\ index[Doc(t)] # None
    /\ index[Doc(t)].type # New(t).type

(* The type of an indexed document is immutable: LintError, lock released. *)
RejectType(t) ==
    /\ pc[t] = "check"
    /\ TypeChanges(t)
    /\ Leave(t)
    /\ Unlock(t)
    /\ UNCHANGED <<disk, procs, ghosts, bounds>>

(* The capture, or journal.begin, raises: nothing was written. *)
FailEarly(t) ==
    /\ pc[t] = "check"
    /\ "check" \in FailIn
    /\ Leave(t)
    /\ Unlock(t)
    /\ UNCHANGED <<disk, procs, ghosts, bounds>>

(* Capture what a rollback needs, then journal.begin. *)
Begin(t) ==
    LET d == Doc(t) IN
    /\ pc[t] = "check"
    /\ ~TypeChanges(t)
    /\ prev' = [prev EXCEPT ![t] = [doc  |-> FileAt(d, New(t).type),
                                    size |-> Len(history[d]),
                                    snap |-> snaps[d],
                                    diff |-> diffs[d]]]
    /\ journals' = [journals EXCEPT ![d] =
                       [size |-> Len(history[d]), steps |-> {}]]
    /\ base' = [base EXCEPT ![d] =
                   [files |-> files[d], history |-> history[d], snap |-> snaps[d],
                    diff |-> diffs[d], index |-> index[d]]]
    /\ Goto(t, "intent")
    /\ UNCHANGED <<files, history, snaps, diffs, index, lock, req, entries,
                   procs, acked, bounds>>

(* Mutant: the step is not on disk before the append. *)
IntentUnrecorded(t) ==
    /\ pc[t] = "intent"
    /\ entries' = [entries EXCEPT ![t] = BuildEntries(Doc(t), New(t))]
    /\ Goto(t, "append")
    /\ UNCHANGED <<disk, prev>>
    /\ Inside

(* Diff, build the entries, and record "history" before the append. *)
Intent(t) ==
    /\ pc[t] = "intent"
    /\ entries' = [entries EXCEPT ![t] = BuildEntries(Doc(t), New(t))]
    /\ WriteJournal(t, {"history"})
    /\ Goto(t, "append")
    /\ UNCHANGED <<files, history, snaps, diffs, index, prev>>
    /\ Inside

AppendHistory(t) ==
    /\ pc[t] = "append"
    /\ history' = [history EXCEPT ![Doc(t)] = @ \o entries[t]]
    /\ Goto(t, "open")
    /\ UNCHANGED <<files, snaps, diffs, index, journals, prev, entries>>
    /\ Inside

WriteFile(t, value) == files' = [files EXCEPT ![Doc(t)][New(t).type] = value]

OpenDoc(t) ==
    /\ pc[t] = "open"
    /\ WriteFile(t, Torn)
    /\ Goto(t, "write")
    /\ UNCHANGED <<history, snaps, diffs, index, journals, prev, entries>>
    /\ Inside

WriteDoc(t) ==
    /\ pc[t] = "write"
    /\ WriteFile(t, New(t))
    /\ Goto(t, "mark")
    /\ UNCHANGED <<history, snaps, diffs, index, journals, prev, entries>>
    /\ Inside

MarkDoc(t) ==
    /\ pc[t] = "mark"
    /\ WriteJournal(t, {"history", "doc"})
    /\ Goto(t, "snap")
    /\ UNCHANGED <<files, history, snaps, diffs, index, prev, entries>>
    /\ Inside

(* snapshots.write: body, then hash.  Until the hash is written load refuses it. *)
OpenSnapshot(t) ==
    /\ pc[t] = "snap"
    /\ snaps' = [snaps EXCEPT ![Doc(t)] = Torn]
    /\ Goto(t, "snapWrite")
    /\ UNCHANGED <<files, history, diffs, index, journals, prev, entries>>
    /\ Inside

WriteSnapshot(t) ==
    /\ pc[t] = "snapWrite"
    /\ snaps' = [snaps EXCEPT ![Doc(t)] = New(t).body]
    /\ WriteJournal(t, {"history", "doc"})
    /\ Goto(t, IF req[t].intent = None THEN "index" ELSE "diff")
    /\ UNCHANGED <<files, history, diffs, index, prev, entries>>
    /\ Inside

WriteDiff(t) ==
    /\ pc[t] = "diff"
    /\ diffs' = [diffs EXCEPT ![Doc(t)] = req[t].intent]
    /\ WriteJournal(t, {"history", "doc"})
    /\ Goto(t, "index")
    /\ UNCHANGED <<files, history, snaps, index, prev, entries>>
    /\ Inside

(* index.reindex_doc is one SQLite transaction; then journal.step("index"). *)
Reindex(t) ==
    /\ pc[t] = "index"
    /\ index' = [index EXCEPT ![Doc(t)] = New(t)]
    /\ WriteJournal(t, {"history", "doc"})
    /\ Goto(t, "commit")
    /\ UNCHANGED <<files, history, snaps, diffs, prev, entries>>
    /\ Inside

(* journal.commit, leave the lock, return SaveResult to the caller. *)
Commit(t) ==
    /\ pc[t] = "commit"
    /\ journals' = [journals EXCEPT ![Doc(t)] = None]
    /\ acked' = [acked EXCEPT ![Doc(t)] = history[Doc(t)]]
    /\ base' = [base EXCEPT ![Doc(t)] = None]
    /\ Leave(t)
    /\ Unlock(t)
    /\ UNCHANGED <<files, history, snaps, diffs, index, procs, bounds>>

---------------------------------------------------------------------------------
(* Rollback: an exception at any step of the try block. *)

Fail(t) ==
    /\ pc[t] \in Trying \cap FailIn
    /\ Goto(t, "undoDoc")
    /\ UNCHANGED <<disk, prev, entries>>
    /\ Inside

(* The document: unlink a new one, else write the captured text back. *)
UndoDoc(t) ==
    /\ pc[t] = "undoDoc"
    /\ IF prev[t].doc = None
       THEN WriteFile(t, None) /\ Goto(t, "undoHistory")
       ELSE WriteFile(t, Torn) /\ Goto(t, "undoWrite")
    /\ UNCHANGED <<history, snaps, diffs, index, journals, prev, entries>>
    /\ Inside

UndoWrite(t) ==
    /\ pc[t] = "undoWrite"
    /\ WriteFile(t, prev[t].doc)
    /\ Goto(t, "undoHistory")
    /\ UNCHANGED <<history, snaps, diffs, index, journals, prev, entries>>
    /\ Inside

UndoHistory(t) ==
    /\ pc[t] = "undoHistory"
    /\ history' = [history EXCEPT ![Doc(t)] =
                      IF @ = <<>> THEN @ ELSE Truncate(@, prev[t].size)]
    /\ Goto(t, "undoSnap")
    /\ UNCHANGED <<files, snaps, diffs, index, journals, prev, entries>>
    /\ Inside

(* The snapshot: unlink a new one, else write body and hash back. *)
UndoSnapshot(t) ==
    LET new == prev[t].snap = None IN
    /\ pc[t] = "undoSnap"
    /\ snaps' = [snaps EXCEPT ![Doc(t)] = IF new THEN None ELSE Torn]
    /\ Goto(t, IF new THEN "undoDiff" ELSE "undoSnapWrite")
    /\ UNCHANGED <<files, history, diffs, index, journals, prev, entries>>
    /\ Inside

UndoSnapWrite(t) ==
    /\ pc[t] = "undoSnapWrite"
    /\ snaps' = [snaps EXCEPT ![Doc(t)] = prev[t].snap]
    /\ Goto(t, "undoDiff")
    /\ UNCHANGED <<files, history, diffs, index, journals, prev, entries>>
    /\ Inside

(* Mutant: the docs-diff of the failed save stays. *)
UndoDiffForgotten(t) ==
    /\ pc[t] = "undoDiff"
    /\ Goto(t, "undoIndex")
    /\ UNCHANGED <<disk, prev, entries>>
    /\ Inside

UndoDiff(t) ==
    /\ pc[t] = "undoDiff"
    /\ diffs' = IF req[t].intent = None THEN diffs
                ELSE [diffs EXCEPT ![Doc(t)] = prev[t].diff]
    /\ Goto(t, "undoIndex")
    /\ UNCHANGED <<files, history, snaps, index, journals, prev, entries>>
    /\ Inside

(* A captured empty file has no type: normalize gives no path and this raises. *)
UndoIndex(t) ==
    /\ pc[t] = "undoIndex"
    /\ prev[t].doc # Torn
    /\ index' = [index EXCEPT ![Doc(t)] = prev[t].doc]
    /\ Goto(t, "undone")
    /\ UNCHANGED <<files, history, snaps, diffs, journals, prev, entries>>
    /\ Inside

(* journal.commit after a complete rollback; the exception reaches the caller. *)
RolledBack(t) ==
    /\ pc[t] = "undone"
    /\ journals' = [journals EXCEPT ![Doc(t)] = None]
    /\ base' = [base EXCEPT ![Doc(t)] = None]
    /\ Leave(t)
    /\ Unlock(t)
    /\ UNCHANGED <<files, history, snaps, diffs, index, procs, acked, bounds>>

(* Mutant: a rollback that raises is tried again until it succeeds. *)
RollbackRetried(t) ==
    /\ \/ pc[t] \in Undoing \cap FailIn
       \/ pc[t] = "undoIndex" /\ prev[t].doc = Torn
    /\ Goto(t, "undoDoc")
    /\ UNCHANGED <<disk, prev, entries>>
    /\ Inside

(* The rollback raises: the journal stays pending, the lock is released. *)
RollbackFails(t) ==
    /\ \/ pc[t] \in Undoing \cap FailIn
       \/ pc[t] = "undoIndex" /\ prev[t].doc = Torn
    /\ Leave(t)
    /\ Unlock(t)
    /\ UNCHANGED <<disk, procs, ghosts, bounds>>

---------------------------------------------------------------------------------
(* A process opens the store (FileStore.__init__) and recovers (reconcile.run). *)
(* Recovery takes no document lock.                                              *)

Pending == {d \in Docs : journals[d] # None}
Existing == {f \in Docs \X Types : files[f[1]][f[2]] # None}
Indexed == {d \in Docs : index[d] # None}

(* Mutant: pending journals do not trigger recovery. *)
NeedsReconcileByCount == Cardinality(Existing) # Cardinality(Indexed)

(* A lost index.sqlite shows as a count mismatch, unless docs/ is empty too. *)
NeedsReconcile ==
    \/ Pending # {}
    \/ Cardinality(Existing) # Cardinality(Indexed)

Recovering == UNCHANGED <<lock, threads, ghosts, bounds>>

SetPhase(p, to, r) ==
    /\ phase' = [phase EXCEPT ![p] = to]
    /\ rec' = [rec EXCEPT ![p] = r]

Open(p) ==
    /\ phase[p] = "down"
    /\ IF NeedsReconcile
       THEN SetPhase(p, "journals", [NoRec EXCEPT !.todo = Pending])
       ELSE SetPhase(p, "up", NoRec)
    /\ UNCHANGED disk
    /\ Recovering

(* Load one pending journal and decide whether its history is an orphan. *)
LoadJournal(p, d) ==
    /\ phase[p] = "journals"
    /\ d \in rec[p].todo
    /\ LET j == journals[d]
           orphan == j # None /\ "history" \in j.steps /\ "doc" \notin j.steps
       IN  SetPhase(p, "undo", [rec[p] EXCEPT !.doc = d, !.undo = orphan,
                                  !.size = IF j = None THEN 0 ELSE j.size])
    /\ UNCHANGED disk
    /\ Recovering

UndoOrphan(p) ==
    LET d == rec[p].doc IN
    /\ phase[p] = "undo"
    /\ history' = IF rec[p].undo /\ history[d] # <<>>
                  THEN [history EXCEPT ![d] = Truncate(@, rec[p].size)]
                  ELSE history
    /\ SetPhase(p, "clear", rec[p])
    /\ UNCHANGED <<files, snaps, diffs, index, journals>>
    /\ Recovering

(* Mutant: the journal file is not removed from the work list. *)
ClearJournalAgain(p) ==
    /\ phase[p] = "clear"
    /\ journals' = [journals EXCEPT ![rec[p].doc] = None]
    /\ base' = [base EXCEPT ![rec[p].doc] = None]
    /\ SetPhase(p, "journals", rec[p])
    /\ UNCHANGED <<files, history, snaps, diffs, index, lock, threads, acked,
                   bounds>>

ClearJournal(p) ==
    /\ phase[p] = "clear"
    /\ journals' = [journals EXCEPT ![rec[p].doc] = None]
    /\ base' = [base EXCEPT ![rec[p].doc] = None]
    /\ SetPhase(p, "journals", [rec[p] EXCEPT !.todo = @ \ {rec[p].doc}])
    /\ UNCHANGED <<files, history, snaps, diffs, index, lock, threads, acked,
                   bounds>>

(* All journals are gone: list docs/*/*.md. *)
StartScan(p) ==
    /\ phase[p] = "journals"
    /\ rec[p].todo = {}
    /\ SetPhase(p, "scan", [NoRec EXCEPT !.todo = Existing])
    /\ UNCHANGED disk
    /\ Recovering

(* Body hash, or a field _meta_stale compares (the path follows the type). *)
Stale(row, doc) ==
    \/ row = None
    \/ row.body # doc.body
    \/ row.type # doc.type
    \/ row.meta # doc.meta

(* One document file: reindex it if its row is stale.  A file without an id  *)
(* is skipped; a file that vanished since the listing raises and ends Open.  *)
ScanDoc(p, d, y) ==
    LET doc == FileAt(d, y)
        rest == [rec[p] EXCEPT !.todo = @ \ {<<d, y>>}]
    IN
    /\ phase[p] = "scan"
    /\ <<d, y>> \in rec[p].todo
    /\ CASE doc = None -> SetPhase(p, "down", NoRec) /\ UNCHANGED index
         [] doc = Torn -> SetPhase(p, "scan", rest) /\ UNCHANGED index
         [] OTHER ->
              /\ index' = IF Stale(index[d], doc)
                          THEN [index EXCEPT ![d] = doc] ELSE index
              /\ SetPhase(p, "resnap", [rest EXCEPT !.doc = d, !.body = doc.body,
                                                    !.seen = @ \cup {d}])
    /\ UNCHANGED <<files, history, snaps, diffs, journals>>
    /\ Recovering

(* Then rewrite its snapshot unless it loads and equals the body. *)
CheckSnapshot(p) ==
    /\ phase[p] = "resnap"
    /\ IF LoadSnapshot(rec[p].doc) = rec[p].body
       THEN SetPhase(p, "scan", rec[p]) /\ UNCHANGED snaps
       ELSE /\ SetPhase(p, "resnapWrite", rec[p])
            /\ snaps' = [snaps EXCEPT ![rec[p].doc] = Torn]
    /\ UNCHANGED <<files, history, diffs, index, journals>>
    /\ Recovering

RewriteSnapshot(p) ==
    /\ phase[p] = "resnapWrite"
    /\ snaps' = [snaps EXCEPT ![rec[p].doc] = rec[p].body]
    /\ SetPhase(p, "scan", rec[p])
    /\ UNCHANGED <<files, history, diffs, index, journals>>
    /\ Recovering

(* Mutant: rows of vanished documents stay. *)
FinishRecoveryKeepsRows(p) ==
    /\ phase[p] = "scan"
    /\ rec[p].todo = {}
    /\ SetPhase(p, "up", NoRec)
    /\ UNCHANGED disk
    /\ Recovering

(* Rows whose document was not seen go; the store is open. *)
FinishRecovery(p) ==
    /\ phase[p] = "scan"
    /\ rec[p].todo = {}
    /\ index' = [d \in Docs |-> IF d \in rec[p].seen THEN index[d] ELSE None]
    /\ SetPhase(p, "up", NoRec)
    /\ UNCHANGED <<files, history, snaps, diffs, journals>>
    /\ Recovering

(* Kill a process: its threads vanish and the kernel drops their flocks. *)
Crash(p) ==
    LET mine == {t \in Threads : ProcOf[t] = p} IN
    /\ phase[p] \in CrashIn
    /\ \A t \in mine : pc[t] \in CrashIn
    /\ crashes < MaxCrashes
    /\ crashes' = crashes + 1
    /\ SetPhase(p, "down", NoRec)
    /\ pc' = [t \in Threads |-> IF t \in mine THEN "idle" ELSE pc[t]]
    /\ req' = [t \in Threads |-> IF t \in mine THEN NoReq ELSE req[t]]
    /\ prev' = [t \in Threads |-> IF t \in mine THEN NoPrev ELSE prev[t]]
    /\ entries' = [t \in Threads |-> IF t \in mine THEN <<>> ELSE entries[t]]
    /\ lock' = [d \in Docs |-> IF lock[d] \in mine THEN None ELSE lock[d]]
    /\ UNCHANGED <<disk, ghosts, saves>>

---------------------------------------------------------------------------------

ThreadStep(t) ==
    \/ Acquire(t) \/ LockTimeout(t) \/ RejectType(t) \/ Begin(t) \/ Intent(t)
    \/ AppendHistory(t) \/ OpenDoc(t) \/ WriteDoc(t) \/ MarkDoc(t)
    \/ OpenSnapshot(t) \/ WriteSnapshot(t) \/ WriteDiff(t) \/ Reindex(t)
    \/ Commit(t)
    \/ UndoDoc(t) \/ UndoWrite(t) \/ UndoHistory(t) \/ UndoSnapshot(t)
    \/ UndoSnapWrite(t) \/ UndoDiff(t) \/ UndoIndex(t) \/ RolledBack(t) \/ RollbackFails(t)

ProcStep(p) ==
    \/ Open(p)
    \/ \E d \in Docs : LoadJournal(p, d)
    \/ UndoOrphan(p) \/ ClearJournal(p) \/ StartScan(p)
    \/ \E d \in Docs, y \in Types : ScanDoc(p, d, y)
    \/ CheckSnapshot(p) \/ RewriteSnapshot(p) \/ FinishRecovery(p)

Next ==
    \/ \E t \in Threads, d \in Docs, c \in Content, i \in Intents \cup {None} :
          Request(t, d, c, i)
    \/ \E t \in Threads : ThreadStep(t) \/ Fail(t) \/ FailEarly(t)
    \/ \E p \in Procs : ProcStep(p) \/ Crash(p)

Spec == Init /\ [][Next]_vars

(* A running thread and a recovering process are scheduled; a killed process *)
(* is started again.  Requests, exceptions and crashes are not promised.     *)
FairSpec ==
    /\ Spec
    /\ \A t \in Threads : WF_vars(ThreadStep(t))
    /\ \A p \in Procs : WF_vars(ProcStep(p))

---------------------------------------------------------------------------------
(* Properties *)

Document == Content \cup {None, Torn}
PrevOf == [doc : Document, size : Nat, snap : Bodies \cup {None, Torn},
           diff : Intents \cup {None}]
Requested == [doc : Docs \cup {None}, new : Content \cup {None},
              intent : Intents \cup {None}]
Recovery == [doc : Docs \cup {None}, undo : BOOLEAN, size : Nat,
             todo : SUBSET (Docs \cup (Docs \X Types)), seen : SUBSET Docs,
             body : Bodies \cup {None}]

DiskOK ==
    /\ files \in [Docs -> [Types -> Document]]
    /\ history \in [Docs -> Seq(Entry \cup {Torn})]
    /\ snaps \in [Docs -> Bodies \cup {None, Torn}]
    /\ diffs \in [Docs -> Intents \cup {None}]
    /\ index \in [Docs -> Content \cup {None}]
    /\ journals \in [Docs -> Journal \cup {None}]

ThreadsOK ==
    /\ lock \in [Docs -> Threads \cup {None}]
    /\ pc \in [Threads -> Labels]
    /\ req \in [Threads -> Requested]
    /\ \A t \in Threads : pc[t] # "idle" =>
          req[t].doc \in Docs /\ req[t].new \in Content
    /\ prev \in [Threads -> PrevOf]
    /\ entries \in [Threads -> Seq(Entry)]

ProcsOK ==
    /\ phase \in [Procs -> Phases]
    /\ rec \in [Procs -> Recovery]
    /\ \A p \in Procs :
          /\ phase[p] \in {"undo", "clear", "resnap", "resnapWrite"} =>
                rec[p].doc \in Docs
          /\ phase[p] \in {"resnap", "resnapWrite"} => rec[p].body \in Bodies

(* Every variable holds values the program can hold; a thread past its request  *)
(* has a document, a recovery past its listing too.                             *)
TypeOK ==
    /\ DiskOK
    /\ ThreadsOK
    /\ ProcsOK
    /\ acked \in [Docs -> Seq(Entry \cup {Torn})]
    /\ saves \in 0..MaxSaves
    /\ crashes \in 0..MaxCrashes

Prefix(a, b) == Len(a) <= Len(b) /\ \A i \in 1..Len(a) : a[i] = b[i]

(* The history a save returned with is never shortened or rewritten, whatever *)
(* fails or crashes later: rollback and recovery cut only entries of saves     *)
(* that did not return (_rollback, _rollback_orphan_history).                  *)
AckedHistoryKept == \A d \in Docs : Prefix(acked[d], history[d])

(* Document d is at rest: no pending journal, every process open. *)
AtRest(d) == journals[d] = None /\ \A p \in Procs : phase[p] = "up"

Readable(d) == {y \in Types : files[d][y] \notin {None, Torn}}

(* The index row and the snapshot are those of the document file. *)
Agrees(d) ==
    IF Readable(d) = {} THEN index[d] = None
    ELSE \E y \in Readable(d) :
            ~Stale(index[d], files[d][y]) /\ snaps[d] = files[d][y].body

(* A recovery that completes leaves every document agreeing with its index row *)
(* and its snapshot, wherever the crash or the failed rollback before it fell  *)
(* (reconcile.run, except the project column: see ProjectIndexed).             *)
RecoveryConverges ==
    [][\A p \in Procs : phase[p] = "scan" /\ phase'[p] = "up" =>
          \A d \in Docs : Agrees(d)']_vars

(* At rest a document agrees with its index row and its snapshot, so the next  *)
(* delta is computed against the document it replaces.                         *)
AgreesAtRest == \A d \in Docs : AtRest(d) => Agrees(d)

(* A save that raised and rolled back leaves the directory as it found it.     *)
SameRow(a, b) == a = b \/ (a # None /\ b # None /\ ~Stale(a, b))
FailedSaveLeavesNoTrace ==
    [][\A t \in Threads : pc[t] = "undone" /\ journals'[Doc(t)] # journals[Doc(t)] =>
          LET d == Doc(t) IN
          /\ files[d] = base[d].files
          /\ history[d] = base[d].history
          /\ snaps[d] = base[d].snap
          /\ diffs[d] = base[d].diff
          /\ SameRow(index[d], base[d].index)]_vars

(* The last history entry of a document at rest is about the document there is. *)
HistoryTellsDocument ==
    \A d \in Docs : AtRest(d) =>
        \A y \in Readable(d) :
            history[d] # <<>> /\ history[d][Len(history[d])].new = files[d][y]

(* A document whose creation was acknowledged is there after every crash.      *)
DocumentSurvives ==
    \A d \in Docs : AtRest(d) /\ acked[d] # <<>> => Readable(d) # {}

(* A snapshot is the baseline of a document: where there is no document at     *)
(* rest there is none, so a first save is recorded as a creation.              *)
NoOrphanSnapshot ==
    \A d \in Docs : AtRest(d) /\ Readable(d) = {} => LoadSnapshot(d) = None

(* The index has the project the document file has. *)
ProjectIndexed ==
    \A d \in Docs : AtRest(d) =>
        \A y \in Readable(d) : index[d] # None => index[d].project = files[d][y].project

(* A process that starts finishes its recovery, and a request gets an answer.  *)
OpensEventually == \A p \in Procs : phase[p] = "down" ~> phase[p] = "up"
RequestsAreAnswered == \A t \in Threads : pc[t] = "lock" ~> pc[t] = "idle"

(* The refinement: until its journal is cleared a save has not happened, and   *)
(* clearing the journal makes the document and its history change together.    *)
TheFile(f) == IF \E y \in Types : f[y] # None
              THEN f[CHOOSE y \in Types : f[y] # None] ELSE None
StoreOf(d) ==
    IF journals[d] = None
    THEN [doc |-> TheFile(files[d]), history |-> history[d]]
    ELSE [doc |-> TheFile(base[d].files), history |-> base[d].history]

Abstract == INSTANCE DeltaStore WITH store <- [d \in Docs |-> StoreOf(d)]

(* The write path implements the atomic store of DeltaStore.tla.               *)
ImplementsDeltaStore == Abstract!Spec

=================================================================================
