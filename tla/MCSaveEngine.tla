------------------------------ MODULE MCSaveEngine ------------------------------
(***************************************************************************)
(* Model values, process layouts and sets of crash points for the runs of  *)
(* SaveEngine.tla.                                                         *)
(***************************************************************************)
EXTENDS SaveEngine, TLC

CONSTANTS t1, t2, p1, p2

OneProcess == [t \in Threads |-> p1]
TwoProcesses == t1 :> p1 @@ t2 :> p2

Anywhere == Labels \cup Phases
Serving == Labels \cup {"up"}

(* An exception at any step of the try block; the rollback itself succeeds. *)
TryFails == Trying
(* ... or the rollback raises as well. *)
AllFail == {"check"} \cup Trying \cup Undoing

(* The crash points from which recovery restores the atomic store.  Left out:   *)
(* a torn document ("write", "undoWrite"), the gap between a document write and *)
(* the journal step or rollback of the history that belongs to it ("mark",      *)
(* "undoDoc", "undoHistory", "undoSnap"), and recovery past a cleared journal   *)
(* ("journals", "scan", "resnap", "resnapWrite").  The README has a             *)
(* counterexample of each kind.                                                 *)
Tolerated == (Serving \cup {"down", "undo", "clear"})
                \ {"write", "undoWrite", "mark", "undoDoc", "undoHistory", "undoSnap"}

Nowhere == {}

(* One crash point each, next to plain restarts. *)
Restart == {"idle", "up"}
AtMark == Restart \cup {"mark"}
AtWrite == Restart \cup {"write"}
AtIndex == Restart \cup {"index"}
AtUndoSnap == Restart \cup {"undoSnap"}
AtScan == Restart \cup {"snap", "scan"}
UndoHistoryFails == {"index", "undoHistory"}

=================================================================================
