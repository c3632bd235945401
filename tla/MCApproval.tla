------------------------------ MODULE MCApproval ------------------------------
(***************************************************************************)
(* Crash and failure points for the runs of Approval.tla.                  *)
(***************************************************************************)
EXTENDS Approval, TLC

Anywhere == Labels

(* Between the save of an approval and its status change a crash or a failed *)
(* write leaves a reflected submission pending: see the README.               *)
NotAtMark == Labels \ {"mark"}
AtMark == {"idle", "mark"}
Idle == {"idle"}
Nowhere == {}

Calls == Labels \ {"idle", "edit"}
CallsButMark == Calls \ {"mark"}

Symmetry == Permutations(SubIds) \cup Permutations(Threads)
===============================================================================
