------------------------------ MODULE ReviewQueue ------------------------------
(***************************************************************************)
(* What the approval workflow promises, in one atomic step per decision:   *)
(* a document changes only when a pending submission for it is approved,   *)
(* and then only from the version the submission was made from (or it has  *)
(* the submitted content already).  A decision is final.                   *)
(*                                                                         *)
(* Approval.tla shows which executions of the code keep this promise.      *)
(***************************************************************************)
CONSTANTS
    Docs,      \* document ids
    SubIds,    \* submission ids
    Versions,  \* versions of a document
    Proposals, \* what may be submitted
    Ops,       \* what a reviewer may be told that a submission does
    Saved(_),  \* the version that saving a proposal makes
    None       \* no document, no submission

VARIABLES
    docs,  \* [Docs -> a version or None]
    subs   \* [SubIds -> a submission or None]

Init ==
    /\ docs = [d \in Docs |-> None]
    /\ subs = [s \in SubIds |-> None]

(* A submission remembers the version it was made from. *)
Submit(s, d, raw, base, op) ==
    /\ subs[s] = None
    /\ subs' = [subs EXCEPT ![s] = [doc |-> d, raw |-> raw, base |-> base,
                                    op |-> op, status |-> "pending"]]
    /\ UNCHANGED docs

Approve(s) ==
    /\ subs[s] # None
    /\ subs[s].status = "pending"
    /\ docs[subs[s].doc] \in {subs[s].base, Saved(subs[s].raw)}
    /\ docs' = [docs EXCEPT ![subs[s].doc] = Saved(subs[s].raw)]
    /\ subs' = [subs EXCEPT ![s].status = "approved"]

Reject(s) ==
    /\ subs[s] # None
    /\ subs[s].status = "pending"
    /\ subs' = [subs EXCEPT ![s].status = "rejected"]
    /\ UNCHANGED docs

Next ==
    \E s \in SubIds :
        \/ \E d \in Docs, raw \in Proposals, base \in Versions \cup {None}, op \in Ops :
              Submit(s, d, raw, base, op)
        \/ Approve(s)
        \/ Reject(s)

Spec == Init /\ [][Next]_<<docs, subs>>

=================================================================================
