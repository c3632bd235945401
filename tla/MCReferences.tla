------------------------------- MODULE MCReferences -------------------------------
(***************************************************************************)
(* For the runs of References.tla: what is written, related and readable.   *)
(***************************************************************************)
EXTENDS References

Accepted == {[supersedes |-> S, status |-> "accepted"] : S \in {{}, {1}, {2}, {1, 2}}}
Deprecated == {[supersedes |-> {1}, status |-> "deprecated"]}
Writing == Accepted \cup Deprecated

Maps == [Docs -> SUBSET Docs]
Related == {[d \in Docs |-> {1, 3}]}
Readers == {Docs \ {2}}

===================================================================================
