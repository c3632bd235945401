------------------------------- MODULE DeltaStore -------------------------------
(***************************************************************************)
(* What the file backend of the knowledge store promises for one write:   *)
(* a document and its delta history change together or not at all.  The    *)
(* history only grows, and the entry a save appends is the difference      *)
(* between the document it replaces and the document it writes.            *)
(*                                                                         *)
(* SaveEngine.tla shows which executions of the real save path keep this   *)
(* promise.                                                                *)
(***************************************************************************)
EXTENDS Sequences

CONSTANTS
    Docs,      \* document ids
    Content,   \* normalised documents: records with fields type, body, ...
    None       \* "no such document"

VARIABLE store \* [Docs -> [doc : Content or None, history : Seq(entries)]]

(* The entries one save records.  A new document or a changed body gives an *)
(* entry whose "old" is the replaced body; a change of the frontmatter      *)
(* alone gives an entry too; saving the same document again gives none.     *)
Delta(old, new) ==
    IF old = None THEN <<[old |-> None, new |-> new]>>
    ELSE IF old = new THEN <<>>
    ELSE <<[old |-> old.body, new |-> new]>>

Init == store = [d \in Docs |-> [doc |-> None, history |-> <<>>]]

(* The type of a document never changes. *)
Save(d, c) ==
    /\ store[d].doc # None => store[d].doc.type = c.type
    /\ store' = [store EXCEPT ![d] =
                    [doc |-> c, history |-> @.history \o Delta(@.doc, c)]]

Next == \E d \in Docs, c \in Content : Save(d, c)

Spec == Init /\ [][Next]_store

=================================================================================
