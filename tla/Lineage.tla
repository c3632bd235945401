--------------------------------- MODULE Lineage ---------------------------------
(***************************************************************************)
(* The lineage of a decision, get_related of hub/service.py: what a document *)
(* supersedes, directly and through others, what supersedes it, and the      *)
(* documents it is related to.  References may form circles: a document is    *)
(* edited after others have come to refer to it.                              *)
(*                                                                           *)
(* One call, on the references as all_frontmatter has read them; when it      *)
(* reads is for References.tla.  Documents are numbered in the order in       *)
(* which ids are sorted.                                                      *)
(***************************************************************************)
EXTENDS Naturals, Sequences, FiniteSets

CONSTANTS
    Size,        \* the number of documents
    Superseding, \* the supersedes maps that are considered, of [Docs -> SUBSET Docs]
    Relating     \* the related maps

Docs == 1..Size

ASSUME LineageConstants ==
    /\ Size \in Nat \ {0}
    /\ Superseding \subseteq [Docs -> SUBSET Docs]
    /\ Relating \subseteq [Docs -> SUBSET Docs]

VARIABLES
    supersedes, related, \* what was read
    readable,            \* the documents that are not held back from the caller
    doc,                 \* the document that is asked for
    way,                 \* what is computed: the field of the result, or "done"
    queue, seen, order,  \* the search that is under way
    result

inputs == <<supersedes, related, readable, doc>>
search == <<queue, seen, order>>
lineage == <<inputs, way, search, result>>

Elements(s) == {s[i] : i \in DOMAIN s}

(* sorted *)
Sorted(S) ==
    CHOOSE s \in [1..Cardinality(S) -> S] : \A i, j \in DOMAIN s : i < j => s[i] < s[j]

Backward(map) == [d \in Docs |-> {e \in Docs : d \in map[e]}]

(* Where the search goes on from a document. *)
Adjacent(d) == IF way = "supersedes" THEN supersedes[d] ELSE Backward(supersedes)[d]

(* _chain begins: the document itself is not looked for. *)
Start(map) ==
    /\ queue' = Sorted(map[doc])
    /\ seen' = {doc}
    /\ order' = <<>>

LineageInit ==
    /\ supersedes \in Superseding
    /\ related \in Relating
    /\ readable \in SUBSET Docs
    /\ doc \in readable
    /\ way = "supersedes"
    /\ queue = Sorted(supersedes[doc])
    /\ seen = {doc}
    /\ order = <<>>
    /\ result = [supersedes |-> <<>>, superseded_by |-> <<>>, related |-> {}]

Searching == way \in {"supersedes", "superseded_by"}

(* Mutant: a document that was seen stays at the head of the queue. *)
VisitStuck ==
    /\ Searching /\ queue # <<>>
    /\ LET d == Head(queue)
       IN  IF d \in seen THEN UNCHANGED search
           ELSE /\ seen' = seen \cup {d}
                /\ order' = Append(order, d)
                /\ queue' = Tail(queue) \o Sorted(Adjacent(d) \ seen')
    /\ UNCHANGED <<inputs, way, result>>

(* Mutant: documents the reader may not read are not followed. *)
VisitReadable ==
    /\ Searching /\ queue # <<>>
    /\ LET d == Head(queue)
       IN  IF d \in seen \/ d \notin readable THEN queue' = Tail(queue) /\ UNCHANGED <<seen, order>>
           ELSE /\ seen' = seen \cup {d}
                /\ order' = Append(order, d)
                /\ queue' = Tail(queue) \o Sorted(Adjacent(d) \ seen')
    /\ UNCHANGED <<inputs, way, result>>

(* One turn of the loop of _chain. *)
Visit ==
    /\ Searching /\ queue # <<>>
    /\ LET d == Head(queue)
       IN  IF d \in seen THEN queue' = Tail(queue) /\ UNCHANGED <<seen, order>>
           ELSE /\ seen' = seen \cup {d}
                /\ order' = Append(order, d)
                /\ queue' = Tail(queue) \o Sorted(Adjacent(d) \ seen')
    /\ UNCHANGED <<inputs, way, result>>

(* _visible *)
Visible(s) ==
    LET kept == Sorted({i \in DOMAIN s : s[i] \in readable})
    IN  [k \in DOMAIN kept |-> s[kept[k]]]

ChainEnds ==
    /\ way = "supersedes" /\ queue = <<>>
    /\ result' = [result EXCEPT !.supersedes = Visible(order)]
    /\ way' = "superseded_by"
    /\ Start(Backward(supersedes))
    /\ UNCHANGED inputs

BackwardEnds ==
    /\ way = "superseded_by" /\ queue = <<>>
    /\ result' = [result EXCEPT !.superseded_by = Visible(order)]
    /\ way' = "related"
    /\ UNCHANGED <<inputs, search>>

(* Related documents, either way, without those they are related to. *)
Relate ==
    /\ way = "related"
    /\ result' = [result EXCEPT !.related =
          ((related[doc] \cup Backward(related)[doc]) \ {doc}) \cap readable]
    /\ way' = "done"
    /\ UNCHANGED <<inputs, search>>

LineageNext == Visit \/ ChainEnds \/ BackwardEnds \/ Relate

LineageSpec == LineageInit /\ [][LineageNext]_lineage

---------------------------------------------------------------------------------
(* Properties *)

(* Every variable has its shape; a document is found once (service.py:155-168). *)
LineageTypeOK ==
    /\ supersedes \in Superseding /\ related \in Relating /\ readable \subseteq Docs
    /\ doc \in readable
    /\ way \in {"supersedes", "superseded_by", "related", "done"}
    /\ queue \in Seq(Docs) /\ order \in Seq(Docs)
    /\ seen = Elements(order) \cup {doc}
    /\ doc \notin Elements(order)
    /\ \A i, j \in DOMAIN order : order[i] = order[j] => i = j
    /\ result \in [supersedes : Seq(Docs), superseded_by : Seq(Docs), related : SUBSET Docs]

(* Reaches(map, d, e): every set that has d and is closed under map has e. *)
Closed(map, S) == \A d \in S : map[d] \subseteq S
Reaches(map, d, e) == \A S \in SUBSET Docs : d \in S /\ Closed(map, S) => e \in S

(* The lineage is whole whatever circles the references form: the documents that    *)
(* the one asked for supersedes through however many others, and those that         *)
(* supersede it so, also through documents the reader may not read, without these   *)
(* and without itself (service.py:648-661).                                         *)
LineageIsWhole ==
    LET others == readable \ {doc}
    IN  /\ way \in {"superseded_by", "related", "done"} =>
             Elements(result.supersedes) = {e \in others : Reaches(supersedes, doc, e)}
        /\ way \in {"related", "done"} =>
             Elements(result.superseded_by) = {e \in others : Reaches(supersedes, e, doc)}

(* The call returns, though the references form circles (service.py:156, "순환 방지"). *)
Returns == Searching ~> way = "done"
=================================================================================
