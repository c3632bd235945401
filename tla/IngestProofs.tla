------------------------------ MODULE IngestProofs ------------------------------
(***************************************************************************)
(* A source stays one document, for any sources, threads, texts and number  *)
(* of submissions, while people approve, reject and write.                  *)
(*                                                                         *)
(* Neither the store nor the queue tells alone which document a source is:   *)
(* Known is what store, queue, what ingestions have read of the queue and   *)
(* what they are about to submit say together, and Consistent says that they *)
(* agree.  SeenInv is why a new id is new: an approval may move a submission *)
(* behind the back of an ingestion, but only from the queue to the store,    *)
(* which is read after the queue.                                            *)
(*                                                                         *)
(* What is presumed, and needed, is that people give their documents ids of  *)
(* another form (UserIds).  A number of five digits may be given out twice,   *)
(* but no document has one.                                                   *)
(***************************************************************************)
EXTENDS Ingest, SequenceTheorems, WellFoundedInduction, TLAPS

OwnIds == UserIds \subseteq {0}

---------------------------------------------------------------------------------
(* Type correctness *)

Origins == Sources \cup {None}
Documents == [src : Origins, text : Texts]
Submissions == [id : Ids, src : Origins, text : Texts, base : Documents \cup {None},
                status : {"pending", "approved", "rejected"}]
Queues == UNION {[S -> Submissions] : S \in SUBSET Nat}
Locals == [src : Origins, text : Texts \cup {None}, queue : Queues, id : Ids,
           base : Documents \cup {None}]

PlaceOK(label, l, size) ==
    /\ label # "idle" => l.src \in Sources /\ l.text \in Texts
    /\ DOMAIN l.queue \subseteq 1..size
    /\ label = "idle" => DOMAIN l.queue = {}

Shapes ==
    /\ docs \in [Ids -> Documents \cup {None}]
    /\ subs \in Seq(Submissions)
    /\ holder \in Threads \cup {None}
    /\ marking \in 0..Len(subs)
    /\ gate \in BOOLEAN
    /\ pc \in [Threads -> Labels]
    /\ local \in [Threads -> Locals]
    /\ \A t \in Threads : PlaceOK(pc[t], local[t], Len(subs))
    /\ \A t \in Threads : pc[t] # "idle" <=> holder = t

(* An id has been chosen. *)
Chosen == {"base", "submit", "reflect"}

(* The queue is only used by who read it, in "docs" and "ids". *)
Reading == {"docs", "ids"}

DocPairs == {<<i, docs[i].src>> : i \in Present}
WaitingPairs == {<<subs[n].id, subs[n].src>> : n \in Waiting}
QueuePairs(queue) == {<<queue[n].id, queue[n].src>> : n \in DOMAIN queue}
ChosenPairs(label, l) == IF label \in Chosen THEN {<<l.id, l.src>>} ELSE {}

ThreadPairs(label, l) == QueuePairs(l.queue) \cup ChosenPairs(label, l)

(* All that is known of which id is which source's. *)
Known ==
    DocPairs \cup WaitingPairs \cup UNION {ThreadPairs(pc[t], local[t]) : t \in Threads}

Consistent(pairs) ==
    \A x, y \in pairs :
       /\ x[1] = 0 => x[2] = None
       /\ x[1] = y[1] /\ x[1] \in 0..LastNumber => x[2] = y[2]
       /\ x[2] = y[2] /\ x[2] # None => x[1] = y[1]

SeenInv ==
    \A t \in Threads :
       /\ pc[t] \in Reading =>
             \A x \in WaitingPairs : x \in QueuePairs(local[t].queue) \/ x[1] \in Present \cup {0}
       /\ pc[t] = "ids" => \A x \in Known : x[2] # local[t].src

IngestInv ==
    /\ Shapes
    /\ Present \subseteq 0..LastNumber
    /\ Consistent(Known)
    /\ SeenInv

LEMMA QueueOfSubmissions ==
  ASSUME NEW S \in SUBSET Nat, NEW q \in [S -> Submissions]
  PROVE  q \in Queues
  BY DEF Queues

LEMMA QueueParts ==
  ASSUME NEW q \in Queues
  PROVE  DOMAIN q \subseteq Nat /\ \A n \in DOMAIN q : q[n] \in Submissions
<1>1. PICK S \in SUBSET Nat : q \in [S -> Submissions]
  BY DEF Queues
<1> QED BY <1>1

LEMMA NoLocalOK ==
  ASSUME NEW size \in Nat
  PROVE  NoLocal \in Locals /\ PlaceOK("idle", NoLocal, size)
<1>1. <<>> \in [{} -> Submissions] /\ DOMAIN <<>> = {}
  OBVIOUS
<1>2. <<>> \in Queues
  <2>1. {} \in SUBSET Nat
    OBVIOUS
  <2> QED BY <1>1, <2>1, QueueOfSubmissions
<1>3. 0 \in Ids
  BY IngestConstants DEF Ids
<1>4. NoLocal \in Locals
  BY <1>2, <1>3 DEF NoLocal, Locals, Origins
<1> QED BY <1>1, <1>4 DEF PlaceOK, NoLocal

LEMMA InitShapes == Init => Shapes
<1> SUFFICES ASSUME Init PROVE Shapes
  OBVIOUS
<1>1. subs \in Seq(Submissions) /\ Len(subs) = 0
  BY DEF Init
<1>2. pc \in [Threads -> Labels] /\ local \in [Threads -> Locals]
  BY NoLocalOK DEF Init, Labels
<1>3. \A t \in Threads : PlaceOK(pc[t], local[t], Len(subs))
  BY <1>1, NoLocalOK DEF Init
<1>4. \A t \in Threads : pc[t] # "idle" <=> holder = t
  BY IngestConstants DEF Init
<1> QED BY <1>1, <1>2, <1>3, <1>4, IngestConstants DEF Init, Shapes

LEMMA ShapesGiveTypeOK == Shapes => TypeOK
<1> SUFFICES ASSUME Shapes PROVE TypeOK
  OBVIOUS
<1>1. \A i \in Present : docs[i].src \in Sources \cup {None} /\ docs[i].text \in Texts
  BY DEF Shapes, Present, Documents, Origins
<1>2. \A n \in DOMAIN subs :
         subs[n].id \in Ids /\ subs[n].status \in {"pending", "approved", "rejected"}
  <2>1. DOMAIN subs = 1..Len(subs) /\ \A n \in 1..Len(subs) : subs[n] \in Submissions
    BY DEF Shapes
  <2> QED BY <2>1 DEF Submissions
<1> QED BY <1>1, <1>2 DEF Shapes, TypeOK

(* A step of the ingestion keeps the shapes if the place it leads to is good. *)
LEMMA GotoStep ==
  ASSUME Shapes, NEW t \in Threads, NEW label \in Labels, NEW l \in Locals,
         Goto(t, label, l), Len(subs') \in Nat, Len(subs) <= Len(subs'),
         PlaceOK(label, l, Len(subs'))
  PROVE  /\ pc' \in [Threads -> Labels] /\ local' \in [Threads -> Locals]
         /\ \A u \in Threads : PlaceOK(pc'[u], local'[u], Len(subs'))
         /\ pc'[t] = label /\ local'[t] = l
         /\ \A u \in Threads \ {t} : pc'[u] = pc[u] /\ local'[u] = local[u]
<1>1. /\ pc' \in [Threads -> Labels] /\ local' \in [Threads -> Locals]
      /\ pc'[t] = label /\ local'[t] = l
      /\ \A u \in Threads \ {t} : pc'[u] = pc[u] /\ local'[u] = local[u]
  BY DEF Shapes, Goto
<1>2. \A u \in Threads \ {t} : PlaceOK(pc[u], local[u], Len(subs'))
  <2>1. \A m \in 1..Len(subs) : m \in 1..Len(subs')
    BY DEF Shapes
  <2> QED BY <2>1 DEF Shapes, PlaceOK
<1> QED BY <1>1, <1>2

(* What people do leaves the ingestions where they are. *)
LEMMA OthersStay ==
  ASSUME Shapes, UNCHANGED <<pc, local>>, Len(subs') \in Nat, Len(subs) <= Len(subs')
  PROVE  \A u \in Threads : PlaceOK(pc'[u], local'[u], Len(subs'))
<1>1. \A m \in 1..Len(subs) : m \in 1..Len(subs')
  BY DEF Shapes
<1> QED BY <1>1 DEF Shapes, PlaceOK

(* What is written to the store or queued has its shape. *)
LEMMA SaveStep ==
  ASSUME Shapes, NEW i \in Ids, NEW src \in Origins, NEW text \in Texts, Save(i, src, text)
  PROVE  /\ docs' \in [Ids -> Documents \cup {None}]
         /\ docs'[i] = [src |-> src, text |-> text]
         /\ \A j \in Ids \ {i} : docs'[j] = docs[j]
<1>1. [src |-> src, text |-> text] \in Documents
  BY DEF Documents
<1> QED BY <1>1 DEF Shapes, Save

LEMMA QueueStep ==
  ASSUME Shapes, NEW i \in Ids, NEW src \in Origins, NEW text \in Texts,
         NEW base \in Documents \cup {None}, subs' = Append(subs, NewSub(i, src, text, base))
  PROVE  /\ subs' \in Seq(Submissions) /\ Len(subs') = Len(subs) + 1 /\ Len(subs) \in Nat
         /\ \A n \in 1..Len(subs) : subs'[n] = subs[n]
         /\ subs'[Len(subs) + 1] = NewSub(i, src, text, base)
<1>1. NewSub(i, src, text, base) \in Submissions
  BY DEF NewSub, Submissions
<1> QED BY <1>1, AppendProperties DEF Shapes

LEMMA StatusStep ==
  ASSUME Shapes, NEW n \in 1..Len(subs), NEW status \in {"approved", "rejected"},
         subs' = [subs EXCEPT ![n].status = status]
  PROVE  /\ subs' \in Seq(Submissions) /\ Len(subs') = Len(subs) /\ Len(subs) \in Nat
         /\ subs'[n].status = status
         /\ \A m \in 1..Len(subs) \ {n} : subs'[m] = subs[m]
<1>1. subs[n] \in Submissions
  BY DEF Shapes
<1>2. [subs[n] EXCEPT !.status = status] \in Submissions
  BY <1>1 DEF Submissions
<1>3. subs' = [subs EXCEPT ![n] = [subs[n] EXCEPT !.status = status]]
  OBVIOUS
<1>4. [subs[n] EXCEPT !.status = status].status = status
  BY <1>1 DEF Submissions
<1> QED BY <1>2, <1>3, <1>4, ExceptSeq DEF Shapes

LEMMA LeastNatural ==
  ASSUME NEW S \in SUBSET Nat, S # {}
  PROVE  \E n \in S : \A m \in S : n <= m
<1>1. PICK n \in S : \A m \in S : ~(<<m, n>> \in OpToRel(<, Nat))
  BY WFMin, NatLessThanWellFounded, Zenon
<1>2. \A m \in S : <<m, n>> \in Nat \X Nat
  OBVIOUS
<1>3. \A m \in S : ~(m < n)
  BY <1>1, <1>2 DEF OpToRel
<1> QED BY <1>3

(* The greatest of some naturals up to n. *)
LEMMA GreatestOf ==
  ASSUME NEW n \in Nat, NEW S \in SUBSET (0..n), S # {}
  PROVE  Max(S) \in S /\ \A m \in S : m <= Max(S)
<1> DEFINE T == {n - x : x \in S}
<1>a. \A x \in S : n - x \in Nat
  OBVIOUS
<1>1. T \in SUBSET Nat /\ T # {}
  BY <1>a
<1>2. PICK k \in T : \A m \in T : k <= m
  <2> HIDE DEF T
  <2> QED BY <1>1, LeastNatural
<1>4. PICK x \in S : k = n - x
  OBVIOUS
<1>5. \A y \in S : x >= y
  <2> SUFFICES ASSUME NEW y \in S PROVE x >= y
    OBVIOUS
  <2>1. n - x <= n - y
    BY <1>2, <1>4
  <2> QED BY <2>1
<1>6. \E z \in S : \A y \in S : z >= y
  BY <1>5
<1>7. Max(S) \in S /\ \A y \in S : Max(S) >= y
  BY <1>6 DEF Max
<1> QED BY <1>7

(* An id that is given out is beyond all that are known, as far as they are numbers *)
(* of four digits.                                                                  *)
LEMMA NextIdIsNew ==
  ASSUME NEW ids
  PROVE  /\ NextId(ids) \in Ids \ {0}
         /\ \A i \in ids : i \in 0..LastNumber => i # NextId(ids)
<1> DEFINE S == {0} \cup (ids \cap 1..LastNumber)
<1>1. S \in SUBSET (0..LastNumber) /\ S # {}
  BY IngestConstants
<1>2. Max(S) \in S /\ \A m \in S : m <= Max(S)
  <2> HIDE DEF S
  <2> QED BY <1>1, IngestConstants, GreatestOf
<1>3. NextId(ids) = 1 + Max(S)
  BY DEF NextId
<1>4. \A i \in ids : i \in 0..LastNumber => i \in S
  BY IngestConstants
<1> HIDE DEF S
<1>5. Max(S) \in 0..LastNumber
  BY <1>1, <1>2
<1>6. NextId(ids) \in Ids \ {0}
  BY <1>3, <1>5, IngestConstants DEF Ids
<1>7. \A i \in ids : i \in 0..LastNumber => i <= Max(S)
  BY <1>2, <1>4
<1>8. \A i \in ids : i \in 0..LastNumber => i # NextId(ids)
  BY <1>3, <1>5, <1>7, IngestConstants
<1> QED BY <1>6, <1>8

(* The newest submission of the source is one of it. *)
LEMMA NewestMatches ==
  ASSUME Shapes, NEW t \in Threads, Matches(t) # {}
  PROVE  /\ Max(Matches(t)) \in DOMAIN local[t].queue
         /\ local[t].queue[Max(Matches(t))] \in Submissions
         /\ local[t].queue[Max(Matches(t))].src = local[t].src
<1>1. local[t].queue \in Queues /\ DOMAIN local[t].queue \subseteq 1..Len(subs)
  BY DEF Shapes, Locals, PlaceOK
<1>2. Matches(t) \in SUBSET (0..Len(subs)) /\ Len(subs) \in Nat
  BY <1>1 DEF Matches, Shapes
<1>3. Max(Matches(t)) \in Matches(t)
  BY <1>2, GreatestOf
<1> QED BY <1>1, <1>3, QueueParts DEF Matches

LEMMA PendingIsQueue ==
  ASSUME Shapes
  PROVE  Pending \in Queues /\ DOMAIN Pending = Waiting /\ Waiting \subseteq 1..Len(subs)
<1>1. Waiting \subseteq 1..Len(subs) /\ \A n \in Waiting : subs[n] \in Submissions
  BY DEF Waiting, Shapes
<1>2. Waiting \in SUBSET Nat
  BY <1>1
<1>3. Pending \in [Waiting -> Submissions]
  BY <1>1 DEF Pending
<1> QED BY <1>1, <1>2, <1>3, QueueOfSubmissions

(* The steps of an ingestion and where they lead. *)
LEMMA IngestionMoves ==
  ASSUME Shapes, NEW t \in Threads, ReadPending(t) \/ ReadDocs(t) \/ NewId(t) \/ ReadBase(t)
  PROVE  \E label \in Labels \ {"idle"}, l \in Locals :
            /\ Goto(t, label, l) /\ PlaceOK(label, l, Len(subs))
            /\ pc[t] # "idle" /\ UNCHANGED <<docs, subs, holder, marking, gate>>
<1>0. local[t] \in Locals /\ PlaceOK(pc[t], local[t], Len(subs))
  BY DEF Shapes
<1>1. CASE ReadPending(t)
  <2> DEFINE l == [local[t] EXCEPT !.queue = Pending]
  <2>1. l \in Locals /\ l.src = local[t].src /\ l.text = local[t].text /\ l.queue = Pending
    BY <1>0, PendingIsQueue DEF Locals
  <2>2. PlaceOK("docs", l, Len(subs))
    BY <1>0, <1>1, <2>1, PendingIsQueue DEF ReadPending, PlaceOK
  <2> QED BY <1>1, <2>1, <2>2 DEF ReadPending, Labels
<1>2. CASE ReadDocs(t)
  <2>1. \A i \in Ids : /\ [local[t] EXCEPT !.id = i] \in Locals
                       /\ PlaceOK("base", [local[t] EXCEPT !.id = i], Len(subs))
    BY <1>0, <1>2 DEF ReadDocs, Locals, PlaceOK
  <2>2. CASE \E i \in Present : Goto(t, "base", [local[t] EXCEPT !.id = i])
    BY <1>2, <2>1, <2>2 DEF ReadDocs, Labels, Present
  <2>3. CASE /\ Matches(t) # {}
             /\ Goto(t, "base", [local[t] EXCEPT !.id = local[t].queue[Max(Matches(t))].id])
    <3>1. local[t].queue[Max(Matches(t))].id \in Ids
      BY <2>3, NewestMatches DEF Submissions
    <3> QED BY <1>2, <2>1, <2>3, <3>1 DEF ReadDocs, Labels
  <2>4. CASE Goto(t, "ids", local[t])
    <3>1. PlaceOK("ids", local[t], Len(subs))
      BY <1>0, <1>2 DEF ReadDocs, PlaceOK
    <3> QED BY <1>0, <1>2, <2>4, <3>1 DEF ReadDocs, Labels
  <2> QED BY <1>2, <2>2, <2>3, <2>4 DEF ReadDocs
<1>3. CASE NewId(t)
  <2>1. PICK ids : Goto(t, "base", [local[t] EXCEPT !.id = NextId(ids)])
    BY <1>3 DEF NewId
  <2>2. NextId(ids) \in Ids
    BY NextIdIsNew
  <2>3. /\ [local[t] EXCEPT !.id = NextId(ids)] \in Locals
        /\ PlaceOK("base", [local[t] EXCEPT !.id = NextId(ids)], Len(subs))
    BY <1>0, <1>3, <2>2 DEF NewId, Locals, PlaceOK
  <2> QED BY <1>3, <2>1, <2>3 DEF NewId, Labels
<1>4. CASE ReadBase(t)
  <2>1. docs[local[t].id] \in Documents \cup {None}
    BY <1>0 DEF Shapes, Locals
  <2>2. /\ [local[t] EXCEPT !.base = docs[local[t].id]] \in Locals
        /\ PlaceOK("submit", [local[t] EXCEPT !.base = docs[local[t].id]], Len(subs))
    BY <1>0, <1>4, <2>1 DEF ReadBase, Locals, PlaceOK
  <2>3. PlaceOK("reflect", local[t], Len(subs))
    BY <1>0, <1>4 DEF ReadBase, PlaceOK
  <2> QED BY <1>0, <1>4, <2>2, <2>3 DEF ReadBase, Labels
<1> QED BY <1>1, <1>2, <1>3, <1>4

(* What is submitted and written is a source of a document, or of none. *)
LEMMA SourceOf ==
  ASSUME Shapes, NEW i \in Ids
  PROVE  (IF docs[i] = None THEN None ELSE docs[i].src) \in Origins
  BY DEF Shapes, Documents, Origins

LEMMA ShapesStep ==
  ASSUME Shapes, Next
  PROVE  Shapes'
<1>0. Len(subs) \in Nat
  BY DEF Shapes
<1>1. ASSUME NEW t \in Threads, ReadPending(t) \/ ReadDocs(t) \/ NewId(t) \/ ReadBase(t)
      PROVE  Shapes'
  <2>1. PICK label \in Labels \ {"idle"}, l \in Locals :
           /\ Goto(t, label, l) /\ PlaceOK(label, l, Len(subs))
           /\ pc[t] # "idle" /\ UNCHANGED <<docs, subs, holder, marking, gate>>
    BY <1>1, IngestionMoves
  <2>2. /\ pc' \in [Threads -> Labels] /\ local' \in [Threads -> Locals]
        /\ \A u \in Threads : PlaceOK(pc'[u], local'[u], Len(subs'))
        /\ pc'[t] = label
        /\ \A u \in Threads \ {t} : pc'[u] = pc[u]
    BY <1>0, <2>1, GotoStep
  <2>3. \A u \in Threads : pc'[u] # "idle" <=> holder' = u
    BY <2>1, <2>2 DEF Shapes
  <2> QED BY <2>1, <2>2, <2>3 DEF Shapes
<1>2. ASSUME NEW t \in Threads, pc[t] # "idle", Return(t), Release,
             UNCHANGED <<marking, gate>>, subs' \in Seq(Submissions), Len(subs) <= Len(subs'),
             docs' \in [Ids -> Documents \cup {None}]
      PROVE  Shapes'
  <2>0. Len(subs') \in Nat /\ "idle" \in Labels
    BY <1>2 DEF Labels
  <2>1. /\ pc' \in [Threads -> Labels] /\ local' \in [Threads -> Locals]
        /\ \A u \in Threads : PlaceOK(pc'[u], local'[u], Len(subs'))
        /\ pc'[t] = "idle"
        /\ \A u \in Threads \ {t} : pc'[u] = pc[u]
    BY <1>2, <2>0, NoLocalOK, GotoStep DEF Return
  <2>2. \A u \in Threads : pc'[u] # "idle" <=> holder' = u
    BY <1>2, <2>1, IngestConstants DEF Shapes, Release
  <2>3. marking' \in 0..Len(subs')
    BY <1>0, <1>2, <2>0 DEF Shapes
  <2> QED BY <1>2, <2>1, <2>2, <2>3 DEF Shapes, Release
<1>3. ASSUME UNCHANGED <<holder, gate, pc, local>>, marking' \in 0..Len(subs'),
             subs' \in Seq(Submissions), Len(subs) <= Len(subs'),
             docs' \in [Ids -> Documents \cup {None}]
      PROVE  Shapes'
  <2>1. Len(subs') \in Nat
    BY <1>3
  <2>2. \A u \in Threads : PlaceOK(pc'[u], local'[u], Len(subs'))
    BY <1>3, <2>1, OthersStay
  <2> QED BY <1>3, <2>2 DEF Shapes
<1>4. ASSUME NEW t \in Threads, Submit(t) PROVE Shapes'
  <2>1. local[t] \in Locals /\ PlaceOK("submit", local[t], Len(subs))
    BY <1>4 DEF Submit, Shapes
  <2>2. /\ local[t].id \in Ids /\ local[t].src \in Origins /\ local[t].text \in Texts
        /\ local[t].base \in Documents \cup {None}
    BY <2>1 DEF Locals, PlaceOK
  <2>3. subs' \in Seq(Submissions) /\ Len(subs') = Len(subs) + 1
    BY <1>4, <2>2, QueueStep DEF Submit
  <2> QED BY <1>0, <1>2, <1>4, <2>3 DEF Submit, Shapes
<1>5. ASSUME NEW t \in Threads, ReflectNow(t) PROVE Shapes'
  <2>1. local[t] \in Locals /\ PlaceOK("reflect", local[t], Len(subs))
    BY <1>5 DEF ReflectNow, Shapes
  <2>2. local[t].id \in Ids /\ local[t].src \in Origins /\ local[t].text \in Texts
    BY <2>1 DEF Locals, PlaceOK
  <2>3. docs' \in [Ids -> Documents \cup {None}]
    <3>1. Save(local[t].id, local[t].src, local[t].text) \/ UNCHANGED docs
      BY <1>5 DEF ReflectNow
    <3> QED BY <2>2, <3>1, SaveStep DEF Shapes
  <2> QED BY <1>0, <1>2, <1>5, <2>3 DEF ReflectNow, Shapes
<1>6. ASSUME NEW t \in Threads, Fail(t) PROVE Shapes'
  BY <1>0, <1>2, <1>6 DEF Fail, Shapes
<1>7. ASSUME NEW t \in Threads, NEW src \in Sources, NEW text \in Texts, Ingest(t, src, text)
      PROVE  Shapes'
  <2> DEFINE l == [NoLocal EXCEPT !.src = src, !.text = text]
  <2>1. l \in Locals /\ PlaceOK("pending", l, Len(subs)) /\ "pending" \in Labels
    BY <1>0, NoLocalOK DEF Locals, Origins, PlaceOK, Labels
  <2>2. Goto(t, "pending", l) /\ holder = None /\ holder' = t /\ UNCHANGED <<docs, subs, marking, gate>>
    BY <1>7 DEF Ingest
  <2> HIDE DEF l
  <2>3. /\ pc' \in [Threads -> Labels] /\ local' \in [Threads -> Locals]
        /\ \A u \in Threads : PlaceOK(pc'[u], local'[u], Len(subs'))
        /\ pc'[t] = "pending"
        /\ \A u \in Threads \ {t} : pc'[u] = pc[u]
    BY <1>0, <2>1, <2>2, GotoStep
  <2>4. \A u \in Threads : pc'[u] # "idle" <=> holder' = u
    BY <2>2, <2>3, IngestConstants DEF Shapes
  <2> QED BY <2>2, <2>3, <2>4 DEF Shapes
<1>8. ASSUME NEW i \in Ids, NEW text \in Texts, Write(i, text) PROVE Shapes'
  <2> DEFINE src == IF docs[i] = None THEN None ELSE docs[i].src
  <2>1. src \in Origins /\ docs[i] \in Documents \cup {None}
    BY SourceOf DEF Shapes
  <2>2. /\ UNCHANGED <<holder, marking, gate, pc, local>>
        /\ \/ subs' = Append(subs, NewSub(i, src, text, docs[i])) /\ UNCHANGED docs
           \/ Save(i, src, text) /\ UNCHANGED subs
    BY <1>8 DEF Write
  <2> HIDE DEF src
  <2>3. /\ subs' \in Seq(Submissions) /\ Len(subs) <= Len(subs')
        /\ docs' \in [Ids -> Documents \cup {None}]
    <3>1. CASE subs' = Append(subs, NewSub(i, src, text, docs[i])) /\ UNCHANGED docs
      BY <1>0, <2>1, <3>1, QueueStep DEF Shapes
    <3>2. CASE Save(i, src, text) /\ UNCHANGED subs
      <4>1. docs' \in [Ids -> Documents \cup {None}]
        BY <2>1, <3>2, SaveStep
      <4> QED BY <1>0, <3>2, <4>1 DEF Shapes
    <3> QED BY <2>2, <3>1, <3>2
  <2>4. marking' \in 0..Len(subs')
    BY <1>0, <2>2, <2>3 DEF Shapes
  <2> QED BY <1>3, <2>2, <2>3, <2>4
<1>9. ASSUME NEW n \in 1..Len(subs), Approve(n) PROVE Shapes'
  <2>1. subs[n] \in Submissions
    BY DEF Shapes
  <2>2. subs[n].id \in Ids /\ subs[n].src \in Origins /\ subs[n].text \in Texts
    BY <2>1 DEF Submissions
  <2>3. docs' \in [Ids -> Documents \cup {None}] /\ UNCHANGED subs
    BY <1>9, <2>2, SaveStep DEF Approve
  <2> QED BY <1>0, <1>3, <1>9, <2>3 DEF Approve, Shapes
<1>10. ASSUME NEW n \in 1..Len(subs), NEW status \in {"approved", "rejected"},
              subs' = [subs EXCEPT ![n].status = status], marking' \in {0, marking},
              UNCHANGED <<docs, holder, gate, pc, local>>
       PROVE  Shapes'
  <2>1. subs' \in Seq(Submissions) /\ Len(subs') = Len(subs)
    BY <1>10, StatusStep
  <2> QED BY <1>0, <1>3, <1>10, <2>1 DEF Shapes
<1>11. CASE Mark
  <2>1. marking \in 1..Len(subs)
    BY <1>11 DEF Mark, Shapes
  <2> QED BY <1>10, <1>11, <2>1 DEF Mark
<1>12. ASSUME NEW n \in 1..Len(subs), Reject(n) PROVE Shapes'
  BY <1>10, <1>12 DEF Reject
<1>13. DOMAIN subs = 1..Len(subs)
  BY DEF Shapes
<1> QED BY <1>1, <1>4, <1>5, <1>6, <1>7, <1>8, <1>9, <1>11, <1>12, <1>13 DEF Next, Step

LEMMA ShapesAlways == Spec => []Shapes
<1>1. Shapes /\ UNCHANGED vars => Shapes'
  BY DEF vars, Shapes
<1> QED BY <1>1, InitShapes, ShapesStep, PTL DEF Spec

(* Every reachable state is of the declared shape; one ingestion at a time, and it *)
(* has the lock (service.py:699).                                                  *)
THEOREM IngestTypes == Spec => []TypeOK
  BY ShapesAlways, ShapesGiveTypeOK, PTL

---------------------------------------------------------------------------------
(* What is known *)

LEMMA ConsistentWithNone ==
  ASSUME NEW S, NEW R, Consistent(S), R \subseteq S \cup {<<0, None>>}
  PROVE  Consistent(R)
<1> SUFFICES ASSUME NEW x \in R, NEW y \in R
             PROVE  /\ x[1] = 0 => x[2] = None
                    /\ x[1] = y[1] /\ x[1] \in 0..LastNumber => x[2] = y[2]
                    /\ x[2] = y[2] /\ x[2] # None => x[1] = y[1]
  BY DEF Consistent
<1>1. (x \in S \/ x = <<0, None>>) /\ (y \in S \/ y = <<0, None>>)
  OBVIOUS
<1>2. x[1] = 0 => x[2] = None
  BY <1>1 DEF Consistent
<1>3. y[1] = 0 => y[2] = None
  BY <1>1 DEF Consistent
<1> QED BY <1>1, <1>2, <1>3 DEF Consistent

LEMMA ConsistentWithNew ==
  ASSUME NEW S, NEW R, NEW n, NEW src, Consistent(S), R \subseteq S \cup {<<n, src>>},
         n # 0, \A x \in S : (x[1] = n => n \notin 0..LastNumber) /\ x[2] # src
  PROVE  Consistent(R)
<1> SUFFICES ASSUME NEW x \in R, NEW y \in R
             PROVE  /\ x[1] = 0 => x[2] = None
                    /\ x[1] = y[1] /\ x[1] \in 0..LastNumber => x[2] = y[2]
                    /\ x[2] = y[2] /\ x[2] # None => x[1] = y[1]
  BY DEF Consistent
<1>1. (x \in S \/ x = <<n, src>>) /\ (y \in S \/ y = <<n, src>>)
  OBVIOUS
<1> QED BY <1>1 DEF Consistent

(* A document that is written adds itself to the store, *)
LEMMA SavePairs ==
  ASSUME Shapes, NEW i \in Ids, NEW src \in Origins, NEW text \in Texts, Save(i, src, text)
  PROVE  DocPairs' \subseteq DocPairs \cup {<<i, src>>} /\ Present' = Present \cup {i}
<1>1. /\ docs'[i] = [src |-> src, text |-> text]
      /\ \A j \in Ids \ {i} : docs'[j] = docs[j]
  BY SaveStep
<1>2. docs'[i] # None /\ docs'[i].src = src
  BY <1>1, IngestConstants DEF Origins
<1> QED BY <1>1, <1>2 DEF DocPairs, Present

(* one that is submitted adds itself to the queue, *)
LEMMA QueuedPairs ==
  ASSUME Shapes, NEW i \in Ids, NEW src \in Origins, NEW text \in Texts,
         NEW base \in Documents \cup {None}, subs' = Append(subs, NewSub(i, src, text, base))
  PROVE  WaitingPairs' \subseteq WaitingPairs \cup {<<i, src>>}
<1>1. /\ subs' \in Seq(Submissions) /\ Len(subs') = Len(subs) + 1 /\ Len(subs) \in Nat
      /\ \A n \in 1..Len(subs) : subs'[n] = subs[n]
      /\ subs'[Len(subs) + 1] = NewSub(i, src, text, base)
  BY QueueStep
<1>2. DOMAIN subs = 1..Len(subs) /\ DOMAIN subs' = 1..(Len(subs) + 1)
  BY <1>1 DEF Shapes
<1>3. \A n \in DOMAIN subs' : n \in DOMAIN subs \/ n = Len(subs) + 1
  BY <1>1, <1>2
<1>4. ASSUME NEW n \in Waiting'
      PROVE  <<subs'[n].id, subs'[n].src>> \in WaitingPairs \cup {<<i, src>>}
  <2>1. n \in DOMAIN subs' /\ subs'[n].status = "pending"
    BY <1>4 DEF Waiting
  <2>2. CASE n \in DOMAIN subs
    <3>1. subs'[n] = subs[n]
      BY <1>1, <1>2, <2>2
    <3> QED BY <2>1, <2>2, <3>1 DEF Waiting, WaitingPairs
  <2>3. CASE n = Len(subs) + 1
    BY <1>1, <2>3 DEF NewSub
  <2> QED BY <1>3, <2>1, <2>2, <2>3
<1> QED BY <1>4 DEF WaitingPairs

(* and a decision takes one from it. *)
LEMMA DecidedPairs ==
  ASSUME Shapes, NEW n \in 1..Len(subs), NEW status \in {"approved", "rejected"},
         subs' = [subs EXCEPT ![n].status = status]
  PROVE  WaitingPairs' \subseteq WaitingPairs
<1>1. /\ subs' \in Seq(Submissions) /\ Len(subs') = Len(subs)
      /\ subs'[n].status = status
      /\ \A m \in 1..Len(subs) \ {n} : subs'[m] = subs[m]
  BY StatusStep
<1>2. DOMAIN subs = 1..Len(subs) /\ DOMAIN subs' = 1..Len(subs)
  BY <1>1 DEF Shapes
<1>3. \A m \in Waiting' : m \in Waiting /\ subs'[m] = subs[m]
  BY <1>1, <1>2 DEF Waiting
<1> QED BY <1>3 DEF WaitingPairs

(* A document is known, and so is what waits. *)
LEMMA PairsAreKnown ==
  /\ \A i \in Present : <<i, docs[i].src>> \in DocPairs
  /\ DocPairs \subseteq Known /\ WaitingPairs \subseteq Known
  /\ \A n \in Waiting : <<subs[n].id, subs[n].src>> \in WaitingPairs
  /\ \A t \in Threads : pc[t] \in Chosen => <<local[t].id, local[t].src>> \in Known
  /\ \A t \in Threads : QueuePairs(local[t].queue) \subseteq Known
  BY DEF Known, DocPairs, WaitingPairs, ThreadPairs, ChosenPairs

(* Whatever people do, no pair becomes known that was not, but for a document of   *)
(* their own, and what comes to the queue is a document or one of their own.        *)
LEMMA PeopleStep ==
  ASSUME Shapes, OwnIds,
         \/ \E i \in Ids, text \in Texts : Write(i, text)
         \/ \E n \in DOMAIN subs : Approve(n) \/ Reject(n)
         \/ Mark
  PROVE  /\ UNCHANGED <<pc, local>>
         /\ Present \subseteq Present'
         /\ DocPairs' \subseteq Known \cup {<<0, None>>}
         /\ WaitingPairs' \subseteq Known \cup {<<0, None>>}
         /\ \A x \in WaitingPairs' : x \in WaitingPairs \/ x[1] \in Present \cup {0}
<1>0. DOMAIN subs = 1..Len(subs)
  BY DEF Shapes
<1>1. ASSUME NEW i \in Ids, NEW text \in Texts, Write(i, text)
      PROVE  /\ UNCHANGED <<pc, local>>
             /\ Present \subseteq Present'
             /\ DocPairs' \subseteq Known \cup {<<0, None>>}
             /\ WaitingPairs' \subseteq Known \cup {<<0, None>>}
             /\ \A x \in WaitingPairs' : x \in WaitingPairs \/ x[1] \in Present \cup {0}
  <2> DEFINE src == IF docs[i] = None THEN None ELSE docs[i].src
  <2>1. src \in Origins /\ docs[i] \in Documents \cup {None}
    BY SourceOf DEF Shapes
  <2>2. i \in Present \/ (i = 0 /\ docs[i] = None)
    BY <1>1 DEF Write, OwnIds, Present
  <2>3. <<i, src>> \in DocPairs \cup {<<0, None>>}
    BY <2>2 DEF Present, DocPairs
  <2>4. /\ UNCHANGED <<pc, local>>
        /\ \/ subs' = Append(subs, NewSub(i, src, text, docs[i])) /\ UNCHANGED docs
           \/ Save(i, src, text) /\ UNCHANGED subs
    BY <1>1 DEF Write
  <2> HIDE DEF src
  <2>5. CASE subs' = Append(subs, NewSub(i, src, text, docs[i])) /\ UNCHANGED docs
    <3>1. WaitingPairs' \subseteq WaitingPairs \cup {<<i, src>>}
      BY <2>1, <2>5, QueuedPairs
    <3>2. UNCHANGED <<DocPairs, Present>>
      BY <2>5 DEF DocPairs, Present
    <3>3. \A x \in WaitingPairs' : x \in WaitingPairs \/ x[1] \in Present \cup {0}
      BY <2>2, <3>1
    <3> QED BY <2>3, <2>4, <3>1, <3>2, <3>3, PairsAreKnown
  <2>6. CASE Save(i, src, text) /\ UNCHANGED subs
    <3>1. DocPairs' \subseteq DocPairs \cup {<<i, src>>} /\ Present \subseteq Present'
      BY <2>1, <2>6, SavePairs
    <3>2. UNCHANGED WaitingPairs
      BY <2>6 DEF WaitingPairs, Waiting
    <3> QED BY <2>3, <2>4, <3>1, <3>2, PairsAreKnown
  <2> QED BY <2>4, <2>5, <2>6
<1>2. ASSUME NEW n \in 1..Len(subs), Approve(n)
      PROVE  /\ UNCHANGED <<pc, local>>
             /\ Present \subseteq Present'
             /\ DocPairs' \subseteq Known \cup {<<0, None>>}
             /\ WaitingPairs' \subseteq Known \cup {<<0, None>>}
             /\ \A x \in WaitingPairs' : x \in WaitingPairs \/ x[1] \in Present \cup {0}
  <2>1. subs[n] \in Submissions /\ n \in Waiting
    BY <1>0, <1>2 DEF Shapes, Approve, Waiting
  <2>2. subs[n].id \in Ids /\ subs[n].src \in Origins /\ subs[n].text \in Texts
    BY <2>1 DEF Submissions
  <2>3. /\ DocPairs' \subseteq DocPairs \cup {<<subs[n].id, subs[n].src>>}
        /\ Present \subseteq Present'
    BY <1>2, <2>2, SavePairs DEF Approve
  <2>4. UNCHANGED <<pc, local, WaitingPairs>>
    BY <1>2 DEF Approve, WaitingPairs, Waiting
  <2> QED BY <2>1, <2>3, <2>4, PairsAreKnown
<1>3. ASSUME NEW n \in 1..Len(subs), NEW status \in {"approved", "rejected"},
             subs' = [subs EXCEPT ![n].status = status], UNCHANGED <<docs, pc, local>>
      PROVE  /\ UNCHANGED <<pc, local>>
             /\ Present \subseteq Present'
             /\ DocPairs' \subseteq Known \cup {<<0, None>>}
             /\ WaitingPairs' \subseteq Known \cup {<<0, None>>}
             /\ \A x \in WaitingPairs' : x \in WaitingPairs \/ x[1] \in Present \cup {0}
  <2>1. WaitingPairs' \subseteq WaitingPairs
    BY <1>3, DecidedPairs
  <2>2. UNCHANGED <<DocPairs, Present>>
    BY <1>3 DEF DocPairs, Present
  <2> QED BY <1>3, <2>1, <2>2, PairsAreKnown
<1>4. Mark => marking \in 1..Len(subs)
  BY DEF Mark, Shapes
<1>5. CASE Mark
  BY <1>3, <1>4, <1>5 DEF Mark
<1>6. ASSUME NEW n \in 1..Len(subs), Reject(n)
      PROVE  subs' = [subs EXCEPT ![n].status = "rejected"] /\ UNCHANGED <<docs, pc, local>>
  BY <1>6 DEF Reject
<1> QED BY <1>0, <1>1, <1>2, <1>3, <1>5, <1>6

(* A move of one ingestion changes what is known only by what it now knows. *)
LEMMA KnownMove ==
  ASSUME NEW t \in Threads, NEW X, NEW label, NEW l,
         pc'[t] = label, local'[t] = l,
         \A u \in Threads \ {t} : pc'[u] = pc[u] /\ local'[u] = local[u],
         DocPairs' \subseteq Known \cup X, WaitingPairs' \subseteq Known \cup X,
         ThreadPairs(label, l) \subseteq Known \cup X
  PROVE  Known' \subseteq Known \cup X
<1>1. \A u \in Threads \ {t} : ThreadPairs(pc'[u], local'[u]) \subseteq Known
  BY DEF Known
<1>2. \A u \in Threads : ThreadPairs(pc'[u], local'[u]) \subseteq Known \cup X
  BY <1>1
<1> QED BY <1>2 DEF Known

(* While a thread ingests, the others are idle and have read nothing. *)
LEMMA OneIngests ==
  ASSUME Shapes, NEW t \in Threads, pc[t] # "idle"
  PROVE  /\ \A u \in Threads \ {t} : pc[u] = "idle"
         /\ \A u \in Threads \ {t} : ThreadPairs(pc[u], local[u]) = {}
<1>1. \A u \in Threads \ {t} : pc[u] = "idle" /\ DOMAIN local[u].queue = {}
  BY DEF Shapes, PlaceOK
<1> QED BY <1>1 DEF ThreadPairs, QueuePairs, ChosenPairs, Chosen

(* A new id is no other document's, and only a new source gets one. *)
LEMMA NewIdIsNew ==
  ASSUME Shapes, SeenInv, NEW t \in Threads, NewId(t)
  PROVE  /\ local'[t].id # 0 /\ local'[t].id \in Ids /\ local'[t].src = local[t].src
         /\ local'[t].queue = local[t].queue
         /\ \A x \in Known : /\ x[1] = local'[t].id => local'[t].id \notin 0..LastNumber
                             /\ x[2] # local'[t].src
<1> DEFINE ids == Present \cup {local[t].queue[n].id : n \in DOMAIN local[t].queue}
<1>1. local[t] \in Locals /\ pc[t] = "ids"
  BY DEF Shapes, NewId
<1>2. local'[t] = [local[t] EXCEPT !.id = NextId(ids)]
  BY DEF Shapes, NewId, Goto
<1>3. /\ NextId(ids) \in Ids \ {0}
      /\ \A i \in ids : i \in 0..LastNumber => i # NextId(ids)
  <2> HIDE DEF ids
  <2> QED BY NextIdIsNew
<1>4. local'[t].id = NextId(ids) /\ local'[t].src = local[t].src
      /\ local'[t].queue = local[t].queue
  <2> HIDE DEF ids
  <2> QED BY <1>1, <1>2, <1>3 DEF Locals
<1>5. \A x \in Known : x[1] \in ids \cup {0}
  <2>1. \A x \in DocPairs : x[1] \in ids
    BY DEF DocPairs
  <2>2. \A x \in QueuePairs(local[t].queue) : x[1] \in ids
    BY DEF QueuePairs
  <2>3. \A x \in WaitingPairs : x[1] \in ids \cup {0}
    BY <1>1, <2>2 DEF SeenInv, Reading
  <2>4. ThreadPairs(pc[t], local[t]) = QueuePairs(local[t].queue)
    BY <1>1 DEF ThreadPairs, ChosenPairs, Chosen
  <2>5. \A u \in Threads \ {t} : ThreadPairs(pc[u], local[u]) = {}
    BY <1>1, OneIngests
  <2> HIDE DEF ids
  <2> QED BY <2>1, <2>2, <2>3, <2>4, <2>5 DEF Known
<1>6. \A x \in Known : x[2] # local[t].src
  BY <1>1 DEF SeenInv
<1> HIDE DEF ids
<1> QED BY <1>3, <1>4, <1>5, <1>6

(* Where neither the store nor the queue as it was read has the source, nothing has. *)
LEMMA NobodyHasIt ==
  ASSUME Shapes, SeenInv, Present \subseteq 0..LastNumber, Consistent(Known),
         NEW t \in Threads, pc[t] = "docs",
         \A i \in Present : docs[i].src # local[t].src, Matches(t) = {}
  PROVE  \A x \in Known : x[2] # local[t].src
<1>1. local[t].src # None
  BY IngestConstants DEF Shapes, PlaceOK
<1>2. \A x \in DocPairs : x[2] # local[t].src
  BY DEF DocPairs
<1>3. \A x \in QueuePairs(local[t].queue) : x[2] # local[t].src
  BY DEF QueuePairs, Matches
<1>4. \A x \in WaitingPairs : x[2] # local[t].src
  <2> SUFFICES ASSUME NEW x \in WaitingPairs PROVE x[2] # local[t].src
    OBVIOUS
  <2>1. x \in QueuePairs(local[t].queue) \/ x[1] \in Present \cup {0}
    BY DEF SeenInv, Reading
  <2>2. CASE x[1] \in Present
    <3> DEFINE y == <<x[1], docs[x[1]].src>>
    <3>1. y \in DocPairs /\ x \in Known /\ y \in Known
      BY <2>2, PairsAreKnown
    <3>2. x[2] = y[2]
      BY <2>2, <3>1 DEF Consistent
    <3> QED BY <1>2, <3>1, <3>2
  <2>3. CASE x[1] = 0
    BY <1>1, <2>3, PairsAreKnown DEF Consistent
  <2> QED BY <1>3, <2>1, <2>2, <2>3
<1>5. ThreadPairs(pc[t], local[t]) = QueuePairs(local[t].queue)
  BY DEF ThreadPairs, ChosenPairs, Chosen
<1>6. \A u \in Threads \ {t} : ThreadPairs(pc[u], local[u]) = {}
  BY OneIngests
<1> QED BY <1>2, <1>3, <1>4, <1>5, <1>6 DEF Known

(* A step of an ingestion makes known at most the new id, and where it is then, it *)
(* knows what it must.                                                             *)
LEMMA IngestionStep ==
  ASSUME IngestInv, NEW t \in Threads,
         Step(t) \/ Fail(t) \/ \E src \in Sources, text \in Texts : Ingest(t, src, text)
  PROVE  /\ \/ Known' \subseteq Known
            \/ NewId(t) /\ Known' \subseteq Known \cup {<<local'[t].id, local'[t].src>>}
         /\ DocPairs' \subseteq Known
         /\ \A u \in Threads \ {t} : pc'[u] = "idle"
         /\ pc'[t] \in Reading =>
               \A x \in WaitingPairs' : x \in QueuePairs(local'[t].queue) \/ x[1] \in Present' \cup {0}
         /\ pc'[t] = "ids" => Known' \subseteq Known /\ \A x \in Known : x[2] # local'[t].src
<1> USE DEF IngestInv
<1>1. \A u \in Threads \ {t} : pc'[u] = pc[u] /\ local'[u] = local[u] /\ pc'[u] = "idle"
  <2>1. \A u \in Threads \ {t} : pc'[u] = pc[u] /\ local'[u] = local[u]
    <3>1. \E label, l : Goto(t, label, l)
      BY DEF Step, ReadPending, ReadDocs, NewId, ReadBase, Submit, ReflectNow, Fail, Ingest, Return
    <3> QED BY <3>1 DEF Goto, Shapes
  <2>2. \A u \in Threads \ {t} : pc[u] = "idle"
    <3>1. pc[t] # "idle" \/ holder = None
      BY DEF Step, ReadPending, ReadDocs, NewId, ReadBase, Submit, ReflectNow, Fail, Ingest
    <3> QED BY <3>1, IngestConstants DEF Shapes
  <2> QED BY <2>1, <2>2
<1>2. ASSUME NEW label, NEW l, Goto(t, label, l) PROVE pc'[t] = label /\ local'[t] = l
  BY <1>2 DEF Goto, Shapes
<1>3. ASSUME UNCHANGED <<docs, subs>> PROVE UNCHANGED <<DocPairs, WaitingPairs, Present>>
  BY <1>3 DEF DocPairs, WaitingPairs, Waiting, Present
<1>4. ASSUME NEW label, label \notin Chosen, NEW l, Goto(t, label, l),
             DocPairs' \subseteq Known, WaitingPairs' \subseteq Known,
             QueuePairs(l.queue) \subseteq Known
      PROVE  Known' \subseteq Known
  <2>1. ThreadPairs(label, l) \subseteq Known
    BY <1>4 DEF ThreadPairs, ChosenPairs
  <2> QED BY <1>1, <1>2, <1>4, <2>1, KnownMove
<1>5. local[t] \in Locals /\ PlaceOK(pc[t], local[t], Len(subs))
  BY DEF Shapes
<1>6. QueuePairs(NoLocal.queue) = {} /\ "idle" \notin Chosen \cup Reading /\ "idle" # "ids"
  BY DEF QueuePairs, NoLocal, Chosen, Reading
<1>7. CASE \E src \in Sources, text \in Texts : Ingest(t, src, text)
  <2>1. PICK src \in Sources, text \in Texts : Ingest(t, src, text)
    BY <1>7
  <2> DEFINE l == [NoLocal EXCEPT !.src = src, !.text = text]
  <2>2. Goto(t, "pending", l) /\ UNCHANGED <<docs, subs>>
    BY <2>1 DEF Ingest
  <2>3. QueuePairs(l.queue) = {} /\ "pending" \notin Chosen \cup Reading
    BY <1>6 DEF NoLocal, Chosen, Reading
  <2> HIDE DEF l
  <2>4. Known' \subseteq Known
    BY <1>3, <1>4, <2>2, <2>3, PairsAreKnown
  <2> QED BY <1>1, <1>2, <1>3, <2>2, <2>3, <2>4, PairsAreKnown DEF Reading
<1>8. CASE ReadPending(t)
  <2> DEFINE l == [local[t] EXCEPT !.queue = Pending]
  <2>1. Goto(t, "docs", l) /\ UNCHANGED <<docs, subs>>
    BY <1>8 DEF ReadPending
  <2>2. l.queue = Pending
    BY <1>5 DEF Locals
  <2>3. QueuePairs(l.queue) = WaitingPairs
    BY <2>2, PendingIsQueue DEF QueuePairs, WaitingPairs, Pending
  <2> HIDE DEF l
  <2>4. Known' \subseteq Known
    BY <1>3, <1>4, <2>1, <2>3, PairsAreKnown DEF Chosen
  <2> QED BY <1>1, <1>2, <1>3, <2>1, <2>3, <2>4, PairsAreKnown
<1>9. ASSUME NEW label \in Chosen, NEW l, Goto(t, label, l), UNCHANGED <<docs, subs>>,
             l.queue = local[t].queue
      PROVE  /\ Known' \subseteq Known \cup {<<l.id, l.src>>}
             /\ DocPairs' \subseteq Known
             /\ pc'[t] \notin Reading /\ pc'[t] # "ids" /\ local'[t] = l
  <2>1. ThreadPairs(label, l) \subseteq Known \cup {<<l.id, l.src>>}
    BY <1>9, PairsAreKnown DEF ThreadPairs, ChosenPairs
  <2> QED BY <1>1, <1>2, <1>3, <1>9, <2>1, KnownMove, PairsAreKnown DEF Chosen, Reading
<1>10. CASE ReadDocs(t)
  <2>1. pc[t] = "docs" /\ UNCHANGED <<docs, subs>>
    BY <1>10 DEF ReadDocs
  <2>2. ASSUME NEW i \in Ids, Goto(t, "base", [local[t] EXCEPT !.id = i]),
               <<i, local[t].src>> \in Known
        PROVE  Known' \subseteq Known /\ DocPairs' \subseteq Known /\ pc'[t] \notin Reading
               /\ pc'[t] # "ids"
    <3> DEFINE l == [local[t] EXCEPT !.id = i]
    <3>1. l.queue = local[t].queue /\ l.id = i /\ l.src = local[t].src
      BY <1>5 DEF Locals
    <3>2. Goto(t, "base", l) /\ "base" \in Chosen
      BY <2>2 DEF Chosen
    <3> HIDE DEF l
    <3> QED BY <1>9, <2>1, <2>2, <3>1, <3>2
  <2>3. CASE \E i \in {j \in Present : docs[j].src = local[t].src} :
                Goto(t, "base", [local[t] EXCEPT !.id = i])
    <3>1. PICK i \in Present : /\ docs[i].src = local[t].src
                               /\ Goto(t, "base", [local[t] EXCEPT !.id = i])
      BY <2>3
    <3>2. <<i, local[t].src>> \in Known /\ i \in Ids
      BY <3>1, PairsAreKnown DEF Present
    <3> QED BY <1>1, <2>2, <3>1, <3>2
  <2>4. CASE /\ Matches(t) # {}
             /\ Goto(t, "base", [local[t] EXCEPT !.id = local[t].queue[Max(Matches(t))].id])
    <3> DEFINE n == Max(Matches(t))
    <3>1. n \in DOMAIN local[t].queue /\ local[t].queue[n] \in Submissions
          /\ local[t].queue[n].src = local[t].src
      BY <2>4, NewestMatches
    <3>2. local[t].queue[n].id \in Ids
      BY <3>1 DEF Submissions
    <3>3. <<local[t].queue[n].id, local[t].src>> \in QueuePairs(local[t].queue)
      BY <3>1 DEF QueuePairs
    <3>4. Goto(t, "base", [local[t] EXCEPT !.id = local[t].queue[n].id])
      BY <2>4
    <3> HIDE DEF n
    <3> QED BY <1>1, <2>2, <3>2, <3>3, <3>4, PairsAreKnown
  <2>5. CASE /\ \A i \in Present : docs[i].src # local[t].src
             /\ Matches(t) = {} /\ Goto(t, "ids", local[t])
    <3>1. \A x \in Known : x[2] # local[t].src
      BY <2>1, <2>5, NobodyHasIt
    <3>2. Known' \subseteq Known
      BY <1>3, <1>4, <2>1, <2>5, PairsAreKnown DEF Chosen
    <3>3. pc'[t] = "ids" /\ local'[t] = local[t] /\ DocPairs' = DocPairs
          /\ WaitingPairs' = WaitingPairs /\ Present' = Present
      BY <1>2, <1>3, <2>1, <2>5
    <3>4. \A x \in WaitingPairs : x \in QueuePairs(local[t].queue) \/ x[1] \in Present \cup {0}
      BY <2>1 DEF SeenInv, Reading
    <3> QED BY <1>1, <3>1, <3>2, <3>3, <3>4, PairsAreKnown
  <2> QED BY <1>10, <2>3, <2>4, <2>5 DEF ReadDocs
<1>11. CASE NewId(t)
  <2>1. PICK ids : Goto(t, "base", [local[t] EXCEPT !.id = NextId(ids)])
    BY <1>11 DEF NewId
  <2> DEFINE l == [local[t] EXCEPT !.id = NextId(ids)]
  <2>2. l.queue = local[t].queue
    BY <1>5 DEF Locals
  <2>3. Goto(t, "base", l) /\ "base" \in Chosen /\ UNCHANGED <<docs, subs>>
    BY <1>11, <2>1 DEF NewId, Chosen
  <2> HIDE DEF l
  <2>4. /\ Known' \subseteq Known \cup {<<l.id, l.src>>}
        /\ DocPairs' \subseteq Known
        /\ pc'[t] \notin Reading /\ pc'[t] # "ids" /\ local'[t] = l
    BY <1>9, <2>2, <2>3
  <2> QED BY <1>1, <1>11, <2>4
<1>12. CASE ReadBase(t)
  <2>1. pc[t] \in Chosen /\ UNCHANGED <<docs, subs>>
    BY <1>12 DEF ReadBase, Chosen
  <2>2. <<local[t].id, local[t].src>> \in Known
    BY <2>1, PairsAreKnown
  <2>a. PICK label \in Chosen :
            \E l : /\ Goto(t, label, l) /\ l.queue = local[t].queue
                   /\ l.id = local[t].id /\ l.src = local[t].src
    BY <1>5, <1>12 DEF ReadBase, Chosen, Locals
  <2>3. PICK l : /\ Goto(t, label, l) /\ l.queue = local[t].queue
                 /\ l.id = local[t].id /\ l.src = local[t].src
    BY <2>a
  <2>4. /\ Known' \subseteq Known \cup {<<l.id, l.src>>}
        /\ DocPairs' \subseteq Known
        /\ pc'[t] \notin Reading /\ pc'[t] # "ids"
    BY <1>9, <2>1, <2>3
  <2> QED BY <1>1, <2>2, <2>3, <2>4
<1>13. ASSUME Return(t), DocPairs' \subseteq Known, WaitingPairs' \subseteq Known
       PROVE  Known' \subseteq Known /\ pc'[t] \notin Reading /\ pc'[t] # "ids"
  BY <1>2, <1>4, <1>6, <1>13 DEF Return
<1>14. CASE Submit(t)
  <2>1. pc[t] = "submit"
    BY <1>14 DEF Submit
  <2>2. /\ local[t].id \in Ids /\ local[t].src \in Origins /\ local[t].text \in Texts
        /\ local[t].base \in Documents \cup {None}
    BY <1>5, <2>1 DEF Locals, PlaceOK
  <2>3. WaitingPairs' \subseteq WaitingPairs \cup {<<local[t].id, local[t].src>>}
    BY <1>14, <2>2, QueuedPairs DEF Submit
  <2>4. UNCHANGED DocPairs
    BY <1>14 DEF Submit, DocPairs, Present
  <2> QED BY <1>1, <1>13, <1>14, <2>1, <2>3, <2>4, PairsAreKnown DEF Submit, Chosen
<1>15. CASE ReflectNow(t)
  <2>1. pc[t] = "reflect"
    BY <1>15 DEF ReflectNow
  <2>2. local[t].id \in Ids /\ local[t].src \in Origins /\ local[t].text \in Texts
    BY <1>5, <2>1 DEF Locals, PlaceOK
  <2>3. DocPairs' \subseteq DocPairs \cup {<<local[t].id, local[t].src>>}
    <3>1. Save(local[t].id, local[t].src, local[t].text) \/ UNCHANGED docs
      BY <1>15 DEF ReflectNow
    <3>2. UNCHANGED docs => UNCHANGED DocPairs
      BY DEF DocPairs, Present
    <3> QED BY <2>2, <3>1, <3>2, SavePairs
  <2>4. UNCHANGED WaitingPairs
    BY <1>15 DEF ReflectNow, WaitingPairs, Waiting
  <2> QED BY <1>1, <1>13, <1>15, <2>1, <2>3, <2>4, PairsAreKnown DEF ReflectNow, Chosen
<1>16. CASE Fail(t)
  BY <1>1, <1>3, <1>13, <1>16, PairsAreKnown DEF Fail
<1> QED BY <1>7, <1>8, <1>10, <1>11, <1>12, <1>14, <1>15, <1>16 DEF Step

(* No document is deleted, and one that appears has at most four digits. *)
LEMMA DocumentsStay ==
  ASSUME Shapes, Next, Present \subseteq 0..LastNumber
  PROVE  Present \subseteq Present' /\ Present' \subseteq 0..LastNumber
<1>1. ASSUME UNCHANGED docs PROVE Present \subseteq Present' /\ Present' \subseteq 0..LastNumber
  BY <1>1 DEF Present
<1>2. ASSUME NEW i \in 0..LastNumber, NEW src \in Origins, NEW text \in Texts, Save(i, src, text)
      PROVE  Present \subseteq Present' /\ Present' \subseteq 0..LastNumber
  <2>1. i \in Ids
    BY IngestConstants DEF Ids
  <2> QED BY <1>2, <2>1, SavePairs
<1>3. ASSUME NEW i \in Ids, Lint(i) PROVE i \in 0..LastNumber
  BY <1>3, IngestConstants DEF Ids, Lint
<1>4. CASE \E t \in Threads : Step(t) \/ Fail(t)
  <2>1. PICK t \in Threads : Step(t) \/ Fail(t)
    BY <1>4
  <2>2. CASE ReflectNow(t)
    <3>1. local[t] \in Locals /\ PlaceOK("reflect", local[t], Len(subs))
      BY <2>2 DEF ReflectNow, Shapes
    <3>2. local[t].id \in Ids /\ local[t].src \in Origins /\ local[t].text \in Texts
      BY <3>1 DEF Locals, PlaceOK
    <3>3. CASE Lint(local[t].id)
      <4>1. Save(local[t].id, local[t].src, local[t].text) /\ local[t].id \in 0..LastNumber
        BY <1>3, <2>2, <3>2, <3>3 DEF ReflectNow
      <4> QED BY <1>2, <3>2, <4>1
    <3>4. CASE ~Lint(local[t].id)
      BY <1>1, <2>2, <3>4 DEF ReflectNow
    <3> QED BY <3>3, <3>4
  <2>3. CASE ~ReflectNow(t)
    BY <1>1, <2>1, <2>3 DEF Step, ReadPending, ReadDocs, NewId, ReadBase, Submit, Fail
  <2> QED BY <2>2, <2>3
<1>5. ASSUME NEW i \in Ids, NEW text \in Texts, Write(i, text)
      PROVE  Present \subseteq Present' /\ Present' \subseteq 0..LastNumber
  <2> DEFINE src == IF docs[i] = None THEN None ELSE docs[i].src
  <2>1. src \in Origins
    BY SourceOf
  <2>2. Save(i, src, text) \/ UNCHANGED docs
    BY <1>5 DEF Write
  <2>3. i \in 0..LastNumber
    BY <1>5, IngestConstants DEF Write
  <2> HIDE DEF src
  <2> QED BY <1>1, <1>2, <2>1, <2>2, <2>3
<1>6. ASSUME NEW n \in DOMAIN subs, Approve(n)
      PROVE  Present \subseteq Present' /\ Present' \subseteq 0..LastNumber
  <2>1. subs[n] \in Submissions
    BY DEF Shapes
  <2>2. subs[n].id \in Ids /\ subs[n].src \in Origins /\ subs[n].text \in Texts
    BY <2>1 DEF Submissions
  <2>3. subs[n].id \in 0..LastNumber
    BY <1>3, <1>6, <2>2 DEF Approve
  <2> QED BY <1>2, <1>6, <2>2, <2>3 DEF Approve
<1> QED BY <1>1, <1>4, <1>5, <1>6 DEF Next, Ingest, Reject, Mark

LEMMA IngestInvStep ==
  ASSUME IngestInv, Next, OwnIds
  PROVE  IngestInv' /\ DocPairs' \subseteq Known \cup {<<0, None>>}
<1> USE DEF IngestInv
<1>1. Shapes' /\ Present' \subseteq 0..LastNumber
  BY ShapesStep, DocumentsStay
<1>2. ASSUME NEW t \in Threads,
             Step(t) \/ Fail(t) \/ \E src \in Sources, text \in Texts : Ingest(t, src, text)
      PROVE  IngestInv' /\ DocPairs' \subseteq Known \cup {<<0, None>>}
  <2>1. /\ \/ Known' \subseteq Known
           \/ NewId(t) /\ Known' \subseteq Known \cup {<<local'[t].id, local'[t].src>>}
        /\ DocPairs' \subseteq Known
        /\ \A u \in Threads \ {t} : pc'[u] = "idle"
        /\ pc'[t] \in Reading =>
              \A x \in WaitingPairs' : x \in QueuePairs(local'[t].queue) \/ x[1] \in Present' \cup {0}
        /\ pc'[t] = "ids" => Known' \subseteq Known /\ \A x \in Known : x[2] # local'[t].src
    BY <1>2, IngestionStep
  <2>2. Consistent(Known')
    <3>1. CASE Known' \subseteq Known
      BY <3>1 DEF Consistent
    <3>2. CASE NewId(t) /\ Known' \subseteq Known \cup {<<local'[t].id, local'[t].src>>}
      <4> DEFINE n == local'[t].id
                 src == local'[t].src
      <4>1. /\ n # 0
            /\ \A x \in Known : (x[1] = n => n \notin 0..LastNumber) /\ x[2] # src
            /\ Known' \subseteq Known \cup {<<n, src>>}
        BY <3>2, NewIdIsNew
      <4>2. Consistent(Known)
        OBVIOUS
      <4> HIDE DEF n, src
      <4> QED BY <4>1, <4>2, ConsistentWithNew
    <3> QED BY <2>1, <3>1, <3>2
  <2>3. SeenInv'
    BY <2>1 DEF SeenInv, Reading
  <2> QED BY <1>1, <2>1, <2>2, <2>3
<1>3. ASSUME \/ \E i \in Ids, text \in Texts : Write(i, text)
             \/ \E n \in DOMAIN subs : Approve(n) \/ Reject(n)
             \/ Mark
      PROVE  IngestInv' /\ DocPairs' \subseteq Known \cup {<<0, None>>}
  <2>1. /\ UNCHANGED <<pc, local>>
        /\ Present \subseteq Present'
        /\ DocPairs' \subseteq Known \cup {<<0, None>>}
        /\ WaitingPairs' \subseteq Known \cup {<<0, None>>}
        /\ \A x \in WaitingPairs' : x \in WaitingPairs \/ x[1] \in Present \cup {0}
    BY <1>3, PeopleStep
  <2>2. Known' \subseteq Known \cup {<<0, None>>}
    <3>1. \A u \in Threads : ThreadPairs(pc'[u], local'[u]) \subseteq Known
      BY <2>1 DEF Known
    <3> QED BY <2>1, <3>1 DEF Known
  <2>3. Consistent(Known')
    BY <2>2, ConsistentWithNone
  <2>4. SeenInv'
    <3>1. \A t \in Threads : pc[t] = "ids" => local[t].src # None
      BY IngestConstants DEF Shapes, PlaceOK
    <3>2. ASSUME NEW t \in Threads, pc[t] \in Reading, NEW x \in WaitingPairs'
          PROVE  x \in QueuePairs(local[t].queue) \/ x[1] \in Present' \cup {0}
      BY <2>1, <3>2 DEF SeenInv
    <3>3. ASSUME NEW t \in Threads, pc[t] = "ids", NEW x \in Known'
          PROVE  x[2] # local[t].src
      BY <2>2, <3>1, <3>3 DEF SeenInv
    <3> QED BY <2>1, <3>2, <3>3 DEF SeenInv
  <2> QED BY <1>1, <2>1, <2>3, <2>4
<1> QED BY <1>2, <1>3 DEF Next

LEMMA InitIngestInv == Init => IngestInv
<1> SUFFICES ASSUME Init PROVE IngestInv
  OBVIOUS
<1>1. Known = {}
  <2>1. DocPairs = {} /\ WaitingPairs = {}
    BY DEF Init, DocPairs, Present, WaitingPairs, Waiting
  <2>2. \A t \in Threads : ThreadPairs(pc[t], local[t]) = {}
    BY DEF Init, ThreadPairs, QueuePairs, ChosenPairs, Chosen, NoLocal
  <2> QED BY <2>1, <2>2 DEF Known
<1>2. SeenInv
  BY DEF Init, SeenInv, Reading
<1>3. Present = {}
  BY DEF Init, Present
<1> QED BY <1>1, <1>2, <1>3, InitShapes DEF IngestInv, Consistent

(* What is known is consistent. *)
LEMMA IngestAlways ==
  ASSUME OwnIds
  PROVE  Spec => []IngestInv
<1>1. IngestInv /\ [Next]_vars => IngestInv'
  <2>1. CASE UNCHANGED vars
    <3>1. UNCHANGED <<docs, subs, holder, marking, gate, pc, local>>
      BY <2>1 DEF vars
    <3>2. UNCHANGED <<Known, WaitingPairs, Present>>
      BY <3>1 DEF Known, DocPairs, WaitingPairs, Waiting, Present
    <3>3. IngestInv => Shapes'
      BY <3>1 DEF IngestInv, Shapes
    <3>4. IngestInv => SeenInv'
      BY <3>1, <3>2 DEF IngestInv, SeenInv
    <3> QED BY <3>2, <3>3, <3>4 DEF IngestInv
  <2> QED BY <2>1, IngestInvStep
<1> QED BY <1>1, InitIngestInv, PTL DEF Spec

(* However often sources are ingested, and whatever is approved, rejected, written *)
(* or fails meanwhile, a source has one document (service.py:690, 697-724).        *)
THEOREM SourcesAreOneDocument ==
  ASSUME OwnIds
  PROVE  Spec => []OneDocumentPerSource
<1>1. IngestInv => OneDocumentPerSource
  <2> SUFFICES ASSUME IngestInv, NEW i \in Present, NEW j \in Present,
                      docs[i].src = docs[j].src, docs[i].src # None
               PROVE  i = j
    BY DEF OneDocumentPerSource
  <2> DEFINE x == <<i, docs[i].src>>
             y == <<j, docs[j].src>>
  <2>1. x \in Known /\ y \in Known
    BY PairsAreKnown
  <2>2. x[1] = y[1]
    BY <2>1 DEF IngestInv, Consistent
  <2> QED BY <2>2
<1> QED BY <1>1, IngestAlways, PTL

(* No step replaces the document of one source by another's (service.py:700-701). *)
THEOREM DocumentsKeepTheirSource ==
  ASSUME OwnIds
  PROVE  Spec => SourceKeepsItsDocument
<1>1. IngestInv /\ IngestInv' /\ [Next]_vars
         => [\A i \in Present : docs[i]'.src = docs[i].src]_vars
  <2> SUFFICES ASSUME IngestInv, Shapes', Next, NEW i \in Present
               PROVE  docs'[i].src = docs[i].src
    BY DEF IngestInv
  <2>1. CASE docs'[i] # None
    <3> DEFINE x == <<i, docs[i].src>>
               y == <<i, docs'[i].src>>
    <3>1. x \in Known
      BY PairsAreKnown
    <3>2. y \in DocPairs'
      BY <2>1 DEF DocPairs, Present
    <3>3. y \in Known \cup {<<0, None>>}
      BY <3>2, IngestInvStep
    <3>4. Consistent(Known \cup {<<0, None>>})
      BY ConsistentWithNone DEF IngestInv
    <3>5. x[1] \in 0..LastNumber
      BY DEF IngestInv
    <3>6. x[1] = y[1] => x[2] = y[2]
      BY <3>1, <3>3, <3>4, <3>5 DEF Consistent
    <3> QED BY <3>6
  <2>2. CASE docs'[i] = None
    <3>1. Present \subseteq Present'
      BY DocumentsStay DEF IngestInv
    <3> QED BY <2>2, <3>1 DEF Present
  <2> QED BY <2>1, <2>2
<1> QED BY <1>1, IngestAlways, PTL DEF Spec, SourceKeepsItsDocument
=================================================================================
