---------------------------- MODULE DocumentsProofs ----------------------------
(***************************************************************************)
(* What documents say of each other and what their texts are, for any        *)
(* documents, threads and saves, and for texts of any length.                *)
(*                                                                         *)
(* Nothing dangles since what the lint has seen lasts or is excepted: the      *)
(* union of both sets never shrinks, so the lint may be as old as it will.     *)
(* The history needs the lock: FileInv says where a save under way has left    *)
(* file and history, with what its rollback will restore.                      *)
(*                                                                         *)
(* A text that pass B has written is Tidy, which is kept line by line, and a   *)
(* tidy text that does not end with an empty line is what normalising makes of *)
(* it again.  What a reader sees is computed beside the passes in the same way. *)
(***************************************************************************)
EXTENDS References, Documents, FiniteSetTheorems, SequenceTheorems, WellFoundedInduction, TLAPS

---------------------------------------------------------------------------------
(* The lineage.  SearchInv is why it is whole: what was seen and what is queued    *)
(* can be reached, and from what was seen the search leads only to what was seen   *)
(* or is queued.  With the queue empty what was seen is closed, and so all that    *)
(* can be reached.                                                                 *)

(* A set of naturals that is not empty has a least element. *)
LEMMA LeastNumber ==
    ASSUME NEW S \in SUBSET Nat, S # {}
    PROVE  \E n \in S : \A m \in S : n <= m
<1>1. PICK n \in S : \A m \in S : ~(<<m, n>> \in OpToRel(<, Nat))
  BY WFMin, NatLessThanWellFounded, Zenon
<1>2. \A m \in S : <<m, n>> \in Nat \X Nat
  OBVIOUS
<1>3. \A m \in S : ~(m < n)
  BY <1>1, <1>2 DEF OpToRel
<1>4. \A m \in S : n <= m
  BY <1>3
<1> QED
  BY <1>4

---------------------------------------------------------------------------------
(* sorted *)

Increasing(s) == \A i, j \in DOMAIN s : i < j => s[i] < s[j]
HasOrder(S) == \E s \in [1..Cardinality(S) -> S] : Increasing(s)

LEMMA NumbersAreFinite ==
    ASSUME NEW n \in Nat, NEW S \in SUBSET (1..n)
    PROVE  IsFiniteSet(S) /\ Cardinality(S) \in Nat
<1>1. IsFiniteSet(1..n)
  BY FS_Interval
<1>2. IsFiniteSet(S)
  BY <1>1, FS_Subset
<1> QED
  BY <1>2, FS_CardinalityType

(* Numbers can be sorted: else take the least bound of numbers that cannot, leave *)
(* out the largest of them, sort the others, and put it last.                     *)
LEMMA OrderExists ==
    ASSUME NEW bound \in Nat, NEW N \in SUBSET (1..bound)
    PROVE  HasOrder(N)
<1> DEFINE Bad == {n \in Nat : \E S \in SUBSET (1..n) : ~HasOrder(S)}
<1> SUFFICES ASSUME Bad # {} PROVE FALSE
  OBVIOUS
<1>1. PICK n \in Bad : \A m \in Bad : n <= m
  <2>1. Bad \in SUBSET Nat
    OBVIOUS
  <2> HIDE DEF Bad
  <2> QED
    BY <2>1, LeastNumber
<1>2. PICK S \in SUBSET (1..n) : ~HasOrder(S)
  BY <1>1
<1>3. n \in Nat
  BY <1>1
<1>4. IsFiniteSet(S) /\ Cardinality(S) \in Nat
  BY <1>3, NumbersAreFinite
<1>5. n # 0
  <2> SUFFICES ASSUME n = 0 PROVE HasOrder(S)
    BY <1>2
  <2>1. S = {}
    BY <1>2
  <2>2. Cardinality(S) = 0
    BY <2>1, FS_EmptySet
  <2>3. <<>> \in [1..0 -> {}] /\ Increasing(<<>>)
    BY DEF Increasing
  <2> QED
    BY <2>1, <2>2, <2>3 DEF HasOrder
<1>6. n - 1 \in Nat /\ ~(n <= n - 1)
  BY <1>3, <1>5
<1>7. \A T \in SUBSET (1..(n - 1)) : HasOrder(T)
  BY <1>1, <1>6
<1>8. n \in S
  <2> SUFFICES ASSUME n \notin S PROVE S \in SUBSET (1..(n - 1))
    BY <1>2, <1>7
  <2> QED
    BY <1>3, <1>6
<1> DEFINE T == S \ {n}
           c == Cardinality(T)
<1>9. T \in SUBSET (1..(n - 1)) /\ IsFiniteSet(T) /\ c \in Nat
  BY <1>3, <1>4, <1>6, FS_RemoveElement, FS_CardinalityType
<1>10. Cardinality(S) = c + 1
  <2>1. c = Cardinality(S) - 1
    BY <1>4, <1>8, FS_RemoveElement
  <2> QED
    BY <2>1, <1>4
<1>11. PICK t \in [1..c -> T] : Increasing(t)
  BY <1>7, <1>9 DEF HasOrder
<1> DEFINE s == [i \in 1..(c + 1) |-> IF i = c + 1 THEN n ELSE t[i]]
<1>12. s \in [1..(c + 1) -> S]
  <2> SUFFICES ASSUME NEW i \in 1..(c + 1), i # c + 1 PROVE t[i] \in S
    BY <1>8
  <2>1. i \in 1..c
    BY <1>9
  <2> QED
    BY <2>1, <1>11
<1>13. Increasing(s)
  <2> SUFFICES ASSUME NEW i \in 1..(c + 1), NEW j \in 1..(c + 1), i < j PROVE s[i] < s[j]
    BY DEF Increasing
  <2>1. i \in 1..c
    BY <1>9
  <2>2. CASE j = c + 1
    <3>1. s[j] = n /\ s[i] = t[i]
      BY <2>1, <2>2, <1>9
    <3>2. t[i] \in T
      BY <2>1, <1>11
    <3>3. t[i] \in 1..(n - 1)
      BY <3>2, <1>9
    <3> QED
      BY <3>1, <3>3, <1>3
  <2>3. CASE j # c + 1
    <3>1. j \in 1..c
      BY <2>3, <1>9
    <3>2. t[i] < t[j]
      BY <2>1, <3>1, <1>11 DEF Increasing
    <3> QED
      BY <2>1, <2>3, <3>1, <3>2, <1>9
  <2> QED
    BY <2>2, <2>3
<1> QED
  BY <1>2, <1>10, <1>12, <1>13 DEF HasOrder

(* Sorting keeps the elements, and gives each once. *)
LEMMA SortedIs ==
    ASSUME NEW n \in Nat, NEW S \in SUBSET (1..n)
    PROVE  /\ Sorted(S) \in Seq(S)
           /\ Elements(Sorted(S)) = S
           /\ \A i, j \in DOMAIN Sorted(S) : Sorted(S)[i] = Sorted(S)[j] => i = j
<1> DEFINE c == Cardinality(S)
           s == Sorted(S)
<1>1. IsFiniteSet(S) /\ c \in Nat
  BY NumbersAreFinite
<1>2. s \in [1..c -> S] /\ Increasing(s)
  <2>1. HasOrder(S)
    BY OrderExists
  <2> QED
    BY <2>1, Zenon DEF HasOrder, Sorted, Increasing
<1>3. ASSUME NEW i \in 1..c, NEW j \in 1..c, s[i] = s[j] PROVE i = j
  <2>1. s[i] \in Nat /\ s[j] \in Nat
    <3>1. s[i] \in S /\ s[j] \in S
      BY <1>2
    <3>2. S \subseteq Nat
      OBVIOUS
    <3> QED
      BY <3>1, <3>2, Zenon
  <2>2. ~(i < j) /\ ~(j < i)
    BY <1>2, <1>3, <2>1 DEF Increasing
  <2> QED
    BY <2>2, <1>1
<1>4. s \in Injection(1..c, S)
  BY <1>2, <1>3 DEF Injection, IsInjective
<1>5. Cardinality(1..c) = c
  BY <1>1, FS_Interval
<1>6. s \in Surjection(1..c, S)
  BY <1>1, <1>4, <1>5, FS_Injection
<1>7. Elements(s) = S
  BY <1>2, <1>6 DEF Surjection, Elements
<1>8. s \in Seq(S)
  BY <1>1, <1>2
<1> QED
  BY <1>2, <1>3, <1>7, <1>8

(* What Visible keeps. *)
LEMMA VisibleIs ==
    ASSUME NEW s \in Seq(Docs)
    PROVE  Visible(s) \in Seq(Docs) /\ Elements(Visible(s)) = Elements(s) \cap readable
<1> DEFINE At == {i \in DOMAIN s : s[i] \in readable}
           kept == Sorted(At)
<1>1. Len(s) \in Nat /\ At \in SUBSET (1..Len(s))
  OBVIOUS
<1>2. Elements(kept) = At /\ kept \in Seq(At)
  <2> HIDE DEF At
  <2> QED
    BY <1>1, SortedIs
<1>3. Visible(s) = [k \in DOMAIN kept |-> s[kept[k]]]
  BY DEF Visible
<1>4. Elements(Visible(s)) = {s[i] : i \in Elements(kept)}
  <2> HIDE DEF kept
  <2> QED
    BY <1>3 DEF Elements
<1>5. {s[i] : i \in At} = Elements(s) \cap readable
  BY DEF Elements
<1>6. Visible(s) \in Seq(Docs)
  <2>1. kept \in Seq(1..Len(s))
    BY <1>1, <1>2
  <2> HIDE DEF kept
  <2>2. Len(kept) \in Nat /\ \A k \in 1..Len(kept) : s[kept[k]] \in Docs
    BY <2>1
  <2>3. [k \in 1..Len(kept) |-> s[kept[k]]] \in Seq(Docs)
    BY <2>2
  <2>4. DOMAIN kept = 1..Len(kept)
    BY <2>1
  <2> QED
    BY <1>3, <2>3, <2>4
<1> QED
  BY <1>2, <1>4, <1>5, <1>6

---------------------------------------------------------------------------------
(* Sequences and their elements *)

LEMMA ElementsOfConcat ==
    ASSUME NEW S, NEW s \in Seq(S), NEW t \in Seq(S)
    PROVE  Elements(s \o t) = Elements(s) \cup Elements(t)
<1>1. s \o t \in Seq(S) /\ Len(s \o t) = Len(s) + Len(t)
  OBVIOUS
<1>2. \A i \in 1..Len(s) : (s \o t)[i] = s[i] /\ i \in 1..Len(s \o t)
  BY <1>1
<1>3. \A i \in 1..Len(t) : (s \o t)[Len(s) + i] = t[i] /\ Len(s) + i \in 1..Len(s \o t)
  BY <1>1
<1>4. \A i \in 1..Len(s \o t) :
         \/ i \in 1..Len(s) /\ (s \o t)[i] = s[i]
         \/ i - Len(s) \in 1..Len(t) /\ (s \o t)[i] = t[i - Len(s)]
  BY <1>1
<1>5. Elements(s) \subseteq Elements(s \o t)
  BY <1>1, <1>2 DEF Elements
<1>6. Elements(t) \subseteq Elements(s \o t)
  <2>1. ASSUME NEW i \in 1..Len(t) PROVE t[i] \in Elements(s \o t)
    <3>1. (s \o t)[Len(s) + i] = t[i] /\ Len(s) + i \in DOMAIN (s \o t)
      BY <1>1, <1>3
    <3> QED
      BY <3>1 DEF Elements
  <2> QED
    BY <2>1 DEF Elements
<1>7. Elements(s \o t) \subseteq Elements(s) \cup Elements(t)
  BY <1>1, <1>4 DEF Elements
<1> QED
  BY <1>5, <1>6, <1>7

LEMMA ElementsOfAppend ==
    ASSUME NEW S, NEW s \in Seq(S), NEW e \in S
    PROVE  Append(s, e) \in Seq(S) /\ Elements(Append(s, e)) = Elements(s) \cup {e}
<1>1. Append(s, e) \in Seq(S) /\ Len(Append(s, e)) = Len(s) + 1
  OBVIOUS
<1>2. \A i \in 1..Len(s) : Append(s, e)[i] = s[i] /\ i \in 1..(Len(s) + 1)
  OBVIOUS
<1>3. Append(s, e)[Len(s) + 1] = e /\ Len(s) + 1 \in 1..(Len(s) + 1)
  OBVIOUS
<1>4. \A i \in 1..(Len(s) + 1) : i = Len(s) + 1 \/ i \in 1..Len(s)
  OBVIOUS
<1> QED
  BY <1>1, <1>2, <1>3, <1>4 DEF Elements

LEMMA ElementsOfTail ==
    ASSUME NEW S, NEW s \in Seq(S), s # <<>>
    PROVE  /\ Head(s) \in S /\ Tail(s) \in Seq(S)
           /\ Elements(s) = {Head(s)} \cup Elements(Tail(s))
<1>1. /\ Tail(s) \in Seq(S) /\ Len(Tail(s)) = Len(s) - 1
      /\ Head(s) = s[1] /\ Len(s) \in Nat \ {0}
  OBVIOUS
<1>2. \A i \in 1..Len(Tail(s)) : Tail(s)[i] = s[i + 1] /\ i + 1 \in 1..Len(s)
  BY <1>1
<1>3. \A i \in 1..Len(s) : i = 1 \/ (i - 1 \in 1..Len(Tail(s)) /\ Tail(s)[i - 1] = s[i])
  BY <1>1
<1>4. Elements(Tail(s)) \subseteq Elements(s)
  BY <1>1, <1>2 DEF Elements
<1>5. Elements(s) \subseteq {s[1]} \cup Elements(Tail(s))
  <2>1. ASSUME NEW i \in 1..Len(s), i # 1 PROVE s[i] \in Elements(Tail(s))
    <3>1. i - 1 \in DOMAIN Tail(s) /\ Tail(s)[i - 1] = s[i]
      BY <1>1, <1>3, <2>1
    <3> QED
      BY <3>1 DEF Elements
  <2> QED
    BY <2>1 DEF Elements
<1>6. s[1] \in Elements(s) /\ s[1] \in S
  BY <1>1 DEF Elements
<1> QED
  BY <1>1, <1>4, <1>5, <1>6

---------------------------------------------------------------------------------
(* Reaching *)

Map == [Docs -> SUBSET Docs]

LEMMA BackwardIs ==
    ASSUME NEW map \in Map
    PROVE  /\ Backward(map) \in Map
           /\ \A d, e \in Docs : e \in Backward(map)[d] <=> d \in map[e]
BY DEF Backward, Map

(* What can be reached backwards is what can be reached from: the documents that are *)
(* not in a closed set are closed backwards.                                         *)
LEMMA ReachesBackward ==
    ASSUME NEW map \in Map, NEW d \in Docs, NEW e \in Docs
    PROVE  Reaches(Backward(map), d, e) <=> Reaches(map, e, d)
<1>1. ASSUME Reaches(Backward(map), d, e) PROVE Reaches(map, e, d)
  <2> SUFFICES ASSUME NEW S \in SUBSET Docs, e \in S, Closed(map, S), d \notin S PROVE FALSE
    BY DEF Reaches
  <2>1. Closed(Backward(map), Docs \ S)
    BY BackwardIs DEF Closed, Map
  <2>2. e \in Docs \ S
    BY <1>1, <2>1 DEF Reaches
  <2> QED
    BY <2>2
<1>2. ASSUME Reaches(map, e, d) PROVE Reaches(Backward(map), d, e)
  <2> SUFFICES ASSUME NEW S \in SUBSET Docs, d \in S, Closed(Backward(map), S), e \notin S PROVE FALSE
    BY DEF Reaches
  <2>1. Closed(map, Docs \ S)
    BY BackwardIs DEF Closed, Map
  <2>2. d \in Docs \ S
    BY <1>2, <2>1 DEF Reaches
  <2> QED
    BY <2>2
<1> QED
  BY <1>1, <1>2

LEMMA ReachesItself ==
    ASSUME NEW map \in Map, NEW d \in Docs
    PROVE  Reaches(map, d, d)
BY DEF Reaches

LEMMA ReachesFurther ==
    ASSUME NEW map \in Map, NEW d \in Docs, NEW e \in Docs, NEW f \in map[e], Reaches(map, d, e)
    PROVE  Reaches(map, d, f)
BY DEF Reaches, Closed, Map

---------------------------------------------------------------------------------
(* The invariant *)

Now == IF way = "supersedes" THEN supersedes ELSE Backward(supersedes)

SearchInv ==
    Searching =>
      /\ \A d \in seen : Now[d] \subseteq seen \cup Elements(queue)
      /\ \A e \in seen \cup Elements(queue) : Reaches(Now, doc, e)

LineageInv == LineageTypeOK /\ SearchInv /\ LineageIsWhole

LEMMA NowIsMap ==
    ASSUME LineageTypeOK
    PROVE  /\ Now \in Map /\ supersedes \in Map /\ Backward(supersedes) \in Map
           /\ doc \in Docs /\ readable \in SUBSET Docs
           /\ seen \in SUBSET Docs /\ Elements(queue) \in SUBSET Docs
           /\ \A d \in Docs : Adjacent(d) = Now[d] /\ Now[d] \in SUBSET Docs
<1>1. supersedes \in Map /\ doc \in Docs /\ readable \in SUBSET Docs
  BY LineageConstants DEF LineageTypeOK, Map
<1>2. Backward(supersedes) \in Map
  BY <1>1, BackwardIs
<1>3. Now \in Map /\ \A d \in Docs : Adjacent(d) = Now[d]
  BY <1>1, <1>2 DEF Now, Adjacent
<1>4. Elements(queue) \in SUBSET Docs /\ Elements(order) \in SUBSET Docs
  BY DEF LineageTypeOK, Elements
<1> QED
  BY <1>1, <1>2, <1>3, <1>4 DEF LineageTypeOK, Map

LEMMA SortedDocs ==
    ASSUME NEW S \in SUBSET Docs
    PROVE  Sorted(S) \in Seq(Docs) /\ Elements(Sorted(S)) = S
<1>1. Sorted(S) \in Seq(S) /\ Elements(Sorted(S)) = S
  BY LineageConstants, SortedIs DEF Docs
<1> QED
  BY <1>1

(* Where a search begins. *)
LEMMA SearchBegins ==
    ASSUME NEW map \in Map, NEW d \in Docs
    PROVE  /\ Sorted(map[d]) \in Seq(Docs)
           /\ \A e \in {d} : map[e] \subseteq {d} \cup Elements(Sorted(map[d]))
           /\ \A e \in {d} \cup Elements(Sorted(map[d])) : Reaches(map, d, e)
<1>1. map[d] \in SUBSET Docs
  BY DEF Map
<1>2. Sorted(map[d]) \in Seq(Docs) /\ Elements(Sorted(map[d])) = map[d]
  BY <1>1, SortedDocs
<1> QED
  BY <1>2, ReachesItself, ReachesFurther

(* Where it ends: all that can be reached was found. *)
LEMMA SearchEnds ==
    ASSUME LineageTypeOK, SearchInv, Searching, queue = <<>>
    PROVE  Elements(Visible(order)) = {e \in readable \ {doc} : Reaches(Now, doc, e)}
<1>1. Elements(queue) = {}
  BY DEF Elements
<1>2. seen \in SUBSET Docs /\ doc \in seen /\ Closed(Now, seen)
  BY <1>1, NowIsMap DEF SearchInv, Closed, LineageTypeOK
<1>3. \A e : Reaches(Now, doc, e) => e \in seen
  BY <1>2 DEF Reaches
<1>4. \A e \in seen : Reaches(Now, doc, e)
  BY DEF SearchInv
<1>5. Elements(order) = seen \ {doc}
  BY DEF LineageTypeOK
<1>6. Elements(Visible(order)) = (seen \ {doc}) \cap readable
  BY <1>5, VisibleIs DEF LineageTypeOK
<1> QED
  BY <1>3, <1>4, <1>6

LEMMA InitHolds ==
    ASSUME LineageInit
    PROVE  LineageInv
<1>1. supersedes \in Map /\ doc \in Docs
  BY LineageConstants DEF LineageInit, Map
<1>2. Now = supersedes
  BY DEF LineageInit, Now
<1>3. Elements(order) = {}
  BY DEF LineageInit, Elements
<1>4. LineageTypeOK
  BY <1>1, <1>3, SearchBegins DEF LineageInit, LineageTypeOK
<1>5. SearchInv
  BY <1>1, <1>2, SearchBegins DEF LineageInit, SearchInv
<1>6. LineageIsWhole
  BY DEF LineageInit, LineageIsWhole
<1> QED
  BY <1>4, <1>5, <1>6 DEF LineageInv

LEMMA VisitKeeps ==
    ASSUME LineageInv, Visit
    PROVE  LineageInv'
<1> DEFINE d == Head(queue)
<1>1. LineageTypeOK /\ SearchInv /\ LineageIsWhole /\ Searching /\ queue # <<>>
  BY DEF LineageInv, Visit
<1>2. UNCHANGED <<supersedes, related, readable, doc, way, result>>
  BY DEF Visit, inputs
<1>3. Now' = Now /\ Searching' = Searching
  BY <1>2 DEF Now, Backward, Searching
<1>4. LineageIsWhole'
  BY <1>1, <1>2 DEF LineageIsWhole, Reaches, Closed
<1>5. d \in Docs /\ Tail(queue) \in Seq(Docs) /\ Elements(queue) = {d} \cup Elements(Tail(queue))
  BY <1>1, ElementsOfTail DEF LineageTypeOK
<1>6. CASE d \in seen
  <2>1. queue' = Tail(queue) /\ seen' = seen /\ order' = order
    BY <1>6 DEF Visit
  <2>2. seen' \cup Elements(queue)' = seen \cup Elements(queue)
    BY <1>5, <1>6, <2>1
  <2>3. LineageTypeOK'
    BY <1>1, <1>2, <1>5, <2>1 DEF LineageTypeOK, Elements
  <2>4. SearchInv'
    BY <1>1, <1>2, <1>3, <2>1, <2>2 DEF SearchInv, Reaches, Closed
  <2> QED
    BY <1>4, <2>3, <2>4 DEF LineageInv
<1>7. CASE d \notin seen
  <2> DEFINE new == Adjacent(d) \ seen'
  <2>1. /\ seen' = seen \cup {d} /\ order' = Append(order, d)
        /\ queue' = Tail(queue) \o Sorted(Adjacent(d) \ seen')
    BY <1>7 DEF Visit
  <2>2. Adjacent(d) = Now[d] /\ new \in SUBSET Docs
    BY <1>1, <1>5, NowIsMap
  <2>3. Sorted(new) \in Seq(Docs) /\ Elements(Sorted(new)) = new
    BY <2>2, SortedDocs
  <2>4. queue' \in Seq(Docs) /\ Elements(queue') = Elements(Tail(queue)) \cup new
    <3>1. \A s, t \in Seq(Docs) :
             s \o t \in Seq(Docs) /\ Elements(s \o t) = Elements(s) \cup Elements(t)
      BY ElementsOfConcat
    <3> QED
      BY <1>5, <2>1, <2>3, <3>1
  <2>5. order' \in Seq(Docs) /\ Elements(order') = Elements(order) \cup {d}
    BY <1>1, <1>5, <2>1, ElementsOfAppend DEF LineageTypeOK
  <2>6. seen' \cup Elements(queue') = seen \cup Elements(queue) \cup Now[d]
    BY <1>5, <2>1, <2>2, <2>4
  <2>7. Elements(queue)' = Elements(queue') /\ Elements(order)' = Elements(order')
    BY DEF Elements
  <2>8. \A i, j \in DOMAIN order' : order'[i] = order'[j] => i = j
    <3>1. \A i \in DOMAIN order : order[i] # d
      BY <1>1, <1>7 DEF LineageTypeOK, Elements
    <3>2. /\ DOMAIN order = 1..Len(order) /\ DOMAIN order' = 1..(Len(order) + 1) /\ Len(order) \in Nat
          /\ order'[Len(order) + 1] = d /\ \A i \in 1..Len(order) : order'[i] = order[i]
      BY <1>1, <1>5, <2>1 DEF LineageTypeOK
    <3>3. \A i, j \in DOMAIN order : order[i] = order[j] => i = j
      BY <1>1 DEF LineageTypeOK
    <3> QED
      BY <3>1, <3>2, <3>3
  <2>9. LineageTypeOK'
    <3>1. doc \in seen /\ d # doc
      BY <1>1, <1>7 DEF LineageTypeOK
    <3> QED
      BY <1>1, <1>2, <2>1, <2>4, <2>5, <2>7, <2>8, <3>1 DEF LineageTypeOK
  <2>10. SearchInv'
    <3>1. \A e \in seen' : Now[e] \subseteq seen' \cup Elements(queue')
      BY <1>1, <2>1, <2>6 DEF SearchInv
    <3>2. \A e \in seen' \cup Elements(queue') : Reaches(Now, doc, e)
      <4>1. \A e \in seen \cup Elements(queue) : Reaches(Now, doc, e)
        BY <1>1 DEF SearchInv
      <4>2. Reaches(Now, doc, d)
        BY <4>1, <1>5
      <4>3. \A e \in Now[d] : Reaches(Now, doc, e)
        BY <1>1, <1>5, <4>2, NowIsMap, ReachesFurther
      <4> QED
        BY <2>6, <4>1, <4>3
    <3> QED
      BY <1>2, <1>3, <2>7, <3>1, <3>2 DEF SearchInv, Reaches, Closed
  <2> QED
    BY <1>4, <2>9, <2>10 DEF LineageInv
<1> QED
  BY <1>6, <1>7

LEMMA ChainEndsKeeps ==
    ASSUME LineageInv, ChainEnds
    PROVE  LineageInv'
<1>1. LineageTypeOK /\ SearchInv /\ Searching /\ Now = supersedes
  BY DEF LineageInv, ChainEnds, Searching, Now
<1>2. /\ UNCHANGED <<supersedes, related, readable, doc>> /\ way' = "superseded_by"
      /\ queue' = Sorted(Backward(supersedes)[doc]) /\ seen' = {doc} /\ order' = <<>>
      /\ queue = <<>>
  BY DEF ChainEnds, inputs, Start
<1>3. result'.supersedes = Visible(order)
  BY DEF ChainEnds, LineageInv, LineageTypeOK
<1>4. Backward(supersedes) \in Map /\ doc \in Docs /\ Now' = Backward(supersedes)
  BY <1>1, <1>2, NowIsMap DEF Now, Backward
<1>5. LineageTypeOK'
  <2>1. result' \in [supersedes : Seq(Docs), superseded_by : Seq(Docs), related : SUBSET Docs]
    BY <1>1, VisibleIs DEF ChainEnds, LineageTypeOK
  <2> QED
    BY <1>1, <1>2, <1>4, <2>1, SearchBegins DEF LineageTypeOK, Elements
<1>6. SearchInv'
  <2> DEFINE first == Sorted(Backward(supersedes)[doc])
  <2>1. \A d \in {doc} : Backward(supersedes)[d] \subseteq {doc} \cup Elements(first)
    BY <1>4, SearchBegins
  <2>2. \A e \in {doc} \cup Elements(first) : Reaches(Backward(supersedes), doc, e)
    BY <1>4, SearchBegins
  <2>3. Elements(queue)' = Elements(first)
    BY <1>2 DEF Elements
  <2> QED
    BY <1>2, <1>4, <2>1, <2>2, <2>3 DEF SearchInv, Reaches, Closed
<1>7. Elements(Visible(order)) = {e \in readable \ {doc} : Reaches(supersedes, doc, e)}
  BY <1>1, <1>2, SearchEnds
<1>8. LineageIsWhole'
  BY <1>2, <1>3, <1>7 DEF LineageIsWhole, Reaches, Closed, Elements
<1> QED
  BY <1>5, <1>6, <1>8 DEF LineageInv

LEMMA BackwardEndsKeeps ==
    ASSUME LineageInv, BackwardEnds
    PROVE  LineageInv'
<1>1. LineageTypeOK /\ SearchInv /\ Searching /\ Now = Backward(supersedes) /\ LineageIsWhole
  BY DEF LineageInv, BackwardEnds, Searching, Now
<1>2. /\ UNCHANGED <<supersedes, related, readable, doc, queue, seen, order>>
      /\ way = "superseded_by" /\ way' = "related" /\ queue = <<>>
  BY DEF BackwardEnds, inputs, search
<1>3. result'.superseded_by = Visible(order) /\ result'.supersedes = result.supersedes
  BY DEF BackwardEnds, LineageInv, LineageTypeOK
<1>4. LineageTypeOK'
  <2>1. result' \in [supersedes : Seq(Docs), superseded_by : Seq(Docs), related : SUBSET Docs]
    BY <1>1, VisibleIs DEF BackwardEnds, LineageTypeOK
  <2> QED
    BY <1>1, <1>2, <2>1 DEF LineageTypeOK, Elements
<1>5. SearchInv'
  BY <1>2 DEF SearchInv, Searching
<1>6. Elements(Visible(order)) = {e \in readable \ {doc} : Reaches(supersedes, e, doc)}
  <2>1. Elements(Visible(order)) = {e \in readable \ {doc} : Reaches(Backward(supersedes), doc, e)}
    BY <1>1, <1>2, SearchEnds
  <2>2. \A e \in readable : Reaches(Backward(supersedes), doc, e) <=> Reaches(supersedes, e, doc)
    BY <1>1, NowIsMap, ReachesBackward
  <2> QED
    BY <2>1, <2>2
<1>7. LineageIsWhole'
  BY <1>1, <1>2, <1>3, <1>6 DEF LineageIsWhole, Reaches, Closed, Elements
<1> QED
  BY <1>4, <1>5, <1>7 DEF LineageInv

LEMMA RelateKeeps ==
    ASSUME LineageInv, Relate
    PROVE  LineageInv'
<1>1. LineageTypeOK /\ LineageIsWhole
  BY DEF LineageInv
<1>2. /\ UNCHANGED <<supersedes, related, readable, doc, queue, seen, order>>
      /\ way = "related" /\ way' = "done"
  BY DEF Relate, inputs, search
<1>3. result'.supersedes = result.supersedes /\ result'.superseded_by = result.superseded_by
  BY DEF Relate
<1>4. LineageTypeOK'
  <2>1. result' \in [supersedes : Seq(Docs), superseded_by : Seq(Docs), related : SUBSET Docs]
    BY <1>1, NowIsMap DEF Relate, LineageTypeOK
  <2> QED
    BY <1>1, <1>2, <2>1 DEF LineageTypeOK, Elements
<1>5. SearchInv'
  BY <1>2 DEF SearchInv, Searching
<1>6. LineageIsWhole'
  BY <1>1, <1>2, <1>3 DEF LineageIsWhole, Reaches, Closed, Elements
<1> QED
  BY <1>4, <1>5, <1>6 DEF LineageInv

LEMMA LineageStep == LineageInv /\ [LineageNext]_lineage => LineageInv'
<1> SUFFICES ASSUME LineageInv, [LineageNext]_lineage PROVE LineageInv'
  OBVIOUS
<1>1. CASE UNCHANGED lineage
  <2>1. UNCHANGED <<supersedes, related, readable, doc, way, queue, seen, order, result>>
    BY <1>1 DEF lineage, inputs, search
  <2>2. LineageTypeOK'
    BY <2>1 DEF LineageInv, LineageTypeOK, Elements
  <2>3. Now' = Now /\ Searching' = Searching /\ Elements(queue)' = Elements(queue)
    BY <2>1 DEF Now, Searching, Backward, Elements
  <2>4. SearchInv'
    BY <2>1, <2>3 DEF LineageInv, SearchInv, Reaches, Closed
  <2>5. LineageIsWhole'
    BY <2>1 DEF LineageInv, LineageIsWhole, Elements, Reaches, Closed
  <2> QED
    BY <2>2, <2>4, <2>5 DEF LineageInv
<1> QED
  BY <1>1, VisitKeeps, ChainEndsKeeps, BackwardEndsKeeps, RelateKeeps DEF LineageNext

LEMMA LineageInvHolds == LineageSpec => []LineageInv
<1>1. LineageInit => LineageInv
  BY InitHolds
<1>2. LineageInv /\ [LineageNext]_lineage => LineageInv'
  BY LineageStep
<1> QED
  BY <1>1, <1>2, PTL DEF LineageSpec

---------------------------------------------------------------------------------
(* The variables keep their shape, and a document is found once (service.py:155-168). *)
THEOREM LineageTypes == LineageSpec => []LineageTypeOK
BY LineageInvHolds, PTL DEF LineageInv

(* Of any documents with any references, circles included, the lineage has all that   *)
(* the document supersedes and all that supersede it, as far as they may be read, and  *)
(* nothing else (service.py:648-661).                                                  *)
THEOREM LineageComplete == LineageSpec => []LineageIsWhole
BY LineageInvHolds, PTL DEF LineageInv

---------------------------------------------------------------------------------
(* References *)

Holding == Labels \ {"idle", "lock"}
Kinds == {"created", "deprecation", "supersede", "revision"}
Entries == [type : ChangeTypes \cup Kinds, supersedes : SUBSET Docs]

LocalTypes(l) ==
    /\ l.doc \in Docs /\ l.new \in Frontmatter /\ l.asked \in ChangeTypes
    /\ l.prev \in Frontmatter \cup {None} /\ l.size \in Nat

Shapes ==
    /\ file \in [Docs -> Frontmatter \cup {None}]
    /\ history \in [Docs -> Seq(Entries)]
    /\ lock \in [Docs -> Threads \cup {None}]
    /\ DOMAIN pc = Threads /\ DOMAIN local = Threads
    /\ \A t \in Threads : pc[t] # "idle" => LocalTypes(local[t])
    /\ \A t \in Threads : pc[t] \in Holding => local[t].size <= Len(history[Doc(t)])
    /\ TypeOK

---------------------------------------------------------------------------------
(* References *)

(* What a reference of d may be to: a document that stays in the index for good is one *)
(* that no unfinished save has created.                                                *)
Lasting == {e \in row : ~Creating(e)}
Known(d) == Lasting \cup {d} \cup {e \in Docs : <<d, e>> \in early}

(* Of what was linted, of what is replaced, and of the documents. *)
KnownInv ==
    /\ \A d \in Docs : file[d] # None => file[d].supersedes \subseteq Known(d)
    /\ \A t \in Threads : pc[t] # "idle" =>
          /\ New(t).supersedes \subseteq Known(Doc(t))
          /\ local[t].prev # None => local[t].prev.supersedes \subseteq Known(Doc(t))

(* What the index has is saved, and a save that creates finds no row. *)
RowInv ==
    /\ \A d \in row : file[d] # None
    /\ \A t \in Threads : pc[t] \in {"record", "write", "index"} /\ local[t].prev = None =>
          Doc(t) \notin row

---------------------------------------------------------------------------------
(* The history *)

Before(h, n) == IF n = 1 THEN {} ELSE h[n - 1].supersedes
Tells(h) ==
    \A n \in DOMAIN h : h[n].supersedes \subseteq Before(h, n) \/ h[n].type # "revision"

(* The history ends with the document. *)
EndsWith(h, f) ==
    IF f = None THEN h = <<>>
    ELSE h # <<>> /\ h[Len(h)].supersedes = f.supersedes

Resting(d) == EndsWith(history[d], file[d])

(* Of a save under way: what a rollback restores, and what there is instead. *)
Saving(t) ==
    LET d == Doc(t)
        old == local[t].prev
        h == history[d]
    IN  /\ EndsWith(SubSeq(h, 1, local[t].size), old)
        /\ pc[t] = "record" => file[d] = old /\ local[t].size = Len(h)
        /\ pc[t] # "record" => EndsWith(h, New(t))
        /\ pc[t] \in {"index", "commit"} => file[d] = New(t)

FileInv ==
    /\ \A d \in Docs : Tells(history[d])
    /\ \A d \in Docs : lock[d] = None => Resting(d)
    /\ \A t \in Threads : pc[t] \in Holding => Saving(t)

ReferencesInv == Shapes /\ KnownInv /\ RowInv /\ FileInv

---------------------------------------------------------------------------------
(* Sequences *)

LEMMA PrefixIs ==
    ASSUME NEW S, NEW h \in Seq(S), NEW n \in Nat, n <= Len(h)
    PROVE  /\ SubSeq(h, 1, n) \in Seq(S) /\ Len(SubSeq(h, 1, n)) = n
           /\ \A i \in 1..n : SubSeq(h, 1, n)[i] = h[i]
OBVIOUS

LEMMA PrefixTells ==
    ASSUME NEW h \in Seq(Entries), NEW n \in Nat, n <= Len(h), Tells(h)
    PROVE  Tells(SubSeq(h, 1, n))
<1> DEFINE p == SubSeq(h, 1, n)
<1>1. p \in Seq(Entries) /\ Len(p) = n /\ \A i \in 1..n : p[i] = h[i]
  BY PrefixIs
<1> SUFFICES ASSUME NEW i \in 1..n PROVE p[i].supersedes \subseteq Before(p, i) \/ p[i].type # "revision"
  BY <1>1 DEF Tells
<1>2. i \in DOMAIN h /\ p[i] = h[i]
  BY <1>1
<1>3. Before(p, i) = Before(h, i)
  <2>1. CASE i = 1
    BY <2>1 DEF Before
  <2>2. CASE i # 1
    <3>1. i - 1 \in 1..n
      BY <2>2
    <3> QED
      BY <1>1, <2>2, <3>1 DEF Before
  <2> QED
    BY <2>1, <2>2
<1> QED
  BY <1>2, <1>3 DEF Tells

(* An entry at the end tells what the one before does not have. *)
LEMMA AppendTells ==
    ASSUME NEW h \in Seq(Entries), NEW e \in Entries, Tells(h),
           \/ e.supersedes \subseteq (IF h = <<>> THEN {} ELSE h[Len(h)].supersedes)
           \/ e.type # "revision"
    PROVE  Tells(Append(h, e))
<1> DEFINE a == Append(h, e)
<1>1. /\ Len(h) \in Nat /\ DOMAIN h = 1..Len(h) /\ DOMAIN a = 1..(Len(h) + 1)
      /\ a[Len(h) + 1] = e /\ \A i \in 1..Len(h) : a[i] = h[i]
  OBVIOUS
<1> SUFFICES ASSUME NEW i \in 1..(Len(h) + 1)
             PROVE  a[i].supersedes \subseteq Before(a, i) \/ a[i].type # "revision"
  BY <1>1 DEF Tells
<1>2. CASE i = Len(h) + 1
  <2>1. Before(a, i) = IF h = <<>> THEN {} ELSE h[Len(h)].supersedes
    <3>1. CASE h = <<>>
      BY <1>2, <3>1 DEF Before
    <3>2. CASE h # <<>>
      <4>1. Len(h) \in 1..Len(h) /\ i # 1 /\ i - 1 = Len(h)
        BY <1>1, <1>2, <3>2
      <4> QED
        BY <1>1, <3>2, <4>1 DEF Before
    <3> QED
      BY <3>1, <3>2
  <2> QED
    BY <1>1, <1>2, <2>1
<1>3. CASE i # Len(h) + 1
  <2>1. i \in 1..Len(h) /\ a[i] = h[i]
    BY <1>1, <1>3
  <2>2. Before(a, i) = Before(h, i)
    <3>1. CASE i = 1
      BY <3>1 DEF Before
    <3>2. CASE i # 1
      <4>1. i - 1 \in 1..Len(h)
        BY <1>1, <2>1, <3>2
      <4> QED
        BY <1>1, <3>2, <4>1 DEF Before
    <3> QED
      BY <3>1, <3>2
  <2> QED
    BY <1>1, <2>1, <2>2 DEF Tells
<1> QED
  BY <1>2, <1>3

---------------------------------------------------------------------------------
(* One thread at a time saves a document. *)
LEMMA Alone ==
    ASSUME Shapes, NEW t \in Threads, NEW u \in Threads, pc[t] \in Holding, pc[u] \in Holding,
           Doc(t) = Doc(u)
    PROVE  t = u
<1>1. Doc(t) \in Docs /\ Doc(u) \in Docs
  BY DEF Shapes, LocalTypes, Doc, Holding
<1>2. lock[Doc(t)] = t /\ lock[Doc(u)] = u
  BY <1>1 DEF Shapes, TypeOK, Holding, Labels
<1> QED
  BY <1>2

LEMMA LockedWhileHeld ==
    ASSUME Shapes, NEW t \in Threads, pc[t] \in Holding
    PROVE  Doc(t) \in Docs /\ lock[Doc(t)] = t /\ lock[Doc(t)] # None /\ LocalTypes(local[t])
<1>1. Doc(t) \in Docs /\ LocalTypes(local[t])
  BY DEF Shapes, LocalTypes, Doc, Holding
<1>2. lock[Doc(t)] = t
  BY <1>1 DEF Shapes, TypeOK, Holding, Labels
<1> QED
  BY <1>1, <1>2, ReferenceConstants

---------------------------------------------------------------------------------
(* A step that touches one document and one thread keeps the invariants if it does   *)
(* for these.                                                                        *)

LEMMA ShapesFrame ==
    ASSUME Shapes, NEW t \in Threads, NEW d \in Docs,
           file' \in [Docs -> Frontmatter \cup {None}], history' \in [Docs -> Seq(Entries)],
           lock' \in [Docs -> Threads \cup {None}], DOMAIN pc' = Threads, DOMAIN local' = Threads,
           \A c \in Docs \ {d} : history'[c] = history[c] /\ lock'[c] = lock[c],
           \A u \in Threads \ {t} : pc'[u] = pc[u] /\ local'[u] = local[u],
           row' \subseteq Docs /\ early' \subseteq Docs \X Docs,
           pc'[t] \in Labels, pc'[t] # "idle" => LocalTypes(local'[t]),
           pc'[t] \in Holding => /\ local'[t].doc = d /\ lock'[d] = t
                                 /\ local'[t].size <= Len(history'[d]),
           pc[t] \in Holding => Doc(t) = d,
           pc'[t] \notin Holding => lock'[d] # t,
           \A u \in Threads \ {t} : pc[u] \in Holding /\ Doc(u) = d =>
              history'[d] = history[d] /\ lock'[d] = lock[d],
           lock'[d] \in {t, None} \/ lock'[d] = lock[d]
    PROVE  Shapes'
<1>1. \A u \in Threads : pc'[u] # "idle" => LocalTypes(local'[u])
  BY DEF Shapes
<1>2. \A u \in Threads : pc'[u] \in Holding => local'[u].size <= Len(history'[local'[u].doc])
  <2> SUFFICES ASSUME NEW u \in Threads, pc'[u] \in Holding
               PROVE  local'[u].size <= Len(history'[local'[u].doc])
    OBVIOUS
  <2>1. CASE u = t
    BY <2>1
  <2>2. CASE u # t
    <3>1. pc[u] \in Holding /\ local'[u] = local[u] /\ Doc(u) = local[u].doc /\ Doc(u) \in Docs
      BY <2>2 DEF Shapes, LocalTypes, Doc, Holding
    <3>2. local[u].size <= Len(history[Doc(u)])
      BY <3>1 DEF Shapes
    <3>3. history'[Doc(u)] = history[Doc(u)]
      BY <2>2, <3>1
    <3> QED
      BY <3>1, <3>2, <3>3
  <2> QED
    BY <2>1, <2>2
<1>3. \A u \in Threads : pc'[u] \in Labels
  BY DEF Shapes, TypeOK
<1>4. \A c \in Docs, u \in Threads : lock'[c] = u <=> local'[u].doc = c /\ pc'[u] \notin {"idle", "lock"}
  <2> SUFFICES ASSUME NEW c \in Docs, NEW u \in Threads
               PROVE  lock'[c] = u <=> local'[u].doc = c /\ pc'[u] \notin {"idle", "lock"}
    OBVIOUS
  <2>0. lock[c] = u <=> local[u].doc = c /\ pc[u] \notin {"idle", "lock"}
    BY DEF Shapes, TypeOK, Doc
  <2>1. CASE u = t
    <3>1. CASE c = d
      BY <2>1, <3>1 DEF Holding
    <3>2. CASE c # d
      BY <2>0, <2>1, <3>2 DEF Holding, Doc, Shapes, TypeOK, Labels
    <3> QED
      BY <3>1, <3>2
  <2>2. CASE u # t
    <3>1. CASE c # d
      BY <2>0, <2>2, <3>1
    <3>2. CASE c = d /\ lock'[d] = lock[d]
      BY <2>0, <2>2, <3>2
    <3>3. CASE c = d /\ lock'[d] # lock[d]
      <4>1. lock'[c] # u
        BY <2>2, <3>3, ReferenceConstants
      <4>2. ~(pc[u] \in Holding /\ Doc(u) = d)
        BY <2>2, <3>3
      <4> QED
        BY <2>2, <3>3, <4>1, <4>2 DEF Holding, Doc, Shapes, TypeOK
    <3> QED
      BY <3>1, <3>2, <3>3
  <2> QED
    BY <2>1, <2>2
<1>5. \A c \in Docs : file'[c] \in Frontmatter \cup {None}
  OBVIOUS
<1> QED
  BY <1>1, <1>2, <1>3, <1>4, <1>5 DEF Shapes, TypeOK, Doc

LEMMA FileFrame ==
    ASSUME Shapes, FileInv, NEW t \in Threads, NEW d \in Docs,
           \A u \in Threads \ {t} : pc[u] \in Holding => Doc(u) # d,
           \A c \in Docs \ {d} : /\ file'[c] = file[c] /\ history'[c] = history[c]
                                 /\ lock'[c] = lock[c],
           \A u \in Threads \ {t} : pc'[u] = pc[u] /\ local'[u] = local[u],
           Tells(history'[d]), lock'[d] = None => EndsWith(history'[d], file'[d]),
           pc'[t] \in Holding => Saving(t)'
    PROVE  FileInv'
<1>1. \A c \in Docs : Tells(history'[c])
  BY DEF FileInv
<1>2. \A c \in Docs : lock'[c] = None => EndsWith(history'[c], file'[c])
  BY DEF FileInv, Resting
<1>3. ASSUME NEW u \in Threads, pc'[u] \in Holding PROVE Saving(u)'
  <2>1. CASE u = t
    BY <1>3, <2>1
  <2>2. CASE u # t
    <3>1. pc[u] \in Holding /\ Doc(u)' = Doc(u)
      BY <1>3, <2>2 DEF Doc
    <3>2. Saving(u) /\ Doc(u) \in Docs \ {d}
      BY <2>2, <3>1, LockedWhileHeld DEF FileInv
    <3>3. history'[Doc(u)] = history[Doc(u)] /\ file'[Doc(u)] = file[Doc(u)]
      BY <3>2
    <3> QED
      BY <2>2, <3>1, <3>2, <3>3 DEF Saving, Doc, New
  <2> QED
    BY <2>1, <2>2
<1> QED
  BY <1>1, <1>2, <1>3 DEF FileInv, Resting

---------------------------------------------------------------------------------
LEMMA StartHolds == Init => ReferencesInv
<1> SUFFICES ASSUME Init PROVE ReferencesInv
  OBVIOUS
<1>1. Shapes
  <2>1. \A d \in Docs, t \in Threads : ~(lock[d] = t) /\ pc[t] = "idle"
    BY ReferenceConstants DEF Init
  <2>2. TypeOK
    BY <2>1 DEF Init, TypeOK, Labels
  <2>3. history \in [Docs -> Seq(Entries)]
    BY DEF Init
  <2> QED
    BY <2>1, <2>2, <2>3 DEF Init, Shapes, Holding
<1>2. KnownInv /\ RowInv
  BY DEF Init, KnownInv, RowInv
<1>3. FileInv
  <2>1. \A d \in Docs : Tells(history[d]) /\ Resting(d)
    BY DEF Init, Tells, Resting, EndsWith
  <2> QED
    BY <2>1 DEF Init, FileInv, Holding
<1> QED
  BY <1>1, <1>2, <1>3 DEF ReferencesInv

(* What every other thread keeps, and what one that saves has for itself. *)
LEMMA Others ==
    ASSUME Shapes, NEW t \in Threads, NEW p, NEW l, Goto(t, p, l)
    PROVE  /\ pc'[t] = p /\ local'[t] = l
           /\ \A u \in Threads \ {t} : pc'[u] = pc[u] /\ local'[u] = local[u]
BY DEF Shapes, Goto

(* What is known to a document stays so: a rollback removes only the row that its own   *)
(* save has made, and until then that row did not count as lasting.                     *)
LEMMA KnownGrows ==
    ASSUME Shapes, RowInv, NEW t \in Threads,
           \A u \in Threads \ {t} : pc'[u] = pc[u] /\ local'[u] = local[u],
           early \subseteq early',
           \A e \in row : e \in row' \/ (pc[t] \in Holding /\ Doc(t) = e /\ local[t].prev = None),
           pc'[t] = "commit" /\ local'[t].prev = None => local'[t].doc \notin row
    PROVE  \A d \in Docs : Known(d) \subseteq Known(d)'
<1>1. ASSUME NEW e \in Lasting PROVE e \in Lasting'
  <2>1. e \in row /\ ~Creating(e)
    BY <1>1 DEF Lasting
  <2>2. e \in row'
    <3>1. SUFFICES ASSUME pc[t] \in Holding, Doc(t) = e, local[t].prev = None PROVE FALSE
      BY <2>1
    <3>2. pc[t] # "commit"
      BY <2>1, <3>1 DEF Creating
    <3>3. pc[t] \in {"record", "write", "index"}
      BY <3>1, <3>2 DEF Holding, Labels
    <3> QED
      BY <2>1, <3>1, <3>3 DEF RowInv
  <2>3. ~Creating(e)'
    <3>1. SUFFICES ASSUME NEW u \in Threads, pc'[u] = "commit", local'[u].doc = e,
                          local'[u].prev = None
                   PROVE  FALSE
      BY DEF Creating, Doc
    <3>2. CASE u = t
      BY <2>1, <3>1, <3>2
    <3>3. CASE u # t
      BY <2>1, <3>1, <3>3 DEF Creating, Doc
    <3> QED
      BY <3>2, <3>3
  <2> QED
    BY <2>2, <2>3 DEF Lasting
<1> QED
  BY <1>1 DEF Known

LEMMA SaveKeeps ==
    ASSUME ReferencesInv, NEW t \in Threads, NEW d \in Docs, NEW new \in Frontmatter,
           NEW asked \in ChangeTypes, Save(t, d, new, asked)
    PROVE  ReferencesInv'
<1> DEFINE l == [NoLocal EXCEPT !.doc = d, !.new = new, !.asked = asked]
<1>1. Shapes /\ KnownInv /\ RowInv /\ FileInv
  BY DEF ReferencesInv
<1>2. /\ l.doc = d /\ l.new = new /\ l.asked = asked /\ l.prev = None /\ l.size = 0
      /\ LocalTypes(l)
  BY DEF NoLocal, LocalTypes
<1>3. pc[t] = "idle" /\ Goto(t, "lock", l) /\ pc'[t] = "lock" /\ local'[t] = l
  BY <1>1 DEF Save, Goto, Shapes
<1>4. Shapes'
  <2>1. lock[d] # t /\ lock[d] \in Threads \cup {None}
    BY <1>1, <1>3 DEF Shapes, TypeOK
  <2>2. /\ file' = file /\ history' = history /\ lock' = lock /\ "lock" \in Labels
        /\ DOMAIN pc' = Threads /\ DOMAIN local' = Threads
    BY <1>1 DEF Save, Shapes, Labels, Goto
  <2>3. \A u \in Threads \ {t} : pc'[u] = pc[u] /\ local'[u] = local[u]
    BY <1>1, <1>3, Others
  <2>4. row' \subseteq Docs /\ early' \subseteq Docs \X Docs
    BY <1>1 DEF Save, Shapes, TypeOK
  <2>5. lock'[d] # t
    BY <2>1 DEF Save
  <2>6. "lock" \notin Holding /\ pc[t] \notin Holding
    BY <1>3 DEF Holding
  <2>7. /\ file' \in [Docs -> Frontmatter \cup {None}] /\ history' \in [Docs -> Seq(Entries)]
        /\ lock' \in [Docs -> Threads \cup {None}]
    BY <1>1, <2>2 DEF Shapes
  <2> HIDE DEF l
  <2> QED
    BY <1>1, <1>2, <1>3, <2>1, <2>2, <2>3, <2>4, <2>5, <2>6, <2>7, ShapesFrame
<1>5. KnownInv'
  <2>1. \A u \in Threads \ {t} : pc'[u] = pc[u] /\ local'[u] = local[u]
    BY <1>1, <1>3, Others
  <2>2. \A c \in Docs : Known(c) \subseteq Known(c)'
    <3>1. /\ row' = row /\ early \subseteq early' /\ pc'[t] # "commit"
      BY <1>3 DEF Save
    <3> QED
      BY <1>1, <2>1, <3>1, KnownGrows
  <2>3. new.supersedes \subseteq Known(d)'
    <3> SUFFICES ASSUME NEW e \in new.supersedes PROVE e \in Known(d)'
      OBVIOUS
    <3>1. e \in row \/ e = d
      BY DEF Save, Lint
    <3>2. CASE e \in row /\ Creating(e)
      <4>1. <<d, e>> \in early' /\ e \in Docs
        BY <1>1, <3>2 DEF Save, Shapes, TypeOK
      <4> QED
        BY <4>1 DEF Known
    <3>3. CASE e \in row /\ ~Creating(e)
      BY <2>2, <3>3 DEF Known, Lasting
    <3> QED
      BY <3>1, <3>2, <3>3 DEF Known
  <2>4. file' = file /\ Doc(t)' = d /\ New(t)' = new /\ local'[t].prev = None
    BY <1>2, <1>3 DEF Save, Doc, New
  <2>5. ASSUME NEW u \in Threads \ {t}, pc'[u] # "idle"
        PROVE  /\ New(u)' = New(u) /\ Doc(u)' = Doc(u) /\ local'[u] = local[u]
               /\ pc[u] # "idle" /\ Doc(u) \in Docs
    BY <1>1, <2>1, <2>5 DEF Doc, New, Shapes, LocalTypes
  <2>6. ASSUME NEW u \in Threads, pc'[u] # "idle"
        PROVE  /\ New(u)'.supersedes \subseteq Known(Doc(u))'
               /\ local'[u].prev # None => local'[u].prev.supersedes \subseteq Known(Doc(u))'
    <3>1. CASE u = t
      BY <2>3, <2>4, <3>1 DEF Known
    <3>2. CASE u # t
      <4>1. /\ New(u).supersedes \subseteq Known(Doc(u))
            /\ local[u].prev # None => local[u].prev.supersedes \subseteq Known(Doc(u))
        BY <1>1, <2>5, <2>6, <3>2 DEF KnownInv
      <4>2. Known(Doc(u)) \subseteq Known(Doc(u))'
        BY <2>2, <2>5, <2>6, <3>2 DEF Known
      <4> QED
        BY <2>5, <2>6, <3>2, <4>1, <4>2
    <3> QED
      BY <3>1, <3>2
  <2>7. \A c \in Docs : file'[c] # None => file'[c].supersedes \subseteq Known(c)'
    BY <1>1, <2>2, <2>4 DEF KnownInv
  <2> QED
    BY <2>6, <2>7 DEF KnownInv
<1>7. RowInv'
  <2>1. row' = row /\ file' = file /\ \A u \in Threads \ {t} : pc'[u] = pc[u] /\ local'[u] = local[u]
    BY <1>1, <1>3, Others DEF Save
  <2> QED
    BY <1>1, <1>3, <2>1 DEF RowInv, Doc
<1>6. FileInv'
  <2>1. file' = file /\ history' = history /\ lock' = lock
    BY DEF Save
  <2>2. \A u \in Threads \ {t} : pc'[u] = pc[u] /\ local'[u] = local[u]
    BY <1>1, <1>3 DEF Shapes, Goto
  <2>3. \A u \in Threads : pc'[u] \in Holding => Saving(u)'
    BY <1>1, <1>3, <2>1, <2>2 DEF FileInv, Saving, Doc, New, Holding
  <2> QED
    BY <1>1, <2>1, <2>3 DEF FileInv, Resting
<1> QED
  BY <1>4, <1>5, <1>6, <1>7 DEF ReferencesInv

(* A step of a save that is under way: nobody comes to know less. *)
LEMMA StepKnown ==
    ASSUME Shapes, KnownInv, NEW t \in Threads, pc[t] # "idle",
           \A u \in Threads \ {t} : pc'[u] = pc[u] /\ local'[u] = local[u],
           pc'[t] = "idle" \/ /\ local'[t].doc = Doc(t) /\ local'[t].new = New(t)
                              /\ local'[t].prev \in {local[t].prev, file[Doc(t)]},
           \A c \in Docs : Known(c) \subseteq Known(c)',
           \A c \in Docs : file'[c] = file[c] \/ (c = Doc(t) /\ file'[c] \in {New(t), local[t].prev})
    PROVE  KnownInv'
<1>1. ASSUME NEW u \in Threads, NEW c \in Docs, pc[u] # "idle", Doc(u) = c
      PROVE  /\ New(u).supersedes \subseteq Known(c)'
             /\ local[u].prev # None => local[u].prev.supersedes \subseteq Known(c)'
             /\ file[c] # None => file[c].supersedes \subseteq Known(c)'
  <2>1. /\ New(u).supersedes \subseteq Known(c)
        /\ local[u].prev # None => local[u].prev.supersedes \subseteq Known(c)
        /\ file[c] # None => file[c].supersedes \subseteq Known(c)
    BY <1>1 DEF KnownInv
  <2> QED
    BY <2>1
<1>2. \A u \in Threads : pc[u] # "idle" => Doc(u) \in Docs
  BY DEF Shapes, LocalTypes, Doc
<1>3. ASSUME NEW u \in Threads, pc'[u] # "idle"
      PROVE  /\ New(u)'.supersedes \subseteq Known(Doc(u))'
             /\ local'[u].prev # None => local'[u].prev.supersedes \subseteq Known(Doc(u))'
  <2>1. /\ pc[u] # "idle" /\ Doc(u)' = Doc(u) /\ New(u)' = New(u)
        /\ local'[u].prev \in {local[u].prev, file[Doc(u)]}
    BY <1>3 DEF Doc, New
  <2>2. PICK c \in Docs : Doc(u) = c /\ Doc(u)' = c
    BY <1>2, <2>1 DEF Doc
  <2>3. /\ New(u).supersedes \subseteq Known(c)'
        /\ local'[u].prev # None => local'[u].prev.supersedes \subseteq Known(c)'
    BY <1>1, <2>1, <2>2
  <2> QED
    BY <2>1, <2>2, <2>3 DEF Known
<1>4. ASSUME NEW c \in Docs, file'[c] # None PROVE file'[c].supersedes \subseteq Known(c)'
  <2>1. CASE file'[c] = file[c]
    <3>1. file[c].supersedes \subseteq Known(c)
      BY <1>4, <2>1 DEF KnownInv
    <3> QED
      BY <2>1, <3>1
  <2>2. CASE c = Doc(t) /\ file'[c] \in {New(t), local[t].prev}
    BY <1>1, <1>4, <2>2
  <2> QED
    BY <2>1, <2>2
<1> QED
  BY <1>3, <1>4 DEF KnownInv

LEMMA GivingUpKeeps ==
    ASSUME ReferencesInv, NEW t \in Threads, LockTimeout(t)
    PROVE  ReferencesInv'
<1>1. Shapes /\ KnownInv /\ RowInv /\ FileInv
  BY DEF ReferencesInv
<1>2. /\ pc[t] = "lock" /\ pc'[t] = "idle" /\ local'[t] = NoLocal /\ Goto(t, "idle", NoLocal)
      /\ \A u \in Threads \ {t} : pc'[u] = pc[u] /\ local'[u] = local[u]
  BY <1>1, Others DEF LockTimeout
<1>3. /\ file' = file /\ history' = history /\ lock' = lock
      /\ row' = row /\ early' = early
  BY DEF LockTimeout
<1> DEFINE d == Doc(t)
<1>4. d \in Docs /\ lock[d] # t
  BY <1>1, <1>2 DEF Shapes, TypeOK, LocalTypes, Doc
<1>5. Shapes'
  <2>1. DOMAIN pc' = Threads /\ DOMAIN local' = Threads
    BY <1>1, <1>2 DEF Shapes, Goto
  <2>2. lock'[d] # t /\ "idle" \in Labels /\ "idle" \notin Holding /\ pc[t] \notin Holding
    BY <1>2, <1>3, <1>4 DEF Labels, Holding
  <2>3. row' \subseteq Docs /\ early' \subseteq Docs \X Docs
    BY <1>1, <1>3 DEF Shapes, TypeOK
  <2> QED
    BY <1>1, <1>2, <1>4, <1>3, <2>1, <2>2, <2>3, ShapesFrame DEF Shapes
<1>6. KnownInv' /\ RowInv'
  <2>1. \A c \in Docs : Known(c) \subseteq Known(c)'
    BY <1>1, <1>2, <1>3, KnownGrows
  <2>2. KnownInv'
    BY <1>1, <1>2, <1>3, <2>1, StepKnown
  <2>3. RowInv'
    BY <1>1, <1>2, <1>3 DEF RowInv, Doc
  <2> QED
    BY <2>2, <2>3
<1>7. FileInv'
  <2>1. \A u \in Threads : pc'[u] \in Holding => Saving(u)'
    BY <1>1, <1>2, <1>3 DEF FileInv, Saving, Doc, New, Holding
  <2> QED
    BY <1>1, <1>3, <2>1 DEF FileInv, Resting
<1> QED
  BY <1>5, <1>6, <1>7 DEF ReferencesInv

LEMMA AcquireKeeps ==
    ASSUME ReferencesInv, NEW t \in Threads, Acquire(t)
    PROVE  ReferencesInv'
<1> DEFINE d == Doc(t)
           l == [local[t] EXCEPT !.prev = file[d], !.size = Len(history[d])]
<1>1. Shapes /\ KnownInv /\ RowInv /\ FileInv
  BY DEF ReferencesInv
<1>2. /\ pc[t] = "lock" /\ lock[d] = None /\ Goto(t, "record", l)
      /\ lock' = [lock EXCEPT ![d] = t]
      /\ file' = file /\ history' = history
      /\ row' = row /\ early' = early
  BY DEF Acquire
<1>3. /\ d \in Docs /\ file[d] \in Frontmatter \cup {None} /\ history[d] \in Seq(Entries)
      /\ LocalTypes(local[t])
  BY <1>1, <1>2 DEF Shapes, LocalTypes, Doc
<1>4. /\ l.doc = d /\ l.new = New(t) /\ l.prev = file[d] /\ l.size = Len(history[d])
      /\ LocalTypes(l)
  BY <1>3 DEF LocalTypes, Doc, New
<1>5. /\ pc'[t] = "record" /\ local'[t] = l
      /\ \A u \in Threads \ {t} : pc'[u] = pc[u] /\ local'[u] = local[u]
  BY <1>1, <1>2, Others
<1>6. \A u \in Threads : pc[u] \in Holding => Doc(u) # d
  BY <1>1, <1>2, LockedWhileHeld
<1>7. Shapes'
  <2>1. /\ file' \in [Docs -> Frontmatter \cup {None}] /\ history' \in [Docs -> Seq(Entries)]
        /\ lock' \in [Docs -> Threads \cup {None}] /\ lock'[d] = t
        /\ \A c \in Docs \ {d} : lock'[c] = lock[c]
        /\ DOMAIN pc' = Threads /\ DOMAIN local' = Threads
    BY <1>1, <1>2, <1>3 DEF Shapes, Goto
  <2>2. row' \subseteq Docs /\ early' \subseteq Docs \X Docs
    BY <1>1, <1>2 DEF Shapes, TypeOK
  <2>3. l.size <= Len(history[d])
    BY <1>3, <1>4
  <2>4. "record" \in Holding /\ "record" \in Labels /\ pc[t] \notin Holding
    BY <1>2 DEF Holding, Labels
  <2> HIDE DEF l
  <2> QED
    BY <1>1, <1>2, <1>3, <1>4, <1>5, <1>6, <2>1, <2>2, <2>3, <2>4, ShapesFrame
<1>8. KnownInv' /\ RowInv'
  <2>1. l.doc = Doc(t) /\ l.new = New(t) /\ l.prev = file[Doc(t)]
    BY <1>4
  <2> HIDE DEF l
  <2>2. \A c \in Docs : Known(c) \subseteq Known(c)'
    BY <1>1, <1>2, <1>5, KnownGrows
  <2>3. KnownInv'
    BY <1>1, <1>2, <1>5, <2>1, <2>2, StepKnown
  <2>4. RowInv'
    <3>1. \A c \in row' : file'[c] # None
      BY <1>1, <1>2 DEF RowInv
    <3>2. ASSUME NEW u \in Threads, pc'[u] \in {"record", "write", "index"}, local'[u].prev = None
          PROVE  local'[u].doc \notin row'
      BY <1>1, <1>2, <1>5, <2>1, <3>2 DEF RowInv, Doc
    <3> QED
      BY <3>1, <3>2 DEF RowInv, Doc
  <2> QED
    BY <2>3, <2>4
<1>9. FileInv'
  <2>1. Tells(history[d]) /\ EndsWith(history[d], file[d])
    BY <1>1, <1>2, <1>3 DEF FileInv, Resting
  <2>2. SubSeq(history[d], 1, Len(history[d])) = history[d]
    BY <1>3
  <2>3. lock'[d] # None
    BY <1>1, <1>2, <1>3, ReferenceConstants DEF Shapes
  <2>4. Saving(t)'
    BY <1>2, <1>4, <1>5, <2>1, <2>2 DEF Saving, Doc, New
  <2>5. Doc(t)' = d
    BY <1>4, <1>5 DEF Doc
  <2>6. \A c \in Docs \ {d} : lock'[c] = lock[c]
    BY <1>1, <1>2 DEF Shapes
  <2> QED
    BY <1>1, <1>2, <1>3, <1>5, <1>6, <2>1, <2>3, <2>4, <2>5, <2>6, FileFrame
<1> QED
  BY <1>7, <1>8, <1>9 DEF ReferencesInv

---------------------------------------------------------------------------------
(* A thread that saves a document has it for itself. *)
LEMMA Mine ==
    ASSUME Shapes, NEW t \in Threads, pc[t] \in Holding
    PROVE  /\ Doc(t) \in Docs /\ lock[Doc(t)] = t /\ LocalTypes(local[t])
           /\ file[Doc(t)] \in Frontmatter \cup {None} /\ history[Doc(t)] \in Seq(Entries)
           /\ local[t].size <= Len(history[Doc(t)])
           /\ \A u \in Threads \ {t} : pc[u] \in Holding => Doc(u) # Doc(t)
<1>1. Doc(t) \in Docs /\ lock[Doc(t)] = t /\ LocalTypes(local[t])
  BY LockedWhileHeld
<1>2. \A u \in Threads \ {t} : pc[u] \in Holding => Doc(u) # Doc(t)
  BY Alone
<1> QED
  BY <1>1, <1>2 DEF Shapes

(* A step of a save that keeps its lock. *)
LEMMA StepShapes ==
    ASSUME Shapes, NEW t \in Threads, NEW p \in Holding, pc[t] \in Holding,
           Goto(t, p, local[t]), lock' = lock,
           file' \in [Docs -> Frontmatter \cup {None}], history' \in [Docs -> Seq(Entries)],
           \A c \in Docs \ {Doc(t)} : history'[c] = history[c],
           local[t].size <= Len(history'[Doc(t)]),
           row' \subseteq Docs /\ early' \subseteq Docs \X Docs
    PROVE  Shapes'
<1> DEFINE d == Doc(t)
<1>1. /\ d \in Docs /\ lock[d] = t /\ LocalTypes(local[t])
      /\ \A u \in Threads \ {t} : pc[u] \in Holding => Doc(u) # d
  BY Mine
<1>2. /\ pc'[t] = p /\ local'[t] = local[t] /\ DOMAIN pc' = Threads /\ DOMAIN local' = Threads
      /\ \A u \in Threads \ {t} : pc'[u] = pc[u] /\ local'[u] = local[u]
  BY DEF Shapes, Goto
<1>3. p \in Labels /\ local[t].doc = d /\ lock' \in [Docs -> Threads \cup {None}]
  BY DEF Holding, Doc, Shapes
<1>4. row' \subseteq Docs /\ early' \subseteq Docs \X Docs
  OBVIOUS
<1> HIDE DEF d
<1>5. Doc(t) = d
  BY DEF d
<1>6. /\ pc'[t] \in Labels /\ local'[t].doc = d /\ lock'[d] = t /\ LocalTypes(local'[t])
      /\ local'[t].size <= Len(history'[d]) /\ pc'[t] \in Holding /\ pc[t] \in Holding
  BY <1>1, <1>2, <1>3, <1>5
<1>7. \A c \in Docs \ {d} : history'[c] = history[c] /\ lock'[c] = lock[c]
  BY <1>5
<1>8. \A u \in Threads \ {t} : ~(pc[u] \in Holding /\ Doc(u) = d)
  BY <1>1
<1> QED
  BY <1>1, <1>2, <1>3, <1>4, <1>5, <1>6, <1>7, <1>8, ShapesFrame

LEMMA RecordKeeps ==
    ASSUME ReferencesInv, NEW t \in Threads, Record(t)
    PROVE  ReferencesInv'
<1> DEFINE d == Doc(t)
           h == history[d]
           prev == local[t].prev
           asked == local[t].asked
           type == IF asked = None THEN ChangeType(prev, New(t)) ELSE asked
           silent == prev = New(t)
           e == [type |-> type, supersedes |-> New(t).supersedes]
<1>1. Shapes /\ KnownInv /\ RowInv /\ FileInv
  BY DEF ReferencesInv
<1>2. pc[t] = "record" /\ pc[t] \in Holding
  BY DEF Record, Holding, Labels
<1>3. /\ d \in Docs /\ lock[d] = t /\ LocalTypes(local[t]) /\ h \in Seq(Entries)
      /\ local[t].size <= Len(h) /\ local[t].size \in Nat
      /\ \A u \in Threads \ {t} : pc[u] \in Holding => Doc(u) # d
  BY <1>1, <1>2, Mine DEF LocalTypes
<1>4. /\ New(t) \in Frontmatter /\ prev \in Frontmatter \cup {None} /\ asked \in ChangeTypes
      /\ New(t) # None
  BY <1>3, ReferenceConstants DEF LocalTypes, New
<1>5. /\ history' = IF silent THEN history ELSE [history EXCEPT ![d] = Append(h, e)]
      /\ Goto(t, "write", local[t])
      /\ file' = file /\ row' = row /\ lock' = lock /\ early' = early
  BY DEF Record
<1>6. type \in ChangeTypes \cup Kinds /\ e \in Entries
  <2>1. New(t).supersedes \in SUBSET Docs
    BY <1>4 DEF Frontmatter
  <2>2. type \in ChangeTypes \cup Kinds
    <3>1. ChangeType(prev, New(t)) \in Kinds
      BY DEF ChangeType, Kinds
    <3>2. type = ChangeType(prev, New(t)) \/ type = asked
      OBVIOUS
    <3> HIDE DEF type
    <3> QED
      BY <1>4, <3>1, <3>2
  <2> HIDE DEF type
  <2> QED
    BY <2>1, <2>2 DEF Entries
<1>7. /\ \A c \in Docs \ {d} : history'[c] = history[c]
      /\ history'[d] = IF silent THEN h ELSE Append(h, e)
      /\ history' \in [Docs -> Seq(Entries)]
  <2>1. Append(h, e) \in Seq(Entries)
    BY <1>3, <1>6
  <2> HIDE DEF h, e, silent
  <2>2. CASE silent
    BY <1>1, <1>5, <2>2 DEF Shapes, h
  <2>3. CASE ~silent
    BY <1>1, <1>3, <1>5, <2>1, <2>3 DEF Shapes
  <2> QED
    BY <2>2, <2>3
<1>8. local[t].size <= Len(history'[d])
  <2>1. Len(Append(h, e)) = Len(h) + 1 /\ Len(h) \in Nat
    BY <1>3
  <2> QED
    BY <1>3, <1>7, <2>1
<1>9. Shapes'
  <2>1. row' \subseteq Docs /\ early' \subseteq Docs \X Docs
    BY <1>1, <1>3, <1>5 DEF Shapes, TypeOK
  <2>2. "write" \in Holding /\ file' \in [Docs -> Frontmatter \cup {None}]
    BY <1>1, <1>5 DEF Holding, Labels, Shapes
  <2> QED
    BY <1>1, <1>2, <1>5, <1>7, <1>8, <2>1, <2>2, StepShapes
<1>10. KnownInv' /\ RowInv'
  <2>1. /\ \A u \in Threads \ {t} : pc'[u] = pc[u] /\ local'[u] = local[u]
        /\ pc'[t] = "write" /\ local'[t] = local[t]
    BY <1>1, <1>5, Others
  <2>2. \A c \in Docs : Known(c) \subseteq Known(c)'
    BY <1>1, <1>5, <2>1, KnownGrows
  <2>3. local[t].doc = Doc(t) /\ local[t].new = New(t) /\ pc[t] # "idle"
    BY <1>2 DEF Doc, New
  <2>4. KnownInv'
    BY <1>1, <1>5, <2>1, <2>2, <2>3, StepKnown
  <2>5. RowInv'
    BY <1>1, <1>2, <1>5, <2>1 DEF RowInv, Doc
  <2> QED
    BY <2>4, <2>5
<1>11. FileInv'
  <2>1. /\ pc'[t] = "write" /\ local'[t] = local[t] /\ Doc(t)' = d /\ New(t)' = New(t)
        /\ \A u \in Threads \ {t} : pc'[u] = pc[u] /\ local'[u] = local[u]
    BY <1>1, <1>5, Others DEF Doc, New
  <2>2. /\ Tells(history'[d]) /\ EndsWith(history'[d], New(t))
        /\ EndsWith(SubSeq(history'[d], 1, local[t].size), prev)
    <3>1. type = ChangeType(prev, New(t)) \/ type # "revision"
      BY <1>4, ReferenceConstants
    <3>2. /\ Tells(h) /\ file[d] = prev /\ local[t].size = Len(h)
          /\ EndsWith(SubSeq(h, 1, local[t].size), prev)
      BY <1>1, <1>2, <1>3 DEF FileInv, Saving
    <3>3. SubSeq(h, 1, Len(h)) = h
      BY <1>3
    <3>4. EndsWith(h, prev)
      BY <3>2, <3>3
    <3>5. CASE silent
      BY <1>7, <3>2, <3>4, <3>5
    <3>6. CASE ~silent
      <4>1. history'[d] = Append(h, e)
        BY <1>7, <3>6
      <4>2. /\ Append(h, e)[Len(h) + 1] = e /\ Len(Append(h, e)) = Len(h) + 1
            /\ Append(h, e) # <<>> /\ SubSeq(Append(h, e), 1, Len(h)) = h
        BY <1>3, <1>6
      <4>3. EndsWith(Append(h, e), New(t))
        BY <1>4, <4>2 DEF EndsWith
      <4>4. \/ e.supersedes \subseteq (IF h = <<>> THEN {} ELSE h[Len(h)].supersedes)
            \/ e.type # "revision"
        <5>1. CASE prev = None
          BY <3>1, <5>1 DEF ChangeType
        <5>2. CASE prev # None /\ e.type = "revision"
          <6>1. New(t).supersedes \ prev.supersedes = {}
            BY <3>1, <5>2 DEF ChangeType
          <6>2. h # <<>> /\ h[Len(h)].supersedes = prev.supersedes
            BY <3>4, <5>2 DEF EndsWith
          <6> QED
            BY <6>1, <6>2
        <5> QED
          BY <5>1, <5>2
      <4>5. Tells(Append(h, e))
        BY <1>3, <1>6, <3>2, <4>4, AppendTells
      <4> QED
        BY <3>2, <3>4, <4>1, <4>2, <4>3, <4>5
    <3> QED
      BY <3>5, <3>6
  <2>3. Saving(t)'
    BY <2>1, <2>2 DEF Saving
  <2>4. lock'[d] # None
    BY <1>3, <1>5, ReferenceConstants
  <2> QED
    BY <1>1, <1>3, <1>5, <1>7, <2>1, <2>2, <2>3, <2>4, FileFrame
<1> QED
  BY <1>9, <1>10, <1>11 DEF ReferencesInv

LEMMA WriteKeeps ==
    ASSUME ReferencesInv, NEW t \in Threads, WriteFile(t)
    PROVE  ReferencesInv'
<1> DEFINE d == Doc(t)
<1>1. Shapes /\ KnownInv /\ RowInv /\ FileInv
  BY DEF ReferencesInv
<1>2. pc[t] = "write" /\ pc[t] \in Holding /\ "index" \in Holding
  BY DEF WriteFile, Holding, Labels
<1>3. /\ d \in Docs /\ lock[d] = t /\ LocalTypes(local[t])
      /\ local[t].size <= Len(history[d]) /\ New(t) \in Frontmatter
      /\ \A u \in Threads \ {t} : pc[u] \in Holding => Doc(u) # d
  BY <1>1, <1>2, Mine DEF LocalTypes, New
<1>4. /\ Goto(t, "index", local[t]) /\ lock' = lock /\ history' = history
      /\ early' = early
      /\ file' = [file EXCEPT ![d] = New(t)] /\ row' = row
  BY DEF WriteFile
<1>5. /\ file' \in [Docs -> Frontmatter \cup {None}]
      /\ file'[d] = New(t) /\ \A c \in Docs \ {d} : file'[c] = file[c]
  BY <1>1, <1>3, <1>4 DEF Shapes
<1>6. /\ pc'[t] = "index" /\ local'[t] = local[t]
      /\ \A u \in Threads \ {t} : pc'[u] = pc[u] /\ local'[u] = local[u]
  BY <1>1, <1>4, Others
<1>7. Shapes'
  <2>1. row' \subseteq Docs /\ early' \subseteq Docs \X Docs
    BY <1>1, <1>3, <1>4 DEF Shapes, TypeOK
  <2>2. history' \in [Docs -> Seq(Entries)]
    BY <1>1, <1>4 DEF Shapes
  <2> QED
    BY <1>1, <1>2, <1>3, <1>4, <1>5, <2>1, <2>2, StepShapes
<1>8. KnownInv' /\ RowInv'
  <2>1. \A c \in Docs : Known(c) \subseteq Known(c)'
    BY <1>1, <1>4, <1>6, KnownGrows
  <2>2. local[t].doc = Doc(t) /\ local[t].new = New(t) /\ pc[t] # "idle"
    BY <1>2 DEF Doc, New
  <2>3. KnownInv'
    BY <1>1, <1>5, <1>6, <2>1, <2>2, StepKnown
  <2>4. New(t) # None
    BY <1>3, ReferenceConstants
  <2>5. RowInv'
    BY <1>1, <1>2, <1>3, <1>4, <1>5, <1>6, <2>4 DEF RowInv, Doc, Shapes, TypeOK
  <2> QED
    BY <2>3, <2>5
<1>9. FileInv'
  <2>1. Saving(t) /\ Tells(history[d])
    BY <1>1, <1>2, <1>3 DEF FileInv
  <2>2. Saving(t)'
    BY <1>2, <1>4, <1>5, <1>6, <2>1 DEF Saving, Doc, New
  <2>3. lock'[d] # None /\ Doc(t)' = d
    BY <1>3, <1>4, <1>6, ReferenceConstants DEF Doc
  <2> QED
    BY <1>1, <1>3, <1>4, <1>5, <1>6, <2>1, <2>2, <2>3, FileFrame
<1> QED
  BY <1>7, <1>8, <1>9 DEF ReferencesInv

LEMMA ReindexKeeps ==
    ASSUME ReferencesInv, NEW t \in Threads, Reindex(t)
    PROVE  ReferencesInv'
<1> DEFINE d == Doc(t)
<1>1. Shapes /\ KnownInv /\ RowInv /\ FileInv
  BY DEF ReferencesInv
<1>2. pc[t] = "index" /\ pc[t] \in Holding /\ "commit" \in Holding
  BY DEF Reindex, Holding, Labels
<1>3. /\ d \in Docs /\ lock[d] = t /\ LocalTypes(local[t])
      /\ local[t].size <= Len(history[d]) /\ New(t) \in Frontmatter
      /\ \A u \in Threads \ {t} : pc[u] \in Holding => Doc(u) # d
  BY <1>1, <1>2, Mine DEF LocalTypes, New
<1>4. /\ Goto(t, "commit", local[t]) /\ lock' = lock /\ history' = history
      /\ early' = early
      /\ file' = file /\ row' = row \cup {d}
  BY DEF Reindex
<1>5. /\ file' \in [Docs -> Frontmatter \cup {None}]
      /\ file'[d] = file[d] /\ \A c \in Docs \ {d} : file'[c] = file[c]
  BY <1>1, <1>3, <1>4 DEF Shapes
<1>6. /\ pc'[t] = "commit" /\ local'[t] = local[t]
      /\ \A u \in Threads \ {t} : pc'[u] = pc[u] /\ local'[u] = local[u]
  BY <1>1, <1>4, Others
<1>7. Shapes'
  <2>1. row' \subseteq Docs /\ early' \subseteq Docs \X Docs
    BY <1>1, <1>3, <1>4 DEF Shapes, TypeOK
  <2>2. history' \in [Docs -> Seq(Entries)]
    BY <1>1, <1>4 DEF Shapes
  <2> QED
    BY <1>1, <1>2, <1>3, <1>4, <1>5, <2>1, <2>2, StepShapes
<1>8. KnownInv' /\ RowInv'
  <2>1. local[t].prev = None => local'[t].doc \notin row
    BY <1>1, <1>2, <1>6 DEF RowInv, Doc
  <2>2. \A c \in Docs : Known(c) \subseteq Known(c)'
    BY <1>1, <1>4, <1>6, <2>1, KnownGrows
  <2>3. local[t].doc = Doc(t) /\ local[t].new = New(t) /\ pc[t] # "idle"
    BY <1>2 DEF Doc, New
  <2>4. KnownInv'
    BY <1>1, <1>5, <1>6, <2>2, <2>3, StepKnown
  <2>5. file[d] # None
    <3>1. file[d] = New(t)
      BY <1>1, <1>2 DEF FileInv, Saving
    <3> QED
      BY <1>3, <3>1, ReferenceConstants
  <2>6. \A c \in row' : file'[c] # None
    BY <1>1, <1>4, <2>5 DEF RowInv
  <2>7. ASSUME NEW u \in Threads, pc'[u] \in {"record", "write", "index"}, local'[u].prev = None
        PROVE  local'[u].doc \notin row'
    <3>1. u # t /\ pc[u] = pc'[u] /\ local'[u] = local[u]
      BY <1>6, <2>7
    <3>2. Doc(u) # d /\ Doc(u) \notin row
      BY <1>1, <1>3, <2>7, <3>1 DEF RowInv, Holding, Labels
    <3> QED
      BY <1>4, <3>1, <3>2 DEF Doc
  <2>8. RowInv'
    BY <2>6, <2>7 DEF RowInv, Doc
  <2> QED
    BY <2>4, <2>8
<1>9. FileInv'
  <2>1. Saving(t) /\ Tells(history[d])
    BY <1>1, <1>2, <1>3 DEF FileInv
  <2>2. Saving(t)'
    BY <1>2, <1>4, <1>5, <1>6, <2>1 DEF Saving, Doc, New
  <2>3. lock'[d] # None /\ Doc(t)' = d
    BY <1>3, <1>4, <1>6, ReferenceConstants DEF Doc
  <2> QED
    BY <1>1, <1>3, <1>4, <1>5, <1>6, <2>1, <2>2, <2>3, FileFrame
<1> QED
  BY <1>7, <1>8, <1>9 DEF ReferencesInv

LEMMA CommitKeeps ==
    ASSUME ReferencesInv, NEW t \in Threads, Commit(t)
    PROVE  ReferencesInv'
<1> DEFINE d == Doc(t)
<1>1. Shapes /\ KnownInv /\ RowInv /\ FileInv
  BY DEF ReferencesInv
<1>2. pc[t] = "commit" /\ pc[t] \in Holding
  BY DEF Commit, Holding, Labels
<1>3. /\ d \in Docs /\ lock[d] = t
      /\ \A u \in Threads \ {t} : pc[u] \in Holding => Doc(u) # d
  BY <1>1, <1>2, Mine
<1>4. /\ lock' = [lock EXCEPT ![d] = None] /\ Goto(t, "idle", NoLocal)
      /\ file' = file /\ history' = history /\ row' = row
      /\ early' = early
  BY DEF Commit, Leave
<1>5. /\ lock' \in [Docs -> Threads \cup {None}] /\ lock'[d] = None
      /\ \A c \in Docs \ {d} : lock'[c] = lock[c]
      /\ DOMAIN pc' = Threads /\ DOMAIN local' = Threads
  BY <1>1, <1>3, <1>4 DEF Shapes, Goto
<1>6. /\ pc'[t] = "idle" /\ local'[t] = NoLocal
      /\ \A u \in Threads \ {t} : pc'[u] = pc[u] /\ local'[u] = local[u]
  BY <1>1, <1>4, Others
<1>7. Shapes'
  <2>1. row' \subseteq Docs /\ early' \subseteq Docs \X Docs
    BY <1>1, <1>4 DEF Shapes, TypeOK
  <2>2. "idle" \in Labels /\ "idle" \notin Holding /\ lock'[d] # t
    BY <1>5, ReferenceConstants DEF Labels, Holding
  <2>3. /\ file' \in [Docs -> Frontmatter \cup {None}] /\ history' \in [Docs -> Seq(Entries)]
        /\ \A c \in Docs : history'[c] = history[c]
    BY <1>1, <1>4 DEF Shapes
  <2> QED
    BY <1>1, <1>3, <1>5, <1>6, <2>1, <2>2, <2>3, ShapesFrame
<1>8. KnownInv' /\ RowInv'
  <2>1. \A c \in Docs : Known(c) \subseteq Known(c)'
    BY <1>1, <1>4, <1>6, KnownGrows
  <2>2. KnownInv'
    BY <1>1, <1>2, <1>4, <1>6, <2>1, StepKnown
  <2>3. RowInv'
    BY <1>1, <1>4, <1>6 DEF RowInv, Doc
  <2> QED
    BY <2>2, <2>3
<1>9. FileInv'
  <2>1. Tells(history[d]) /\ EndsWith(history[d], file[d])
    BY <1>1, <1>2, <1>3 DEF FileInv, Saving
  <2>2. pc'[t] \notin Holding
    BY <1>6 DEF Holding
  <2> QED
    BY <1>1, <1>3, <1>4, <1>5, <1>6, <2>1, <2>2, FileFrame
<1> QED
  BY <1>7, <1>8, <1>9 DEF ReferencesInv

LEMMA RollbackKeeps ==
    ASSUME ReferencesInv, NEW t \in Threads, Rollback(t)
    PROVE  ReferencesInv'
<1> DEFINE d == Doc(t)
           h == history[d]
           n == local[t].size
           old == local[t].prev
<1>1. Shapes /\ KnownInv /\ RowInv /\ FileInv
  BY DEF ReferencesInv
<1>2. pc[t] \in Holding
  BY DEF Rollback, Holding, Labels
<1>3. /\ d \in Docs /\ lock[d] = t /\ h \in Seq(Entries) /\ n \in Nat /\ n <= Len(h)
      /\ old \in Frontmatter \cup {None}
      /\ \A u \in Threads \ {t} : pc[u] \in Holding => Doc(u) # d
  BY <1>1, <1>2, Mine DEF LocalTypes
<1>4. /\ lock' = [lock EXCEPT ![d] = None] /\ Goto(t, "idle", NoLocal)
      /\ file' = [file EXCEPT ![d] = old] /\ history' = [history EXCEPT ![d] = SubSeq(h, 1, n)]
      /\ row' = IF old = None THEN row \ {d} ELSE row
      /\ early' = early
  BY DEF Rollback, Leave
<1>5. /\ lock' \in [Docs -> Threads \cup {None}] /\ lock'[d] = None
      /\ \A c \in Docs \ {d} : lock'[c] = lock[c]
      /\ DOMAIN pc' = Threads /\ DOMAIN local' = Threads
  BY <1>1, <1>3, <1>4 DEF Shapes, Goto
<1>6. /\ pc'[t] = "idle" /\ local'[t] = NoLocal
      /\ \A u \in Threads \ {t} : pc'[u] = pc[u] /\ local'[u] = local[u]
  BY <1>1, <1>4, Others
<1>7. SubSeq(h, 1, n) \in Seq(Entries)
  BY <1>3, PrefixIs
<1>8. /\ file' \in [Docs -> Frontmatter \cup {None}] /\ history' \in [Docs -> Seq(Entries)]
      /\ file'[d] = old /\ history'[d] = SubSeq(h, 1, n)
      /\ \A c \in Docs \ {d} : file'[c] = file[c] /\ history'[c] = history[c]
  <2> HIDE DEF h
  <2> QED
    BY <1>1, <1>3, <1>4, <1>7 DEF Shapes
<1>9. Shapes'
  <2>1. row' \subseteq Docs /\ early' \subseteq Docs \X Docs
    BY <1>1, <1>4 DEF Shapes, TypeOK
  <2>2. "idle" \in Labels /\ "idle" \notin Holding /\ lock'[d] # t
    BY <1>5, ReferenceConstants DEF Labels, Holding
  <2>3. /\ d \in Docs /\ \A u \in Threads \ {t} : pc[u] \in Holding => Doc(u) # d
    BY <1>3
  <2>4. /\ file' \in [Docs -> Frontmatter \cup {None}] /\ history' \in [Docs -> Seq(Entries)]
        /\ \A c \in Docs \ {d} : history'[c] = history[c]
    BY <1>8
  <2> QED
    BY <1>1, <1>5, <1>6, <2>1, <2>2, <2>3, <2>4, ShapesFrame
<1>10. KnownInv' /\ RowInv'
  <2>1. \A c \in Docs : Known(c) \subseteq Known(c)'
    BY <1>1, <1>2, <1>4, <1>6, KnownGrows
  <2>2. pc[t] # "idle"
    BY <1>2 DEF Holding
  <2>3. KnownInv'
    BY <1>1, <1>6, <1>8, <2>1, <2>2, StepKnown
  <2>4. \A c \in row' : file'[c] # None
    BY <1>1, <1>4, <1>8 DEF RowInv, Shapes, TypeOK
  <2>5. RowInv'
    BY <1>1, <1>4, <1>6, <2>4 DEF RowInv, Doc
  <2> QED
    BY <2>3, <2>5
<1>11. FileInv'
  <2>1. Tells(SubSeq(h, 1, n)) /\ EndsWith(SubSeq(h, 1, n), old)
    <3>1. Tells(h) /\ EndsWith(SubSeq(h, 1, n), old)
      BY <1>1, <1>2, <1>3 DEF FileInv, Saving
    <3> QED
      BY <1>3, <3>1, PrefixTells
  <2>2. pc'[t] \notin Holding
    BY <1>6 DEF Holding
  <2> QED
    BY <1>1, <1>3, <1>4, <1>5, <1>6, <1>8, <2>1, <2>2, FileFrame
<1> QED
  BY <1>9, <1>10, <1>11 DEF ReferencesInv

---------------------------------------------------------------------------------
LEMMA StillHolds == ReferencesInv /\ UNCHANGED saving => ReferencesInv'
BY DEF saving, ReferencesInv, Shapes, KnownInv, RowInv, FileInv, TypeOK, Known, Lasting, Creating,
       Resting, Saving, Doc, New

LEMMA Keeps == ReferencesInv /\ [Next]_vars => ReferencesInv'
<1> SUFFICES ASSUME ReferencesInv, [Next]_vars PROVE ReferencesInv'
  OBVIOUS
<1>1. CASE UNCHANGED saving
  BY <1>1, StillHolds
<1>2. CASE SaveStep
  <2>1. ASSUME NEW t \in Threads, NEW d \in Docs, NEW new \in Written,
               NEW asked \in ChangeTypes, Save(t, d, new, asked)
        PROVE  ReferencesInv'
    BY <2>1, SaveKeeps, ReferenceConstants
  <2>2. ASSUME NEW t \in Threads, Step(t) PROVE ReferencesInv'
    BY <2>2, AcquireKeeps, GivingUpKeeps, RecordKeeps, WriteKeeps, ReindexKeeps, CommitKeeps,
       RollbackKeeps DEF Step
  <2> QED
    BY <1>2, <2>1, <2>2 DEF SaveStep
<1> QED
  BY <1>1, <1>2 DEF Next, vars

LEMMA AlwaysInv == Spec => []ReferencesInv
<1>1. Init => ReferencesInv
  BY StartHolds
<1>2. ReferencesInv /\ [Next]_vars => ReferencesInv'
  BY Keeps
<1> QED
  BY <1>1, <1>2, PTL DEF Spec

(* Every variable has its shape, and a lock is held by who saves the document         *)
(* (save.py:63), for any documents, threads and saves.                                *)
THEOREM ReferenceTypes == Spec => []TypeOK
<1>1. ReferencesInv => TypeOK
  BY DEF ReferencesInv, Shapes
<1> QED
  BY <1>1, AlwaysInv, PTL

(* What a document refers to exists, however long ago the lint asked and whatever was  *)
(* saved and taken back since, but for references to documents that were still being    *)
(* created when the lint saw them (lint.py:87-101, save.py:160-180).                    *)
THEOREM ReferencesExist == Spec => []NothingDangles
<1>1. ReferencesInv => NothingDangles
  <2> SUFFICES ASSUME ReferencesInv, NEW d \in Docs, file[d] # None,
                      NEW e \in file[d].supersedes \ {d}
               PROVE  e \in row \/ <<d, e>> \in early
    BY DEF NothingDangles
  <2>1. file[d].supersedes \subseteq Known(d)
    BY DEF ReferencesInv, KnownInv
  <2> QED
    BY <2>1 DEF Known, Lasting
<1> QED
  BY <1>1, AlwaysInv, PTL

(* The history tells the lineage of a document, under any overlap of its saves and      *)
(* their rollbacks (save.py:122-143, history.py:21-51).                                 *)
THEOREM LineageRecorded == Spec => []HistoryTellsLineage
<1>1. ReferencesInv => HistoryTellsLineage
  <2> SUFFICES ASSUME ReferencesInv, NEW d \in Docs
               PROVE  /\ lock[d] = None /\ history[d] # <<>> =>
                           file[d].supersedes = history[d][Len(history[d])].supersedes
                      /\ \A n \in DOMAIN history[d] :
                            \/ history[d][n].supersedes \subseteq Before(history[d], n)
                            \/ history[d][n].type # "revision"
    BY DEF HistoryTellsLineage, Before
  <2>1. Tells(history[d])
    BY DEF ReferencesInv, FileInv
  <2>2. lock[d] = None => EndsWith(history[d], file[d])
    BY DEF ReferencesInv, FileInv, Resting
  <2> QED
    BY <2>1, <2>2 DEF Tells, EndsWith
<1> QED
  BY <1>1, AlwaysInv, PTL

---------------------------------------------------------------------------------
(* The lookup *)

LookupInv == way = "none" \/ LineageInv

LEMMA LineageBegins == LineageInit => LineageInv
BY InitHolds

(* Whatever is stored, the call begins as Lineage.tla has it begin. *)
LEMMA LookupBegins ==
    ASSUME ReferencesInv, NEW d \in Docs, NEW readers \in Readables, GetRelated(d, readers)
    PROVE  LineageInv'
<1>1. LineageInit'
  <2>1. supersedes' \in [Docs -> SUBSET Docs]
    <3>1. \A e \in Docs : file[e] # None => file[e].supersedes \in SUBSET Docs
      BY DEF ReferencesInv, Shapes, Frontmatter
    <3> QED
      BY <3>1 DEF GetRelated
  <2>2. supersedes' \in Superseding
    BY <2>1, ReferenceConstants
  <2>3. readable' \in SUBSET Docs
    BY ReferenceConstants DEF GetRelated
  <2>4. doc' \in readable'
    BY DEF GetRelated
  <2> QED
    BY <2>2, <2>3, <2>4 DEF GetRelated, LineageInit
<1>2. LineageInit' => LineageInv'
  BY LineageBegins, PTL
<1> QED
  BY <1>1, <1>2

LEMMA LookupKeeps == ReferencesInv /\ LookupInv /\ [Next]_vars => LookupInv'
<1> SUFFICES ASSUME ReferencesInv, LookupInv, [Next]_vars PROVE LookupInv'
  OBVIOUS
<1>1. CASE [LineageNext]_lineage
  <2>1. CASE way = "none"
    BY <1>1, <2>1 DEF LookupInv, LineageNext, Visit, Searching, ChainEnds, BackwardEnds, Relate,
                      lineage
  <2>2. CASE LineageInv
    BY <1>1, <2>2, LineageStep DEF LookupInv
  <2> QED
    BY <2>1, <2>2 DEF LookupInv
<1>2. CASE Lookup
  BY <1>1, <1>2, LookupBegins DEF Lookup, LookupInv
<1> QED
  BY <1>1, <1>2 DEF Next, vars

(* A lineage is whole on the references that were read, whatever saves are under way   *)
(* beside it, and in whatever circles these references lead (service.py:629-662).      *)
THEOREM LineageIsWholeBesideSaves == Spec => []LineageIsWhole
<1>1. Init => LookupInv
  BY DEF Init, LookupInv
<1>2. LookupInv => LineageIsWhole
  BY DEF LookupInv, LineageInv, LineageIsWhole
<1> QED
  BY <1>1, <1>2, AlwaysInv, LookupKeeps, PTL DEF Spec

---------------------------------------------------------------------------------
(* The text of a document.  The least number that something does not hold of makes an *)
(* induction; with it the recursive definitions are shown to have the values they say. *)

(* Induction up to n, for a set of the numbers that something holds of. *)
LEMMA InductionTo ==
    ASSUME NEW n \in Nat, NEW S, 0 \in S, \A i \in 1..n : i - 1 \in S => i \in S
    PROVE  0..n \subseteq S
<1> SUFFICES ASSUME (0..n) \ S # {} PROVE FALSE
  OBVIOUS
<1>1. PICK i \in (0..n) \ S : \A m \in (0..n) \ S : i <= m
  <2>1. (0..n) \ S \in SUBSET Nat
    OBVIOUS
  <2> QED
    BY <2>1, LeastNumber
<1>2. i \in 1..n
  BY <1>1
<1>3. i - 1 \notin (0..n) \ S
  BY <1>1, <1>2
<1>4. i - 1 \in S
  BY <1>2, <1>3
<1> QED
  BY <1>1, <1>2, <1>4

(* A recursive definition over 0..n whose steps are those of a function has a solution. *)
Solves(f, n, base, step) == f[0] = base /\ \A i \in 1..n : f[i] = step[<<i, f[i - 1]>>]

LEMMA RecursionHasSolution ==
    ASSUME NEW n \in Nat, NEW S, NEW base \in S, NEW step \in [(1..n) \X S -> S]
    PROVE  \E f \in [0..n -> S] : Solves(f, n, base, step)
<1> DEFINE Solved == {k \in 0..n : \E f \in [0..k -> S] :
                         f[0] = base /\ \A i \in 1..k : f[i] = step[<<i, f[i - 1]>>]}
<1>1. 0 \in Solved
  <2> DEFINE f == [i \in 0..0 |-> base]
  <2>1. f \in [0..0 -> S] /\ f[0] = base /\ \A i \in 1..0 : f[i] = step[<<i, f[i - 1]>>]
    OBVIOUS
  <2> HIDE DEF f
  <2> QED
    BY <2>1
<1>2. ASSUME NEW k \in 1..n, k - 1 \in Solved
      PROVE  k \in Solved
  <2>1. PICK g \in [0..(k - 1) -> S] :
           g[0] = base /\ \A i \in 1..(k - 1) : g[i] = step[<<i, g[i - 1]>>]
    BY <1>2
  <2> DEFINE f == [i \in 0..k |-> IF i = k THEN step[<<k, g[k - 1]>>] ELSE g[i]]
  <2>2. step[<<k, g[k - 1]>>] \in S
    <3>1. g[k - 1] \in S
      BY <2>1
    <3> QED
      BY <3>1
  <2>3. f \in [0..k -> S]
    BY <2>2
  <2>4. f[0] = base
    BY <2>1
  <2>5. \A i \in 1..k : f[i] = step[<<i, f[i - 1]>>]
    <3> SUFFICES ASSUME NEW i \in 1..k PROVE f[i] = step[<<i, f[i - 1]>>]
      OBVIOUS
    <3>1. f[i - 1] = g[i - 1]
      OBVIOUS
    <3>2. CASE i = k
      <4>1. f[k] = step[<<k, g[k - 1]>>]
        OBVIOUS
      <4> QED
        BY <3>1, <3>2, <4>1
    <3>3. CASE i # k
      <4>1. i \in 1..(k - 1) /\ f[i] = g[i]
        BY <3>3
      <4> QED
        BY <2>1, <3>1, <4>1
    <3> QED
      BY <3>2, <3>3
  <2> HIDE DEF f
  <2> QED
    BY <2>3, <2>4, <2>5
<1>3. 0..n \subseteq Solved
  <2> HIDE DEF Solved
  <2> QED
    BY <1>1, <1>2, InductionTo
<1>4. n \in Solved
  BY <1>3
<1> QED
  BY <1>4 DEF Solves

---------------------------------------------------------------------------------
(* Lines *)

AllLines == Lines \cup {Bare(line) : line \in Lines} \cup {Blank}

LEMMA BlankIsBare == Bare(Blank) = Blank /\ Blank \in AllLines /\ Blank.kind = "text"
  BY DEF Blank, Bare, Text, AllLines

LEMMA LineFacts ==
    ASSUME NEW line \in AllLines
    PROVE  /\ Bare(line) \in AllLines
           /\ Bare(Bare(line)) = Bare(line)
           /\ Bare(line).kind = line.kind
           /\ Bare(line).n = line.n
           /\ Bare(line).what = line.what
           /\ line.kind = "heading" => line.what \in Seq(Nat)
           /\ IsFence(line) => line.n \in Nat /\ line.n >= 3
           /\ Bare(line) = Blank => line.kind = "text"
<1>1. ASSUME NEW l \in Lines
      PROVE  /\ Bare(Bare(l)) = Bare(l)
             /\ Bare(l).kind = l.kind /\ Bare(l).n = l.n /\ Bare(l).what = l.what
  BY DEF Bare
<1>2. line \in Lines \/ (\E l \in Lines : line = Bare(l)) \/ line = Blank
  BY DEF AllLines
<1>3. \A l \in Lines : l \in AllLines /\ Bare(l) \in AllLines
  BY DEF AllLines
<1> QED
  BY <1>1, <1>2, <1>3, BlankIsBare, DocumentConstants DEF IsFence

(* The fence that is open does not depend on blanks at the end of a line. *)
LEMMA FenceOfBare ==
    ASSUME NEW line \in AllLines, NEW fence
    PROVE  /\ FenceCloses(Bare(line), fence) <=> FenceCloses(line, fence)
           /\ FenceAfter(Bare(line), fence) = FenceAfter(line, fence)
  BY LineFacts DEF FenceCloses, FenceAfter, IsFence

---------------------------------------------------------------------------------
(* The recursive definitions compute what they say. *)

LEMMA FencesAre ==
    ASSUME NEW s \in Seq(AllLines)
    PROVE  /\ DOMAIN Fences(s) = 0..Len(s)
           /\ Fences(s)[0] = NoFence
           /\ \A i \in 1..Len(s) : Fences(s)[i] = FenceAfter(s[i], Fences(s)[i - 1])
<1> DEFINE n == Len(s)
           S == {NoFence} \cup {<<s[i].what[1], s[i].n>> : i \in 1..n}
           step == [p \in (1..n) \X S |-> FenceAfter(s[p[1]], p[2])]
           Solution(f) == f = [i \in 0..n |-> IF i = 0 THEN NoFence
                                               ELSE FenceAfter(s[i], f[i - 1])]
<1>1. n \in Nat
  OBVIOUS
<1>2. step \in [(1..n) \X S -> S]
  BY DEF FenceAfter
<1>3. NoFence \in S
  OBVIOUS
<1>4. PICK f \in [0..n -> S] : Solves(f, n, NoFence, step)
  <2> HIDE DEF n, S, step
  <2> QED
    BY <1>1, <1>2, <1>3, RecursionHasSolution, Zenon
<1>5. \A i \in 1..n : f[i] = FenceAfter(s[i], f[i - 1])
  <2> SUFFICES ASSUME NEW i \in 1..n PROVE f[i] = FenceAfter(s[i], f[i - 1])
    OBVIOUS
  <2>1. f[i - 1] \in S
    <3> HIDE DEF S
    <3> QED
      BY <1>1
  <2>2. <<i, f[i - 1]>> \in (1..n) \X S
    BY <2>1
  <2> QED
    BY <1>4, <2>2 DEF Solves
<1>6. Solution(f)
  BY <1>1, <1>4, <1>5 DEF Solves
<1>7. Fences(s) = CHOOSE g : Solution(g)
  BY DEF Fences
<1>8. Solution(Fences(s))
  <2> HIDE DEF Solution
  <2> QED
    BY <1>6, <1>7
<1> QED
  BY <1>1, <1>8

(* What pass B has written after each line. *)
IsOutput(out, s) ==
    /\ out[0] = <<>>
    /\ \A i \in 1..Len(s) : out[i] = Emit(s[i], Fences(s)[i - 1], out[i - 1])

LEMMA EmitIsText ==
    ASSUME NEW L, Blank \in L, NEW line \in L, NEW fence, NEW out \in Seq(L)
    PROVE  /\ Gap(out) \in Seq(L)
           /\ Emit(line, fence, out) \in Seq(L)
<1>1. <<Blank>> \in Seq(L) /\ <<line, Blank>> \in Seq(L)
  OBVIOUS
<1>2. Gap(out) \in Seq(L)
  BY <1>1 DEF Gap
<1>3. out \o Gap(out) \in Seq(L)
  BY <1>2
<1>4. out \o Gap(out) \o <<line, Blank>> \in Seq(L)
  BY <1>1, <1>3
<1>5. Append(out, line) \in Seq(L)
  OBVIOUS
<1> QED
  BY <1>2, <1>3, <1>4, <1>5 DEF Emit

LEMMA PassBIs ==
    ASSUME NEW s \in Seq(AllLines)
    PROVE  \E out \in [0..Len(s) -> Seq(AllLines)] : IsOutput(out, s) /\ PassB(s) = out[Len(s)]
<1> DEFINE n == Len(s)
           S == Seq(AllLines)
           open == Fences(s)
           step == [p \in (1..n) \X S |-> Emit(s[p[1]], open[p[1] - 1], p[2])]
           Solution(f) == f = [i \in 0..n |-> IF i = 0 THEN <<>>
                                               ELSE Emit(s[i], open[i - 1], f[i - 1])]
<1>1. n \in Nat
  OBVIOUS
<1>2. step \in [(1..n) \X S -> S]
  BY EmitIsText, BlankIsBare
<1>3. <<>> \in S
  OBVIOUS
<1>4. PICK f \in [0..n -> S] : Solves(f, n, <<>>, step)
  <2> HIDE DEF n, S, step
  <2> QED
    BY <1>1, <1>2, <1>3, RecursionHasSolution, Zenon
<1>5. \A i \in 1..n : f[i] = Emit(s[i], open[i - 1], f[i - 1])
  <2> SUFFICES ASSUME NEW i \in 1..n PROVE f[i] = Emit(s[i], open[i - 1], f[i - 1])
    OBVIOUS
  <2>1. f[i - 1] \in S
    <3> HIDE DEF S
    <3> QED
      BY <1>1
  <2>2. <<i, f[i - 1]>> \in (1..n) \X S
    BY <2>1
  <2> QED
    BY <1>4, <2>2 DEF Solves
<1>6. Solution(f)
  BY <1>1, <1>4, <1>5 DEF Solves
<1> DEFINE g == CHOOSE h : Solution(h)
<1>7. PassB(s) = g[n]
  BY DEF PassB
<1>8. Solution(g)
  <2> HIDE DEF Solution
  <2> QED
    BY <1>6
<1>9. g[0] = <<>> /\ \A i \in 1..n : g[i] = Emit(s[i], open[i - 1], g[i - 1])
  <2> HIDE DEF g
  <2> QED
    BY <1>1, <1>8
<1>10. g \in [0..n -> S]
  <2>1. 0..n \subseteq {i \in 0..n : g[i] \in S}
    <3>1. ASSUME NEW i \in 1..n, g[i - 1] \in S PROVE g[i] \in S
      BY <1>9, <3>1, EmitIsText, BlankIsBare
    <3>2. \A i \in 1..n : i - 1 \in {k \in 0..n : g[k] \in S} => i \in {k \in 0..n : g[k] \in S}
      <4> HIDE DEF g, S
      <4> QED
        BY <3>1, <1>1
    <3>3. 0 \in {k \in 0..n : g[k] \in S}
      <4> HIDE DEF g, S
      <4> QED
        BY <1>9, <1>1, <1>3
    <3> HIDE DEF g, S, n
    <3> QED
      BY <3>2, <3>3, <1>1, InductionTo
  <2>2. g = [i \in 0..n |-> g[i]]
    BY <1>8
  <2> HIDE DEF g, S
  <2> QED
    BY <2>1, <2>2
<1> HIDE DEF g
<1> QED
  BY <1>7, <1>9, <1>10 DEF IsOutput

---------------------------------------------------------------------------------
(* Two texts with the same lines up to blanks at their ends have the same fences. *)

LEMMA SameFences ==
    ASSUME NEW s \in Seq(AllLines), NEW t \in Seq(AllLines), NEW k \in 0..Len(s),
           k <= Len(t), \A i \in 1..k : Bare(s[i]) = Bare(t[i])
    PROVE  \A i \in 0..k : Fences(s)[i] = Fences(t)[i]
<1> DEFINE Same == {i \in 0..k : Fences(s)[i] = Fences(t)[i]}
<1>1. 0 \in Same
  BY FencesAre
<1>2. ASSUME NEW i \in 1..k, i - 1 \in Same PROVE i \in Same
  <2>1. s[i] \in AllLines /\ t[i] \in AllLines /\ i \in 1..Len(s) /\ i \in 1..Len(t)
    OBVIOUS
  <2>2. Fences(s)[i] = FenceAfter(s[i], Fences(s)[i - 1])
    BY <2>1, FencesAre
  <2>3. Fences(t)[i] = FenceAfter(t[i], Fences(t)[i - 1])
    BY <2>1, FencesAre
  <2>4. FenceAfter(s[i], Fences(s)[i - 1]) = FenceAfter(t[i], Fences(s)[i - 1])
    BY <2>1, FenceOfBare
  <2>5. Fences(s)[i - 1] = Fences(t)[i - 1]
    BY <1>2
  <2> QED
    BY <2>2, <2>3, <2>4, <2>5
<1>3. k \in Nat
  OBVIOUS
<1> HIDE DEF Same
<1>4. 0..k \subseteq Same
  BY <1>1, <1>2, <1>3, InductionTo
<1> QED
  BY <1>4 DEF Same

LEMMA PassAIs ==
    ASSUME NEW s \in Seq(AllLines)
    PROVE  /\ PassA(s) \in Seq(AllLines)
           /\ Len(PassA(s)) = Len(s)
           /\ \A i \in 0..Len(s) : Fences(PassA(s))[i] = Fences(s)[i]
           /\ \A i \in 1..Len(s) :
                 PassA(s)[i] = IF /\ Fences(s)[i - 1] # NoFence
                                  /\ ~FenceCloses(s[i], Fences(s)[i - 1])
                               THEN s[i] ELSE Bare(s[i])
<1> DEFINE a == PassA(s)
           Line(i) == IF /\ Fences(s)[i - 1] # NoFence /\ ~FenceCloses(s[i], Fences(s)[i - 1])
                      THEN s[i] ELSE Bare(s[i])
<1>1. a = [i \in 1..Len(s) |-> Line(i)]
  BY DEF PassA
<1>2. \A i \in 1..Len(s) : Line(i) \in AllLines /\ Bare(Line(i)) = Bare(s[i])
  <2> TAKE i \in 1..Len(s)
  <2>1. s[i] \in AllLines
    OBVIOUS
  <2> QED
    BY <2>1, LineFacts
<1> HIDE DEF Line
<1>3. a \in Seq(AllLines) /\ Len(a) = Len(s)
  BY <1>1, <1>2
<1>4. \A i \in 1..Len(s) : a[i] = Line(i)
  BY <1>1
<1> HIDE DEF a
<1>5. \A i \in 1..Len(s) : Bare(a[i]) = Bare(s[i])
  BY <1>2, <1>4
<1>6. \A i \in 0..Len(s) : Fences(a)[i] = Fences(s)[i]
  BY <1>3, <1>5, SameFences
<1> QED
  BY <1>3, <1>4, <1>6 DEF a, Line

---------------------------------------------------------------------------------
(* Tidy: what pass B leaves of a text, line by line.  Bare outside of code, no blank *)
(* line at the top and no two in a row, and one before and after a heading.          *)

InText(s, i) == Fences(s)[i - 1] = NoFence

Tidy(s) ==
    /\ \A i \in 1..Len(s) :
          \/ Bare(s[i]) = s[i]
          \/ ~InText(s, i) /\ ~FenceCloses(s[i], Fences(s)[i - 1])
    /\ \A i \in 1..Len(s) : InText(s, i) /\ s[i] = Blank => i > 1 /\ s[i - 1] # Blank
    /\ \A i \in 1..Len(s) : InText(s, i) /\ s[i].kind = "heading" =>
          /\ i = 1 \/ s[i - 1] = Blank
          /\ i < Len(s) => s[i + 1] = Blank

(* What may be appended to it. *)
Fits(line, s) ==
    /\ \/ Bare(line) = line
       \/ /\ Fences(s)[Len(s)] # NoFence
          /\ ~FenceCloses(line, Fences(s)[Len(s)])
    /\ Fences(s)[Len(s)] = NoFence /\ line = Blank => s # <<>> /\ s[Len(s)] # Blank
    /\ Fences(s)[Len(s)] = NoFence /\ line.kind = "heading" => s = <<>> \/ s[Len(s)] = Blank
    /\ s # <<>> /\ InText(s, Len(s)) /\ s[Len(s)].kind = "heading" => line = Blank

LEMMA FencesOfAppend ==
    ASSUME NEW s \in Seq(AllLines), NEW line \in AllLines
    PROVE  /\ \A i \in 0..Len(s) : Fences(Append(s, line))[i] = Fences(s)[i]
           /\ Fences(Append(s, line))[Len(s) + 1] = FenceAfter(line, Fences(s)[Len(s)])
<1> DEFINE t == Append(s, line)
<1>1. t \in Seq(AllLines) /\ Len(t) = Len(s) + 1 /\ t[Len(s) + 1] = line
  OBVIOUS
<1>2. \A i \in 1..Len(s) : t[i] = s[i]
  OBVIOUS
<1>3. Len(s) \in 0..Len(s) /\ Len(s) \in Nat
  OBVIOUS
<1> HIDE DEF t
<1>4. \A i \in 0..Len(s) : Fences(s)[i] = Fences(t)[i]
  BY <1>1, <1>2, <1>3, SameFences
<1>5. Fences(t)[Len(s) + 1] = FenceAfter(t[Len(s) + 1], Fences(t)[Len(s)])
  BY <1>1, <1>3, FencesAre
<1> QED
  BY <1>1, <1>3, <1>4, <1>5 DEF t

LEMMA AppendIsTidy ==
    ASSUME NEW s \in Seq(AllLines), NEW line \in AllLines, Tidy(s), Fits(line, s)
    PROVE  Tidy(Append(s, line))
<1> DEFINE t == Append(s, line)
           n == Len(s)
<1>1. t \in Seq(AllLines) /\ Len(t) = n + 1 /\ t[n + 1] = line /\ n \in Nat
  OBVIOUS
<1>2. \A i \in 1..n : t[i] = s[i]
  OBVIOUS
<1>3. \A i \in 0..n : Fences(t)[i] = Fences(s)[i]
  BY FencesOfAppend
<1>4. s = <<>> <=> n = 0
  OBVIOUS
<1> HIDE DEF t, n
<1>5. ASSUME NEW i \in 1..(n + 1)
      PROVE  /\ \/ Bare(t[i]) = t[i]
                \/ ~InText(t, i) /\ ~FenceCloses(t[i], Fences(t)[i - 1])
             /\ InText(t, i) /\ t[i] = Blank => i > 1 /\ t[i - 1] # Blank
             /\ InText(t, i) /\ t[i].kind = "heading" =>
                  /\ i = 1 \/ t[i - 1] = Blank
                  /\ i < n + 1 => t[i + 1] = Blank
  <2>1. CASE i = n + 1
    <3>1. Fences(t)[i - 1] = Fences(s)[n] /\ t[i] = line
      BY <1>1, <1>3, <2>1
    <3>2. n # 0 => t[i - 1] = s[n] /\ i > 1
      BY <1>1, <1>2, <2>1
    <3>3. Fits(line, s)
      OBVIOUS
    <3> QED
      BY <1>1, <1>4, <2>1, <3>1, <3>2, <3>3 DEF Fits, InText, n
  <2>2. CASE i # n + 1
    <3>1. i \in 1..n /\ t[i] = s[i] /\ Fences(t)[i - 1] = Fences(s)[i - 1]
      BY <1>1, <1>2, <1>3, <2>2
    <3>2. i > 1 => t[i - 1] = s[i - 1]
      BY <1>1, <1>2, <3>1
    <3>3. i < n => t[i + 1] = s[i + 1]
      BY <1>1, <1>2, <3>1
    <3>4. /\ \/ Bare(s[i]) = s[i]
             \/ ~InText(s, i) /\ ~FenceCloses(s[i], Fences(s)[i - 1])
          /\ InText(s, i) /\ s[i] = Blank => i > 1 /\ s[i - 1] # Blank
          /\ InText(s, i) /\ s[i].kind = "heading" =>
                  /\ i = 1 \/ s[i - 1] = Blank
                  /\ i < n => s[i + 1] = Blank
      BY <3>1 DEF Tidy, n
    <3>5. ASSUME i = n, InText(s, i), s[i].kind = "heading" PROVE t[i + 1] = Blank
      BY <1>1, <1>4, <3>1, <3>5 DEF Fits, n
    <3> QED
      BY <1>1, <3>1, <3>2, <3>3, <3>4, <3>5 DEF InText
  <2> QED
    BY <2>1, <2>2
<1>6. Tidy(t)
  BY <1>1, <1>5 DEF Tidy
<1> QED
  BY <1>6 DEF t

(* What pass B writes stays tidy, does not end with a heading, and leaves the fence  *)
(* open that the lines it has read leave open.                                       *)
Output(out, fence) ==
    /\ Tidy(out)
    /\ Fences(out)[Len(out)] = fence
    /\ out # <<>> => ~(InText(out, Len(out)) /\ out[Len(out)].kind = "heading")

LEMMA EmptyIsWritten == Output(<<>>, NoFence)
<1>1. <<>> \in Seq(AllLines) /\ Len(<<>>) = 0
  OBVIOUS
<1>2. Fences(<<>>)[0] = NoFence
  BY <1>1, FencesAre
<1> QED
  BY <1>1, <1>2 DEF Output, Tidy

LEMMA GapIsWritten ==
    ASSUME NEW out \in Seq(AllLines), Output(out, NoFence)
    PROVE  /\ out \o Gap(out) \in Seq(AllLines)
           /\ Output(out \o Gap(out), NoFence)
           /\ out \o Gap(out) = <<>> \/ (out \o Gap(out))[Len(out \o Gap(out))] = Blank
           /\ out \o Gap(out) = IF out = <<>> \/ out[Len(out)] = Blank THEN out
                                ELSE Append(out, Blank)
<1>1. CASE out = <<>> \/ out[Len(out)] = Blank
  <2>1. Gap(out) = <<>>
    BY <1>1 DEF Gap, Last
  <2>2. out \o Gap(out) = out
    BY <2>1
  <2> QED
    BY <1>1, <2>2
<1>2. CASE ~(out = <<>> \/ out[Len(out)] = Blank)
  <2> DEFINE t == Append(out, Blank)
  <2>1. Gap(out) = <<Blank>>
    BY <1>2 DEF Gap, Last
  <2>2. out \o Gap(out) = t
    BY <2>1, BlankIsBare
  <2>3. t \in Seq(AllLines) /\ Len(t) = Len(out) + 1 /\ t[Len(t)] = Blank /\ t # <<>>
    BY BlankIsBare
  <2>4. Fits(Blank, out)
    BY <1>2, BlankIsBare DEF Fits, Output
  <2>5. Tidy(t)
    BY <2>4, AppendIsTidy, BlankIsBare DEF Output
  <2>6. Fences(t)[Len(t)] = FenceAfter(Blank, NoFence)
    BY <2>3, FencesOfAppend, BlankIsBare DEF Output
  <2>7. FenceAfter(Blank, NoFence) = NoFence
    BY BlankIsBare DEF FenceAfter, IsFence
  <2>8. Output(t, NoFence)
    BY <2>3, <2>5, <2>6, <2>7, BlankIsBare DEF Output
  <2> HIDE DEF t
  <2> QED
    BY <1>2, <2>2, <2>3, <2>8 DEF t
<1> QED
  BY <1>1, <1>2

LEMMA EmitIsWritten ==
    ASSUME NEW out \in Seq(AllLines), NEW line \in AllLines, NEW fence, Output(out, fence),
           Bare(line) = line \/ (fence # NoFence /\ ~FenceCloses(line, fence))
    PROVE  Output(Emit(line, fence, out), FenceAfter(line, fence))
<1>1. CASE fence = NoFence /\ line.kind = "heading"
  <2> DEFINE g == out \o Gap(out)
             h == Append(g, line)
             t == Append(h, Blank)
  <2>1. /\ g \in Seq(AllLines) /\ Output(g, NoFence)
        /\ g = <<>> \/ g[Len(g)] = Blank
    BY <1>1, GapIsWritten
  <2>2. Emit(line, fence, out) = g \o <<line, Blank>>
    BY <1>1, BlankIsBare DEF Emit
  <2> HIDE DEF g
  <2>3. g \o <<line, Blank>> = t
    BY <2>1, BlankIsBare
  <2>4. Fits(line, g)
    BY <1>1, <2>1, BlankIsBare DEF Fits, Output
  <2>5. Tidy(h)
    BY <2>1, <2>4, AppendIsTidy DEF Output
  <2>6. h \in Seq(AllLines) /\ Len(h) = Len(g) + 1 /\ h[Len(h)] = line /\ h # <<>>
    <3>1. g \in Seq(AllLines)
      BY <2>1
    <3> QED
      BY <3>1
  <2>7. Fences(h)[Len(h)] = NoFence
    BY <1>1, <2>1, <2>6, FencesOfAppend DEF Output, FenceAfter, IsFence
  <2>8. line # Blank
    BY <1>1, BlankIsBare
  <2> HIDE DEF h
  <2>9. Fits(Blank, h)
    BY <2>6, <2>7, <2>8, BlankIsBare DEF Fits
  <2>10. Tidy(t)
    BY <2>5, <2>6, <2>9, AppendIsTidy, BlankIsBare
  <2>11. t \in Seq(AllLines) /\ Len(t) = Len(h) + 1 /\ t[Len(t)] = Blank
    BY <2>6, BlankIsBare
  <2>12. Fences(t)[Len(t)] = NoFence
    <3>1. Fences(t)[Len(h) + 1] = FenceAfter(Blank, Fences(h)[Len(h)])
      BY <2>6, FencesOfAppend, BlankIsBare
    <3>2. FenceAfter(Blank, NoFence) = NoFence
      BY BlankIsBare DEF FenceAfter, IsFence
    <3> QED
      BY <2>7, <2>11, <3>1, <3>2
  <2>13. FenceAfter(line, fence) = NoFence
    BY <1>1 DEF FenceAfter, IsFence
  <2> HIDE DEF t
  <2>14. Output(t, NoFence)
    BY <2>10, <2>11, <2>12, BlankIsBare DEF Output
  <2> QED
    BY <2>2, <2>3, <2>13, <2>14
<1>2. CASE fence = NoFence /\ line = Blank
  <2>1. Emit(line, fence, out) = out \o Gap(out)
    BY <1>2, BlankIsBare DEF Emit
  <2>2. FenceAfter(line, fence) = NoFence
    BY <1>2, BlankIsBare DEF FenceAfter, IsFence
  <2> QED
    BY <1>2, <2>1, <2>2, GapIsWritten
<1>3. CASE ~(fence = NoFence /\ line.kind = "heading") /\ ~(fence = NoFence /\ line = Blank)
  <2> DEFINE t == Append(out, line)
  <2>1. Emit(line, fence, out) = t
    BY <1>3 DEF Emit
  <2>2. Fits(line, out)
    BY <1>3 DEF Fits, Output
  <2>3. Tidy(t)
    BY <2>2, AppendIsTidy DEF Output
  <2>4. t \in Seq(AllLines) /\ Len(t) = Len(out) + 1 /\ t[Len(t)] = line
    OBVIOUS
  <2>5. Fences(t)[Len(t)] = FenceAfter(line, fence)
    BY <2>4, FencesOfAppend DEF Output
  <2>6. Fences(t)[Len(t) - 1] = fence
    BY <2>4, FencesOfAppend DEF Output
  <2> HIDE DEF t
  <2> QED
    BY <1>3, <2>1, <2>3, <2>4, <2>5, <2>6 DEF Output, InText
<1> QED
  BY <1>1, <1>2, <1>3

LEMMA PassBIsTidy ==
    ASSUME NEW s \in Seq(AllLines),
           \A i \in 1..Len(s) : \/ Bare(s[i]) = s[i]
                                \/ ~InText(s, i) /\ ~FenceCloses(s[i], Fences(s)[i - 1])
    PROVE  PassB(s) \in Seq(AllLines) /\ Tidy(PassB(s))
<1>1. PICK out \in [0..Len(s) -> Seq(AllLines)] : IsOutput(out, s) /\ PassB(s) = out[Len(s)]
  BY PassBIs
<1> DEFINE Good == {i \in 0..Len(s) : Output(out[i], Fences(s)[i])}
<1>2. 0 \in Good
  <2>1. out[0] = <<>> /\ Fences(s)[0] = NoFence
    BY <1>1, FencesAre DEF IsOutput
  <2> QED
    BY <2>1, EmptyIsWritten
<1>3. ASSUME NEW i \in 1..Len(s), i - 1 \in Good PROVE i \in Good
  <2>1. out[i] = Emit(s[i], Fences(s)[i - 1], out[i - 1])
    BY <1>1 DEF IsOutput
  <2>2. out[i - 1] \in Seq(AllLines) /\ s[i] \in AllLines
    BY <1>1
  <2>3. Output(out[i - 1], Fences(s)[i - 1])
    BY <1>3
  <2>4. Fences(s)[i] = FenceAfter(s[i], Fences(s)[i - 1])
    BY FencesAre
  <2>5. Bare(s[i]) = s[i] \/ (Fences(s)[i - 1] # NoFence /\ ~FenceCloses(s[i], Fences(s)[i - 1]))
    BY DEF InText
  <2>6. Output(out[i], Fences(s)[i])
    BY <2>1, <2>2, <2>3, <2>4, <2>5, EmitIsWritten
  <2> QED
    BY <2>6
<1>4. Len(s) \in Nat
  OBVIOUS
<1> HIDE DEF Good
<1>5. 0..Len(s) \subseteq Good
  BY <1>2, <1>3, <1>4, InductionTo
<1>6. Output(out[Len(s)], Fences(s)[Len(s)])
  BY <1>4, <1>5 DEF Good
<1>7. out[Len(s)] \in Seq(AllLines)
  BY <1>1, <1>4
<1> QED
  BY <1>1, <1>6, <1>7 DEF Output

---------------------------------------------------------------------------------
(* Blank lines at the end *)

LEMMA TrimIs ==
    ASSUME NEW s \in Seq(AllLines)
    PROVE  \E k \in 0..Len(s) :
              /\ Trim(s) = SubSeq(s, 1, k)
              /\ k > 0 => s[k] # Blank
              /\ \A i \in (k + 1)..Len(s) : s[i] = Blank
<1> DEFINE filled == {0} \cup {i \in DOMAIN s : s[i] # Blank}
<1>1. filled \subseteq 0..Len(s) /\ Len(s) \in Nat
  OBVIOUS
<1>2. \E k \in filled : \A i \in filled : k >= i
  <2> DEFINE above == {Len(s) - i : i \in filled}
  <2>1. above \in SUBSET Nat /\ above # {}
    BY <1>1
  <2>2. PICK m \in above : \A l \in above : m <= l
    <3> HIDE DEF above
    <3> QED
      BY <2>1, LeastNumber
  <2>3. PICK k \in filled : m = Len(s) - k
    BY <2>2
  <2> HIDE DEF filled
  <2>4. \A i \in filled : k >= i
    <3> SUFFICES ASSUME NEW i \in filled PROVE k >= i
      OBVIOUS
    <3>1. Len(s) - i \in above
      OBVIOUS
    <3>2. i \in 0..Len(s) /\ k \in 0..Len(s)
      BY <1>1
    <3>3. m <= Len(s) - i
      <4> HIDE DEF above
      <4> QED
        BY <2>2, <3>1
    <3> QED
      BY <1>1, <2>3, <3>2, <3>3
  <2> QED
    BY <2>4
<1> DEFINE k == Max(filled)
<1>3. k \in filled /\ \A i \in filled : k >= i
  <2> HIDE DEF filled
  <2> QED
    BY <1>2 DEF Max
<1>4. Trim(s) = SubSeq(s, 1, k)
  BY DEF Trim
<1> HIDE DEF k
<1>5. k \in 0..Len(s)
  BY <1>1, <1>3
<1>6. k > 0 => s[k] # Blank
  BY <1>3, <1>5
<1>7. \A i \in (k + 1)..Len(s) : s[i] = Blank
  <2> SUFFICES ASSUME NEW i \in (k + 1)..Len(s), s[i] # Blank PROVE FALSE
    OBVIOUS
  <2>1. i \in 1..Len(s)
    BY <1>5
  <2>2. i \in filled
    BY <2>1
  <2> QED
    BY <1>3, <1>5, <2>1, <2>2
<1> QED
  BY <1>4, <1>5, <1>6, <1>7

LEMMA TrimIsUnique ==
    ASSUME NEW s \in Seq(AllLines), NEW k \in 0..Len(s), k > 0 => s[k] # Blank,
           \A i \in (k + 1)..Len(s) : s[i] = Blank
    PROVE  Trim(s) = SubSeq(s, 1, k)
<1>1. PICK l \in 0..Len(s) : /\ Trim(s) = SubSeq(s, 1, l)
                             /\ l > 0 => s[l] # Blank
                             /\ \A i \in (l + 1)..Len(s) : s[i] = Blank
  BY TrimIs
<1>2. ~(l < k)
  BY <1>1
<1>3. ~(k < l)
  BY <1>1
<1>4. k = l
  BY <1>2, <1>3
<1> QED
  BY <1>1, <1>4

LEMMA TrimOfAppend ==
    ASSUME NEW s \in Seq(AllLines)
    PROVE  Trim(Append(s, Blank)) = Trim(s)
<1> DEFINE t == Append(s, Blank)
<1>1. t \in Seq(AllLines) /\ Len(t) = Len(s) + 1 /\ t[Len(s) + 1] = Blank /\ Len(s) \in Nat
  BY BlankIsBare
<1>2. \A i \in 1..Len(s) : t[i] = s[i]
  OBVIOUS
<1>3. PICK k \in 0..Len(s) : /\ Trim(s) = SubSeq(s, 1, k)
                             /\ k > 0 => s[k] # Blank
                             /\ \A i \in (k + 1)..Len(s) : s[i] = Blank
  BY TrimIs
<1>4. SubSeq(t, 1, k) = SubSeq(s, 1, k)
  BY <1>1
<1> HIDE DEF t
<1>5. k \in 0..Len(t) /\ (k > 0 => t[k] # Blank)
  BY <1>1, <1>2, <1>3
<1>6. \A i \in (k + 1)..Len(t) : t[i] = Blank
  <2> SUFFICES ASSUME NEW i \in (k + 1)..Len(t) PROVE t[i] = Blank
    OBVIOUS
  <2>1. i = Len(s) + 1 \/ i \in (k + 1)..Len(s)
    BY <1>1
  <2>2. i \in (k + 1)..Len(s) => i \in 1..Len(s)
    BY <1>1
  <2> QED
    BY <1>1, <1>2, <1>3, <2>1, <2>2
<1>7. Trim(t) = SubSeq(t, 1, k)
  BY <1>1, <1>5, <1>6, TrimIsUnique
<1> QED
  BY <1>3, <1>4, <1>7 DEF t

LEMMA PrefixIsTidy ==
    ASSUME NEW s \in Seq(AllLines), Tidy(s), NEW k \in 0..Len(s)
    PROVE  /\ SubSeq(s, 1, k) \in Seq(AllLines)
           /\ Len(SubSeq(s, 1, k)) = k
           /\ Tidy(SubSeq(s, 1, k))
<1> DEFINE t == SubSeq(s, 1, k)
<1>1. t \in Seq(AllLines) /\ Len(t) = k /\ \A i \in 1..k : t[i] = s[i]
  OBVIOUS
<1>2. k \in 0..Len(t) /\ k <= Len(s) /\ k \in Nat /\ Len(s) \in Nat
  BY <1>1
<1> HIDE DEF t
<1>3. \A i \in 0..k : Fences(t)[i] = Fences(s)[i]
  BY <1>1, <1>2, SameFences
<1>4. \A i \in 1..k : i \in 1..Len(s) /\ i - 1 \in 0..k /\ (i > 1 => i - 1 \in 1..k)
                    /\ (i < k => i + 1 \in 1..k /\ i < Len(s))
  BY <1>2
<1>5. \A i \in 1..k : InText(t, i) <=> InText(s, i)
  BY <1>3, <1>4 DEF InText
<1>6. \A i \in 1..k : \/ Bare(t[i]) = t[i]
                      \/ ~InText(t, i) /\ ~FenceCloses(t[i], Fences(t)[i - 1])
  BY <1>1, <1>3, <1>4, <1>5 DEF Tidy
<1>7. \A i \in 1..k : InText(t, i) /\ t[i] = Blank => i > 1 /\ t[i - 1] # Blank
  BY <1>1, <1>4, <1>5 DEF Tidy
<1>8. \A i \in 1..k : InText(t, i) /\ t[i].kind = "heading" =>
          /\ i = 1 \/ t[i - 1] = Blank
          /\ i < k => t[i + 1] = Blank
  <2> SUFFICES ASSUME NEW i \in 1..k, InText(t, i), t[i].kind = "heading"
               PROVE  /\ i = 1 \/ t[i - 1] = Blank
                      /\ i < k => t[i + 1] = Blank
    OBVIOUS
  <2>1. InText(s, i) /\ s[i].kind = "heading" /\ i \in 1..Len(s)
    BY <1>1, <1>4, <1>5
  <2>2. (i = 1 \/ s[i - 1] = Blank) /\ (i < Len(s) => s[i + 1] = Blank)
    BY <2>1 DEF Tidy
  <2>3. i = 1 \/ i > 1
    OBVIOUS
  <2> QED
    BY <1>1, <1>4, <2>2, <2>3
<1>9. Tidy(t)
  BY <1>1, <1>6, <1>7, <1>8 DEF Tidy
<1> QED
  BY <1>1, <1>9 DEF t

---------------------------------------------------------------------------------
(* A text is in the normal form if it is tidy and ends with a single empty line, and  *)
(* normalising it changes nothing.                                                    *)

Ended(t) == Tidy(t) /\ (t # <<>> => t[Len(t)] # Blank)

LEMMA PassAIsBare ==
    ASSUME NEW s \in Seq(AllLines)
    PROVE  \A i \in 1..Len(PassA(s)) :
              \/ Bare(PassA(s)[i]) = PassA(s)[i]
              \/ ~InText(PassA(s), i) /\ ~FenceCloses(PassA(s)[i], Fences(PassA(s))[i - 1])
<1> DEFINE a == PassA(s)
<1>1. a \in Seq(AllLines) /\ Len(a) = Len(s)
  BY PassAIs
<1>2. \A i \in 1..Len(a) : \/ Bare(a[i]) = a[i]
                           \/ ~InText(a, i) /\ ~FenceCloses(a[i], Fences(a)[i - 1])
  <2> SUFFICES ASSUME NEW i \in 1..Len(s)
               PROVE  \/ Bare(a[i]) = a[i]
                      \/ ~InText(a, i) /\ ~FenceCloses(a[i], Fences(a)[i - 1])
    BY <1>1
  <2>1. Fences(a)[i - 1] = Fences(s)[i - 1]
    BY PassAIs
  <2>2. a[i] = IF Fences(s)[i - 1] # NoFence /\ ~FenceCloses(s[i], Fences(s)[i - 1])
               THEN s[i] ELSE Bare(s[i])
    BY PassAIs
  <2>3. s[i] \in AllLines
    OBVIOUS
  <2> HIDE DEF a
  <2> QED
    BY <2>1, <2>2, <2>3, LineFacts DEF InText
<1> QED
  BY <1>2

LEMMA NormalizeIsEnded ==
    ASSUME NEW s \in Seq(AllLines)
    PROVE  \E t \in Seq(AllLines) : Ended(t) /\ Normalize(s) = Append(t, Blank)
<1> DEFINE a == PassA(s)
           b == PassB(a)
           t == Trim(b)
<1>1. a \in Seq(AllLines) /\ Len(a) = Len(s)
  BY PassAIs
<1>2. \A i \in 1..Len(a) : \/ Bare(a[i]) = a[i]
                           \/ ~InText(a, i) /\ ~FenceCloses(a[i], Fences(a)[i - 1])
  BY PassAIsBare
<1> HIDE DEF a
<1>3. b \in Seq(AllLines) /\ Tidy(b)
  BY <1>1, <1>2, PassBIsTidy
<1> HIDE DEF b
<1>4. PICK k \in 0..Len(b) : t = SubSeq(b, 1, k) /\ (k > 0 => b[k] # Blank)
  BY <1>3, TrimIs
<1>5. t \in Seq(AllLines) /\ Len(t) = k /\ Tidy(t)
  BY <1>3, <1>4, PrefixIsTidy
<1>6. t # <<>> => t[Len(t)] # Blank
  <2> SUFFICES ASSUME t # <<>> PROVE t[Len(t)] # Blank
    OBVIOUS
  <2> HIDE DEF t
  <2>1. k > 0
    BY <1>5
  <2>2. t[k] = b[k]
    BY <1>3, <1>4, <2>1
  <2> QED
    BY <1>4, <1>5, <2>1, <2>2
<1>7. Normalize(s) = Append(t, Blank)
  BY DEF Normalize, a, b
<1> HIDE DEF t
<1> QED
  BY <1>5, <1>6, <1>7 DEF Ended

LEMMA TrimOfEnded ==
    ASSUME NEW t \in Seq(AllLines), Ended(t)
    PROVE  Trim(t) = t
<1>1. Len(t) \in 0..Len(t) /\ SubSeq(t, 1, Len(t)) = t /\ (Len(t) > 0 => t # <<>>)
  OBVIOUS
<1>2. \A i \in (Len(t) + 1)..Len(t) : t[i] = Blank
  OBVIOUS
<1> QED
  BY <1>1, <1>2, TrimIsUnique DEF Ended

LEMMA EndedIsNormal ==
    ASSUME NEW t \in Seq(AllLines), Ended(t)
    PROVE  Normalize(Append(t, Blank)) = Append(t, Blank)
<1> DEFINE n == Len(t)
           y == Append(t, Blank)
<1>1. /\ y \in Seq(AllLines) /\ Len(y) = n + 1 /\ y[n + 1] = Blank /\ n \in Nat
      /\ SubSeq(y, 1, n) = t /\ (t = <<>> <=> n = 0)
  BY BlankIsBare
<1>2. \A i \in 1..n : y[i] = t[i]
  OBVIOUS
<1>3. \A i \in 0..n : Fences(y)[i] = Fences(t)[i]
  BY FencesOfAppend, BlankIsBare
<1> HIDE DEF y, n
<1>4. \A i \in 1..n : /\ \/ Bare(y[i]) = y[i]
                         \/ ~InText(y, i) /\ ~FenceCloses(y[i], Fences(y)[i - 1])
                      /\ InText(y, i) /\ y[i] = Blank => i > 1 /\ y[i - 1] # Blank
                      /\ InText(y, i) /\ y[i].kind = "heading" =>
                           /\ i = 1 \/ y[i - 1] = Blank
                           /\ y[i + 1] = Blank
  <2> SUFFICES ASSUME NEW i \in 1..n
               PROVE  /\ \/ Bare(y[i]) = y[i]
                         \/ ~InText(y, i) /\ ~FenceCloses(y[i], Fences(y)[i - 1])
                      /\ InText(y, i) /\ y[i] = Blank => i > 1 /\ y[i - 1] # Blank
                      /\ InText(y, i) /\ y[i].kind = "heading" =>
                           /\ i = 1 \/ y[i - 1] = Blank
                           /\ y[i + 1] = Blank
    OBVIOUS
  <2>1. y[i] = t[i] /\ Fences(y)[i - 1] = Fences(t)[i - 1]
    BY <1>1, <1>2, <1>3
  <2>2. i > 1 => y[i - 1] = t[i - 1]
    BY <1>1, <1>2
  <2>3. i < n => y[i + 1] = t[i + 1]
    BY <1>1, <1>2
  <2>4. i = n \/ i < n
    BY <1>1
  <2>5. /\ \/ Bare(t[i]) = t[i]
           \/ ~InText(t, i) /\ ~FenceCloses(t[i], Fences(t)[i - 1])
        /\ InText(t, i) /\ t[i] = Blank => i > 1 /\ t[i - 1] # Blank
        /\ InText(t, i) /\ t[i].kind = "heading" =>
             /\ i = 1 \/ t[i - 1] = Blank
             /\ i < n => t[i + 1] = Blank
    BY DEF Ended, Tidy, n
  <2>6. InText(y, i) <=> InText(t, i)
    BY <2>1 DEF InText
  <2>7. i = 1 \/ i > 1
    BY <1>1
  <2> QED
    BY <1>1, <2>1, <2>2, <2>3, <2>4, <2>5, <2>6, <2>7
<1>5. PassA(y) = y
  <2>1. PassA(y) \in Seq(AllLines) /\ Len(PassA(y)) = Len(y)
    BY <1>1, PassAIs
  <2>2. \A i \in 1..Len(y) : PassA(y)[i] = y[i]
    <3> SUFFICES ASSUME NEW i \in 1..Len(y) PROVE PassA(y)[i] = y[i]
      OBVIOUS
    <3>1. PassA(y)[i] = IF Fences(y)[i - 1] # NoFence /\ ~FenceCloses(y[i], Fences(y)[i - 1])
                        THEN y[i] ELSE Bare(y[i])
      BY <1>1, PassAIs
    <3>2. CASE i \in 1..n
      BY <1>4, <3>1, <3>2 DEF InText
    <3>3. CASE i = n + 1
      BY <1>1, <3>1, <3>3, BlankIsBare
    <3> QED
      BY <1>1, <3>2, <3>3
  <2> QED
    BY <1>1, <2>1, <2>2, SeqEqual
<1>6. PICK out \in [0..Len(y) -> Seq(AllLines)] : IsOutput(out, y) /\ PassB(y) = out[Len(y)]
  BY <1>1, PassBIs
<1> DEFINE Header(i) == i > 0 /\ InText(y, i) /\ y[i].kind = "heading"
           So(i) == IF Header(i) THEN Append(SubSeq(y, 1, i), Blank) ELSE SubSeq(y, 1, i)
           Good == {i \in 0..n : out[i] = So(i)}
<1>7. 0 \in Good
  BY <1>1, <1>6 DEF IsOutput
<1>8. ASSUME NEW i \in 1..n, i - 1 \in Good PROVE i \in Good
  <2> DEFINE before == SubSeq(y, 1, i - 1)
             upto == SubSeq(y, 1, i)
  <2>0. So(i) = IF InText(y, i) /\ y[i].kind = "heading" THEN Append(upto, Blank) ELSE upto
    OBVIOUS
  <2> SUFFICES out[i] = So(i)
    BY <1>1
  <2>1. /\ before \in Seq(AllLines) /\ upto \in Seq(AllLines) /\ upto = Append(before, y[i])
        /\ Len(before) = i - 1 /\ (i > 1 => before[i - 1] = y[i - 1])
        /\ (before = <<>> <=> i = 1)
    <3>1. i \in 1..Len(y) /\ i - 1 \in 0..Len(y) /\ y[i] \in AllLines
      BY <1>1
    <3>2. /\ before \in Seq(AllLines) /\ Len(before) = i - 1
          /\ \A k \in 1..(i - 1) : before[k] = y[k]
      BY <1>1, <3>1
    <3>3. upto \in Seq(AllLines) /\ Len(upto) = i /\ \A k \in 1..i : upto[k] = y[k]
      BY <1>1, <3>1
    <3> HIDE DEF before, upto
    <3>4. Append(before, y[i]) \in Seq(AllLines) /\ Len(Append(before, y[i])) = i
          /\ \A k \in 1..i : Append(before, y[i])[k] = y[k]
      BY <3>1, <3>2
    <3>5. upto = Append(before, y[i])
      BY <3>3, <3>4, SeqEqual
    <3> QED
      BY <3>2, <3>3, <3>5
  <2>2. out[i] = Emit(y[i], Fences(y)[i - 1], out[i - 1])
    BY <1>1, <1>6 DEF IsOutput
  <2>3. out[i - 1] = IF Header(i - 1) THEN Append(before, Blank) ELSE before
    BY <1>8
  <2>4. Header(i - 1) => y[i] = Blank
    BY <1>1, <1>4
  <2> HIDE DEF before, upto, So
  <2>5. CASE InText(y, i) /\ y[i].kind = "heading"
    <3>1. y[i] # Blank /\ ~Header(i - 1)
      BY <2>4, <2>5, BlankIsBare
    <3>2. before = <<>> \/ Last(before) = Blank
      BY <1>1, <1>4, <2>1, <2>5 DEF Last
    <3>3. Gap(before) = <<>> /\ before \o <<>> = before
      BY <2>1, <3>2 DEF Gap
    <3>4. out[i] = before \o <<y[i], Blank>>
      BY <2>2, <2>3, <2>5, <3>1, <3>3 DEF Emit, InText
    <3>5. out[i] = Append(upto, Blank)
      BY <2>1, <3>4, BlankIsBare
    <3> QED
      BY <2>0, <2>5, <3>5
  <2>6. CASE InText(y, i) /\ y[i] = Blank
    <3>1. i > 1 /\ y[i - 1] # Blank /\ before # <<>> /\ Last(before) # Blank
      BY <1>1, <1>4, <2>1, <2>6 DEF Last
    <3>2. out[i] = out[i - 1] \o Gap(out[i - 1])
      BY <2>2, <2>6, BlankIsBare DEF Emit, InText
    <3>3. CASE Header(i - 1)
      <4>1. out[i - 1] = upto
        BY <2>1, <2>3, <2>6, <3>3
      <4>2. Last(upto) = Blank
        BY <1>1, <2>1, <2>6 DEF Last
      <4>3. Gap(upto) = <<>> /\ upto \o <<>> = upto
        BY <2>1, <4>2 DEF Gap
      <4> QED
        BY <2>0, <2>6, <3>2, <4>1, <4>3, BlankIsBare
    <3>4. CASE ~Header(i - 1)
      <4>1. out[i - 1] = before
        BY <2>3, <3>4
      <4>2. Gap(before) = <<Blank>>
        BY <3>1 DEF Gap
      <4>3. out[i] = upto
        BY <2>1, <2>6, <3>2, <4>1, <4>2, BlankIsBare
      <4> QED
        BY <2>0, <2>6, <4>3, BlankIsBare
    <3> QED
      BY <3>3, <3>4
  <2>7. CASE ~(InText(y, i) /\ y[i].kind = "heading") /\ ~(InText(y, i) /\ y[i] = Blank)
    <3>1. out[i] = Append(out[i - 1], y[i])
      BY <2>2, <2>7 DEF Emit, InText
    <3>2. ~Header(i - 1)
      <4> SUFFICES ASSUME Header(i - 1) PROVE FALSE
        OBVIOUS
      <4>1. i - 1 \in 1..n /\ Fences(y)[i - 2] = NoFence /\ y[i - 1].kind = "heading"
        BY <1>1 DEF InText
      <4>2. Fences(y)[i - 1] = FenceAfter(y[i - 1], Fences(y)[i - 2])
        <5>1. i - 1 \in 1..Len(y) /\ (i - 1) - 1 = i - 2
          BY <1>1, <4>1
        <5> QED
          BY <1>1, <5>1, FencesAre
      <4>3. Fences(y)[i - 1] = NoFence
        BY <4>1, <4>2 DEF FenceAfter, IsFence
      <4> QED
        BY <2>4, <2>7, <4>3 DEF InText
    <3> QED
      BY <2>0, <2>1, <2>3, <2>7, <3>1, <3>2
  <2> QED
    BY <2>5, <2>6, <2>7
<1>9. 0..n \subseteq Good
  <2> HIDE DEF Good
  <2> QED
    BY <1>1, <1>7, <1>8, InductionTo
<1>10. out[n] = So(n)
  BY <1>1, <1>9
<1>11. out[n + 1] = Emit(Blank, Fences(y)[n], out[n])
  <2>1. n + 1 \in 1..Len(y) /\ (n + 1) - 1 = n
    BY <1>1
  <2> QED
    BY <1>1, <1>6, <2>1 DEF IsOutput
<1>12. out[n] = IF Header(n) THEN y ELSE t
  BY <1>1, <1>10 DEF y
<1>13. Header(n) => Fences(y)[n] = NoFence /\ n # 0
  <2> SUFFICES ASSUME Header(n) PROVE Fences(y)[n] = NoFence
    BY <1>1
  <2>1. n \in 1..Len(y)
    BY <1>1
  <2> QED
    BY <1>1, <2>1, FencesAre DEF InText, FenceAfter, IsFence
<1> HIDE DEF So
<1>14. PassB(y) = y \/ PassB(y) = t
  <2>1. CASE Fences(y)[n] # NoFence
    <3>1. out[n + 1] = Append(t, Blank)
      BY <1>11, <1>12, <1>13, <2>1 DEF Emit
    <3> QED
      BY <1>1, <1>6, <3>1 DEF y
  <2>2. CASE Fences(y)[n] = NoFence
    <3>1. out[n + 1] = out[n] \o Gap(out[n])
      BY <1>11, <2>2, BlankIsBare DEF Emit
    <3>2. Gap(y) = <<>> /\ y \o <<>> = y
      BY <1>1 DEF Gap, Last
    <3>3. Gap(t) = <<>> \/ Gap(t) = <<Blank>>
      BY DEF Gap
    <3>4. t \o <<>> = t /\ t \o <<Blank>> = Append(t, Blank)
      BY BlankIsBare
    <3> HIDE DEF Header
    <3> QED
      BY <1>1, <1>6, <1>12, <3>1, <3>2, <3>3, <3>4 DEF y
  <2> QED
    BY <2>1, <2>2
<1>15. Trim(y) = t /\ Trim(t) = t
  BY TrimOfAppend, TrimOfEnded DEF y
<1> QED
  BY <1>5, <1>14, <1>15 DEF Normalize, y

---------------------------------------------------------------------------------
(* The code of a text: without lookalikes the fences of the program are those of *)
(* CommonMark.                                                                   *)

Closing(s, i, o) ==
    s[i].kind = "fence" /\ s[i].what = <<s[o].what[1], "">> /\ s[i].n >= s[o].n

OpenerAfter(s, i, o) ==
    IF o # 0 THEN IF Closing(s, i, o) THEN 0 ELSE o
    ELSE IF s[i].kind = "fence" THEN i ELSE 0

LEMMA OpenerIs ==
    ASSUME NEW s \in Seq(AllLines)
    PROVE  /\ Opener(s)[0] = 0
           /\ \A i \in 1..Len(s) : Opener(s)[i] = OpenerAfter(s, i, Opener(s)[i - 1])
<1> DEFINE n == Len(s)
           S == 0..n
           step == [p \in (1..n) \X S |-> OpenerAfter(s, p[1], p[2])]
           Solution(f) == f = [i \in 0..n |-> IF i = 0 THEN 0 ELSE OpenerAfter(s, i, f[i - 1])]
<1>1. n \in Nat /\ 0 \in S
  OBVIOUS
<1>2. step \in [(1..n) \X S -> S]
  BY DEF OpenerAfter
<1>3. PICK f \in [0..n -> S] : Solves(f, n, 0, step)
  <2> HIDE DEF n, S, step
  <2> QED
    BY <1>1, <1>2, RecursionHasSolution, Zenon
<1>4. \A i \in 1..n : f[i] = OpenerAfter(s, i, f[i - 1])
  <2> SUFFICES ASSUME NEW i \in 1..n PROVE f[i] = OpenerAfter(s, i, f[i - 1])
    OBVIOUS
  <2>1. f[i - 1] \in S
    BY <1>1
  <2>2. <<i, f[i - 1]>> \in (1..n) \X S
    BY <2>1
  <2> QED
    BY <1>3, <2>2 DEF Solves
<1>5. Solution(f)
  BY <1>1, <1>3, <1>4 DEF Solves
<1>6. Opener(s) = CHOOSE g : Solution(g)
  BY DEF Opener, OpenerAfter, Closing
<1>7. Solution(Opener(s))
  <2> HIDE DEF Solution
  <2> QED
    BY <1>5, <1>6
<1> QED
  BY <1>1, <1>7

LEMMA OpenerIsFence ==
    ASSUME NEW s \in Seq(AllLines), Unambiguous(s)
    PROVE  \A i \in 0..Len(s) : Opener(s)[i] # 0 <=> Fences(s)[i] # NoFence
<1> DEFINE open == Opener(s)
           fence == Fences(s)
           Agrees(i) == /\ open[i] \in 0..Len(s)
                        /\ open[i] = 0 => fence[i] = NoFence
                        /\ open[i] # 0 => /\ fence[i] = <<s[open[i]].what[1], s[open[i]].n>>
                                          /\ s[open[i]].kind = "fence"
           Good == {i \in 0..Len(s) : Agrees(i)}
<1>1. 0 \in Good
  BY OpenerIs, FencesAre
<1>2. ASSUME NEW i \in 1..Len(s), i - 1 \in Good PROVE i \in Good
  <2>1. open[i] = OpenerAfter(s, i, open[i - 1]) /\ fence[i] = FenceAfter(s[i], fence[i - 1])
    BY OpenerIs, FencesAre
  <2>2. Agrees(i - 1)
    BY <1>2
  <2> HIDE DEF open, fence
  <2>0. IsFence(s[i]) <=> s[i].kind = "fence"
    BY DEF Unambiguous, IsFence
  <2>3. CASE open[i - 1] = 0
    BY <2>0, <2>1, <2>2, <2>3 DEF OpenerAfter, FenceAfter
  <2>4. CASE open[i - 1] # 0
    <3>1. s[open[i - 1]] \in AllLines /\ open[i - 1] \in 1..Len(s)
      BY <2>2, <2>4
    <3>2. s[open[i - 1]].n # 0
      BY <2>2, <2>4, <3>1, LineFacts DEF IsFence
    <3>3. fence[i - 1] # NoFence /\ fence[i - 1][1] = s[open[i - 1]].what[1]
          /\ fence[i - 1][2] = s[open[i - 1]].n
      BY <2>2, <2>4, <3>2 DEF NoFence
    <3>4. FenceCloses(s[i], fence[i - 1]) <=> Closing(s, i, open[i - 1])
      BY <2>0, <3>3 DEF FenceCloses, Closing
    <3> QED
      BY <2>1, <2>2, <2>4, <3>3, <3>4 DEF OpenerAfter, FenceAfter
  <2> QED
    BY <2>3, <2>4
<1>3. Len(s) \in Nat
  OBVIOUS
<1>4. 0..Len(s) \subseteq Good
  <2> HIDE DEF Good
  <2> QED
    BY <1>1, <1>2, <1>3, InductionTo
<1>5. ASSUME NEW i \in 0..Len(s) PROVE open[i] # 0 <=> fence[i] # NoFence
  <2>1. Agrees(i)
    BY <1>4
  <2> HIDE DEF open, fence
  <2>2. open[i] # 0 => s[open[i]] \in AllLines
    BY <2>1
  <2>3. open[i] # 0 => s[open[i]].n # 0
    BY <2>1, <2>2, LineFacts DEF IsFence
  <2> QED
    BY <2>1, <2>3 DEF NoFence
<1> QED
  BY <1>5

Code(s, i) == Fences(s)[i - 1] # NoFence /\ Fences(s)[i] # NoFence

LEMMA InCodeIs ==
    ASSUME NEW s \in Seq(AllLines), Unambiguous(s), NEW i \in 1..Len(s)
    PROVE  InCode(s, i) <=> Code(s, i)
<1>1. i \in 0..Len(s) /\ i - 1 \in 0..Len(s)
  OBVIOUS
<1> QED
  BY <1>1, OpenerIsFence DEF InCode, Code

---------------------------------------------------------------------------------
(* What a reader has read after a line, with the fences of the program *)

Read(line, code, before) ==
    IF code THEN Append(before, line)
    ELSE IF Bare(line) = Blank THEN before
    ELSE Append(before, Bare(line))

OwnReading(lines) ==
    LET read[i \in 0..Len(lines)] ==
            IF i = 0 THEN <<>> ELSE Read(lines[i], Code(lines, i), read[i - 1])
    IN  read[Len(lines)]

IsReading(read, s) ==
    read[0] = <<>> /\ \A i \in 1..Len(s) : read[i] = Read(s[i], Code(s, i), read[i - 1])

LEMMA ReadingIs ==
    ASSUME NEW s \in Seq(AllLines)
    PROVE  \E read \in [0..Len(s) -> Seq(AllLines)] :
              IsReading(read, s) /\ OwnReading(s) = read[Len(s)]
<1> DEFINE n == Len(s)
           S == Seq(AllLines)
           step == [p \in (1..n) \X S |-> Read(s[p[1]], Code(s, p[1]), p[2])]
           Solution(f) == f = [i \in 0..n |-> IF i = 0 THEN <<>>
                                               ELSE Read(s[i], Code(s, i), f[i - 1])]
<1>0. ASSUME NEW i \in 1..n, NEW b \in S PROVE Read(s[i], Code(s, i), b) \in S
  BY LineFacts DEF Read
<1>1. n \in Nat
  OBVIOUS
<1>2. step \in [(1..n) \X S -> S]
  BY <1>0
<1>3. <<>> \in S
  OBVIOUS
<1>4. PICK f \in [0..n -> S] : Solves(f, n, <<>>, step)
  <2> HIDE DEF n, S, step
  <2> QED
    BY <1>1, <1>2, <1>3, RecursionHasSolution, Zenon
<1>5. \A i \in 1..n : f[i] = Read(s[i], Code(s, i), f[i - 1])
  <2> SUFFICES ASSUME NEW i \in 1..n PROVE f[i] = Read(s[i], Code(s, i), f[i - 1])
    OBVIOUS
  <2>1. f[i - 1] \in S
    <3> HIDE DEF S
    <3> QED
      BY <1>1
  <2>2. <<i, f[i - 1]>> \in (1..n) \X S
    BY <2>1
  <2> QED
    BY <1>4, <2>2 DEF Solves
<1>6. Solution(f)
  BY <1>1, <1>4, <1>5 DEF Solves
<1> DEFINE g == CHOOSE h : Solution(h)
<1>7. OwnReading(s) = g[n]
  BY DEF OwnReading
<1>8. Solution(g)
  <2> HIDE DEF Solution
  <2> QED
    BY <1>6
<1>9. g[0] = <<>> /\ \A i \in 1..n : g[i] = Read(s[i], Code(s, i), g[i - 1])
  <2> HIDE DEF g
  <2> QED
    BY <1>1, <1>8
<1>10. g \in [0..n -> S]
  <2> DEFINE Typed == {i \in 0..n : g[i] \in S}
  <2>1. ASSUME NEW i \in 1..n, i - 1 \in Typed PROVE i \in Typed
    <3>1. g[i - 1] \in S
      BY <2>1
    <3>2. g[i] \in S
      BY <1>9, <3>1, <1>0
    <3> HIDE DEF g, S
    <3> QED
      BY <1>1, <3>2
  <2>2. 0 \in Typed
    <3> HIDE DEF g, S
    <3> QED
      BY <1>9, <1>1, <1>3
  <2>3. 0..n \subseteq Typed
    <3> HIDE DEF Typed, n
    <3> QED
      BY <2>1, <2>2, <1>1, InductionTo
  <2>4. g = [i \in 0..n |-> g[i]]
    BY <1>8
  <2> HIDE DEF g, S
  <2> QED
    BY <2>3, <2>4
<1> HIDE DEF g
<1> QED
  BY <1>7, <1>9, <1>10 DEF IsReading

ReadAlike(s, t, k) ==
    \A i \in 1..k : Bare(s[i]) = Bare(t[i]) /\ (Code(s, i) => s[i] = t[i])

LEMMA SameReading ==
    ASSUME NEW s \in Seq(AllLines), NEW t \in Seq(AllLines), NEW k \in 0..Len(s),
           k <= Len(t), ReadAlike(s, t, k)
    PROVE  \A r, q : IsReading(r, s) /\ IsReading(q, t) => r[k] = q[k]
<1> SUFFICES ASSUME NEW r, NEW q, IsReading(r, s), IsReading(q, t) PROVE r[k] = q[k]
  OBVIOUS
<1>0. \A i \in 1..k : Bare(s[i]) = Bare(t[i]) /\ (Code(s, i) => s[i] = t[i])
  BY DEF ReadAlike
<1> DEFINE Same == {i \in 0..k : r[i] = q[i]}
<1>1. 0 \in Same
  BY DEF IsReading
<1>2. ASSUME NEW i \in 1..k, i - 1 \in Same PROVE i \in Same
  <2>1. i \in 1..Len(s) /\ i \in 1..Len(t) /\ i \in 0..k /\ i - 1 \in 0..k
    OBVIOUS
  <2>2. r[i] = Read(s[i], Code(s, i), r[i - 1]) /\ q[i] = Read(t[i], Code(t, i), q[i - 1])
    BY <2>1 DEF IsReading
  <2>3. Code(s, i) <=> Code(t, i)
    BY <1>0, <2>1, SameFences DEF Code
  <2>4. r[i - 1] = q[i - 1]
    BY <1>2
  <2> QED
    BY <1>0, <2>1, <2>2, <2>3, <2>4 DEF Read
<1>3. k \in Nat
  OBVIOUS
<1>4. 0..k \subseteq Same
  <2> HIDE DEF Same
  <2> QED
    BY <1>1, <1>2, <1>3, InductionTo
<1> QED
  BY <1>3, <1>4

LEMMA ReadingOfAppend ==
    ASSUME NEW s \in Seq(AllLines), NEW line \in AllLines, NEW fence, Fences(s)[Len(s)] = fence
    PROVE  /\ OwnReading(s) \in Seq(AllLines)
           /\ OwnReading(Append(s, line))
                = Read(line, fence # NoFence /\ FenceAfter(line, fence) # NoFence, OwnReading(s))
<1> DEFINE t == Append(s, line)
           n == Len(s)
<1>1. t \in Seq(AllLines) /\ Len(t) = n + 1 /\ t[n + 1] = line /\ n \in Nat
  OBVIOUS
<1>2. \A i \in 1..n : t[i] = s[i]
  OBVIOUS
<1>3. Fences(t)[n] = fence /\ Fences(t)[n + 1] = FenceAfter(line, fence)
  BY FencesOfAppend
<1>4. PICK r \in [0..n -> Seq(AllLines)] : IsReading(r, s) /\ OwnReading(s) = r[n]
  BY ReadingIs
<1> HIDE DEF t
<1>5. PICK q \in [0..Len(t) -> Seq(AllLines)] : IsReading(q, t) /\ OwnReading(t) = q[Len(t)]
  BY <1>1, ReadingIs
<1>6. r[n] = q[n]
  <2>1. n \in 0..Len(s) /\ n <= Len(t)
    BY <1>1
  <2> HIDE DEF n
  <2> QED
    <3>1. ReadAlike(s, t, n)
      BY <1>2 DEF ReadAlike
    <3>2. \A f, g : IsReading(f, s) /\ IsReading(g, t) => f[n] = g[n]
      BY <1>1, <2>1, <3>1, SameReading
    <3> QED
      BY <1>4, <1>5, <3>2
<1>7. q[n + 1] = Read(t[n + 1], Code(t, n + 1), q[n])
  <2>1. n + 1 \in 1..Len(t) /\ (n + 1) - 1 = n
    BY <1>1
  <2> HIDE DEF n
  <2> QED
    BY <1>5, <2>1 DEF IsReading
<1>8. Code(t, n + 1) <=> fence # NoFence /\ FenceAfter(line, fence) # NoFence
  <2>1. (n + 1) - 1 = n
    BY <1>1
  <2> HIDE DEF n
  <2> QED
    BY <1>3, <2>1 DEF Code
<1>9. OwnReading(s) \in Seq(AllLines)
  BY <1>1, <1>4
<1> HIDE DEF n
<1>10. OwnReading(t) = Read(line, Code(t, n + 1), OwnReading(s))
  BY <1>1, <1>4, <1>5, <1>6, <1>7
<1> QED
  BY <1>8, <1>9, <1>10 DEF t, Read

LEMMA EmitReads ==
    ASSUME NEW out \in Seq(AllLines), NEW line \in AllLines, NEW fence, Output(out, fence),
           NEW code \in BOOLEAN, code <=> fence # NoFence /\ FenceAfter(line, fence) # NoFence
    PROVE  OwnReading(Emit(line, fence, out)) = Read(line, code, OwnReading(out))
<1>1. Fences(out)[Len(out)] = fence
  BY DEF Output
<1>2. ASSUME NEW s \in Seq(AllLines), Fences(s)[Len(s)] = NoFence
      PROVE  OwnReading(Append(s, Blank)) = OwnReading(s)
  BY <1>2, ReadingOfAppend, BlankIsBare DEF Read, FenceAfter
<1>3. ASSUME fence = NoFence
      PROVE  /\ out \o Gap(out) \in Seq(AllLines)
             /\ Output(out \o Gap(out), NoFence)
             /\ OwnReading(out \o Gap(out)) = OwnReading(out)
  BY <1>1, <1>2, <1>3, GapIsWritten
<1>4. CASE fence = NoFence /\ line.kind = "heading"
  <2> DEFINE g == out \o Gap(out)
             h == Append(g, line)
  <2>1. g \in Seq(AllLines) /\ Output(g, NoFence) /\ OwnReading(g) = OwnReading(out)
    BY <1>3, <1>4
  <2>2. Emit(line, fence, out) = g \o <<line, Blank>>
    BY <1>4, BlankIsBare DEF Emit
  <2> HIDE DEF g
  <2>3. g \o <<line, Blank>> = Append(h, Blank)
    BY <2>1, BlankIsBare
  <2>4. FenceAfter(line, NoFence) = NoFence
    BY <1>4 DEF FenceAfter, IsFence
  <2>5. h \in Seq(AllLines) /\ Len(h) = Len(g) + 1
    <3>1. g \in Seq(AllLines)
      BY <2>1
    <3> QED
      BY <3>1
  <2>6. Fences(h)[Len(h)] = NoFence
    BY <2>1, <2>4, <2>5, FencesOfAppend DEF Output
  <2>7. OwnReading(h) = Read(line, FALSE, OwnReading(out))
    <3>1. Fences(g)[Len(g)] = NoFence
      BY <2>1 DEF Output
    <3> QED
      BY <2>1, <2>4, <3>1, ReadingOfAppend DEF Read
  <2>8. OwnReading(Append(h, Blank)) = OwnReading(h)
    BY <1>2, <2>5, <2>6
  <2> QED
    BY <1>4, <2>2, <2>3, <2>7, <2>8 DEF Read
<1>5. CASE fence = NoFence /\ line = Blank
  <2>1. Emit(line, fence, out) = out \o Gap(out)
    BY <1>5, BlankIsBare DEF Emit
  <2> QED
    BY <1>3, <1>5, <2>1, BlankIsBare DEF Read
<1>6. CASE ~(fence = NoFence /\ line.kind = "heading") /\ ~(fence = NoFence /\ line = Blank)
  <2>1. Emit(line, fence, out) = Append(out, line)
    BY <1>6 DEF Emit
  <2> QED
    BY <1>1, <2>1, ReadingOfAppend DEF Read
<1> QED
  BY <1>4, <1>5, <1>6

(* What is read of a text is read of what pass B makes of it. *)
LEMMA PassBReads ==
    ASSUME NEW s \in Seq(AllLines),
           \A i \in 1..Len(s) : \/ Bare(s[i]) = s[i]
                                \/ ~InText(s, i) /\ ~FenceCloses(s[i], Fences(s)[i - 1])
    PROVE  OwnReading(PassB(s)) = OwnReading(s)
<1>1. PICK out \in [0..Len(s) -> Seq(AllLines)] : IsOutput(out, s) /\ PassB(s) = out[Len(s)]
  BY PassBIs
<1>2. PICK r \in [0..Len(s) -> Seq(AllLines)] : IsReading(r, s) /\ OwnReading(s) = r[Len(s)]
  BY ReadingIs
<1> DEFINE Good == {i \in 0..Len(s) : Output(out[i], Fences(s)[i]) /\ OwnReading(out[i]) = r[i]}
<1>3. 0 \in Good
  <2>1. out[0] = <<>> /\ Fences(s)[0] = NoFence /\ r[0] = <<>>
    BY <1>1, <1>2, FencesAre DEF IsOutput, IsReading
  <2>2. OwnReading(<<>>) = <<>>
    <3>1. <<>> \in Seq(AllLines) /\ Len(<<>>) = 0
      OBVIOUS
    <3> QED
      BY <3>1, ReadingIs DEF IsReading
  <2> QED
    BY <2>1, <2>2, EmptyIsWritten
<1>4. ASSUME NEW i \in 1..Len(s), i - 1 \in Good PROVE i \in Good
  <2>1. out[i] = Emit(s[i], Fences(s)[i - 1], out[i - 1])
    BY <1>1 DEF IsOutput
  <2>2. out[i - 1] \in Seq(AllLines) /\ s[i] \in AllLines
    BY <1>1
  <2>3. Output(out[i - 1], Fences(s)[i - 1]) /\ OwnReading(out[i - 1]) = r[i - 1]
    BY <1>4
  <2>4. Fences(s)[i] = FenceAfter(s[i], Fences(s)[i - 1])
    BY FencesAre
  <2>5. Bare(s[i]) = s[i] \/ (Fences(s)[i - 1] # NoFence /\ ~FenceCloses(s[i], Fences(s)[i - 1]))
    BY DEF InText
  <2>6. Output(out[i], Fences(s)[i])
    BY <2>1, <2>2, <2>3, <2>4, <2>5, EmitIsWritten
  <2>7. r[i] = Read(s[i], Code(s, i), r[i - 1])
    BY <1>2 DEF IsReading
  <2>8. OwnReading(out[i]) = r[i]
    <3>1. /\ Code(s, i) \in BOOLEAN
          /\ Code(s, i) <=> /\ Fences(s)[i - 1] # NoFence
                             /\ FenceAfter(s[i], Fences(s)[i - 1]) # NoFence
      BY <2>4 DEF Code
    <3> QED
      BY <2>1, <2>2, <2>3, <2>7, <3>1, EmitReads
  <2> QED
    BY <2>6, <2>8
<1>5. Len(s) \in Nat
  OBVIOUS
<1>6. 0..Len(s) \subseteq Good
  <2> HIDE DEF Good
  <2> QED
    BY <1>3, <1>4, <1>5, InductionTo
<1>7. OwnReading(out[Len(s)]) = r[Len(s)]
  BY <1>5, <1>6
<1> QED
  BY <1>1, <1>2, <1>7

LEMMA PassAReads ==
    ASSUME NEW s \in Seq(AllLines)
    PROVE  OwnReading(PassA(s)) = OwnReading(s)
<1> DEFINE a == PassA(s)
           n == Len(s)
<1>1. a \in Seq(AllLines) /\ Len(a) = n /\ n \in Nat
  BY PassAIs
<1>2. ReadAlike(s, a, n)
  <2> SUFFICES ASSUME NEW i \in 1..n PROVE Bare(s[i]) = Bare(a[i]) /\ (Code(s, i) => s[i] = a[i])
    BY DEF ReadAlike
  <2>1. a[i] = IF Fences(s)[i - 1] # NoFence /\ ~FenceCloses(s[i], Fences(s)[i - 1])
               THEN s[i] ELSE Bare(s[i])
    BY PassAIs
  <2>2. Bare(Bare(s[i])) = Bare(s[i])
    BY LineFacts
  <2>3. Code(s, i) => ~FenceCloses(s[i], Fences(s)[i - 1])
    BY FencesAre DEF Code, FenceAfter
  <2> HIDE DEF a
  <2> QED
    BY <2>1, <2>2, <2>3 DEF Code
<1>3. PICK r \in [0..n -> Seq(AllLines)] : IsReading(r, s) /\ OwnReading(s) = r[n]
  BY ReadingIs
<1> HIDE DEF a
<1>4. PICK q \in [0..Len(a) -> Seq(AllLines)] : IsReading(q, a) /\ OwnReading(a) = q[Len(a)]
  BY <1>1, ReadingIs
<1>5. n \in 0..Len(s) /\ n <= Len(a)
  BY <1>1
<1> HIDE DEF n
<1>6. r[n] = q[n]
  <2>1. \A f, g : IsReading(f, s) /\ IsReading(g, a) => f[n] = g[n]
    BY <1>1, <1>2, <1>5, SameReading
  <2> QED
    BY <1>3, <1>4, <2>1
<1> QED
  BY <1>1, <1>3, <1>4, <1>6 DEF a

(* Empty lines at the end are read as nothing, or in code that is not closed as what   *)
(* is taken away from the end of what was read.                                        *)
LEMMA BlankAtEnd ==
    ASSUME NEW s \in Seq(AllLines)
    PROVE  Trim(OwnReading(Append(s, Blank))) = Trim(OwnReading(s))
<1> DEFINE fence == Fences(s)[Len(s)]
<1>1. /\ OwnReading(s) \in Seq(AllLines)
      /\ \/ OwnReading(Append(s, Blank)) = OwnReading(s)
         \/ OwnReading(Append(s, Blank)) = Append(OwnReading(s), Blank)
  BY ReadingOfAppend, BlankIsBare DEF Read
<1> QED
  BY <1>1, TrimOfAppend

LEMMA TrimReads ==
    ASSUME NEW s \in Seq(AllLines)
    PROVE  Trim(OwnReading(Trim(s))) = Trim(OwnReading(s))
<1>1. PICK k \in 0..Len(s) : /\ Trim(s) = SubSeq(s, 1, k)
                             /\ k > 0 => s[k] # Blank
                             /\ \A i \in (k + 1)..Len(s) : s[i] = Blank
  BY TrimIs
<1> DEFINE n == Len(s) - k
           Prefix(i) == SubSeq(s, 1, k + i)
           Good == {i \in 0..n : Trim(OwnReading(Prefix(i))) = Trim(OwnReading(Trim(s)))}
<1>2. n \in Nat /\ k \in Nat
  OBVIOUS
<1>3. 0 \in Good
  BY <1>1, <1>2
<1>4. ASSUME NEW i \in 1..n, i - 1 \in Good PROVE i \in Good
  <2>1. /\ Prefix(i - 1) \in Seq(AllLines) /\ Prefix(i) \in Seq(AllLines)
        /\ Len(Prefix(i - 1)) = k + i - 1 /\ Len(Prefix(i)) = k + i
        /\ \A l \in 1..(k + i - 1) : Prefix(i - 1)[l] = s[l]
        /\ \A l \in 1..(k + i) : Prefix(i)[l] = s[l]
    BY <1>2
  <2>2. s[k + i] = Blank
    BY <1>1, <1>2
  <2> DEFINE p == Prefix(i - 1)
             q == Prefix(i)
  <2> HIDE DEF p, q
  <2>3. q = Append(p, Blank)
    <3>1. p \in Seq(AllLines) /\ q \in Seq(AllLines) /\ Len(p) = k + i - 1 /\ Len(q) = k + i
      BY <2>1 DEF p, q
    <3>2. Append(p, Blank) \in Seq(AllLines) /\ Len(Append(p, Blank)) = k + i
      BY <3>1, BlankIsBare, <1>2
    <3>3. \A l \in 1..(k + i) : Append(p, Blank)[l] = q[l]
      <4>1. \A l \in 1..(k + i - 1) : p[l] = s[l]
        BY <2>1 DEF p
      <4>2. \A l \in 1..(k + i) : q[l] = s[l]
        BY <2>1 DEF q
      <4> QED
        BY <1>2, <2>2, <3>1, <4>1, <4>2
    <3> QED
      BY <3>1, <3>2, <3>3, SeqEqual
  <2>4. Trim(OwnReading(q)) = Trim(OwnReading(p))
    BY <2>1, <2>3, BlankAtEnd DEF p
  <2> QED
    BY <1>4, <2>4 DEF p, q
<1>5. 0..n \subseteq Good
  <2> HIDE DEF Good, n
  <2> QED
    BY <1>2, <1>3, <1>4, InductionTo
<1>6. n \in Good
  <2> HIDE DEF Good, n
  <2> QED
    BY <1>2, <1>5
<1>7. Prefix(n) = s
  BY <1>2
<1> QED
  BY <1>6, <1>7

(* Without lookalikes that is what a reader sees. *)
LEMMA ReadingIsOwn ==
    ASSUME NEW s \in Seq(AllLines), Unambiguous(s)
    PROVE  Reading(s) = OwnReading(s)
<1> DEFINE n == Len(s)
           Seen(f) == f = [i \in 0..n |-> IF i = 0 THEN <<>>
                                           ELSE Read(s[i], InCode(s, i), f[i - 1])]
           Own(f) == f = [i \in 0..n |-> IF i = 0 THEN <<>>
                                          ELSE Read(s[i], Code(s, i), f[i - 1])]
<1>1. ASSUME NEW f PROVE Seen(f) <=> Own(f)
  <2>1. \A i \in 1..n : Read(s[i], InCode(s, i), f[i - 1]) = Read(s[i], Code(s, i), f[i - 1])
    BY InCodeIs DEF Read
  <2> QED
    BY <2>1
<1>2. Reading(s) = (CHOOSE f : Seen(f))[n]
  BY DEF Reading, Read
<1>3. OwnReading(s) = (CHOOSE f : Own(f))[n]
  BY DEF OwnReading
<1>4. (CHOOSE f : Seen(f)) = (CHOOSE f : Own(f))
  <2> HIDE DEF Seen, Own
  <2> QED
    BY <1>1, Zenon
<1> QED
  BY <1>2, <1>3, <1>4

(* Normalising leaves the kinds of lines as they are. *)
LEMMA LinesAreKept ==
    ASSUME NEW s \in Seq(AllLines), Unambiguous(s)
    PROVE  Unambiguous(Normalize(s))
<1> DEFINE L == {line \in AllLines : line.kind # "lookalike"}
           a == PassA(s)
<1>1. L \subseteq AllLines /\ Blank \in L
  BY BlankIsBare
<1>2. a \in Seq(AllLines) /\ \A i \in 1..Len(a) : a[i] \in L
  <2>1. a \in Seq(AllLines) /\ Len(a) = Len(s)
    BY PassAIs
  <2>2. ASSUME NEW i \in 1..Len(s) PROVE a[i] \in L
    <3>1. a[i] \in {s[i], Bare(s[i])}
      BY PassAIs
    <3>2. s[i] \in AllLines /\ s[i].kind # "lookalike"
      BY DEF Unambiguous
    <3> HIDE DEF a
    <3> QED
      BY <3>1, <3>2, LineFacts
  <2> QED
    BY <2>1, <2>2
<1> HIDE DEF a, L
<1>3. PassB(a) \in Seq(L)
  <2>1. PICK out \in [0..Len(a) -> Seq(AllLines)] : IsOutput(out, a) /\ PassB(a) = out[Len(a)]
    BY <1>2, PassBIs
  <2> DEFINE Good == {i \in 0..Len(a) : out[i] \in Seq(L)}
  <2>2. 0 \in Good
    <3>1. <<>> \in Seq(L)
      OBVIOUS
    <3>2. out[0] = <<>> /\ 0 \in 0..Len(a)
      BY <1>2, <2>1 DEF IsOutput
    <3> QED
      BY <3>1, <3>2
  <2>3. ASSUME NEW i \in 1..Len(a), i - 1 \in Good PROVE i \in Good
    <3>1. out[i] = Emit(a[i], Fences(a)[i - 1], out[i - 1])
      BY <2>1 DEF IsOutput
    <3>2. out[i - 1] \in Seq(L) /\ a[i] \in L
      BY <1>2, <2>3
    <3> QED
      BY <1>1, <3>1, <3>2, EmitIsText
  <2>4. Len(a) \in Nat
    BY <1>2
  <2>5. 0..Len(a) \subseteq Good
    <3> HIDE DEF Good
    <3> QED
      BY <2>2, <2>3, <2>4, InductionTo
  <2> QED
    BY <2>1, <2>4, <2>5
<1> DEFINE b == PassB(a)
<1>4. \A i \in 1..Len(b) : b[i] \in L
  BY <1>3
<1>5. b \in Seq(AllLines)
  BY <1>2, PassBIs
<1> HIDE DEF b
<1>6. PICK k \in 0..Len(b) : Trim(b) = SubSeq(b, 1, k)
  BY <1>5, TrimIs
<1>7. Trim(b) \in Seq(AllLines) /\ Len(Trim(b)) = k /\ \A i \in 1..k : Trim(b)[i] = b[i]
  BY <1>5, <1>6
<1>8. Normalize(s) = Append(Trim(b), Blank)
  BY DEF Normalize, a, b
<1>9. \A i \in 1..(k + 1) : Append(Trim(b), Blank)[i] \in L
  BY <1>1, <1>4, <1>5, <1>7
<1>10. DOMAIN Append(Trim(b), Blank) = 1..(k + 1)
  BY <1>7
<1> QED
  BY <1>8, <1>9, <1>10 DEF Unambiguous, L

---------------------------------------------------------------------------------
(* Names of sections *)

LEMMA NoneIs ==
    ASSUME NEW T
    PROVE  <<>> \in Seq(T) /\ Len(<<>>) = 0
  OBVIOUS

LEMMA SingleIs ==
    ASSUME NEW T, NEW x \in T
    PROVE  <<x>> \in Seq(T) /\ Len(<<x>>) = 1
  OBVIOUS

LEMMA AppendedIs ==
    ASSUME NEW T, NEW s \in Seq(T), NEW x \in T
    PROVE  /\ Append(s, x) \in Seq(T) /\ Len(Append(s, x)) = Len(s) + 1
           /\ \A k \in 1..(Len(s) + 1) : Append(s, x)[k] = IF k = Len(s) + 1 THEN x ELSE s[k]
  OBVIOUS

PlainNames == {name \in Seq(Nat) : \A i \in 1..Len(name) : name[i] # Underscore}

LEMMA PlainIs ==
    ASSUME NEW name
    PROVE  name \in PlainNames <=> /\ name \in Seq(Nat)
                                   /\ \A i \in 1..Len(name) : name[i] # Underscore
  BY Zenon DEF PlainNames

LEMMA PlainGrows ==
    ASSUME NEW name \in PlainNames, NEW x \in Nat, x # Underscore
    PROVE  Append(name, x) \in PlainNames
<1>1. name \in Seq(Nat) /\ \A i \in 1..Len(name) : name[i] # Underscore
  BY PlainIs
<1>2. Append(name, x) \in Seq(Nat) /\ Len(Append(name, x)) = Len(name) + 1
      /\ \A k \in 1..(Len(name) + 1) : Append(name, x)[k]
                                          = IF k = Len(name) + 1 THEN x ELSE name[k]
  BY <1>1, AppendedIs
<1>3. \A k \in 1..(Len(name) + 1) : k # Len(name) + 1 => k \in 1..Len(name)
  BY <1>1
<1>4. \A k \in 1..(Len(name) + 1) : Append(name, x)[k] # Underscore
  BY <1>1, <1>2, <1>3
<1> QED
  BY <1>2, <1>4, PlainIs

LEMMA NoneIsPlain == <<>> \in PlainNames
<1>1. <<>> \in Seq(Nat) /\ Len(<<>>) = 0
  BY NoneIs
<1>2. \A i \in 1..0 : <<>>[i] # Underscore
  OBVIOUS
<1> QED
  BY <1>1, <1>2, PlainIs

LEMMA SectionIsPlain == Section \in PlainNames
<1>1. /\ Section \in Seq(Nat) /\ Len(Section) = 7
      /\ Section[1] = 115 /\ Section[2] = 101 /\ Section[3] = 99 /\ Section[4] = 116
      /\ Section[5] = 105 /\ Section[6] = 111 /\ Section[7] = 110
  BY DEF Section
<1>2. \A i \in 1..7 : i = 1 \/ i = 2 \/ i = 3 \/ i = 4 \/ i = 5 \/ i = 6 \/ i = 7
  OBVIOUS
<1>3. \A i \in 1..Len(Section) : Section[i] # Underscore
  BY <1>1, <1>2 DEF Underscore
<1> QED
  BY <1>1, <1>3, PlainIs

Keep(title, i, before) == IF title[i] = Underscore THEN before ELSE Append(before, title[i])

(* A slug has no underscore, whatever the title. *)
LEMMA SlugIs ==
    ASSUME NEW title \in Seq(Nat)
    PROVE  Slugify(title) \in PlainNames
<1> DEFINE n == Len(title)
           step == [p \in (1..n) \X PlainNames |-> Keep(title, p[1], p[2])]
           Solution(f) == f = [i \in 0..n |-> IF i = 0 THEN <<>> ELSE Keep(title, i, f[i - 1])]
<1>0. ASSUME NEW i \in 1..n, NEW b \in PlainNames PROVE Keep(title, i, b) \in PlainNames
  <2>1. title[i] \in Nat
    OBVIOUS
  <2>2. CASE title[i] = Underscore
    BY <2>2 DEF Keep
  <2>3. CASE title[i] # Underscore
    BY <2>1, <2>3, PlainGrows DEF Keep
  <2> QED
    BY <2>2, <2>3
<1>1. n \in Nat
  OBVIOUS
<1>2. step \in [(1..n) \X PlainNames -> PlainNames]
  BY <1>0
<1>3. <<>> \in PlainNames
  BY NoneIsPlain
<1>4. PICK f \in [0..n -> PlainNames] : Solves(f, n, <<>>, step)
  <2> HIDE DEF n, step
  <2> QED
    BY <1>1, <1>2, <1>3, RecursionHasSolution, Zenon
<1>5. \A i \in 1..n : f[i] = Keep(title, i, f[i - 1])
  <2> SUFFICES ASSUME NEW i \in 1..n PROVE f[i] = Keep(title, i, f[i - 1])
    OBVIOUS
  <2>1. f[i - 1] \in PlainNames
    BY <1>1
  <2>2. <<i, f[i - 1]>> \in (1..n) \X PlainNames
    BY <2>1
  <2> QED
    BY <1>4, <2>2 DEF Solves
<1>6. Solution(f)
  BY <1>1, <1>4, <1>5 DEF Solves
<1> DEFINE g == CHOOSE h : Solution(h)
<1>7. Slugify(title) = IF g[n] = <<>> THEN Section ELSE g[n]
  BY DEF Slugify, Keep
<1>8. Solution(g)
  <2> HIDE DEF Solution
  <2> QED
    BY <1>6
<1>9. g[0] = <<>> /\ \A i \in 1..n : g[i] = Keep(title, i, g[i - 1])
  <2> HIDE DEF g
  <2>1. g = [i \in 0..n |-> IF i = 0 THEN <<>> ELSE Keep(title, i, g[i - 1])]
    BY <1>8
  <2>2. 0 \in 0..n /\ \A i \in 1..n : i \in 0..n /\ i # 0
    BY <1>1
  <2> HIDE DEF Solution, n
  <2> QED
    BY ONLY <2>1, <2>2
<1>10. g[n] \in PlainNames
  <2> DEFINE Typed == {i \in 0..n : g[i] \in PlainNames}
  <2> HIDE DEF g
  <2>1. ASSUME NEW i \in 1..n, i - 1 \in Typed PROVE i \in Typed
    BY <1>0, <1>1, <1>9, <2>1
  <2>2. 0 \in Typed
    BY <1>9, <1>1, <1>3
  <2>3. 0..n \subseteq Typed
    <3> HIDE DEF Typed, n
    <3> QED
      BY <2>1, <2>2, <1>1, InductionTo
  <2> QED
    BY <1>1, <2>3
<1> HIDE DEF g
<1> QED
  BY <1>7, <1>10, SectionIsPlain

Suffixed(base, x, number) == base \o <<x, x, number>>
Numbered(base, number) == IF number = 1 THEN base ELSE Suffixed(base, Underscore, Digits(number))

LEMMA SuffixIs ==
    ASSUME NEW b \in Seq(Nat), NEW x \in Nat, NEW m \in Nat
    PROVE  /\ Len(Suffixed(b, x, m)) = Len(b) + 3
           /\ \A i \in 1..Len(b) : Suffixed(b, x, m)[i] = b[i]
           /\ Suffixed(b, x, m)[Len(b) + 1] = x
           /\ Suffixed(b, x, m)[Len(b) + 3] = m
<1> DEFINE t == <<x, x, m>>
<1>1. t \in Seq(Nat) /\ Len(t) = 3 /\ t[1] = x /\ t[3] = m
  OBVIOUS
<1> HIDE DEF t
<1>2. Len(b) \in Nat
  OBVIOUS
<1>3. /\ Len(b \o t) = Len(b) + 3
      /\ \A i \in 1..(Len(b) + 3) : (b \o t)[i] = IF i <= Len(b) THEN b[i] ELSE t[i - Len(b)]
  <2>1. /\ Len(b \o t) = Len(b) + Len(t)
        /\ \A i \in 1..(Len(b) + Len(t)) :
              (b \o t)[i] = IF i <= Len(b) THEN b[i] ELSE t[i - Len(b)]
    BY <1>1, ConcatProperties
  <2> QED
    BY <1>1, <2>1
<1>4. /\ Len(b) + 1 \in 1..(Len(b) + 3) /\ ~(Len(b) + 1 <= Len(b)) /\ Len(b) + 1 - Len(b) = 1
      /\ Len(b) + 3 \in 1..(Len(b) + 3) /\ ~(Len(b) + 3 <= Len(b)) /\ Len(b) + 3 - Len(b) = 3
   BY <1>2
<1>5. \A i \in 1..Len(b) : i \in 1..(Len(b) + 3) /\ i <= Len(b)
   BY <1>2
<1>6. \A i \in 1..Len(b) : (b \o t)[i] = b[i]
  BY <1>3, <1>5
<1>7. (b \o t)[Len(b) + 1] = x /\ (b \o t)[Len(b) + 3] = m
  BY <1>1, <1>3, <1>4
<1> QED
   BY <1>3, <1>6, <1>7 DEF t, Suffixed

LEMMA PlainIsNotSuffixed ==
    ASSUME NEW b \in PlainNames, NEW c \in PlainNames, NEW n \in Nat
    PROVE  b # Suffixed(c, Underscore, n)
<1>1. c \in Seq(Nat) /\ b \in Seq(Nat)
  BY PlainIs
<1>2. Underscore \in Nat
  BY DEF Underscore
<1>3. Len(Suffixed(c, Underscore, n)) = Len(c) + 3 /\ Suffixed(c, Underscore, n)[Len(c) + 1] = Underscore
  BY <1>1, <1>2, SuffixIs
<1>4. SUFFICES ASSUME b = Suffixed(c, Underscore, n) PROVE FALSE
  OBVIOUS
<1>5. Len(b) = Len(c) + 3 /\ b[Len(c) + 1] = Underscore /\ Len(c) \in Nat
  BY <1>1, <1>3, <1>4
<1>6. Len(c) + 1 \in 1..Len(b)
  BY <1>5
<1> QED
  BY <1>5, <1>6, PlainIs

LEMMA SuffixedDiffer ==
    ASSUME NEW b \in PlainNames, NEW m \in Nat, NEW c \in PlainNames, NEW n \in Nat,
           Suffixed(b, Underscore, m) = Suffixed(c, Underscore, n)
    PROVE  b = c /\ m = n
<1> DEFINE B == Suffixed(b, Underscore, m)
           C == Suffixed(c, Underscore, n)
<1>1. b \in Seq(Nat) /\ c \in Seq(Nat)
  BY PlainIs
<1>2. Underscore \in Nat
  BY DEF Underscore
<1>3. /\ Len(B) = Len(b) + 3 /\ \A i \in 1..Len(b) : B[i] = b[i]
      /\ B[Len(b) + 3] = m
  BY <1>1, <1>2, SuffixIs
<1>4. /\ Len(C) = Len(c) + 3 /\ \A i \in 1..Len(c) : C[i] = c[i]
      /\ C[Len(c) + 3] = n
  BY <1>1, <1>2, SuffixIs
<1>5. B = C
  OBVIOUS
<1> HIDE DEF B, C
<1>6. Len(b) \in Nat /\ Len(c) \in Nat
  BY <1>1
<1>7. Len(b) = Len(c)
  BY <1>3, <1>4, <1>5, <1>6
<1>8. \A i \in 1..Len(b) : b[i] = c[i]
  BY <1>3, <1>4, <1>5, <1>7
<1>9. m = n
  BY <1>3, <1>4, <1>5, <1>7
<1> QED
  BY <1>1, <1>7, <1>8, <1>9, SeqEqual

(* The suffix of a slug cannot be taken for a part of the title. *)
LEMMA NumberedDiffer ==
    ASSUME NEW b \in PlainNames, NEW m \in Nat, NEW c \in PlainNames, NEW n \in Nat,
           Numbered(b, m) = Numbered(c, n)
    PROVE  b = c /\ m = n
<1>0. Digits(m) \in Nat /\ Digits(n) \in Nat /\ (Digits(m) = Digits(n) => m = n)
  BY DEF Digits
<1>1. CASE m = 1 /\ n = 1
  BY <1>1 DEF Numbered
<1>2. CASE m = 1 /\ n # 1
  BY <1>0, <1>2, PlainIsNotSuffixed DEF Numbered
<1>3. CASE m # 1 /\ n = 1
  BY <1>0, <1>3, PlainIsNotSuffixed DEF Numbered
<1>4. CASE m # 1 /\ n # 1
  BY <1>0, <1>4, SuffixedDiffer DEF Numbered
<1> QED
  BY <1>1, <1>2, <1>3, <1>4

LEMMA GreatestUpTo ==
    ASSUME NEW n \in Nat, NEW S \in SUBSET (0..n), S # {}
    PROVE  \E k \in S : \A i \in S : k >= i
<1> DEFINE above == {n - i : i \in S}
<1>1. above \in SUBSET Nat /\ above # {}
  <2>1. ASSUME NEW i \in S PROVE n - i \in Nat
    <3>1. i \in 0..n
      OBVIOUS
    <3> QED
      BY <3>1
  <2> QED
    BY <2>1
<1>2. PICK m \in above : \A l \in above : m <= l
  <2> HIDE DEF above
  <2> QED
    BY <1>1, LeastNumber
<1>3. PICK k \in S : m = n - k
  BY <1>2
<1>4. \A i \in S : n - i \in above
  OBVIOUS
<1> HIDE DEF above
<1>5. ASSUME NEW i \in S PROVE k >= i
  <2>1. m <= n - i
    BY <1>2, <1>4
  <2>2. i \in 0..n /\ k \in 0..n
    OBVIOUS
  <2> QED
    BY <1>3, <2>1, <2>2
<1> QED
  BY <1>5

Numbering(s, i) ==
    Cardinality({k \in Headers(s) : k <= i /\ Slugify(s[k].what) = Slugify(s[i].what)})

LEMMA AnchorsAre ==
    ASSUME NEW s \in Seq(AllLines)
    PROVE  /\ Headers(s) \subseteq 1..Len(s)
           /\ DOMAIN Anchors(s) = Headers(s)
           /\ \A i \in Headers(s) :
                 /\ s[i].kind = "heading" /\ Fences(s)[i - 1] = NoFence
                 /\ Anchors(s)[i].slug = Numbered(Slugify(s[i].what), Numbering(s, i))
                 /\ Anchors(s)[i].last \in i..Len(s)
                 /\ \A k \in Headers(s) : k > i => Anchors(s)[i].last < k
                 /\ Anchors(s)[i].last = Len(s) \/ Anchors(s)[i].last + 1 \in Headers(s)
<1>1. Headers(s) \subseteq 1..Len(s) /\ Len(s) \in Nat
  BY DEF Headers
<1>2. DOMAIN Anchors(s) = Headers(s)
  BY DEF Anchors
<1>3. ASSUME NEW i \in Headers(s)
      PROVE  /\ s[i].kind = "heading" /\ Fences(s)[i - 1] = NoFence
             /\ Anchors(s)[i].slug = Numbered(Slugify(s[i].what), Numbering(s, i))
             /\ Anchors(s)[i].last \in i..Len(s)
             /\ \A k \in Headers(s) : k > i => Anchors(s)[i].last < k
             /\ Anchors(s)[i].last = Len(s) \/ Anchors(s)[i].last + 1 \in Headers(s)
  <2> DEFINE ends == {k - 1 : k \in {k \in Headers(s) : k > i}} \cup {Len(s)}
             last == Anchors(s)[i].last
  <2>1. s[i].kind = "heading" /\ Fences(s)[i - 1] = NoFence
    BY DEF Headers
  <2>2. Anchors(s)[i].slug = Numbered(Slugify(s[i].what), Numbering(s, i))
    <3>1. {k \in Headers(s) : k <= i /\ [l \in Headers(s) |-> Slugify(s[l].what)][k]
                                         = [l \in Headers(s) |-> Slugify(s[l].what)][i]}
            = {k \in Headers(s) : k <= i /\ Slugify(s[k].what) = Slugify(s[i].what)}
      OBVIOUS
    <3> QED
      BY <3>1 DEF Anchors, Numbering, Numbered, Suffixed
  <2>3. last = Min(ends)
    BY DEF Anchors
  <2>4. ends \in SUBSET Nat /\ ends # {} /\ \A e \in ends : e \in i..Len(s)
    BY <1>1
  <2>5. \E e \in ends : \A d \in ends : e <= d
    <3> HIDE DEF ends
    <3> QED
      BY <2>4, LeastNumber
  <2>6. last \in ends /\ \A d \in ends : last <= d
    <3> HIDE DEF ends, last
    <3> QED
      BY <2>3, <2>5 DEF Min
  <2> HIDE DEF last
  <2>7. last \in i..Len(s)
    BY <2>4, <2>6
  <2>8. \A k \in Headers(s) : k > i => last < k
    <3> SUFFICES ASSUME NEW k \in Headers(s), k > i PROVE last < k
      OBVIOUS
    <3>1. k - 1 \in ends
      OBVIOUS
    <3>2. k \in 1..Len(s) /\ i \in 1..Len(s)
      BY <1>1
    <3> HIDE DEF ends
    <3> QED
      BY <1>1, <2>6, <2>7, <3>1, <3>2
  <2>9. last = Len(s) \/ last + 1 \in Headers(s)
    <3>1. CASE last = Len(s)
      BY <3>1
    <3>2. CASE last # Len(s)
      <4>1. PICK k \in Headers(s) : last = k - 1
        BY <2>6, <3>2
      <4>2. k \in 1..Len(s)
        BY <1>1
      <4> QED
        BY <1>1, <4>1, <4>2
    <3> QED
      BY <3>1, <3>2
  <2> QED
    BY <2>1, <2>2, <2>7, <2>8, <2>9 DEF last
<1> QED
  BY <1>1, <1>2, <1>3

(* No two sections of a text have the same name. *)
LEMMA SlugsAreUnique ==
    ASSUME NEW s \in Seq(AllLines), NEW i \in Headers(s), NEW k \in Headers(s),
           Anchors(s)[i].slug = Anchors(s)[k].slug
    PROVE  i = k
<1> DEFINE Base(l) == Slugify(s[l].what)
           With(l) == {h \in Headers(s) : h <= l /\ Base(h) = Base(l)}
<1>1. Headers(s) \subseteq 1..Len(s) /\ Len(s) \in Nat
  BY AnchorsAre
<1>2. ASSUME NEW l \in Headers(s)
      PROVE  /\ Base(l) \in PlainNames
             /\ IsFiniteSet(With(l)) /\ Numbering(s, l) = Cardinality(With(l))
             /\ Numbering(s, l) \in Nat
  <2>1. s[l] \in AllLines /\ s[l].kind = "heading"
    BY <1>1, AnchorsAre
  <2>2. s[l].what \in Seq(Nat)
    BY <2>1, LineFacts
  <2>3. IsFiniteSet(1..Len(s)) /\ With(l) \subseteq 1..Len(s)
    BY <1>1, FS_Interval
  <2>4. IsFiniteSet(With(l))
    BY <2>3, FS_Subset
  <2>5. Numbering(s, l) = Cardinality(With(l))
    BY DEF Numbering
  <2> HIDE DEF With
  <2> QED
    BY <2>2, <2>4, <2>5, SlugIs, FS_CardinalityType
<1>3. Base(i) = Base(k) /\ Numbering(s, i) = Numbering(s, k)
  <2>1. Numbered(Base(i), Numbering(s, i)) = Numbered(Base(k), Numbering(s, k))
    BY AnchorsAre
  <2> HIDE DEF Base, With
  <2> QED
    BY <1>2, <2>1, NumberedDiffer
<1>4. ASSUME NEW g \in Headers(s), NEW h \in Headers(s), g < h, Base(g) = Base(h)
      PROVE  Numbering(s, g) # Numbering(s, h)
  <2>1. g \in 1..Len(s) /\ h \in 1..Len(s)
    BY <1>1
  <2>2. With(g) \subseteq With(h)
    BY <1>1, <1>4, <2>1
  <2>3. h \in With(h) /\ h \notin With(g)
    BY <1>4, <2>1
  <2> HIDE DEF With
  <2>4. Cardinality(With(g)) # Cardinality(With(h))
    BY <1>2, <2>2, <2>3, FS_Subset
  <2> QED
    BY <1>2, <2>4
<1>5. i \in 1..Len(s) /\ k \in 1..Len(s)
  BY <1>1
<1> QED
  BY <1>3, <1>4, <1>5

(* From the first heading on every line is in exactly one chunk. *)
LEMMA ChunksPartition ==
    ASSUME NEW s \in Seq(AllLines), NEW line \in 1..Len(s), \E i \in Headers(s) : i <= line
    PROVE  \E c \in Chunks(s) : \A d \in Chunks(s) : (line \in d[1]..d[2]) <=> d = c
<1> DEFINE End(i) == Anchors(s)[i].last
           above == {i \in Headers(s) : i <= line}
<1>1. Headers(s) \subseteq 1..Len(s) /\ Len(s) \in Nat
  BY AnchorsAre
<1>2. Chunks(s) = {<<i, End(i)>> : i \in Headers(s)}
  BY AnchorsAre DEF Chunks
<1>3. PICK h \in above : \A i \in above : h >= i
  <2>1. above \in SUBSET (0..Len(s)) /\ above # {}
    BY <1>1
  <2> HIDE DEF above
  <2> QED
    BY <1>1, <2>1, GreatestUpTo
<1>4. /\ h \in Headers(s) /\ h \in 1..Len(s) /\ h <= line
      /\ End(h) \in h..Len(s)
      /\ End(h) = Len(s) \/ End(h) + 1 \in Headers(s)
  BY <1>1, <1>3, AnchorsAre
<1> HIDE DEF End
<1>5. line <= End(h)
  <2> SUFFICES ASSUME End(h) < line PROVE FALSE
    BY <1>1, <1>4
  <2>1. End(h) + 1 \in Headers(s) /\ End(h) + 1 <= line
    BY <1>1, <1>4
  <2>2. h >= End(h) + 1
    BY <1>3, <2>1
  <2> QED
    BY <1>1, <1>4, <2>2
<1>6. ASSUME NEW i \in Headers(s)
      PROVE  line \in i..End(i) <=> i = h
  <2>1. i \in 1..Len(s) /\ End(i) \in i..Len(s) /\ \A k \in Headers(s) : k > i => End(i) < k
    BY <1>1, AnchorsAre DEF End
  <2>2. line \in i..End(i) => i \in above
    BY <2>1
  <2>3. i \in above => i <= h
    BY <1>1, <1>3, <1>4, <2>1
  <2>4. i < h => End(i) < h
    BY <1>4, <2>1
  <2> HIDE DEF above
  <2> QED
    BY <1>1, <1>4, <1>5, <2>1, <2>2, <2>3, <2>4
<1>7. \A d \in Chunks(s) : (line \in d[1]..d[2]) <=> d = <<h, End(h)>>
  <2> SUFFICES ASSUME NEW i \in Headers(s)
               PROVE  line \in i..End(i) <=> <<i, End(i)>> = <<h, End(h)>>
    BY <1>2
  <2> QED
    BY <1>6
<1> QED
  BY <1>2, <1>4, <1>7

---------------------------------------------------------------------------------
(* The texts that are typed, edited and saved *)

TextsAreLines ==
    /\ draft \in Seq(AllLines)
    /\ body = NoText \/ body \in Seq(AllLines)

LEMMA NormalizeIsText ==
    ASSUME NEW s \in Seq(AllLines)
    PROVE  Normalize(s) \in Seq(AllLines)
<1>1. PICK t \in Seq(AllLines) : Normalize(s) = Append(t, Blank)
  BY NormalizeIsEnded
<1> QED
  BY <1>1, BlankIsBare

LEMMA TextsAlways == DocumentSpec => []TextsAreLines
<1>1. DocumentInit => TextsAreLines
  BY DEF DocumentInit, TextsAreLines
<1>2. ASSUME TextsAreLines, [DocumentNext]_documentVars
      PROVE  TextsAreLines'
  <2>1. CASE \E line \in Lines : Type(line)
    <3>1. PICK line \in Lines : Type(line)
      BY <2>1
    <3>2. line \in AllLines
      BY DEF AllLines
    <3>3. Append(draft, line) \in Seq(AllLines)
      BY <1>2, <3>2 DEF TextsAreLines
    <3> QED
      BY <1>2, <3>1, <3>3 DEF Type, TextsAreLines
  <2>2. CASE \E i, j \in 1..(Len(draft) + 1), new \in {<<>>} \cup {<<line>> : line \in Lines} :
                Edit(i, j, new)
    <3>1. PICK i \in 1..(Len(draft) + 1), j \in 1..(Len(draft) + 1),
               new \in {<<>>} \cup {<<line>> : line \in Lines} : Edit(i, j, new)
      BY <2>2
    <3>2. new \in Seq(AllLines)
      <4>1. CASE new = <<>>
        BY <4>1, NoneIs
      <4>2. CASE new \in {<<line>> : line \in Lines}
        <5>1. PICK line \in Lines : new = <<line>>
          BY <4>2
        <5>2. line \in AllLines
          BY DEF AllLines
        <5> QED
          BY <5>1, <5>2, SingleIs
      <4> QED
        BY <4>1, <4>2
    <3>3. draft \in Seq(AllLines)
      BY <1>2 DEF TextsAreLines
    <3>4. SubSeq(draft, 1, i - 1) \in Seq(AllLines) /\ SubSeq(draft, j, Len(draft)) \in Seq(AllLines)
      BY <3>3
    <3>5. draft' \in Seq(AllLines)
      BY <3>1, <3>2, <3>4 DEF Edit
    <3> QED
      BY <1>2, <3>1, <3>5 DEF Edit, TextsAreLines
  <2>3. CASE SaveDocument
    BY <1>2, <2>3, NormalizeIsText DEF SaveDocument, TextsAreLines
  <2>4. CASE UNCHANGED documentVars
    BY <1>2, <2>4 DEF documentVars, TextsAreLines
  <2> QED
    BY <1>2, <2>1, <2>2, <2>3, <2>4 DEF DocumentNext
<1> QED
  BY <1>1, <1>2, PTL DEF DocumentSpec

(* Normalising a normal text changes nothing, for texts of any length: a document that is *)
(* saved again is written as it is (normalize.py:5).                                     *)
THEOREM NormalFormIsStable == DocumentSpec => []NormalizeIsIdempotent
<1>1. ASSUME NEW s \in Seq(AllLines)
      PROVE  Normalize(Normalize(s)) = Normalize(s)
  <2>1. PICK t \in Seq(AllLines) : Ended(t) /\ Normalize(s) = Append(t, Blank)
    BY NormalizeIsEnded
  <2> QED
    BY <2>1, EndedIsNormal
<1>2. TextsAreLines => NormalizeIsIdempotent
  BY <1>1 DEF TextsAreLines, NormalizeIsIdempotent
<1> QED
  BY <1>2, TextsAlways, PTL

(* Normalising takes away layout alone and nothing of what is in code, for texts of any  *)
(* length and with fences of all characters, lengths and info strings behind each other, *)
(* as long as CommonMark takes them for fences, too (normalize.py:8, 106-163).           *)
THEOREM NormalizingKeepsMeaning == DocumentSpec => []MeaningIsKept
<1>1. ASSUME NEW s \in Seq(AllLines)
      PROVE  Trim(OwnReading(Normalize(s))) = Trim(OwnReading(s))
  <2> DEFINE a == PassA(s)
             b == PassB(a)
  <2>1. a \in Seq(AllLines) /\ OwnReading(a) = OwnReading(s)
    BY PassAIs, PassAReads
  <2>2. \A i \in 1..Len(a) : \/ Bare(a[i]) = a[i]
                             \/ ~InText(a, i) /\ ~FenceCloses(a[i], Fences(a)[i - 1])
    BY PassAIsBare
  <2> HIDE DEF a
  <2>3. b \in Seq(AllLines) /\ OwnReading(b) = OwnReading(a)
    BY <2>1, <2>2, PassBIsTidy, PassBReads
  <2> HIDE DEF b
  <2>4. Trim(b) \in Seq(AllLines)
    BY <2>3, TrimIs
  <2>5. Normalize(s) = Append(Trim(b), Blank)
    BY DEF Normalize, a, b
  <2> QED
    BY <2>1, <2>3, <2>4, <2>5, BlankAtEnd, TrimReads
<1>2. TextsAreLines => MeaningIsKept
  <2> SUFFICES ASSUME draft \in Seq(AllLines), Unambiguous(draft) PROVE CodeIsKept
    BY DEF TextsAreLines, MeaningIsKept
  <2>1. Normalize(draft) \in Seq(AllLines) /\ Unambiguous(Normalize(draft))
    BY NormalizeIsText, LinesAreKept
  <2>2. Reading(draft) = OwnReading(draft) /\ Reading(Normalize(draft)) = OwnReading(Normalize(draft))
    BY <2>1, ReadingIsOwn
  <2> QED
    BY <1>1, <2>2 DEF CodeIsKept
<1> QED
  BY <1>2, TextsAlways, PTL

(* Sections have names of their own whatever their titles are, none starts in code, if   *)
(* no lookalike is in the text, and every line from the first heading on is in one chunk *)
(* of the index (anchors.py:8-12, index_fts.py:117-124).                                 *)
THEOREM SectionsHaveNames == DocumentSpec => []SectionsAreDistinct
<1>1. ASSUME TextsAreLines, body # NoText
      PROVE  SectionsAreDistinct
  <2>1. body \in Seq(AllLines)
    BY <1>1 DEF TextsAreLines
  <2>2. DOMAIN Anchors(body) = Headers(body) /\ Headers(body) \subseteq 1..Len(body)
    BY <2>1, AnchorsAre
  <2>3. \A i, k \in Headers(body) : Anchors(body)[i].slug = Anchors(body)[k].slug => i = k
    BY <2>1, SlugsAreUnique
  <2>4. ASSUME NEW i \in Headers(body), Unambiguous(body) PROVE ~InCode(body, i)
    <3>1. i \in 1..Len(body) /\ Fences(body)[i - 1] = NoFence
      BY <2>1, <2>2, <2>4, AnchorsAre
    <3>2. InCode(body, i) <=> Code(body, i)
      BY <2>1, <2>4, <3>1, InCodeIs
    <3> QED
      BY <3>1, <3>2 DEF Code
  <2>5. DOMAIN body = 1..Len(body)
    BY <2>1
  <2> QED
    BY <2>1, <2>2, <2>3, <2>4, <2>5, ChunksPartition DEF SectionsAreDistinct
<1>2. TextsAreLines => SectionsAreDistinct
  BY <1>1 DEF SectionsAreDistinct
<1> QED
  BY <1>2, TextsAlways, PTL

---------------------------------------------------------------------------------
(* What is the same in two texts *)

(* The boxes of two texts of m and n lines. *)
Boxes(m, n) ==
    {b \in [i1 : Nat, i2 : Nat, j1 : Nat, j2 : Nat] :
        1 <= b.i1 /\ b.i1 <= b.i2 /\ b.i2 <= m + 1 /\ 1 <= b.j1 /\ b.j1 <= b.j2 /\ b.j2 <= n + 1}

Within(b, box) == box.i1 <= b.i1 /\ b.i2 <= box.i2 /\ box.j1 <= b.j1 /\ b.j2 <= box.j2

(* A run of at least one line. *)
Same(old, new, b) ==
    /\ b.i1 < b.i2
    /\ b.i2 - b.i1 = b.j2 - b.j1
    /\ \A k \in 0..(b.i2 - b.i1 - 1) : old[b.i1 + k] = new[b.j1 + k]

LEMMA RunsAre ==
    ASSUME NEW m \in Nat, NEW n \in Nat, NEW box \in Boxes(m, n), NEW old, NEW new,
           NEW r \in Runs(old, new, box)
    PROVE  r \in Boxes(m, n) /\ Within(r, box) /\ Same(old, new, r)
<1>1. PICK i \in box.i1..(box.i2 - 1), j \in box.j1..(box.j2 - 1), size \in Nat :
         /\ size \in 1..(box.i2 - i)
         /\ r = Box(i, i + size, j, j + size)
         /\ j + size <= box.j2
         /\ \A k \in 0..(size - 1) : old[i + k] = new[j + k]
  BY DEF Runs
<1>2. /\ box.i1 \in Nat /\ box.i2 \in Nat /\ box.j1 \in Nat /\ box.j2 \in Nat
      /\ 1 <= box.i1 /\ box.i2 <= m + 1 /\ 1 <= box.j1 /\ box.j2 <= n + 1
  BY DEF Boxes
<1>3. i \in Nat /\ j \in Nat /\ size \in Nat /\ size >= 1 /\ i >= box.i1 /\ j >= box.j1
      /\ i + size <= box.i2
  <2>1. i \in Nat /\ j \in Nat /\ i >= box.i1 /\ j >= box.j1 /\ i <= box.i2 - 1
    BY <1>2
  <2>2. size \in 1..(box.i2 - i)
    BY <1>1
  <2> QED
    BY <1>2, <2>1, <2>2
<1>4. r.i1 = i /\ r.i2 = i + size /\ r.j1 = j /\ r.j2 = j + size
  BY <1>1 DEF Box
<1>5. r \in [i1 : Nat, i2 : Nat, j1 : Nat, j2 : Nat]
  BY <1>1, <1>3 DEF Box
<1>6. r \in Boxes(m, n)
  BY <1>1, <1>2, <1>3, <1>4, <1>5 DEF Boxes
<1>7. Within(r, box)
  BY <1>1, <1>2, <1>3, <1>4 DEF Within
<1>8. r.i2 - r.i1 = size /\ r.j2 - r.j1 = size
  BY <1>3, <1>4
<1>9. Same(old, new, r)
  BY <1>1, <1>3, <1>4, <1>8 DEF Same
<1> QED
  BY <1>6, <1>7, <1>9

LEMMA LongestIs ==
    ASSUME NEW m \in Nat, NEW n \in Nat, NEW runs \in SUBSET Boxes(m, n), runs # {}
    PROVE  /\ Longest(runs) \in runs
           /\ \A s \in runs : Longest(runs).i2 - Longest(runs).i1 >= s.i2 - s.i1
<1> DEFINE long == {r \in runs : \A s \in runs : r.i2 - r.i1 >= s.i2 - s.i1}
           first == {r \in long : \A s \in long : r.i1 <= s.i1}
           sizes == {r.i2 - r.i1 : r \in runs}
<1>1. \A r \in runs : r.i1 \in Nat /\ r.i2 \in Nat /\ r.j1 \in Nat /\ r.i1 <= r.i2
                      /\ 1 <= r.i1 /\ r.i2 <= m + 1
  BY DEF Boxes
<1>2. long # {}
  <2>1. sizes \in SUBSET (0..m) /\ sizes # {}
    <3>1. \A r \in runs : r.i2 - r.i1 \in 0..m
      BY <1>1
    <3> QED
      BY <3>1
  <2>2. PICK k \in sizes : \A s \in sizes : k >= s
    <3> HIDE DEF sizes
    <3> QED
      BY <2>1, GreatestUpTo
  <2>3. PICK r \in runs : k = r.i2 - r.i1
    BY <2>2
  <2>4. \A s \in runs : s.i2 - s.i1 \in sizes
    OBVIOUS
  <2> HIDE DEF sizes
  <2>5. \A s \in runs : r.i2 - r.i1 >= s.i2 - s.i1
    BY <2>2, <2>3, <2>4
  <2> QED
    BY <2>5
<1>3. first # {}
  <2> DEFINE starts == {r.i1 : r \in long}
  <2>1. starts \in SUBSET Nat /\ starts # {}
    BY <1>1, <1>2
  <2>2. PICK k \in starts : \A s \in starts : k <= s
    <3> HIDE DEF starts
    <3> QED
      BY <2>1, LeastNumber
  <2> HIDE DEF long
  <2>3. PICK r \in long : k = r.i1
    BY <2>2
  <2>4. \A s \in long : r.i1 <= s.i1
    BY <2>2, <2>3
  <2> QED
    BY <2>4
<1>4. \E r \in first : \A s \in first : r.j1 <= s.j1
  <2> DEFINE starts == {r.j1 : r \in first}
  <2>1. starts \in SUBSET Nat /\ starts # {}
    BY <1>1, <1>3
  <2>2. PICK k \in starts : \A s \in starts : k <= s
    <3> HIDE DEF starts
    <3> QED
      BY <2>1, LeastNumber
  <2> HIDE DEF first
  <2>3. PICK r \in first : k = r.j1
    BY <2>2
  <2> QED
    BY <2>2, <2>3
<1>5. Longest(runs) \in first
  <2>1. Longest(runs) = CHOOSE r \in first : \A s \in first : r.j1 <= s.j1
    BY DEF Longest
  <2> HIDE DEF first
  <2> QED
    BY <1>4, <2>1
<1>6. \A r \in first : r \in runs /\ \A s \in runs : r.i2 - r.i1 >= s.i2 - s.i1
  OBVIOUS
<1> HIDE DEF first
<1> QED
  BY <1>5, <1>6

(* A state of the search. *)
Searches(m, n) == [todo : SUBSET Boxes(m, n), found : SUBSET Boxes(m, n)]

Fit(run, box) == <<Box(box.i1, run.i1, box.j1, run.j1), Box(run.i2, box.i2, run.j2, box.j2)>>

(* What one box becomes: a run of it and two boxes beside that. *)
LEMMA BoxIsSplit ==
    ASSUME NEW m \in Nat, NEW n \in Nat, NEW box \in Boxes(m, n), NEW run \in Boxes(m, n),
           Within(run, box)
    PROVE  /\ Fit(run, box)[1] \in Boxes(m, n) /\ Within(Fit(run, box)[1], box)
           /\ Fit(run, box)[2] \in Boxes(m, n) /\ Within(Fit(run, box)[2], box)
  BY DEF Boxes, Within, Fit, Box

(* The step of the search, of a state *)
LEMMA StepIs ==
    ASSUME NEW m \in Nat, NEW n \in Nat, NEW old, NEW new, NEW s \in Searches(m, n)
    PROVE  LET boxes == {box \in s.todo : Runs(old, new, box) # {}}
               t == SearchOn(old, new, s)
           IN  /\ t \in Searches(m, n)
               /\ s.found \subseteq t.found
               /\ \A b \in t.found : b \in s.found \/
                    \E box \in boxes : b = Longest(Runs(old, new, box))
               /\ \A b \in t.todo :
                    \E box \in boxes : \/ b = Fit(Longest(Runs(old, new, box)), box)[1]
                                      \/ b = Fit(Longest(Runs(old, new, box)), box)[2]
               /\ \A box \in boxes : Longest(Runs(old, new, box)) \in t.found
<1> DEFINE boxes == {box \in s.todo : Runs(old, new, box) # {}}
           run == [box \in boxes |-> Longest(Runs(old, new, box))]
           t == SearchOn(old, new, s)
<1>1. t = [todo |-> UNION {{Box(box.i1, run[box].i1, box.j1, run[box].j1),
                            Box(run[box].i2, box.i2, run[box].j2, box.j2)} : box \in DOMAIN run},
           found |-> s.found \cup {run[box] : box \in DOMAIN run}]
  BY DEF SearchOn
<1>2. DOMAIN run = boxes /\ \A box \in boxes : run[box] = Longest(Runs(old, new, box))
  OBVIOUS
<1>3. boxes \subseteq Boxes(m, n) /\ s.todo \subseteq Boxes(m, n) /\ s.found \subseteq Boxes(m, n)
  BY DEF Searches
<1>4. ASSUME NEW box \in boxes
      PROVE  /\ run[box] \in Boxes(m, n)
             /\ Fit(run[box], box)[1] \in Boxes(m, n) /\ Fit(run[box], box)[2] \in Boxes(m, n)
  <2>1. box \in Boxes(m, n) /\ Runs(old, new, box) # {}
    BY <1>3
  <2>2. Runs(old, new, box) \in SUBSET Boxes(m, n)
    BY <2>1, RunsAre
  <2>3. run[box] \in Runs(old, new, box)
    BY <1>2, <2>1, <2>2, LongestIs
  <2> HIDE DEF run, boxes
  <2>4. run[box] \in Boxes(m, n) /\ Within(run[box], box)
    BY <2>1, <2>3, RunsAre
  <2> QED
    BY <2>1, <2>4, BoxIsSplit
<1> HIDE DEF run, boxes
<1>5. t.todo = UNION {{Fit(run[box], box)[1], Fit(run[box], box)[2]} : box \in boxes}
  BY <1>1, <1>2 DEF Fit
<1>6. t.found = s.found \cup {run[box] : box \in boxes}
  BY <1>1, <1>2
<1>7. t.todo \subseteq Boxes(m, n) /\ t.found \subseteq Boxes(m, n)
  BY <1>3, <1>4, <1>5, <1>6
<1>8. t = [todo |-> t.todo, found |-> t.found]
  BY <1>1
<1> HIDE DEF t
<1>9. t \in Searches(m, n)
  BY <1>7, <1>8 DEF Searches
<1>10. /\ s.found \subseteq t.found
       /\ \A b \in t.found : b \in s.found \/ \E box \in boxes : b = Longest(Runs(old, new, box))
       /\ \A box \in boxes : Longest(Runs(old, new, box)) \in t.found
  BY <1>2, <1>6
<1>11. \A b \in t.todo :
          \E box \in boxes : \/ b = Fit(Longest(Runs(old, new, box)), box)[1]
                            \/ b = Fit(Longest(Runs(old, new, box)), box)[2]
  BY <1>2, <1>5
<1> QED
  BY <1>9, <1>10, <1>11 DEF t, boxes

LEMMA SearchIs ==
    ASSUME NEW m \in Nat, NEW n \in Nat, NEW old, NEW new, Len(old) = m, Len(new) = n
    PROVE  /\ Search(old, new) \in [0..m -> Searches(m, n)]
           /\ Search(old, new)[0] = [todo |-> {Whole(old, new)}, found |-> {}]
           /\ \A i \in 1..m : Search(old, new)[i] = SearchOn(old, new, Search(old, new)[i - 1])
<1> DEFINE base == [todo |-> {Whole(old, new)}, found |-> {}]
           S == Searches(m, n)
           step == [p \in (1..m) \X S |-> SearchOn(old, new, p[2])]
           Solution(f) == f = [i \in 0..m |-> IF i = 0 THEN base ELSE SearchOn(old, new, f[i - 1])]
<1>1. base \in S
  BY DEF Searches, Boxes, Whole, Box
<1>2. step \in [(1..m) \X S -> S]
  <2>1. \A s \in S : SearchOn(old, new, s) \in S
    BY StepIs
  <2> HIDE DEF S
  <2> QED
    BY <2>1
<1>3. PICK f \in [0..m -> S] : Solves(f, m, base, step)
  <2> HIDE DEF S, step, base
  <2> QED
    BY <1>1, <1>2, RecursionHasSolution, Zenon
<1>4. \A i \in 1..m : f[i] = SearchOn(old, new, f[i - 1])
  <2> SUFFICES ASSUME NEW i \in 1..m PROVE f[i] = SearchOn(old, new, f[i - 1])
    OBVIOUS
  <2> HIDE DEF S
  <2>1. f[i - 1] \in S
    OBVIOUS
  <2>2. <<i, f[i - 1]>> \in (1..m) \X S
    BY <2>1
  <2> QED
    BY <1>3, <2>2 DEF Solves
<1>5. Solution(f)
  <2> HIDE DEF S, base
  <2> QED
    BY <1>3, <1>4 DEF Solves
<1>6. Search(old, new) = CHOOSE g : Solution(g)
  BY DEF Search
<1>7. Solution(Search(old, new))
  <2> HIDE DEF Solution
  <2> QED
    BY <1>5, <1>6
<1> DEFINE g == Search(old, new)
<1>8. DOMAIN g = 0..m /\ g[0] = base /\ \A i \in 1..m : g[i] = SearchOn(old, new, g[i - 1])
  <2> HIDE DEF base, g
  <2>1. g = [i \in 0..m |-> IF i = 0 THEN base ELSE SearchOn(old, new, g[i - 1])]
    BY <1>7 DEF g
  <2>2. 0 \in 0..m /\ \A i \in 1..m : i \in 0..m /\ i # 0
    OBVIOUS
  <2> QED
    BY ONLY <2>1, <2>2
<1>9. 0..m \subseteq {i \in 0..m : g[i] \in S}
  <2> DEFINE Typed == {i \in 0..m : g[i] \in S}
  <2> HIDE DEF g, S, base
  <2>1. 0 \in Typed
    BY <1>1, <1>8
  <2>2. ASSUME NEW i \in 1..m, i - 1 \in Typed PROVE i \in Typed
    <3>1. SearchOn(old, new, g[i - 1]) \in S
      BY <2>2, StepIs DEF S
    <3> QED
      BY <1>8, <3>1
  <2> HIDE DEF Typed
  <2>3. 0..m \subseteq Typed
    BY <2>1, <2>2, InductionTo
  <2> QED
    BY <2>3 DEF Typed
<1>10. g \in [0..m -> S]
  <2> HIDE DEF S
  <2>1. \A i \in 0..m : g[i] \in S
    BY <1>9
  <2>2. g = [i \in 0..m |-> g[i]]
    <3>1. g = [i \in 0..m |-> IF i = 0 THEN base ELSE SearchOn(old, new, g[i - 1])]
      BY <1>7
    <3> HIDE DEF g, base
    <3> QED
      BY ONLY <3>1
  <2> HIDE DEF g
  <2> QED
    BY <2>1, <2>2
<1> QED
  BY <1>8, <1>10

(* Boxes beside each other: one is before the other in both texts. *)
Precedes(p, q) == p.i2 <= q.i1 /\ p.j2 <= q.j1
Beside(p, q) == Precedes(p, q) \/ Precedes(q, p)

(* What was found and what is to do do not cross. *)
InOrder(s) ==
    /\ \A p, q \in s.found : p = q \/ Beside(p, q)
    /\ \A p \in s.found, q \in s.todo : Beside(p, q)
    /\ \A p, q \in s.todo : p = q \/ Beside(p, q)

LEMMA WithinBeside ==
    ASSUME NEW m \in Nat, NEW n \in Nat, NEW p \in Boxes(m, n), NEW q \in Boxes(m, n),
           NEW a \in Boxes(m, n), NEW b \in Boxes(m, n), Beside(a, b), Within(p, a), Within(q, b)
    PROVE  Beside(p, q)
  BY DEF Boxes, Within, Beside, Precedes

LEMMA FitIsBeside ==
    ASSUME NEW m \in Nat, NEW n \in Nat, NEW box \in Boxes(m, n), NEW run \in Boxes(m, n)
    PROVE  /\ Beside(run, Fit(run, box)[1]) /\ Beside(run, Fit(run, box)[2])
           /\ Beside(Fit(run, box)[1], Fit(run, box)[2])
           /\ Beside(Fit(run, box)[2], Fit(run, box)[1])
  BY DEF Boxes, Fit, Box, Beside, Precedes

LEMMA StepKeepsOrder ==
    ASSUME NEW m \in Nat, NEW n \in Nat, NEW old, NEW new, NEW s \in Searches(m, n),
           InOrder(s), \A b \in s.found : Same(old, new, b)
    PROVE  /\ InOrder(SearchOn(old, new, s))
           /\ \A b \in SearchOn(old, new, s).found : Same(old, new, b)
<1> DEFINE boxes == {box \in s.todo : Runs(old, new, box) # {}}
           run(box) == Longest(Runs(old, new, box))
           t == SearchOn(old, new, s)
<1>1. /\ t \in Searches(m, n)
      /\ \A b \in t.found : b \in s.found \/ \E box \in boxes : b = run(box)
      /\ \A b \in t.todo : \E box \in boxes : b = Fit(run(box), box)[1] \/ b = Fit(run(box), box)[2]
  BY StepIs
<1>2. boxes \subseteq s.todo /\ s.todo \subseteq Boxes(m, n) /\ s.found \subseteq Boxes(m, n)
      /\ t.todo \subseteq Boxes(m, n) /\ t.found \subseteq Boxes(m, n)
  <2>1. boxes \subseteq s.todo
    OBVIOUS
  <2> HIDE DEF t, boxes
  <2> QED
    BY <1>1, <2>1 DEF Searches
<1>3. ASSUME NEW box \in boxes
      PROVE  /\ run(box) \in Boxes(m, n) /\ Within(run(box), box) /\ Same(old, new, run(box))
             /\ Fit(run(box), box)[1] \in Boxes(m, n) /\ Within(Fit(run(box), box)[1], box)
             /\ Fit(run(box), box)[2] \in Boxes(m, n) /\ Within(Fit(run(box), box)[2], box)
  <2>1. box \in Boxes(m, n) /\ Runs(old, new, box) # {}
    BY <1>2
  <2>2. Runs(old, new, box) \in SUBSET Boxes(m, n)
    BY <2>1, RunsAre
  <2>3. run(box) \in Runs(old, new, box)
    BY <2>1, <2>2, LongestIs
  <2> HIDE DEF run, boxes
  <2>4. run(box) \in Boxes(m, n) /\ Within(run(box), box) /\ Same(old, new, run(box))
    BY <2>1, <2>3, RunsAre
  <2> QED
    BY <2>1, <2>4, BoxIsSplit
<1> HIDE DEF boxes, run, t
<1>4. ASSUME NEW a \in boxes, NEW b \in boxes, a # b, NEW p \in Boxes(m, n), NEW q \in Boxes(m, n),
             Within(p, a), Within(q, b)
      PROVE  Beside(p, q)
  <2>1. Beside(a, b) /\ a \in Boxes(m, n) /\ b \in Boxes(m, n)
    BY <1>2, <1>4 DEF InOrder
  <2> QED
    BY <1>4, <2>1, WithinBeside
<1>5. ASSUME NEW p \in s.found, NEW b \in boxes, NEW q \in Boxes(m, n), Within(q, b)
      PROVE  Beside(p, q)
  <2>1. Beside(p, b) /\ p \in Boxes(m, n) /\ b \in Boxes(m, n)
    BY <1>2 DEF InOrder
  <2>2. Within(p, p)
    BY <2>1 DEF Within, Boxes
  <2> QED
    BY <1>5, <2>1, <2>2, WithinBeside
<1>6. ASSUME NEW p \in t.found, NEW q \in t.found
      PROVE  p = q \/ Beside(p, q)
  <2>1. CASE p \in s.found /\ q \in s.found
    BY <2>1 DEF InOrder
  <2>2. CASE p \in s.found /\ q \notin s.found
    BY <1>1, <1>3, <1>5, <2>2
  <2>3. CASE p \notin s.found /\ q \in s.found
    <3>1. Beside(q, p)
      BY <1>1, <1>3, <1>5, <2>3
    <3> QED
      BY <3>1 DEF Beside
  <2>4. CASE p \notin s.found /\ q \notin s.found
    <3>1. PICK a \in boxes : p = run(a)
      BY <1>1, <2>4
    <3>2. PICK b \in boxes : q = run(b)
      BY <1>1, <2>4
    <3>3. CASE a = b
      BY <3>1, <3>2, <3>3
    <3>4. CASE a # b
      BY <1>3, <1>4, <3>1, <3>2, <3>4
    <3> QED
      BY <3>3, <3>4
  <2> QED
    BY <2>1, <2>2, <2>3, <2>4
<1>7. ASSUME NEW p \in t.found, NEW q \in t.todo
      PROVE  Beside(p, q)
  <2>1. PICK b \in boxes : q = Fit(run(b), b)[1] \/ q = Fit(run(b), b)[2]
    BY <1>1
  <2>2. q \in Boxes(m, n) /\ Within(q, b)
    BY <1>3, <2>1
  <2>3. CASE p \in s.found
    BY <1>5, <2>2, <2>3
  <2>4. CASE p \notin s.found
    <3>1. PICK a \in boxes : p = run(a)
      BY <1>1, <2>4
    <3>2. CASE a = b
      <4>1. b \in Boxes(m, n) /\ run(b) \in Boxes(m, n)
        BY <1>2, <1>3
      <4> QED
        BY <2>1, <3>1, <3>2, <4>1, FitIsBeside
    <3>3. CASE a # b
      BY <1>3, <1>4, <2>2, <3>1, <3>3
    <3> QED
      BY <3>2, <3>3
  <2> QED
    BY <2>3, <2>4
<1>8. ASSUME NEW p \in t.todo, NEW q \in t.todo
      PROVE  p = q \/ Beside(p, q)
  <2>1. PICK a \in boxes : p = Fit(run(a), a)[1] \/ p = Fit(run(a), a)[2]
    BY <1>1
  <2>2. PICK b \in boxes : q = Fit(run(b), b)[1] \/ q = Fit(run(b), b)[2]
    BY <1>1
  <2>3. p \in Boxes(m, n) /\ Within(p, a) /\ q \in Boxes(m, n) /\ Within(q, b)
    BY <1>3, <2>1, <2>2
  <2>4. CASE a = b
    <3>1. b \in Boxes(m, n) /\ run(b) \in Boxes(m, n)
      BY <1>2, <1>3
    <3> QED
      BY <2>1, <2>2, <2>4, <3>1, FitIsBeside
  <2>5. CASE a # b
    BY <1>4, <2>3, <2>5
  <2> QED
    BY <2>4, <2>5
<1>9. InOrder(t)
  BY <1>6, <1>7, <1>8 DEF InOrder
<1>10. \A b \in t.found : Same(old, new, b)
  BY <1>1, <1>3
<1> QED
  BY <1>9, <1>10 DEF t

(* Blocks are the same in both texts, and in the same order. *)
Matches(old, new, blocks) ==
    /\ blocks \subseteq Boxes(Len(old), Len(new))
    /\ \A b \in blocks : Same(old, new, b)
    /\ \A p, q \in blocks : p = q \/ Beside(p, q)

LEMMA BlocksMatch ==
    ASSUME NEW old, NEW new, Len(old) \in Nat, Len(new) \in Nat
    PROVE  Matches(old, new, Blocks(old, new))
<1> DEFINE m == Len(old)
           n == Len(new)
           g == Search(old, new)
           Fine == {i \in 0..m : InOrder(g[i]) /\ \A b \in g[i].found : Same(old, new, b)}
<1>1. /\ g \in [0..m -> Searches(m, n)]
      /\ g[0] = [todo |-> {Whole(old, new)}, found |-> {}]
      /\ \A i \in 1..m : g[i] = SearchOn(old, new, g[i - 1])
  BY SearchIs
<1> HIDE DEF g, m, n
<1>2. m \in Nat /\ n \in Nat
  BY DEF m, n
<1>3. 0 \in Fine
  BY <1>1, <1>2 DEF InOrder
<1>4. ASSUME NEW i \in 1..m, i - 1 \in Fine PROVE i \in Fine
  <2>1. i - 1 \in 0..m /\ i \in 0..m /\ g[i - 1] \in Searches(m, n)
    BY <1>1, <1>2
  <2>2. InOrder(g[i - 1]) /\ \A b \in g[i - 1].found : Same(old, new, b)
    BY <1>4
  <2>3. InOrder(SearchOn(old, new, g[i - 1]))
        /\ \A b \in SearchOn(old, new, g[i - 1]).found : Same(old, new, b)
    BY <1>2, <2>1, <2>2, StepKeepsOrder
  <2> QED
    BY <1>1, <2>1, <2>3
<1>5. 0..m \subseteq Fine
  <2> HIDE DEF Fine
  <2> QED
    BY <1>2, <1>3, <1>4, InductionTo
<1>6. m \in Fine
  BY <1>2, <1>5
<1>7. g[m] \in Searches(m, n)
  BY <1>1, <1>2
<1>8. Blocks(old, new) = g[m].found
  BY DEF Blocks, g, m
<1> QED
  BY <1>6, <1>7, <1>8 DEF Matches, InOrder, Searches, m, n

(* A text against itself is one block. *)
LEMMA NothingChanges ==
    ASSUME NEW s, Len(s) \in Nat, Len(s) > 0
    PROVE  Whole(s, s) \in Blocks(s, s)
<1> DEFINE m == Len(s)
           w == Whole(s, s)
           g == Search(s, s)
           Found == {i \in 1..m : w \in g[i].found}
<1>1. /\ g \in [0..m -> Searches(m, m)]
      /\ g[0] = [todo |-> {w}, found |-> {}]
      /\ \A i \in 1..m : g[i] = SearchOn(s, s, g[i - 1])
  BY SearchIs
<1>2. w \in Boxes(m, m)
  BY DEF Boxes, Whole, Box
<1>3. w \in Runs(s, s, w)
  <2>1. w.i1 = 1 /\ w.i2 = m + 1 /\ w.j1 = 1 /\ w.j2 = m + 1 /\ w = Box(1, 1 + m, 1, 1 + m)
    BY DEF Whole, Box
  <2> HIDE DEF w
  <2>2. m \in {size \in 1..(w.i2 - 1) : 1 + size <= w.j2
                                       /\ \A k \in 0..(size - 1) : s[1 + k] = s[1 + k]}
    BY <2>1
  <2>3. 1 \in w.i1..(w.i2 - 1) /\ 1 \in w.j1..(w.j2 - 1)
    BY <2>1
  <2> DEFINE Sizes(i, j) == {size \in 1..(w.i2 - i) :
                                /\ j + size <= w.j2
                                /\ \A k \in 0..(size - 1) : s[i + k] = s[j + k]}
             At(i, j) == {Box(i, i + size, j, j + size) : size \in Sizes(i, j)}
  <2>4. w \in At(1, 1)
    BY <2>1, <2>2
  <2>5. Runs(s, s, w) = UNION {At(i, j) : i \in w.i1..(w.i2 - 1), j \in w.j1..(w.j2 - 1)}
    BY DEF Runs
  <2> HIDE DEF At
  <2> QED
    BY <2>3, <2>4, <2>5
<1>4. Longest(Runs(s, s, w)) = w
  <2>1. Runs(s, s, w) \in SUBSET Boxes(m, m) /\ Runs(s, s, w) # {}
    BY <1>2, <1>3, RunsAre
  <2> DEFINE r == Longest(Runs(s, s, w))
  <2>2. r \in Runs(s, s, w) /\ r.i2 - r.i1 >= w.i2 - w.i1
    BY <1>3, <2>1, LongestIs
  <2>3. r \in Boxes(m, m) /\ Same(s, s, r)
    BY <1>2, <2>2, RunsAre
  <2> HIDE DEF r
  <2>4. w.i1 = 1 /\ w.i2 = m + 1 /\ w.j1 = 1 /\ w.j2 = m + 1
    BY DEF Whole, Box
  <2>5. /\ r.i1 \in Nat /\ r.i2 \in Nat /\ r.j1 \in Nat /\ r.j2 \in Nat
        /\ 1 <= r.i1 /\ r.i2 <= m + 1 /\ 1 <= r.j1 /\ r.j2 <= m + 1
        /\ r = [i1 |-> r.i1, i2 |-> r.i2, j1 |-> r.j1, j2 |-> r.j2]
    BY <2>3 DEF Boxes
  <2>6. r.i2 - r.i1 = r.j2 - r.j1
    BY <2>3 DEF Same
  <2>7. r.i1 = 1 /\ r.i2 = m + 1 /\ r.j1 = 1 /\ r.j2 = m + 1
    BY <2>2, <2>4, <2>5, <2>6
  <2> QED
    BY <2>5, <2>7 DEF r, Whole, Box
<1>5. w \in g[1].found
  <2>0. 1 \in 1..m /\ 0 \in 0..m /\ 1 - 1 = 0
    OBVIOUS
  <2> HIDE DEF g, w, m
  <2>1. g[0] \in Searches(m, m) /\ g[0].todo = {w}
    <3>1. g[0] \in Searches(m, m)
      BY ONLY <1>1, <2>0
    <3>2. g[0].todo = {w}
      BY ONLY <1>1
    <3> QED
      BY <3>1, <3>2
  <2>4. g[1] = SearchOn(s, s, g[0])
    <3>1. g[1] = SearchOn(s, s, g[1 - 1])
      BY ONLY <1>1, <2>0
    <3> QED
      BY <2>0, <3>1
  <2>2. w \in {box \in g[0].todo : Runs(s, s, box) # {}}
    BY <1>3, <2>1
  <2>3. Longest(Runs(s, s, w)) \in SearchOn(s, s, g[0]).found
    <3>1. m \in Nat
      BY DEF m
    <3> QED
      BY <2>1, <2>2, <3>1, StepIs
  <2> QED
    BY <1>4, <2>4, <2>3
<1> DEFINE Good == {i \in 0..m : i = 0 \/ w \in g[i].found}
<1>6. ASSUME NEW i \in 1..m, i - 1 \in Good PROVE i \in Good
  <2>1. CASE i = 1
    BY <1>5, <2>1
  <2>2. CASE i # 1
    <3>1. g[i] = SearchOn(s, s, g[i - 1]) /\ g[i - 1] \in Searches(m, m) /\ w \in g[i - 1].found
      BY <1>1, <1>6, <2>2
    <3> HIDE DEF g, w
    <3>2. g[i - 1].found \subseteq SearchOn(s, s, g[i - 1]).found
      BY <3>1, StepIs
    <3> QED
      BY <3>1, <3>2
  <2> QED
    BY <2>1, <2>2
<1>7. 0 \in Good
  OBVIOUS
<1>8. 0..m \subseteq Good
  <2> HIDE DEF Good
  <2> QED
    BY <1>6, <1>7, InductionTo
<1>9. w \in g[m].found
  BY <1>8
<1> QED
  BY <1>9 DEF Blocks

---------------------------------------------------------------------------------
(* What is kept, removed and added *)

KeptOld(m, blocks) == {i \in 1..m : \E b \in blocks : i \in b.i1..(b.i2 - 1)}
KeptNew(n, blocks) == {j \in 1..n : \E b \in blocks : j \in b.j1..(b.j2 - 1)}

Those(lines, at, x) == {i \in at : lines[i] = x}

Linked(blocks, i, j) ==
    \E b \in blocks : i \in b.i1..(b.i2 - 1) /\ j \in b.j1..(b.j2 - 1) /\ j - b.j1 = i - b.i1

(* A line is kept as often in the old text as in the new one. *)
LEMMA KeptAlike ==
    ASSUME NEW old, NEW new, Len(old) \in Nat, Len(new) \in Nat,
           NEW blocks, Matches(old, new, blocks), NEW x
    PROVE  ExistsBijection(Those(old, KeptOld(Len(old), blocks), x),
                           Those(new, KeptNew(Len(new), blocks), x))
<1> DEFINE m == Len(old)
           n == Len(new)
           P == {i \in KeptOld(m, blocks) : old[i] = x}
           Q == {j \in KeptNew(n, blocks) : new[j] = x}
           f == [i \in P |-> CHOOSE j \in Q : Linked(blocks, i, j)]
<1> HIDE DEF m, n
<1>1. \A b \in blocks : /\ b.i1 \in Nat /\ b.i2 \in Nat /\ b.j1 \in Nat /\ b.j2 \in Nat
                        /\ 1 <= b.i1 /\ b.i2 <= m + 1 /\ 1 <= b.j1 /\ b.j2 <= n + 1
                        /\ b.i2 - b.i1 = b.j2 - b.j1
                        /\ \A k \in 0..(b.i2 - b.i1 - 1) : old[b.i1 + k] = new[b.j1 + k]
  BY DEF Matches, Boxes, Same, m, n
<1>2. m \in Nat /\ n \in Nat
  BY DEF m, n
<1>0. ASSUME NEW b \in blocks
      PROVE  b.i1 \in Int /\ b.i2 \in Int /\ b.j1 \in Int /\ b.j2 \in Int
  BY <1>1
<1>3. ASSUME NEW i, NEW b \in blocks, i \in b.i1..(b.i2 - 1)
      PROVE  \E j \in 1..n : /\ j \in b.j1..(b.j2 - 1) /\ j - b.j1 = i - b.i1
                             /\ old[i] = new[j]
  <2>1. i - b.i1 \in 0..(b.i2 - b.i1 - 1) /\ b.i1 + (i - b.i1) = i
    BY <1>1, <1>3
  <2>2. old[i] = new[b.j1 + (i - b.i1)]
    BY <1>1, <2>1
  <2>3. /\ i \in Int /\ b.i1 <= i /\ i <= b.i2 - 1
        /\ b.i1 \in Nat /\ b.i2 \in Nat /\ b.j1 \in Nat /\ b.j2 \in Nat
        /\ 1 <= b.j1 /\ b.j2 <= n + 1 /\ b.i2 - b.i1 = b.j2 - b.j1
    BY <1>1, <1>3
  <2>4. /\ b.j1 + (i - b.i1) \in Int /\ b.j1 + (i - b.i1) >= b.j1
        /\ b.j1 + (i - b.i1) <= b.j2 - 1 /\ b.j1 + (i - b.i1) - b.j1 = i - b.i1
    BY ONLY <2>3
  <2>5. b.j1 + (i - b.i1) \in 1..n /\ b.j1 + (i - b.i1) \in b.j1..(b.j2 - 1)
    BY ONLY <1>2, <2>3, <2>4
  <2> DEFINE t == b.j1 + (i - b.i1)
  <2>6. t \in 1..n /\ t \in b.j1..(b.j2 - 1) /\ t - b.j1 = i - b.i1 /\ old[i] = new[t]
    BY ONLY <2>2, <2>3, <2>4, <2>5 DEF t
  <2> HIDE DEF t
  <2> QED
    BY <2>6
<1>4. ASSUME NEW j, NEW b \in blocks, j \in b.j1..(b.j2 - 1)
      PROVE  \E i \in 1..m : /\ i \in b.i1..(b.i2 - 1) /\ j - b.j1 = i - b.i1
                             /\ old[i] = new[j]
  <2>1. j - b.j1 \in 0..(b.i2 - b.i1 - 1) /\ b.j1 + (j - b.j1) = j
    BY <1>1, <1>4
  <2>2. old[b.i1 + (j - b.j1)] = new[j]
    BY <1>1, <2>1
  <2>3. /\ j \in Int /\ b.j1 <= j /\ j <= b.j2 - 1
        /\ b.i1 \in Nat /\ b.i2 \in Nat /\ b.j1 \in Nat /\ b.j2 \in Nat
        /\ 1 <= b.i1 /\ b.i2 <= m + 1 /\ b.i2 - b.i1 = b.j2 - b.j1
    BY <1>1, <1>4
  <2>4. /\ b.i1 + (j - b.j1) \in Int /\ b.i1 + (j - b.j1) >= b.i1
        /\ b.i1 + (j - b.j1) <= b.i2 - 1 /\ b.i1 + (j - b.j1) - b.i1 = j - b.j1
    BY ONLY <2>3
  <2>5. b.i1 + (j - b.j1) \in 1..m /\ b.i1 + (j - b.j1) \in b.i1..(b.i2 - 1)
    BY ONLY <1>2, <2>3, <2>4
  <2> DEFINE t == b.i1 + (j - b.j1)
  <2>6. t \in 1..m /\ t \in b.i1..(b.i2 - 1) /\ j - b.j1 = t - b.i1 /\ old[t] = new[j]
    BY ONLY <2>2, <2>3, <2>4, <2>5 DEF t
  <2> HIDE DEF t
  <2> QED
    BY <2>6
<1>5. \A i \in P : \E j \in Q : Linked(blocks, i, j)
  <2> SUFFICES ASSUME NEW i \in P PROVE \E j \in Q : Linked(blocks, i, j)
    OBVIOUS
  <2>1. PICK b \in blocks : i \in b.i1..(b.i2 - 1)
    BY DEF KeptOld
  <2>0. old[i] = x
    OBVIOUS
  <2>2. PICK j \in 1..n : j \in b.j1..(b.j2 - 1) /\ j - b.j1 = i - b.i1 /\ old[i] = new[j]
    BY <1>3, <2>1
  <2>3. j \in Q
    BY <2>0, <2>2 DEF KeptNew
  <2>4. Linked(blocks, i, j)
    BY <2>1, <2>2 DEF Linked
  <2> QED
    BY <2>3, <2>4
<1>6. \A j \in Q : \E i \in P : Linked(blocks, i, j)
  <2> SUFFICES ASSUME NEW j \in Q PROVE \E i \in P : Linked(blocks, i, j)
    OBVIOUS
  <2>1. PICK b \in blocks : j \in b.j1..(b.j2 - 1)
    BY DEF KeptNew
  <2>0. new[j] = x
    OBVIOUS
  <2>2. PICK i \in 1..m : i \in b.i1..(b.i2 - 1) /\ j - b.j1 = i - b.i1 /\ old[i] = new[j]
    BY <1>4, <2>1
  <2>3. i \in P
    BY <2>0, <2>2 DEF KeptOld
  <2>4. Linked(blocks, i, j)
    BY <2>1, <2>2 DEF Linked
  <2> QED
    BY <2>3, <2>4
<1>7. ASSUME NEW i, NEW j, NEW k, NEW l, Linked(blocks, i, j), Linked(blocks, k, l), i = k \/ j = l
      PROVE  i = k /\ j = l
  <2>1. PICK b \in blocks : i \in b.i1..(b.i2 - 1) /\ j \in b.j1..(b.j2 - 1) /\ j - b.j1 = i - b.i1
    BY <1>7 DEF Linked
  <2>2. PICK c \in blocks : k \in c.i1..(c.i2 - 1) /\ l \in c.j1..(c.j2 - 1) /\ l - c.j1 = k - c.i1
    BY <1>7 DEF Linked
  <2>3. b = c
    <3> SUFFICES ASSUME b # c PROVE FALSE
      OBVIOUS
    <3>1. Beside(b, c)
      BY DEF Matches
    <3>2. /\ b.i1 <= i /\ i < b.i2 /\ b.j1 <= j /\ j < b.j2
          /\ c.i1 <= k /\ k < c.i2 /\ c.j1 <= l /\ l < c.j2
          /\ i \in Int /\ j \in Int /\ k \in Int /\ l \in Int
      <4>1. b.i1 \in Int /\ b.i2 \in Int /\ b.j1 \in Int /\ b.j2 \in Int
        BY <1>0
      <4>2. c.i1 \in Int /\ c.i2 \in Int /\ c.j1 \in Int /\ c.j2 \in Int
        BY <1>0
      <4> QED
        BY ONLY <2>1, <2>2, <4>1, <4>2
    <3>3. /\ b.i1 \in Int /\ b.i2 \in Int /\ b.j1 \in Int /\ b.j2 \in Int
          /\ c.i1 \in Int /\ c.i2 \in Int /\ c.j1 \in Int /\ c.j2 \in Int
      BY <1>0
    <3>4. CASE Precedes(b, c)
      BY <1>7, <3>2, <3>3, <3>4 DEF Precedes
    <3>5. CASE Precedes(c, b)
      BY <1>7, <3>2, <3>3, <3>5 DEF Precedes
    <3> QED
      BY <3>1, <3>4, <3>5 DEF Beside
  <2> QED
    BY <1>0, <1>7, <2>1, <2>2, <2>3
<1>8. \A i \in P : f[i] \in Q /\ Linked(blocks, i, f[i])
  <2> HIDE DEF P, Q
  <2> QED
    BY <1>5
<1>9. DOMAIN f = P /\ f = [i \in P |-> f[i]]
  <2> HIDE DEF P, Q
  <2> QED
    OBVIOUS
<1> HIDE DEF f, P, Q
<1>10. f \in [P -> Q]
  BY <1>8, <1>9
<1>11. \A i, k \in P : f[i] = f[k] => i = k
  BY <1>7, <1>8
<1>12. \A j \in Q : \E i \in P : f[i] = j
  BY <1>6, <1>7, <1>8
<1>13. f \in Bijection(P, Q)
  BY <1>10, <1>11, <1>12 DEF Bijection, Injection, Surjection, IsInjective
<1> QED
  BY <1>13 DEF ExistsBijection, Those, P, Q, m, n

LEMMA SplitCount ==
    ASSUME NEW S, NEW T, NEW U, IsFiniteSet(U), S \cup T = U, S \cap T = {}
    PROVE  /\ Cardinality(U) = Cardinality(S) + Cardinality(T)
           /\ IsFiniteSet(S) /\ IsFiniteSet(T)
           /\ Cardinality(S) \in Nat /\ Cardinality(T) \in Nat
<1>1. IsFiniteSet(S) /\ IsFiniteSet(T)
  BY FS_Subset
<1>2. Cardinality(S) \in Nat /\ Cardinality(T) \in Nat
  BY <1>1, FS_CardinalityType
<1>3. Cardinality(U) = Cardinality(S) + Cardinality(T) - Cardinality({})
  BY <1>1, FS_Union
<1> QED
  BY <1>1, <1>2, <1>3, FS_EmptySet

(* What was removed of a line and what was added of it make the difference. *)
LEMMA CountsBalance ==
    ASSUME NEW T, NEW old \in Seq(T), NEW new \in Seq(T),
           NEW blocks, Matches(old, new, blocks), NEW x
    PROVE  LET gone == Cardinality({i \in Removed(old, blocks) : old[i] = x})
               come == Cardinality({j \in Added(new, blocks) : new[j] = x})
           IN  /\ Count(old, x) + come = Count(new, x) + gone
               /\ gone \in Nat /\ come \in Nat
<1> DEFINE m == Len(old)
           n == Len(new)
           P == {i \in KeptOld(m, blocks) : old[i] = x}
           Q == {j \in KeptNew(n, blocks) : new[j] = x}
           G == {i \in Removed(old, blocks) : old[i] = x}
           C == {j \in Added(new, blocks) : new[j] = x}
           U == {i \in DOMAIN old : old[i] = x}
           V == {j \in DOMAIN new : new[j] = x}
<1>1. DOMAIN old = 1..m /\ DOMAIN new = 1..n /\ m \in Nat /\ n \in Nat
  OBVIOUS
<1>2. P \cup G = U /\ P \cap G = {}
  BY <1>1 DEF KeptOld, Removed
<1>3. Q \cup C = V /\ Q \cap C = {}
  BY <1>1 DEF KeptNew, Added
<1>4. IsFiniteSet(U) /\ IsFiniteSet(V)
  <2>1. IsFiniteSet(1..m) /\ IsFiniteSet(1..n)
    BY <1>1, FS_Interval
  <2>2. U \in SUBSET (1..m) /\ V \in SUBSET (1..n)
    BY <1>1
  <2> QED
    BY <2>1, <2>2, FS_Subset
<1>5. ExistsBijection(P, Q)
  <2>1. Len(old) \in Nat /\ Len(new) \in Nat
    OBVIOUS
  <2>2. P = Those(old, KeptOld(m, blocks), x) /\ Q = Those(new, KeptNew(n, blocks), x)
    BY DEF Those
  <2> HIDE DEF P, Q
  <2> QED
    BY <2>1, <2>2, KeptAlike
<1>6. Count(old, x) = Cardinality(U) /\ Count(new, x) = Cardinality(V)
  BY DEF Count
<1> HIDE DEF P, Q, G, C, U, V
<1>7. /\ Cardinality(U) = Cardinality(P) + Cardinality(G) /\ IsFiniteSet(P)
      /\ Cardinality(P) \in Nat /\ Cardinality(G) \in Nat
  BY <1>2, <1>4, SplitCount
<1>8. /\ Cardinality(V) = Cardinality(Q) + Cardinality(C)
      /\ Cardinality(Q) \in Nat /\ Cardinality(C) \in Nat
  BY <1>3, <1>4, SplitCount
<1>9. Cardinality(Q) = Cardinality(P)
  BY <1>5, <1>7, FS_Bijection
<1>10. Count(old, x) + Cardinality(C) = Count(new, x) + Cardinality(G)
  BY <1>6, <1>7, <1>8, <1>9
<1> QED
  BY <1>7, <1>8, <1>10 DEF G, C

---------------------------------------------------------------------------------
(* What is recorded *)

Rank(at, i) == Cardinality({k \in at : k <= i})

LEMMA RanksAre ==
    ASSUME NEW n \in Nat, NEW at \in SUBSET (1..n)
    PROVE  /\ Cardinality(at) \in Nat /\ IsFiniteSet(at)
           /\ \A i \in at : Rank(at, i) \in 1..Cardinality(at)
           /\ \A i, k \in at : Rank(at, i) = Rank(at, k) => i = k
           /\ \A r \in 1..Cardinality(at) : \E i \in at : Rank(at, i) = r
<1> DEFINE below(i) == {k \in at : k <= i}
           c == Cardinality(at)
           f == [i \in at |-> Rank(at, i)]
<1>1. IsFiniteSet(at) /\ c \in Nat
  <2>1. IsFiniteSet(1..n)
    BY FS_Interval
  <2> QED
    BY <2>1, FS_Subset, FS_CardinalityType
<1>2. ASSUME NEW i \in at
      PROVE  /\ IsFiniteSet(below(i)) /\ Rank(at, i) = Cardinality(below(i))
             /\ Rank(at, i) \in 1..c
  <2>1. below(i) \in SUBSET at /\ i \in below(i)
    OBVIOUS
  <2>2. Rank(at, i) = Cardinality(below(i))
    BY DEF Rank
  <2> HIDE DEF below
  <2>3. IsFiniteSet(below(i)) /\ Cardinality(below(i)) <= c
    BY <1>1, <2>1, FS_Subset
  <2>4. Cardinality(below(i)) \in Nat /\ Cardinality(below(i)) # 0
    BY <2>1, <2>3, FS_CardinalityType, FS_EmptySet
  <2> QED
    BY <1>1, <2>2, <2>3, <2>4
<1>3. ASSUME NEW i \in at, NEW k \in at, i < k
      PROVE  Rank(at, i) # Rank(at, k)
  <2>1. below(i) \in SUBSET below(k) /\ k \in below(k) /\ k \notin below(i)
    <3>1. \A z \in at : z \in Nat
      OBVIOUS
    <3>2. \A z \in at : z <= i => z <= k
      BY <1>3, <3>1
    <3>3. i \in Nat /\ k \in Nat /\ k <= k /\ ~(k <= i)
      BY <1>3, <3>1
    <3> QED
      BY <3>2, <3>3
  <2> HIDE DEF below
  <2>2. Cardinality(below(k)) # Cardinality(below(i))
    BY <1>2, <2>1, FS_Subset
  <2> QED
    BY <1>2, <2>2
<1>4. \A i, k \in at : Rank(at, i) = Rank(at, k) => i = k
  <2>1. \A i \in at : i \in Nat
    OBVIOUS
  <2> HIDE DEF below, c, f
  <2> QED
    BY <1>3, <2>1
<1>5. f \in Injection(at, 1..c)
  BY <1>2, <1>4 DEF Injection, IsInjective
<1>6. IsFiniteSet(1..c) /\ Cardinality(1..c) = c
  BY <1>1, FS_Interval
<1> HIDE DEF c, f
<1>7. f \in Surjection(at, 1..c)
  BY <1>5, <1>6, FS_Injection DEF c
<1>8. \A r \in 1..c : \E i \in at : f[i] = r
  BY <1>7 DEF Surjection
<1>9. \A i \in at : f[i] = Rank(at, i)
  BY DEF f
<1> QED
  BY <1>1, <1>2, <1>4, <1>8, <1>9 DEF c

LEMMA LinesAtAre ==
    ASSUME NEW n \in Nat, NEW at \in SUBSET (1..n), NEW lines
    PROVE  /\ DOMAIN LinesAt(lines, at) = 1..Cardinality(at)
           /\ \A i \in at : LinesAt(lines, at)[Rank(at, i)] = lines[i]
<1> DEFINE the(r) == CHOOSE i \in at : Rank(at, i) = r
<1>1. LinesAt(lines, at) = [r \in 1..Cardinality(at) |-> lines[the(r)]]
  BY DEF LinesAt, Rank
<1>2. ASSUME NEW i \in at PROVE the(Rank(at, i)) = i
  <2>1. the(Rank(at, i)) \in at /\ Rank(at, the(Rank(at, i))) = Rank(at, i)
    OBVIOUS
  <2> HIDE DEF the
  <2> QED
    BY <2>1, RanksAre
<1> HIDE DEF the
<1>3. \A i \in at : Rank(at, i) \in 1..Cardinality(at)
  BY RanksAre
<1> QED
  BY <1>1, <1>2, <1>3

(* Every line is recorded once, wherever it is recorded. *)
LEMMA RecordedIs ==
    ASSUME NEW n \in Nat, NEW to, DOMAIN to \in SUBSET (1..n),
           NEW lines, NEW recorded, NEW side, NEW x,
           \A j \in DOMAIN to : to[j] \in DOMAIN recorded,
           \A a \in DOMAIN recorded : recorded[a][side] = LinesAt(lines, Under(to, a))
    PROVE  Recorded(recorded, side, x) = Cardinality(Those(lines, DOMAIN to, x))
<1> DEFINE pairs == UNION {{a} \X DOMAIN recorded[a][side] : a \in DOMAIN recorded}
           P == {p \in pairs : recorded[p[1]][side][p[2]] = x}
           T == Those(lines, DOMAIN to, x)
           g == [j \in T |-> <<to[j], Rank(Under(to, to[j]), j)>>]
<1>1. \A a : Under(to, a) \in SUBSET (1..n)
  BY DEF Under
<1>2. \A a : \A j : j \in Under(to, a) <=> j \in DOMAIN to /\ to[j] = a
  BY DEF Under
<1>3. ASSUME NEW a \in DOMAIN recorded
      PROVE  /\ DOMAIN recorded[a][side] = 1..Cardinality(Under(to, a))
             /\ \A i \in Under(to, a) : recorded[a][side][Rank(Under(to, a), i)] = lines[i]
             /\ \A i \in Under(to, a) : Rank(Under(to, a), i) \in 1..Cardinality(Under(to, a))
             /\ \A i, k \in Under(to, a) : Rank(Under(to, a), i) = Rank(Under(to, a), k) => i = k
             /\ \A r \in 1..Cardinality(Under(to, a)) :
                   \E i \in Under(to, a) : Rank(Under(to, a), i) = r
  <2>1. recorded[a][side] = LinesAt(lines, Under(to, a))
    OBVIOUS
  <2>2. Under(to, a) \in SUBSET (1..n)
    BY <1>1
  <2>3. /\ DOMAIN LinesAt(lines, Under(to, a)) = 1..Cardinality(Under(to, a))
        /\ \A i \in Under(to, a) : LinesAt(lines, Under(to, a))[Rank(Under(to, a), i)] = lines[i]
    BY <2>2, LinesAtAre
  <2> QED
    BY <2>1, <2>2, <2>3, RanksAre
<1>4. \A a, r : <<a, r>> \in P <=> /\ a \in DOMAIN recorded /\ r \in DOMAIN recorded[a][side]
                                  /\ recorded[a][side][r] = x
  OBVIOUS
<1>5. \A p \in P : p = <<p[1], p[2]>>
  OBVIOUS
<1>6. DOMAIN g = T /\ g = [j \in T |-> g[j]] /\ \A j \in T : g[j] = <<to[j], Rank(Under(to, to[j]), j)>>
  <2> HIDE DEF T
  <2> QED
    OBVIOUS
<1>7. \A j : j \in T <=> j \in DOMAIN to /\ lines[j] = x
  BY DEF Those
<1> HIDE DEF pairs, P, T, g
<1>8. ASSUME NEW j \in T PROVE g[j] \in P
  <2>1. to[j] \in DOMAIN recorded /\ j \in Under(to, to[j]) /\ lines[j] = x
    BY <1>2, <1>7
  <2>2. /\ Rank(Under(to, to[j]), j) \in DOMAIN recorded[to[j]][side]
        /\ recorded[to[j]][side][Rank(Under(to, to[j]), j)] = x
    BY <1>3, <2>1
  <2>3. <<to[j], Rank(Under(to, to[j]), j)>> \in P
    BY <1>4, <2>1, <2>2
  <2>4. g[j] = <<to[j], Rank(Under(to, to[j]), j)>>
    BY <1>6
  <2> QED
    BY <2>3, <2>4
<1>9. g \in [T -> P]
  BY <1>6, <1>8
<1>10. ASSUME NEW j \in T, NEW k \in T, g[j] = g[k] PROVE j = k
  <2>1. to[j] = to[k] /\ Rank(Under(to, to[j]), j) = Rank(Under(to, to[k]), k)
    BY <1>6, <1>10
  <2>2. /\ to[j] \in DOMAIN recorded /\ j \in Under(to, to[j])
        /\ k \in Under(to, to[j])
    BY <1>2, <1>7, <2>1
  <2> QED
    BY <1>3, <2>1, <2>2
<1>11. ASSUME NEW p \in P PROVE \E j \in T : g[j] = p
  <2>1. PICK a, r : p = <<a, r>>
    BY <1>5
  <2>2. a \in DOMAIN recorded /\ r \in DOMAIN recorded[a][side] /\ recorded[a][side][r] = x
    BY <1>4, <2>1
  <2>3. PICK i \in Under(to, a) : Rank(Under(to, a), i) = r
    BY <1>3, <2>2
  <2>4. lines[i] = x
    BY <1>3, <2>2, <2>3
  <2>5. i \in T /\ to[i] = a
    BY <1>2, <1>7, <2>3, <2>4
  <2> QED
    BY <1>6, <2>1, <2>3, <2>5
<1>12. g \in Bijection(T, P)
  BY <1>9, <1>10, <1>11 DEF Bijection, Injection, Surjection, IsInjective
<1>13. IsFiniteSet(T)
  <2>1. IsFiniteSet(1..n)
    BY FS_Interval
  <2>2. T \in SUBSET (1..n)
    BY <1>7
  <2> QED
    BY <2>1, <2>2, FS_Subset
<1>14. ExistsBijection(T, P)
  BY <1>12 DEF ExistsBijection
<1>15. Cardinality(P) = Cardinality(T)
  BY <1>13, <1>14, FS_Bijection
<1> QED
  BY <1>15 DEF Recorded, P, pairs, T

---------------------------------------------------------------------------------
(* What a save records *)

To(old, new) == [j \in Added(new, Blocks(old, new)) |-> AnchorAt(Anchors(new), j)]
From(old, new) ==
    [i \in Removed(old, Blocks(old, new)) |->
        AnchorForDelete(Anchors(new), new, RemovedBefore(Blocks(old, new), i))]

LEMMA DiffIs ==
    ASSUME NEW old, NEW new, old # NoText
    PROVE  /\ DOMAIN To(old, new) = Added(new, Blocks(old, new))
           /\ DOMAIN From(old, new) = Removed(old, Blocks(old, new))
           /\ DOMAIN Diff(old, new) = Range(To(old, new)) \cup Range(From(old, new))
           /\ \A a \in DOMAIN Diff(old, new) :
                 /\ Diff(old, new)[a].added = LinesAt(new, Under(To(old, new), a))
                 /\ Diff(old, new)[a].removed = LinesAt(old, Under(From(old, new), a))
<1> DEFINE to == To(old, new)
           from == From(old, new)
           d == Diff(old, new)
<1>1. d = [a \in {to[j] : j \in DOMAIN to} \cup {from[i] : i \in DOMAIN from} |->
              [added |-> LinesAt(new, Under(to, a)), removed |-> LinesAt(old, Under(from, a))]]
  BY DEF Diff, To, From
<1>2. /\ DOMAIN to = Added(new, Blocks(old, new))
      /\ DOMAIN from = Removed(old, Blocks(old, new))
  BY DEF To, From
<1> HIDE DEF to, from, d
<1>3. DOMAIN d = Range(to) \cup Range(from)
  BY <1>1 DEF Range
<1>4. \A a \in DOMAIN d : /\ d[a].added = LinesAt(new, Under(to, a))
                         /\ d[a].removed = LinesAt(old, Under(from, a))
  BY <1>1
<1> QED
  BY <1>2, <1>3, <1>4 DEF to, from, d

LEMMA DiffBalances ==
    ASSUME NEW T, NEW old \in Seq(T), NEW new \in Seq(T), old # NoText
    PROVE  Balanced(old, new, Diff(old, new))
<1> DEFINE blocks == Blocks(old, new)
           to == To(old, new)
           from == From(old, new)
           d == Diff(old, new)
           m == Len(old)
           n == Len(new)
<1>1. m \in Nat /\ n \in Nat /\ DOMAIN old = 1..m /\ DOMAIN new = 1..n
  OBVIOUS
<1>2. Matches(old, new, blocks)
  BY <1>1, BlocksMatch
<1>3. /\ DOMAIN to = Added(new, blocks) /\ DOMAIN from = Removed(old, blocks)
      /\ DOMAIN d = Range(to) \cup Range(from)
      /\ \A a \in DOMAIN d : /\ d[a].added = LinesAt(new, Under(to, a))
                            /\ d[a].removed = LinesAt(old, Under(from, a))
  BY ONLY old # NoText, DiffIs
<1>4. DOMAIN to \in SUBSET (1..n) /\ DOMAIN from \in SUBSET (1..m)
  <2> HIDE DEF to, from, blocks, m, n
  <2> QED
    BY <1>1, <1>3 DEF Added, Removed
<1> HIDE DEF blocks, to, from, d, m, n
<1>5. ASSUME NEW x
      PROVE  Count(old, x) + Recorded(d, "added", x) = Count(new, x) + Recorded(d, "removed", x)
  <2>1. Recorded(d, "added", x) = Cardinality(Those(new, DOMAIN to, x))
    <3>1. \A a \in DOMAIN d : d[a]["added"] = LinesAt(new, Under(to, a))
      BY <1>3
    <3>2. \A j \in DOMAIN to : to[j] \in DOMAIN d
      BY <1>3 DEF Range
    <3> QED
      BY <1>1, <1>4, <3>1, <3>2, RecordedIs
  <2>2. Recorded(d, "removed", x) = Cardinality(Those(old, DOMAIN from, x))
    <3>1. \A a \in DOMAIN d : d[a]["removed"] = LinesAt(old, Under(from, a))
      BY <1>3
    <3>2. \A j \in DOMAIN from : from[j] \in DOMAIN d
      BY <1>3 DEF Range
    <3> QED
      BY <1>1, <1>4, <3>1, <3>2, RecordedIs
  <2>3. /\ Count(old, x) + Cardinality({j \in Added(new, blocks) : new[j] = x})
           = Count(new, x) + Cardinality({i \in Removed(old, blocks) : old[i] = x})
    BY <1>2, CountsBalance
  <2> QED
    BY <1>3, <2>1, <2>2, <2>3 DEF Those
<1> QED
  BY <1>5 DEF Balanced, d

LEMMA AddedUnderAnchor ==
    ASSUME NEW T, NEW old \in Seq(T), NEW new \in Seq(T), old # NoText, NEW a \in DOMAIN Diff(old, new)
    PROVE  ToSet(Diff(old, new)[a].added) \subseteq LinesUnder(new, a)
<1> DEFINE at == Under(To(old, new), a)
<1>1. Diff(old, new)[a].added = LinesAt(new, at)
  BY DiffIs
<1>2. at \in SUBSET (1..Len(new)) /\ Len(new) \in Nat /\ DOMAIN new = 1..Len(new)
  BY DEF Under, To, Added
<1>3. \A j \in at : AnchorAt(Anchors(new), j) = a
  BY DEF Under, To
<1> HIDE DEF at
<1>4. ASSUME NEW r \in 1..Cardinality(at)
      PROVE  LinesAt(new, at)[r] \in LinesUnder(new, a)
  <2>1. PICK i \in at : Rank(at, i) = r
    BY <1>2, RanksAre
  <2>2. LinesAt(new, at)[r] = new[i]
    BY <1>2, <2>1, LinesAtAre
  <2> QED
    BY <1>2, <1>3, <2>2 DEF LinesUnder
<1>5. DOMAIN LinesAt(new, at) = 1..Cardinality(at)
  BY <1>2, LinesAtAre
<1> QED
  BY <1>1, <1>4, <1>5 DEF ToSet

LEMMA NothingIsRecorded ==
    ASSUME NEW T, NEW s \in Seq(T), s # NoText, Len(s) > 0
    PROVE  DOMAIN Diff(s, s) = {}
<1>1. Len(s) \in Nat /\ DOMAIN s = 1..Len(s)
  OBVIOUS
<1>2. Whole(s, s) \in Blocks(s, s)
  BY <1>1, NothingChanges
<1>3. \A i \in 1..Len(s) : /\ i \in Whole(s, s).i1..(Whole(s, s).i2 - 1)
                          /\ i \in Whole(s, s).j1..(Whole(s, s).j2 - 1)
  BY <1>1 DEF Whole, Box
<1>4. Added(s, Blocks(s, s)) = {} /\ Removed(s, Blocks(s, s)) = {}
  BY <1>1, <1>2, <1>3 DEF Added, Removed
<1>5. /\ DOMAIN To(s, s) = Added(s, Blocks(s, s))
      /\ DOMAIN From(s, s) = Removed(s, Blocks(s, s))
      /\ DOMAIN Diff(s, s) = Range(To(s, s)) \cup Range(From(s, s))
  BY ONLY s # NoText, DiffIs
<1> QED
  BY ONLY <1>4, <1>5 DEF Range

(* The history has every line that an edit adds or removes once, the added ones under the *)
(* section that they are in, and nothing of a save that changes nothing, for texts of any *)
(* length and any edits (diffing.py:3-8, history.py:73-146).                              *)
THEOREM EditsAreRecorded == DocumentSpec => EditIsRecorded
<1> DEFINE Recording == body # NoText /\ (body' # body \/ changes' # changes) =>
                           /\ Balanced(body, body', changes')
                           /\ \A a \in DOMAIN changes' : ToSet(changes'[a].added) \subseteq LinesUnder(body', a)
                           /\ body' = body => DOMAIN changes' = {}
<1>1. ASSUME TextsAreLines, [DocumentNext]_documentVars PROVE [Recording]_documentVars
  <2> SUFFICES ASSUME DocumentNext, body # NoText, body' # body \/ changes' # changes
               PROVE  /\ Balanced(body, body', changes')
                      /\ \A a \in DOMAIN changes' :
                            ToSet(changes'[a].added) \subseteq LinesUnder(body', a)
                      /\ body' = body => DOMAIN changes' = {}
    BY <1>1
  <2>1. SaveDocument
    BY DEF DocumentNext, Type, Edit
  <2>2. body' = Normalize(draft) /\ changes' = Diff(body, body')
    BY <2>1 DEF SaveDocument
  <2>3. body \in Seq(AllLines) /\ draft \in Seq(AllLines)
    BY <1>1 DEF TextsAreLines
  <2>4. PICK t \in Seq(AllLines) : Normalize(draft) = Append(t, Blank)
    BY <2>3, NormalizeIsEnded
  <2>5. body' \in Seq(AllLines) /\ Len(body') > 0
    BY <2>2, <2>4, BlankIsBare
  <2>6. Balanced(body, body', changes')
    BY <2>2, <2>3, <2>5, DiffBalances
  <2>7. \A a \in DOMAIN changes' : ToSet(changes'[a].added) \subseteq LinesUnder(body', a)
    BY <2>2, <2>3, <2>5, AddedUnderAnchor
  <2>8. body' = body => DOMAIN changes' = {}
    BY <2>2, <2>3, <2>5, NothingIsRecorded
  <2> QED
    BY <2>6, <2>7, <2>8
<1>2. QED
  BY <1>1, TextsAlways, PTL DEF DocumentSpec, EditIsRecorded
=================================================================================
