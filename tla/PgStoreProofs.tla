----------------------------- MODULE PgStoreProofs -----------------------------
(***************************************************************************)
(* The PostgreSQL backend, for any number of processes, threads, documents, *)
(* statements, calls and faults, and any file store that is imported.       *)
(*                                                                         *)
(* LockInv says which locks a thread has at each of its steps, as long as    *)
(* the connection of its process works, and that a process that is not up   *)
(* has no thread at work; the sections, the order of the locks and the type *)
(* of the state follow from it.  Under the lock of its document, what a     *)
(* thread has read stays true until it commits: this, and how far the       *)
(* import has come, is DataInv, from which the histories and types follow.  *)
(* The schema has an invariant of its own, SchemaInv, and so have the locks *)
(* that a session keeps because their unlock raised, LeakedInv.             *)
(***************************************************************************)
EXTENDS PgStore, SequenceTheorems, TLAPS

Locals == [key : Keys \cup {None}, doc : Docs \cup {None}, new : Contents \cup {None},
           prev : {None, Blank} \cup Contents, todo : SUBSET Docs, n : Nat]

Shapes ==
    /\ schema \in 0..Statements
    /\ docs \in [Docs -> {None, Blank} \cup Contents]
    /\ history \in [Docs -> Seq(Entry)]
    /\ locks \in [Keys \cup Docs -> Threads \cup {None}]
    /\ state \in [Procs -> {"down", "starting", "up"}]
    /\ conn \subseteq {p \in Procs : state[p] # "down"}
    /\ step \in [Procs -> Nat] /\ \A p \in Owners : step[p] < Statements
    /\ rlock \in [Procs -> Threads \cup {None}]
    /\ pc \in [Threads -> Labels]
    /\ local \in [Threads -> Locals]
    /\ mixed \subseteq Docs

InTransaction == {"read", "commit"}
InSection == (Reflecting \cup {"unlock"}) \ {"lock"}
Importing == {"precreate", "next", "clear", "insert"}

(* What a thread is doing. *)
WorkOK(t) ==
    /\ pc[t] = "idle" => local[t].key = None
    /\ pc[t] # "idle" => state[Home[t]] = "up"
    /\ pc[t] \in Reflecting \cup {"key", "unlock"} =>
          local[t].doc \in Docs /\ local[t].new \in Contents
    /\ pc[t] \in {"key", "unlock"} => local[t].key \in Keys
    /\ pc[t] \in Importing => t = Importer
    /\ t = Importer =>
          /\ local[t].key = None
          /\ pc[t] \in Reflecting \cup {"clear", "insert"} =>
                local[t].doc \in Docs /\ local[t].new = Source[local[t].doc].doc

(* The locks that it has. *)
NeedsRLock(t) ==
    \/ pc[t] \in {"key", "unlock", "doc", "read", "commit"}
    \/ pc[t] = "lint" /\ local[t].key # None

LocksOK(t) ==
    /\ HasRLock(t) <=> NeedsRLock(t)
    /\ \A k \in Keys :
          locks[k] = t <=> Alive(t) /\ local[t].key = k /\ pc[t] \in InSection
    /\ \A d \in Docs :
          locks[d] = t <=> Alive(t) /\ local[t].doc = d /\ pc[t] \in InTransaction

LockInv ==
    /\ Shapes
    /\ \A t \in Threads : WorkOK(t) /\ LocksOK(t)
    /\ \A p \in Procs : rlock[p] # None => Home[rlock[p]] = p

LEMMA LockInit == Init => LockInv
<1> SUFFICES ASSUME Init PROVE LockInv
  OBVIOUS
<1>1. Shapes
  BY PgConstants DEF Init, Shapes, Locals, NoLocal, Labels
<1>2. \A t \in Threads : WorkOK(t)
  BY DEF Init, WorkOK, NoLocal, Reflecting, Importing
<1>3. \A t \in Threads : LocksOK(t)
  BY PgConstants DEF Init, LocksOK, HasRLock, NeedsRLock, Alive, NoLocal, InSection,
                     InTransaction, Reflecting
<1> QED
  BY <1>1, <1>2, <1>3, PgConstants DEF Init, LockInv

---------------------------------------------------------------------------------
(* Processes *)

ProcessesOK ==
    /\ state \in [Procs -> {"down", "starting", "up"}]
    /\ conn \subseteq {q \in Procs : state[q] # "down"}
    /\ step \in [Procs -> Nat] /\ \A q \in Owners : step[q] < Statements

LEMMA ExitOK == ASSUME ProcessesOK, NEW p \in Procs, Exit(p) PROVE ProcessesOK'
BY PgConstants DEF ProcessesOK, Exit, Disconnect

LEMMA UpOK == ASSUME ProcessesOK, NEW p \in Procs, Up(p), UNCHANGED conn PROVE ProcessesOK'
BY PgConstants DEF ProcessesOK, Up

(* A process that starts or ends has no thread at work. *)
LEMMA ProcessLocks ==
    ASSUME LockInv, NEW p \in Procs,
           Start(p) \/ Migrate(p) \/ Await(p) \/ FailStart(p)
    PROVE  LockInv'
<1>1. /\ UNCHANGED <<docs, history, locks, rlock, pc, local, mixed>>
      /\ state[p] # "up" /\ \A q \in Procs \ {p} : state'[q] = state[q] /\ (q \in conn' <=> q \in conn)
  BY DEF Start, Migrate, Await, Poll, Waiting, FailStart, Exit, Disconnect, Up, db, counts, LockInv, Shapes
<1> ProcessesOK
  BY DEF LockInv, Shapes, ProcessesOK
<1>2. schema' \in 0..Statements /\ ProcessesOK'
  <2>1. CASE Start(p)
    BY <2>1 DEF Start, db, LockInv, Shapes, ProcessesOK
  <2>4. CASE FailStart(p)
    BY <2>4, ExitOK DEF FailStart, db, LockInv, Shapes
  <2>2. CASE Migrate(p)
    <3>1. step[p] \in Nat /\ step[p] < Statements /\ schema \in 0..Statements
      BY <2>2 DEF Migrate, LockInv, Shapes
    <3>2. schema' \in 0..Statements
      BY <2>2, <3>1, PgConstants DEF Migrate
    <3>3. CASE Up(p) /\ UNCHANGED conn
      BY <3>2, <3>3, UpOK
    <3>4. CASE step[p] + 1 # Statements /\ step' = [step EXCEPT ![p] = @ + 1]
                 /\ UNCHANGED <<state, conn>>
      BY <3>1, <3>2, <3>4, PgConstants DEF ProcessesOK
    <3> QED
      BY <2>2, <3>3, <3>4 DEF Migrate
  <2>3. CASE Await(p)
    <3>1. p \notin Owners /\ UNCHANGED schema
      BY <2>3 DEF Await, Poll, Waiting, db
    <3>2. CASE Up(p) /\ UNCHANGED conn
      BY <3>1, <3>2, UpOK DEF LockInv, Shapes
    <3>3. CASE Exit(p)
      BY <3>1, <3>3, ExitOK DEF LockInv, Shapes
    <3>4. CASE step' = [step EXCEPT ![p] = @ + 1] /\ UNCHANGED <<state, conn>>
      BY <3>1, <3>4, PgConstants DEF LockInv, Shapes, ProcessesOK
    <3> QED
      BY <2>3, <3>2, <3>3, <3>4 DEF Await, Poll
  <2> QED
    BY <2>1, <2>2, <2>3, <2>4
<1>3. Shapes'
  BY <1>1, <1>2 DEF LockInv, Shapes, ProcessesOK
<1>4. \A t \in Threads : Home[t] = p => pc[t] = "idle"
  BY <1>1 DEF LockInv, WorkOK
<1>5. \A t \in Threads : WorkOK(t)'
  BY <1>1, <1>4, PgConstants DEF LockInv, WorkOK, Reflecting, Importing
<1>6. ASSUME NEW t \in Threads PROVE LocksOK(t)'
  <2>1. CASE Home[t] = p
    BY <1>1, <1>4, <2>1
    DEF LockInv, LocksOK, HasRLock, NeedsRLock, Alive, InSection, InTransaction, Reflecting
  <2>2. CASE Home[t] # p
    BY <1>1, <2>2, PgConstants DEF LockInv, LocksOK, HasRLock, NeedsRLock, Alive
  <2> QED
    BY <2>1, <2>2
<1> QED
  BY <1>1, <1>3, <1>5, <1>6 DEF LockInv

(* A connection that is lost, or a process that is killed, loses its locks. *)
LEMMA LostLocks ==
    ASSUME LockInv, NEW p \in Procs, Lose(p) \/ Kill(p)
    PROVE  LockInv'
<1>1. /\ UNCHANGED <<schema, docs, history>>
      /\ conn' = conn \ {p}
      /\ locks' = Free({t \in Threads : Home[t] = p})
      /\ \A t \in Threads : Home[t] # p => pc'[t] = pc[t] /\ local'[t] = local[t]
      /\ \A q \in Procs \ {p} : rlock'[q] = rlock[q] /\ state'[q] = state[q]
  BY DEF Lose, Kill, Exit, Disconnect, LockInv, Shapes
<1>2. \/ UNCHANGED <<state, step, rlock, pc, local>>
      \/ /\ state'[p] = "down" /\ rlock'[p] = None
         /\ \A t \in Threads : Home[t] = p => pc'[t] = "idle" /\ local'[t] = NoLocal
  BY PgConstants DEF Lose, Kill, Exit, Disconnect, LockInv, Shapes
<1>3. /\ locks' \in [Keys \cup Docs -> Threads \cup {None}]
      /\ \A t \in Threads, k \in Keys \cup Docs : locks'[k] = t <=> locks[k] = t /\ Home[t] # p
  BY <1>1, PgConstants DEF Free, LockInv, Shapes
<1>4. Shapes'
  <2>1. /\ state' \in [Procs -> {"down", "starting", "up"}]
        /\ step' \in [Procs -> Nat] /\ \A q \in Owners : step'[q] < Statements
        /\ rlock' \in [Procs -> Threads \cup {None}]
        /\ conn' \subseteq {q \in Procs : state'[q] # "down"}
    <3>1. CASE Lose(p)
      BY <3>1 DEF Lose, Disconnect, LockInv, Shapes
    <3>2. CASE Kill(p)
      BY <3>2, PgConstants DEF Kill, Exit, Disconnect, LockInv, Shapes
    <3> QED
      BY <3>1, <3>2
  <2>2. mixed' \subseteq Docs
    BY DEF Lose, Kill, Cut, LockInv, Shapes
  <2>3. NoLocal \in Locals /\ "idle" \in Labels
    BY DEF NoLocal, Locals, Labels
  <2>4. pc' \in [Threads -> Labels] /\ local' \in [Threads -> Locals]
    <3>1. CASE Lose(p)
      BY <3>1 DEF Lose, Disconnect, LockInv, Shapes
    <3>2. CASE Kill(p)
      BY <3>2, <2>3 DEF Kill, LockInv, Shapes
    <3> QED
      BY <3>1, <3>2
  <2> QED
    BY <1>1, <1>3, <2>1, <2>2, <2>4 DEF LockInv, Shapes
<1>5. ASSUME NEW t \in Threads PROVE WorkOK(t)' /\ LocksOK(t)'
  <2>1. CASE Home[t] # p
    BY <2>1, <1>1, <1>3, PgConstants DEF LockInv, WorkOK, LocksOK, HasRLock, NeedsRLock, Alive
  <2>2. CASE Home[t] = p /\ UNCHANGED <<state, step, rlock, pc, local>>
    BY <2>2, <1>1, <1>3, PgConstants DEF LockInv, WorkOK, LocksOK, HasRLock, NeedsRLock, Alive
  <2>3. CASE Home[t] = p /\ pc'[t] = "idle" /\ local'[t] = NoLocal /\ rlock'[p] = None
    <3>1. WorkOK(t)'
      BY <2>3 DEF WorkOK, NoLocal, Reflecting, Importing
    <3>2. LocksOK(t)'
      BY <2>3, <1>3, PgConstants
      DEF LocksOK, HasRLock, NeedsRLock, Alive, InSection, InTransaction, Reflecting
    <3> QED
      BY <3>1, <3>2
  <2> QED
    BY <1>2, <2>1, <2>2, <2>3
<1>6. \A q \in Procs : rlock'[q] # None => Home[rlock'[q]] = q
  BY <1>1, <1>2 DEF LockInv
<1> QED
  BY <1>4, <1>5, <1>6 DEF LockInv
---------------------------------------------------------------------------------
(* Threads *)

LEMMA NoLocalIsLocal == NoLocal \in Locals
BY DEF NoLocal, Locals

(* A step of t that gives up what t has, and changes nothing of the others. *)
LEMMA RaiseLocks ==
    ASSUME LockInv, NEW t \in Threads, pc[t] \notin {"idle", "lock"}, Raise(t),
           mixed' \subseteq Docs
    PROVE  LockInv'
<1>1. /\ UNCHANGED <<schema, docs, history>>
      /\ \A x \in Threads \ {t} : pc'[x] = pc[x] /\ local'[x] = local[x]
      /\ pc' \in [Threads -> Labels] /\ local' \in [Threads -> Locals]
      /\ pc'[t] \in {"idle", "unlock"}
  <2>1. PICK label \in {"idle", "unlock"}, l \in Locals : Goto(t, label, l)
    BY NoLocalIsLocal DEF Raise, Return, LockInv, Shapes
  <2>2. label \in Labels
    BY DEF Labels
  <2>3. UNCHANGED <<schema, docs, history>>
    BY DEF Raise
  <2> QED
    BY <2>1, <2>2, <2>3 DEF Goto, LockInv, Shapes
<1>2. /\ locks' \in [Keys \cup Docs -> Threads \cup {None}]
      /\ \A x \in Threads \ {t}, k \in Keys \cup Docs : locks'[k] = x <=> locks[k] = x
      /\ pc'[t] = "idle" => local'[t] = NoLocal /\ \A k \in Keys \cup Docs : locks'[k] # t
      /\ pc'[t] = "unlock" => /\ local'[t] = local[t] /\ locks'[local[t].doc] # t
                              /\ \A k \in (Keys \cup Docs) \ {local[t].doc} : locks'[k] = locks[k]
  <2>1. CASE Return(t) /\ locks' = Free({t})
    BY <2>1, PgConstants DEF Return, Goto, Free, LockInv, Shapes
  <2>2. CASE /\ t # Importer
             /\ locks' = [locks EXCEPT ![local[t].doc] = IF @ = t THEN None ELSE @]
             /\ Goto(t, "unlock", local[t])
    <3>1. local[t].doc \in Docs
      BY <1>1, <2>2 DEF LockInv, WorkOK, Shapes, Labels, Importing
    <3> QED
      BY <2>2, <3>1, PgConstants DEF Goto, LockInv, Shapes
  <2> QED
    BY <2>1, <2>2 DEF Raise
<1>3. /\ rlock' \in [Procs -> Threads \cup {None}]
      /\ \A x \in Threads \ {t} : HasRLock(x)' <=> HasRLock(x)
      /\ HasRLock(t)' <=> pc'[t] = "unlock"
      /\ \A p \in Procs : rlock'[p] # None => Home[rlock'[p]] = p
  <2>1. CASE Return(t)
    <3>1. /\ pc'[t] = "idle" /\ Home[t] \in Procs /\ t # None
          /\ rlock' = [rlock EXCEPT ![Home[t]] = IF rlock[Home[t]] = t THEN None
                                                ELSE rlock[Home[t]]]
      BY <2>1, PgConstants DEF Return, Goto, LockInv, Shapes
    <3>2. /\ rlock \in [Procs -> Threads \cup {None}]
          /\ \A p \in Procs : rlock[p] # None => Home[rlock[p]] = p
      BY DEF LockInv, Shapes
    <3>3. \A p \in Procs : rlock'[p] = rlock[p] \/ (rlock[p] = t /\ rlock'[p] = None)
      BY <3>1, <3>2
    <3>4. rlock'[Home[t]] # t
      BY <3>1, <3>2
    <3>5. \A x \in Threads : Home[x] \in Procs
      BY PgConstants
    <3> QED
      BY <3>1, <3>2, <3>3, <3>4, <3>5, PgConstants DEF HasRLock
  <2>2. CASE HasRLock(t) /\ Goto(t, "unlock", local[t]) /\ UNCHANGED rlock
    BY <2>2, PgConstants DEF Goto, HasRLock, LockInv, Shapes
  <2> QED
    BY <2>1, <2>2 DEF Raise
<1>4. /\ ProcessesOK'
      /\ \A x \in Threads \ {t} : state'[Home[x]] = state[Home[x]] /\ (Alive(x)' <=> Alive(x))
      /\ pc'[t] = "unlock" => state'[Home[t]] = state[Home[t]] /\ Alive(t)'
  <2>1. ProcessesOK
    BY DEF LockInv, Shapes, ProcessesOK
  <2>2. CASE t = Importer
    <3>1. Exit(Home[t]) /\ Return(t) /\ Home[t] \in Procs
      BY <2>2, PgConstants DEF Raise
    <3>2. ProcessesOK' /\ pc'[t] = "idle"
      BY <2>1, <3>1, ExitOK DEF Return, Goto, LockInv, Shapes
    <3>3. \A x \in Threads \ {t} : Home[x] # Home[t]
      BY <2>2, PgConstants
    <3> QED
      BY <3>1, <3>2, <3>3, PgConstants DEF Exit, Disconnect, Alive, LockInv, Shapes
  <2>3. CASE t # Importer
    BY <2>1, <2>3 DEF Raise, process, ProcessesOK, Return, Goto, Alive, LockInv, Shapes
  <2> QED
    BY <2>2, <2>3
<1>5. Shapes'
  BY <1>1, <1>2, <1>3, <1>4 DEF LockInv, Shapes, ProcessesOK
<1>6. ASSUME NEW x \in Threads PROVE WorkOK(x)' /\ LocksOK(x)'
  <2>1. CASE x # t
    BY <2>1, <1>1, <1>2, <1>3, <1>4 DEF LockInv, WorkOK, LocksOK, NeedsRLock
  <2>2. CASE x = t /\ pc'[t] = "idle"
    <3>1. WorkOK(x)'
      BY <2>2, <1>2 DEF WorkOK, NoLocal, Reflecting, Importing
    <3>2. LocksOK(x)'
      BY <2>2, <1>2, <1>3 DEF LocksOK, NeedsRLock, InSection, InTransaction, Reflecting
    <3> QED
      BY <3>1, <3>2
  <2>3. CASE x = t /\ pc'[t] = "unlock"
    <3>1. /\ t # Importer /\ local[t].key # None /\ pc[t] # "key" /\ Alive(t)
          /\ pc[t] \in InSection /\ local[t].key \in Keys
          /\ local[t].doc \in Docs /\ local[t].new \in Contents
      <4>1. t # Importer /\ local[t].key # None /\ pc[t] # "key" /\ Alive(t)
        BY <2>3, PgConstants DEF Raise, Return, Goto, LockInv, Shapes
      <4>2. pc[t] \in InSection
        BY <4>1 DEF LockInv, Shapes, WorkOK, Labels, Importing, InSection, Reflecting
      <4>3. local[t].key \in Keys
        BY <4>1 DEF LockInv, Shapes, Locals
      <4> QED
        BY <4>1, <4>2, <4>3 DEF LockInv, WorkOK, InSection, Reflecting
    <3>2. WorkOK(x)'
      BY <2>3, <3>1, <1>2, <1>4 DEF LockInv, WorkOK, Reflecting, Importing
    <3>3. LocksOK(x)'
      <4>1. \A k \in Keys : locks'[k] = locks[k]
        BY <2>3, <3>1, <1>2, PgConstants
      <4>2. \A k \in Keys : locks'[k] = t <=> Alive(t)' /\ local'[t].key = k /\ pc'[t] \in InSection
        BY <2>3, <3>1, <4>1, <1>2, <1>4 DEF LockInv, LocksOK, InSection, Reflecting
      <4>3. \A d \in Docs : locks'[d] # t
        BY <2>3, <1>2, PgConstants DEF LockInv, LocksOK
      <4> QED
        BY <2>3, <4>2, <4>3, <1>3 DEF LocksOK, NeedsRLock, InTransaction
    <3> QED
      BY <3>2, <3>3
  <2> QED
    BY <2>1, <2>2, <2>3, <1>1
<1> QED
  BY <1>3, <1>5, <1>6 DEF LockInv

(* A step of t alone: what the others have stays. *)
LEMMA OwnStepLocks ==
    ASSUME LockInv, NEW t \in Threads, NEW label \in Labels, NEW l \in Locals, Goto(t, label, l),
           UNCHANGED <<state, conn, step>>,
           schema' = schema, docs' \in [Docs -> {None, Blank} \cup Contents],
           history' \in [Docs -> Seq(Entry)], mixed' \subseteq Docs,
           locks' \in [Keys \cup Docs -> Threads \cup {None}],
           \A x \in Threads \ {t}, k \in Keys \cup Docs : locks'[k] = x <=> locks[k] = x,
           rlock' \in [Procs -> Threads \cup {None}],
           \A p \in Procs : \/ rlock'[p] = rlock[p]
                            \/ p = Home[t] /\ rlock'[p] \in {t, None} /\ rlock[p] \in {t, None},
           WorkOK(t)', LocksOK(t)'
    PROVE  LockInv'
<1>1. /\ pc' \in [Threads -> Labels] /\ local' \in [Threads -> Locals]
      /\ \A x \in Threads \ {t} : pc'[x] = pc[x] /\ local'[x] = local[x]
  BY DEF Goto, LockInv, Shapes
<1>2. Shapes'
  BY <1>1 DEF LockInv, Shapes
<1>3. \A p \in Procs : rlock'[p] # None => Home[rlock'[p]] = p
  <2>1. \A p \in Procs : rlock[p] # None => Home[rlock[p]] = p
    BY DEF LockInv
  <2> QED
    BY <2>1
<1>4. ASSUME NEW x \in Threads PROVE WorkOK(x)' /\ LocksOK(x)'
  <2>1. CASE x # t
    <3>1. HasRLock(x)' <=> HasRLock(x)
      <4>1. Home[x] \in Procs /\ x # None
        BY PgConstants
      <4>2. rlock'[Home[x]] = rlock[Home[x]] \/ (rlock'[Home[x]] # x /\ rlock[Home[x]] # x)
        BY <2>1, <4>1
      <4> QED
        BY <4>2 DEF HasRLock
    <3> QED
      BY <2>1, <3>1, <1>1 DEF LockInv, WorkOK, LocksOK, NeedsRLock, Alive
  <2>2. CASE x = t
    BY <2>2
  <2> QED
    BY <2>1, <2>2
<1> QED
  BY <1>2, <1>3, <1>4 DEF LockInv

(* A step of t that takes or gives no lock, between places with the same locks. *)
LEMMA QuietLocks ==
    ASSUME LockInv, NEW t \in Threads, NEW label \in Labels, NEW l \in Locals, Goto(t, label, l),
           UNCHANGED <<schema, locks, state, conn, step, rlock>>,
           docs' \in [Docs -> {None, Blank} \cup Contents],
           history' \in [Docs -> Seq(Entry)], mixed' \subseteq Docs,
           WorkOK(t)',
           (label \in {"key", "unlock", "doc", "read", "commit"} \/ (label = "lint" /\ l.key # None))
               <=> NeedsRLock(t),
           \A k \in Keys : l.key = k /\ label \in InSection
                             <=> local[t].key = k /\ pc[t] \in InSection,
           \A d \in Docs : l.doc = d /\ label \in InTransaction
                             <=> local[t].doc = d /\ pc[t] \in InTransaction
    PROVE  LockInv'
<1>1. pc'[t] = label /\ local'[t] = l
  BY DEF Goto, LockInv, Shapes
<1>2. LocksOK(t)'
  BY <1>1 DEF LockInv, LocksOK, HasRLock, NeedsRLock, Alive
<1>3. /\ locks' \in [Keys \cup Docs -> Threads \cup {None}]
      /\ rlock' \in [Procs -> Threads \cup {None}]
  BY DEF LockInv, Shapes
<1> QED
  BY <1>2, <1>3, OwnStepLocks

LEMMA CallLocks ==
    ASSUME LockInv, NEW t \in Threads, NEW r \in Requests, Call(t, r)
    PROVE  LockInv'
<1> DEFINE l == [NoLocal EXCEPT !.key = r.key, !.doc = r.doc, !.new = r.new]
<1>1. r.key \in Keys \cup {None} /\ r.doc \in Docs /\ r.new \in Contents
  BY PgConstants
<1>2. l \in Locals /\ l.key = r.key /\ l.doc = r.doc /\ l.new = r.new
  BY <1>1 DEF Locals, NoLocal
<1> HIDE DEF l
<1>3. PICK label \in {"lint", "lock"} : Goto(t, label, l) /\ (label = "lint" <=> r.key = None)
  BY DEF Call, l
<1>4. /\ t # Importer /\ pc[t] = "idle" /\ state[Home[t]] = "up"
      /\ UNCHANGED <<schema, docs, history, locks, state, conn, step, rlock, mixed>>
  BY DEF Call, db, process
<1>5. label \in Labels /\ pc'[t] = label /\ local'[t] = l
  BY <1>3 DEF Goto, LockInv, Shapes, Labels, Reflecting
<1>6. WorkOK(t)'
  BY <1>1, <1>2, <1>3, <1>4, <1>5 DEF WorkOK, Reflecting, Importing
<1> QED
  <2>1. /\ label = "lint" /\ l.key # None <=> NeedsRLock(t)
        /\ label \notin {"key", "unlock", "doc", "read", "commit"}
    BY <1>2, <1>3, <1>4 DEF NeedsRLock
  <2>2. \A k \in Keys : ~(l.key = k /\ label \in InSection) /\ pc[t] \notin InSection
    BY <1>2, <1>3, <1>4, PgConstants DEF InSection, Reflecting
  <2>3. label \notin InTransaction /\ pc[t] \notin InTransaction
    BY <1>4 DEF InTransaction
  <2>4. Shapes
    BY DEF LockInv
  <2> QED
    BY <1>2, <1>3, <1>4, <1>5, <1>6, <2>1, <2>2, <2>3, <2>4, QuietLocks DEF Shapes

LEMMA LintLocks ==
    ASSUME LockInv, NEW t \in Threads, Lint(t)
    PROVE  LockInv'
<1>1. pc[t] = "lint" /\ UNCHANGED mixed
  BY DEF Lint
<1>2. CASE Raise(t)
  BY <1>1, <1>2, RaiseLocks DEF LockInv, Shapes
<1>3. CASE Goto(t, IF HasRLock(t) THEN "doc" ELSE "lock", local[t]) /\ UNCHANGED <<db, process, rlock>>
  <2>1. PICK label \in {"doc", "lock"} : Goto(t, label, local[t]) /\ (label = "doc" <=> HasRLock(t))
    BY <1>3
  <2>2. HasRLock(t) <=> local[t].key # None
    BY <1>1 DEF LockInv, LocksOK, NeedsRLock
  <2>3. /\ pc'[t] = label /\ local'[t] = local[t] /\ label \in Labels /\ local[t] \in Locals
        /\ UNCHANGED <<schema, docs, history, locks, state, conn, step, rlock>>
    BY <1>3, <2>1 DEF Goto, LockInv, Shapes, Labels, Reflecting, db, process
  <2>4. WorkOK(t)'
    BY <1>1, <2>1, <2>3 DEF LockInv, WorkOK, Reflecting, Importing
  <2> QED
    <3>1. /\ label \in {"key", "unlock", "doc", "read", "commit"} <=> NeedsRLock(t)
          /\ label # "lint"
      BY <1>1, <2>1, <2>2 DEF NeedsRLock
    <3>2. \A k \in Keys : local[t].key = k /\ label \in InSection
                           <=> local[t].key = k /\ pc[t] \in InSection
      BY <1>1, <2>1, <2>2, PgConstants DEF InSection, Reflecting
    <3>3. label \notin InTransaction /\ pc[t] \notin InTransaction
      BY <1>1 DEF InTransaction
    <3>4. Shapes
      BY DEF LockInv
    <3> QED
      BY <1>1, <2>1, <2>3, <2>4, <3>1, <3>2, <3>3, <3>4, QuietLocks DEF Shapes
<1> QED
  BY <1>2, <1>3 DEF Lint

LEMMA AcquireLocks ==
    ASSUME LockInv, NEW t \in Threads, Acquire(t)
    PROVE  LockInv'
<1>1. PICK label \in {"doc", "key"} :
          Goto(t, label, local[t]) /\ (label = "doc" <=> local[t].key = None)
  BY DEF Acquire
<1>2. /\ pc[t] = "lock" /\ rlock[Home[t]] = None
      /\ rlock' = [rlock EXCEPT ![Home[t]] = t]
      /\ UNCHANGED <<schema, docs, history, locks, state, conn, step, mixed>>
  BY DEF Acquire, db, process
<1>3. pc'[t] = label /\ local'[t] = local[t] /\ label \in Labels /\ local[t] \in Locals
  BY <1>1 DEF Goto, LockInv, Shapes, Labels, Reflecting
<1>4. WorkOK(t)'
  BY <1>1, <1>2, <1>3 DEF LockInv, Shapes, Locals, WorkOK, Reflecting, Importing
<1>5. LocksOK(t)'
  BY <1>1, <1>2, <1>3, PgConstants
  DEF LockInv, Shapes, LocksOK, HasRLock, NeedsRLock, Alive, InSection, InTransaction, Reflecting
<1>6. /\ rlock' \in [Procs -> Threads \cup {None}] /\ t # None
      /\ \A p \in Procs \ {Home[t]} : rlock'[p] = rlock[p]
      /\ rlock'[Home[t]] = t
  BY <1>2, PgConstants DEF LockInv, Shapes
<1>7. \A p \in Procs : \/ rlock'[p] = rlock[p]
                       \/ p = Home[t] /\ rlock'[p] \in {t, None} /\ rlock[p] \in {t, None}
  BY <1>2, <1>6
<1>8. /\ docs' \in [Docs -> {None, Blank} \cup Contents] /\ history' \in [Docs -> Seq(Entry)]
      /\ mixed' \subseteq Docs /\ locks' \in [Keys \cup Docs -> Threads \cup {None}]
  BY <1>2 DEF LockInv, Shapes
<1> QED
  BY <1>1, <1>2, <1>3, <1>4, <1>5, <1>6, <1>7, <1>8, OwnStepLocks

(* An advisory lock is taken. *)
LEMMA TakeLocks ==
    ASSUME LockInv, NEW t \in Threads, Enter(t) \/ LockDoc(t)
    PROVE  LockInv'
<1>1. PICK k \in Keys \cup Docs, label \in {"lint", "read"} :
          /\ locks[k] = None /\ Lock(t, k, label) /\ Alive(t)
          /\ \/ pc[t] = "key" /\ label = "lint" /\ k = local[t].key /\ k \in Keys
             \/ pc[t] = "doc" /\ label = "read" /\ k = local[t].doc /\ k \in Docs
  BY DEF Enter, LockDoc, LockInv, WorkOK, Reflecting
<1>2. /\ pc'[t] = label /\ local'[t] = local[t] /\ label \in Labels /\ local[t] \in Locals
      /\ UNCHANGED <<schema, docs, history, state, conn, step, rlock, mixed>>
      /\ locks' = [locks EXCEPT ![k] = t] /\ Goto(t, label, local[t])
  BY <1>1 DEF Lock, Goto, LockInv, Shapes, Labels, Reflecting, process
<1> WorkOK(t) /\ LocksOK(t) /\ Shapes
  BY DEF LockInv
<1>3. /\ locks' \in [Keys \cup Docs -> Threads \cup {None}]
      /\ locks'[k] = t /\ \A j \in (Keys \cup Docs) \ {k} : locks'[j] = locks[j]
      /\ rlock' \in [Procs -> Threads \cup {None}]
  BY <1>2 DEF Shapes
<1>4. WorkOK(t)'
  BY <1>1, <1>2, PgConstants DEF WorkOK, Reflecting, Importing
<1>5. LocksOK(t)'
  BY <1>1, <1>2, <1>3, PgConstants
  DEF LocksOK, WorkOK, HasRLock, NeedsRLock, Alive, InSection, InTransaction, Reflecting
<1>6. \A x \in Threads \ {t}, j \in Keys \cup Docs : locks'[j] = x <=> locks[j] = x
  BY <1>1, <1>3, PgConstants
<1>7. /\ docs' \in [Docs -> {None, Blank} \cup Contents] /\ history' \in [Docs -> Seq(Entry)]
      /\ mixed' \subseteq Docs /\ \A p \in Procs : rlock'[p] = rlock[p]
  BY <1>2 DEF Shapes
<1> QED
  BY <1>2, <1>3, <1>4, <1>5, <1>6, <1>7, OwnStepLocks

LEMMA ReadLocks ==
    ASSUME LockInv, NEW t \in Threads, Read(t)
    PROVE  LockInv'
<1> DEFINE l == [local[t] EXCEPT !.prev = docs[local[t].doc]]
<1>1. /\ pc[t] = "read" /\ Goto(t, "commit", l)
      /\ UNCHANGED <<schema, docs, history, locks, state, conn, step, rlock, mixed>>
      /\ local[t].doc \in Docs
  BY DEF Read, db, process, LockInv, WorkOK, Reflecting
<1>2. /\ local[t] \in Locals /\ docs[local[t].doc] \in {None, Blank} \cup Contents
      /\ "commit" \in Labels
  BY <1>1 DEF LockInv, Shapes, Labels, Reflecting
<1>3. /\ l \in Locals /\ l.key = local[t].key /\ l.doc = local[t].doc /\ l.new = local[t].new
  BY <1>2 DEF Locals
<1> HIDE DEF l
<1>4. pc'[t] = "commit" /\ local'[t] = l
  BY <1>1 DEF Goto, LockInv, Shapes
<1>5. WorkOK(t)'
  BY <1>1, <1>3, <1>4 DEF LockInv, WorkOK, Reflecting, Importing
<1> QED
  <2>1. /\ NeedsRLock(t)
        /\ pc[t] \in InSection /\ "commit" \in InSection
        /\ pc[t] \in InTransaction /\ "commit" \in InTransaction
    BY <1>1 DEF NeedsRLock, InSection, InTransaction, Reflecting
  <2>2. Shapes
    BY DEF LockInv
  <2> QED
    BY <1>1, <1>2, <1>3, <1>5, <2>1, <2>2, QuietLocks DEF Shapes

LEMMA EntriesAreEntries ==
    ASSUME NEW prev \in {None, Blank} \cup Contents, NEW new \in Contents
    PROVE  Entries(prev, new) \in Seq(Entry)
<1>1. [old |-> None, new |-> new] \in Entry /\ (prev \in Contents => [old |-> prev, new |-> new] \in Entry)
  BY DEF Entry
<1>2. \A e \in Entry : <<e>> \in Seq(Entry)
  OBVIOUS
<1>3. <<>> \in Seq(Entry)
  OBVIOUS
<1> QED
  BY <1>1, <1>2, <1>3 DEF Entries

(* The type guard of the commit, the ELSE of which is an error that is raised. *)
Typed(t) == local[t].prev \in Contents => TypeOf[local[t].prev] = TypeOf[local[t].new]

(* Where a thread goes when it has committed. *)
LEMMA CommitGoes ==
    ASSUME LockInv, NEW t \in Threads, Commit(t), Typed(t)
    PROVE  /\ pc[t] = "commit" /\ Alive(t) /\ UNCHANGED <<schema, state, conn, step>>
           /\ local[t].doc \in Docs /\ local[t].new \in Contents
           /\ docs' = [docs EXCEPT ![local[t].doc] = local[t].new]
           /\ history' = [history EXCEPT ![local[t].doc] =
                              @ \o Entries(local[t].prev, local[t].new)]
           /\ locks' = [locks EXCEPT ![local[t].doc] = None]
           /\ mixed' = IF t = Importer THEN mixed \ {local[t].doc}
                       ELSE IF Replacing(local[t].doc) THEN mixed \cup {local[t].doc}
                       ELSE mixed
           /\ \E label \in {"next", "clear", "idle", "unlock"}, l \in Locals :
                 /\ Goto(t, label, l)
                 /\ label \in {"next", "clear"} <=> t = Importer
                 /\ label = "next" => Source[local[t].doc].history = <<>>
                 /\ label = "clear" => Source[local[t].doc].history # <<>>
                 /\ label \in {"clear", "unlock"} =>
                       l.doc = local[t].doc /\ l.new = local[t].new /\ l.key = local[t].key
                 /\ label \in {"next", "idle"} => l.key = None
                 /\ label = "unlock" <=> local[t].key # None
                 /\ rlock' = IF label = "unlock" THEN rlock ELSE [rlock EXCEPT ![Home[t]] = None]
<1> WorkOK(t) /\ LocksOK(t) /\ Shapes
  BY DEF LockInv
<1>1. /\ pc[t] = "commit" /\ Alive(t) /\ UNCHANGED <<schema, state, conn, step>>
      /\ local[t].doc \in Docs /\ local[t].new \in Contents /\ local[t] \in Locals
      /\ rlock[Home[t]] = t
  BY DEF Commit, Typed, process, WorkOK, LocksOK, HasRLock, NeedsRLock, Reflecting, Shapes
<1>2. CASE t = Importer
  <2>1. local[t].key = None
    BY <1>2 DEF WorkOK
  <2>2. CASE Source[local[t].doc].history = <<>>
    <3> DEFINE l == [NoLocal EXCEPT !.todo = local[t].todo]
    <3>1. l \in Locals /\ l.key = None
      BY <1>1 DEF Locals, NoLocal
    <3>2. Goto(t, "next", l)
      BY <1>2, <2>2 DEF Commit, Typed
    <3> HIDE DEF l
    <3> QED
      BY <1>1, <1>2, <2>1, <2>2, <3>1, <3>2 DEF Commit, Typed
  <2>3. CASE Source[local[t].doc].history # <<>>
    <3> DEFINE l == [local[t] EXCEPT !.prev = None]
    <3>1. l \in Locals /\ l.key = None /\ l.doc = local[t].doc /\ l.new = local[t].new
      BY <1>1, <2>1 DEF Locals
    <3>2. Goto(t, "clear", l)
      BY <1>2, <2>3 DEF Commit, Typed
    <3> HIDE DEF l
    <3> QED
      BY <1>1, <1>2, <2>1, <2>3, <3>1, <3>2 DEF Commit, Typed
  <2> QED
    BY <2>2, <2>3
<1>3. CASE t # Importer /\ local[t].key = None
  <2>1. NoLocal \in Locals /\ NoLocal.key = None
    BY NoLocalIsLocal DEF NoLocal
  <2>2. Goto(t, "idle", NoLocal) /\ rlock' = [rlock EXCEPT ![Home[t]] = None]
    BY <1>1, <1>3 DEF Commit, Typed, Return, Shapes
  <2> QED
    BY <1>1, <1>3, <2>1, <2>2 DEF Commit, Typed
<1>4. CASE t # Importer /\ local[t].key # None
  BY <1>1, <1>4 DEF Commit, Typed
<1> QED
  BY <1>2, <1>3, <1>4

LEMMA CommitLocks ==
    ASSUME LockInv, NEW t \in Threads, Commit(t)
    PROVE  LockInv'
<1> WorkOK(t) /\ LocksOK(t) /\ Shapes
  BY DEF LockInv
<1>1. CASE ~Typed(t)
  <2>1. pc[t] = "commit" /\ local[t].doc \in Docs
    BY DEF Commit, WorkOK, Reflecting
  <2>2. Raise(t) /\ mixed' = mixed
    BY <1>1 DEF Commit, Typed
  <2>3. mixed' \subseteq Docs
    BY <2>1, <2>2 DEF Shapes
  <2> QED
    BY <2>1, <2>2, <2>3, RaiseLocks
<1>2. CASE Typed(t)
  <2>1. UNCHANGED schema
    BY <1>2, CommitGoes
  <2>2. PICK label \in {"next", "clear", "idle", "unlock"}, l \in Locals :
            /\ Goto(t, label, l)
            /\ label \in {"next", "clear"} <=> t = Importer
            /\ label \in {"clear", "unlock"} =>
                  l.doc = local[t].doc /\ l.new = local[t].new /\ l.key = local[t].key
            /\ label \in {"next", "idle"} => l.key = None
            /\ label = "unlock" <=> local[t].key # None
            /\ rlock' = IF label = "unlock" THEN rlock ELSE [rlock EXCEPT ![Home[t]] = None]
    BY <1>2, <2>1, CommitGoes
  <2>3. /\ pc[t] = "commit" /\ Alive(t) /\ UNCHANGED <<state, conn, step>>
        /\ local[t].doc \in Docs /\ local[t].new \in Contents
        /\ docs' = [docs EXCEPT ![local[t].doc] = local[t].new]
        /\ history' = [history EXCEPT ![local[t].doc] =
                              @ \o Entries(local[t].prev, local[t].new)]
        /\ locks' = [locks EXCEPT ![local[t].doc] = None]
        /\ mixed' \subseteq Docs
    <3>1. /\ pc[t] = "commit" /\ Alive(t) /\ UNCHANGED <<state, conn, step>>
          /\ local[t].doc \in Docs /\ local[t].new \in Contents
          /\ docs' = [docs EXCEPT ![local[t].doc] = local[t].new]
          /\ history' = [history EXCEPT ![local[t].doc] =
                                @ \o Entries(local[t].prev, local[t].new)]
          /\ locks' = [locks EXCEPT ![local[t].doc] = None]
          /\ mixed' \in {mixed, mixed \ {local[t].doc}, mixed \cup {local[t].doc}}
      BY <1>2, <2>1, CommitGoes
    <3>2. mixed' \subseteq Docs
      BY <3>1 DEF Shapes
    <3> QED
      BY <3>1, <3>2
  <2>4. /\ pc'[t] = label /\ local'[t] = l /\ label \in Labels
        /\ locks[local[t].doc] = t /\ rlock[Home[t]] = t /\ local[t].prev \in {None, Blank} \cup Contents
    BY <2>2, <2>3 DEF Goto, Shapes, Labels, LocksOK, HasRLock, NeedsRLock, InTransaction, Locals
  <2>5. /\ docs' \in [Docs -> {None, Blank} \cup Contents]
        /\ locks' \in [Keys \cup Docs -> Threads \cup {None}]
        /\ locks'[local[t].doc] = None
        /\ \A j \in (Keys \cup Docs) \ {local[t].doc} : locks'[j] = locks[j]
    BY <2>3 DEF Shapes
  <2>6. history' \in [Docs -> Seq(Entry)]
    <3>1. history[local[t].doc] \o Entries(local[t].prev, local[t].new) \in Seq(Entry)
      BY <2>3, <2>4, EntriesAreEntries, ConcatProperties DEF Shapes
    <3> QED
      BY <2>3, <3>1 DEF Shapes
  <2>7. \A x \in Threads \ {t}, j \in Keys \cup Docs : locks'[j] = x <=> locks[j] = x
    BY <2>4, <2>5, PgConstants
  <2>8. /\ rlock' \in [Procs -> Threads \cup {None}]
        /\ \A p \in Procs : \/ rlock'[p] = rlock[p]
                            \/ p = Home[t] /\ rlock'[p] \in {t, None} /\ rlock[p] \in {t, None}
        /\ rlock'[Home[t]] = t <=> label = "unlock"
    BY <2>2, <2>4, PgConstants DEF Shapes
  <2>9. WorkOK(t)'
    BY <2>2, <2>3, <2>4, PgConstants DEF WorkOK, Shapes, Locals, Reflecting, Importing
  <2>10. LocksOK(t)'
    <3>1. HasRLock(t)' <=> NeedsRLock(t)'
      BY <2>4, <2>8 DEF HasRLock, NeedsRLock
    <3>2. \A k \in Keys : locks'[k] = locks[k]
      BY <2>3, <2>5, PgConstants
    <3>3. ASSUME NEW k \in Keys
          PROVE  locks'[k] = t <=> Alive(t)' /\ local'[t].key = k /\ pc'[t] \in InSection
      BY <2>2, <2>3, <2>4, <3>2, PgConstants DEF LocksOK, Alive, InSection, Reflecting
    <3>4. ASSUME NEW d \in Docs
          PROVE  locks'[d] = t <=> Alive(t)' /\ local'[t].doc = d /\ pc'[t] \in InTransaction
      BY <2>3, <2>4, <2>5, PgConstants DEF LocksOK, Alive, InTransaction
    <3> QED
      BY <3>1, <3>3, <3>4 DEF LocksOK
  <2> QED
    BY <2>1, <2>2, <2>3, <2>4, <2>5, <2>6, <2>7, <2>8, <2>9, <2>10, OwnStepLocks
<1> QED
  BY <1>1, <1>2

LEMMA LeaveLocks ==
    ASSUME LockInv, NEW t \in Threads, Leave(t) \/ FailUnlock(t)
    PROVE  LockInv'
<1> WorkOK(t) /\ LocksOK(t) /\ Shapes
  BY DEF LockInv
<1>1. /\ pc[t] = "unlock" /\ Alive(t) /\ local[t].key \in Keys
      /\ UNCHANGED <<schema, docs, history, state, conn, step, mixed>>
      /\ locks' = [locks EXCEPT ![local[t].key] = None]
      /\ Goto(t, "idle", NoLocal)
  BY DEF Leave, FailUnlock, Return, process, WorkOK
<1>2. locks[local[t].key] = t /\ rlock[Home[t]] = t
  BY <1>1 DEF LocksOK, HasRLock, NeedsRLock, InSection, Reflecting
<1>3. rlock' = [rlock EXCEPT ![Home[t]] = None]
  BY <1>2 DEF Leave, FailUnlock, Return
<1>4. /\ locks' \in [Keys \cup Docs -> Threads \cup {None}]
      /\ locks'[local[t].key] = None
      /\ \A j \in (Keys \cup Docs) \ {local[t].key} : locks'[j] = locks[j]
  BY <1>1 DEF Shapes
<1>5. \A x \in Threads \ {t}, j \in Keys \cup Docs : locks'[j] = x <=> locks[j] = x
  BY <1>2, <1>4, PgConstants
<1>6. /\ rlock' \in [Procs -> Threads \cup {None}]
      /\ \A p \in Procs : \/ rlock'[p] = rlock[p]
                          \/ p = Home[t] /\ rlock'[p] \in {t, None} /\ rlock[p] \in {t, None}
      /\ rlock'[Home[t]] = None
  BY <1>2, <1>3, PgConstants DEF Shapes
<1>7. pc'[t] = "idle" /\ local'[t] = NoLocal /\ "idle" \in Labels /\ NoLocal \in Locals
  BY <1>1, NoLocalIsLocal DEF Goto, Shapes, Labels
<1>8. WorkOK(t)'
  BY <1>7 DEF WorkOK, NoLocal, Reflecting, Importing
<1>9. LocksOK(t)'
  <2>1. \A d \in Docs : locks'[d] = locks[d] /\ locks[d] # t
    BY <1>1, <1>4, PgConstants DEF LocksOK, InTransaction
  <2>2. \A k \in Keys : locks'[k] # t
    BY <1>1, <1>4, PgConstants DEF LocksOK
  <2> QED
    BY <1>6, <1>7, <2>1, <2>2, PgConstants
    DEF LocksOK, HasRLock, NeedsRLock, InSection, InTransaction, Reflecting
<1>10. /\ docs' \in [Docs -> {None, Blank} \cup Contents] /\ history' \in [Docs -> Seq(Entry)]
       /\ mixed' \subseteq Docs
  BY <1>1 DEF Shapes
<1> QED
  BY <1>1, <1>4, <1>5, <1>6, <1>7, <1>8, <1>9, <1>10, OwnStepLocks

(* How far the import is with the history that it inserts. *)
ImportOK ==
    /\ pc[Importer] # "insert" => local[Importer].n = 0
    /\ pc[Importer] \in {"clear", "insert"} =>
          local[Importer].n < Len(Source[local[Importer].doc].history)

(* The import works without locks, but for its calls of reflect. *)
LEMMA ImportLocks ==
    ASSUME LockInv, ImportOK, Import \/ Precreate \/ ImportNext \/ Clear \/ Insert
    PROVE  LockInv'
<1> DEFINE t == Importer
<1> t \in Threads /\ WorkOK(t) /\ LocksOK(t) /\ Shapes
  BY PgConstants DEF LockInv
<1>1. /\ UNCHANGED <<schema, locks, state, conn, step, rlock, mixed>>
      /\ pc[t] \in {"idle", "precreate", "next", "clear", "insert"} /\ state[Home[t]] = "up"
      /\ local[t].key = None
  BY DEF Import, Precreate, ImportNext, Clear, Insert, Working, db, process, WorkOK
<1>2. local[t] \in Locals
  BY DEF Shapes
<1>3. \E label \in {"precreate", "next", "lint", "clear", "insert"}, l \in Locals :
         /\ Goto(t, label, l) /\ l.key = None
         /\ label \in {"lint", "clear", "insert"} => l.doc \in Docs /\ l.new = Source[l.doc].doc
  <2>1. CASE Import
    <3>1. [NoLocal EXCEPT !.todo = Docs] \in Locals /\ [NoLocal EXCEPT !.todo = Docs].key = None
      BY DEF NoLocal, Locals
    <3> QED
      BY <2>1, <3>1 DEF Import
  <2>2. CASE Precreate
    <3>1. /\ [NoLocal EXCEPT !.todo = Docs] \in Locals
          /\ [NoLocal EXCEPT !.todo = Docs].key = None
      BY DEF NoLocal, Locals
    <3>2. ASSUME NEW d \in local[t].todo
          PROVE  /\ [local[t] EXCEPT !.todo = @ \ {d}] \in Locals
                 /\ [local[t] EXCEPT !.todo = @ \ {d}].key = None
      BY <1>1, <1>2 DEF Locals
    <3> QED
      BY <2>2, <3>1, <3>2 DEF Precreate
  <2>3. CASE ImportNext
    <3>1. PICK d \in local[t].todo :
              Goto(t, "lint", [local[t] EXCEPT !.todo = @ \ {d}, !.doc = d, !.new = Source[d].doc])
      BY <2>3 DEF ImportNext
    <3>2. d \in Docs /\ Source[d].doc \in Contents
      BY <1>2, SourceIsTold DEF Locals
    <3>3. PICK l : l = [local[t] EXCEPT !.todo = @ \ {d}, !.doc = d, !.new = Source[d].doc]
      OBVIOUS
    <3>4. l \in Locals /\ l.key = None /\ l.doc = d /\ l.new = Source[d].doc
      BY <1>1, <1>2, <3>2, <3>3 DEF Locals
    <3> QED
      BY <3>1, <3>2, <3>3, <3>4
  <2>4. CASE Clear
    BY <1>1, <1>2, <2>4 DEF Clear, Working, WorkOK
  <2>5. CASE Insert
    <3>1. /\ [NoLocal EXCEPT !.todo = local[t].todo] \in Locals
          /\ [NoLocal EXCEPT !.todo = local[t].todo].key = None
      BY <1>2 DEF NoLocal, Locals
    <3>2. PICK l : l = [local[t] EXCEPT !.n = @ + 1]
      OBVIOUS
    <3>3. l \in Locals /\ l.key = None /\ l.doc = local[t].doc /\ l.new = local[t].new
      BY <1>1, <1>2, <3>2 DEF Locals
    <3>4. local[t].doc \in Docs /\ local[t].new = Source[local[t].doc].doc
      BY <2>5 DEF Insert, Working, WorkOK
    <3> QED
      BY <2>5, <3>1, <3>2, <3>3, <3>4 DEF Insert
  <2> QED
    BY <2>1, <2>2, <2>3, <2>4, <2>5
<1>4. PICK label \in {"precreate", "next", "lint", "clear", "insert"}, l \in Locals :
         /\ Goto(t, label, l) /\ l.key = None
         /\ label \in {"lint", "clear", "insert"} => l.doc \in Docs /\ l.new = Source[l.doc].doc
  BY <1>3
<1>5. pc'[t] = label /\ local'[t] = l /\ label \in Labels
  BY <1>4 DEF Goto, Shapes, Labels, Reflecting
<1>6. WorkOK(t)'
  BY <1>1, <1>4, <1>5, SourceIsTold DEF WorkOK, Reflecting, Importing
<1>7. docs' \in [Docs -> {None, Blank} \cup Contents]
  BY DEF Import, Precreate, ImportNext, Clear, Insert, db, Shapes
<1>8. history' \in [Docs -> Seq(Entry)]
  <2>1. CASE Insert
    <3> DEFINE d == local[t].doc
               n == local[t].n
    <3>1. d \in Docs /\ n \in Nat
      BY <1>2, <2>1 DEF Insert, Working, WorkOK, Locals
    <3>2. history[d] \in Seq(Entry) /\ Source[d].history \in Seq(Entry)
      BY <3>1, SourceIsTold DEF Shapes
    <3>3. n < Len(Source[d].history) /\ Len(Source[d].history) \in Nat
      BY <3>2, <2>1, LenProperties DEF Insert, Working, ImportOK
    <3>4. Source[d].history[n + 1] \in Entry
      BY <3>1, <3>2, <3>3, ElementOfSeq
    <3>5. Append(history[d], Source[d].history[n + 1]) \in Seq(Entry)
      BY <3>2, <3>4, AppendProperties
    <3>6. history' = [history EXCEPT ![d] = Append(history[d], Source[d].history[n + 1])]
      BY <2>1 DEF Insert
    <3> QED
      BY <3>1, <3>5, <3>6 DEF Shapes
  <2>2. CASE ~Insert
    <3>1. <<>> \in Seq(Entry)
      OBVIOUS
    <3>2. history' = history \/ history' = [history EXCEPT ![local[t].doc] = <<>>]
      BY <2>2 DEF Import, Precreate, ImportNext, Clear, db
    <3> QED
      BY <3>1, <3>2 DEF Shapes
  <2> QED
    BY <2>1, <2>2
<1>9. mixed' \subseteq Docs
  BY <1>1 DEF Shapes
<1>10. /\ label = "lint" /\ l.key # None <=> NeedsRLock(t)
       /\ label \notin {"key", "unlock", "doc", "read", "commit"}
  BY <1>1, <1>4 DEF NeedsRLock
<1>11. /\ label \notin InTransaction /\ pc[t] \notin InTransaction
       /\ \A k \in Keys : l.key # k /\ local[t].key # k
  BY <1>1, <1>4, PgConstants DEF InTransaction
<1> QED
  BY <1>1, <1>4, <1>5, <1>6, <1>7, <1>8, <1>9, <1>10, <1>11, QuietLocks

(* An import that is done ends as one that raises: it has no lock. *)
LEMMA ImportEndLocks ==
    ASSUME LockInv, ImportEnds
    PROVE  LockInv'
<1> DEFINE t == Importer
<1>1. /\ t \in Threads /\ pc[t] = "next" /\ Exit(Home[t]) /\ Return(t)
      /\ UNCHANGED <<schema, docs, history, locks, calls, imports, mixed>>
  BY PgConstants DEF ImportEnds, Working, db, counts
<1>2. /\ locks \in [Keys \cup Docs -> Threads \cup {None}]
      /\ \A k \in Keys \cup Docs : locks[k] # t
  BY <1>1 DEF LockInv, Shapes, LocksOK, InSection, InTransaction, Reflecting
<1>3. Free({t}) = locks
  BY <1>2 DEF Free
<1>4. Raise(t)
  BY <1>1, <1>3 DEF Raise
<1>5. mixed' \subseteq Docs
  BY <1>1 DEF LockInv, Shapes
<1> QED
  BY <1>1, <1>4, <1>5, RaiseLocks

LEMMA FailLocks ==
    ASSUME LockInv, NEW t \in Threads, Fail(t) \/ FailLost(t)
    PROVE  LockInv'
<1>1. Raise(t) /\ pc[t] \notin {"idle", "lock"}
  BY DEF Fail, FailLost
<1>2. mixed' \in {mixed, Cut}
  BY DEF Fail, FailLost
<1>3. mixed' \subseteq Docs
  BY <1>2 DEF Cut, LockInv, Shapes
<1> QED
  BY <1>1, <1>3, RaiseLocks

LEMMA LockStep ==
    ASSUME LockInv, ImportOK, [Next]_vars
    PROVE  LockInv'
<1>1. CASE \E p \in Procs : Start(p) \/ Migrate(p) \/ Await(p) \/ FailStart(p)
  BY <1>1, ProcessLocks
<1>2. CASE \E p \in Procs : Lose(p) \/ Kill(p)
  BY <1>2, LostLocks
<1>3. ASSUME NEW t \in Threads, Progress(t) \/ Fail(t) \/ FailUnlock(t)
      PROVE  LockInv'
  BY <1>3, LintLocks, AcquireLocks, TakeLocks, ReadLocks, CommitLocks, LeaveLocks, FailLocks
  DEF Progress
<1>4. CASE \E t \in Threads, r \in Requests : Call(t, r)
  BY <1>4, CallLocks
<1>5. CASE Import \/ ImportStep
  BY <1>5, ImportLocks, ImportEndLocks DEF ImportStep
<1>6. CASE UNCHANGED vars
  BY <1>6
  DEF vars, db, process, LockInv, Shapes, WorkOK, LocksOK, HasRLock, NeedsRLock, Alive
<1> QED
  BY <1>1, <1>2, <1>3, <1>4, <1>5, <1>6 DEF Next

(* A step of another thread leaves the import where it is. *)
LEMMA OthersLeaveImport ==
    ASSUME Shapes, NEW t \in Threads \ {Importer}, NEW label, NEW l, Goto(t, label, l)
    PROVE  pc'[Importer] = pc[Importer] /\ local'[Importer] = local[Importer]
BY PgConstants DEF Shapes, Goto

LEMMA ImportStepOK ==
    ASSUME LockInv, ImportOK, [Next]_vars
    PROVE  ImportOK'
<1> DEFINE t == Importer
           ends == pc'[t] = "idle" /\ local'[t] = NoLocal
           stays == pc'[t] = pc[t] /\ local'[t] = local[t]
           moves == /\ pc'[t] \notin {"insert", "clear"} /\ local'[t].n = 0
<1> t \in Threads /\ Shapes /\ WorkOK(t) /\ local[t] \in Locals
  BY PgConstants DEF LockInv, Shapes
<1>1. CASE stays
  BY <1>1 DEF ImportOK
<1>2. CASE moves
  BY <1>2 DEF ImportOK
<1>3. CASE ends
  BY <1>3, <1>2 DEF NoLocal
<1>4. CASE \E p \in Procs : Start(p) \/ Migrate(p) \/ Await(p) \/ FailStart(p) \/ Lose(p)
  BY <1>1, <1>4 DEF Start, Migrate, Await, Poll, FailStart, Lose
<1>5. CASE \E p \in Procs : Kill(p)
  BY <1>1, <1>3, <1>5 DEF Kill, Shapes
<1>6. ASSUME NEW x \in Threads \ {t},
             Progress(x) \/ Fail(x) \/ FailUnlock(x) \/ (\E r \in Requests : Call(x, r))
      PROVE  ImportOK'
  <2>1. PICK label, l : Goto(x, label, l)
    BY <1>6
    DEF Progress, Lint, Acquire, Enter, LockDoc, Lock, Read, Commit, Leave, FailLost, Fail,
        FailUnlock, Raise, Return, Call
  <2> QED
    BY <2>1, <1>1, OthersLeaveImport
<1>7. CASE Raise(t)
  BY <1>7, <1>3 DEF Raise, Return, Goto, Shapes
<1>8. CASE Progress(t) /\ ~Raise(t)
  <2>1. CASE Commit(t)
    <3>1. /\ pc[t] = "commit"
          /\ \/ Source[local[t].doc].history = <<>> /\ Goto(t, "next", [NoLocal EXCEPT !.todo = local[t].todo])
             \/ Source[local[t].doc].history # <<>> /\ Goto(t, "clear", [local[t] EXCEPT !.prev = None])
      BY <1>8, <2>1 DEF Commit
    <3>2. CASE Goto(t, "next", [NoLocal EXCEPT !.todo = local[t].todo])
      BY <3>2, <1>2 DEF Goto, Shapes, NoLocal
    <3>3. CASE /\ Source[local[t].doc].history # <<>>
               /\ Goto(t, "clear", [local[t] EXCEPT !.prev = None])
      <4>1. /\ pc'[t] = "clear" /\ local'[t].doc = local[t].doc /\ local'[t].n = local[t].n
        BY <3>3 DEF Goto, Shapes, Locals
      <4>2. local[t].doc \in Docs /\ local[t].n = 0
        BY <3>1 DEF WorkOK, ImportOK, Reflecting
      <4>3. Len(Source[local[t].doc].history) > 0
        BY <4>2, <3>3, SourceIsTold, EmptySeq
      <4> QED
        BY <4>1, <4>2, <4>3 DEF ImportOK
    <3> QED
      BY <3>1, <3>2, <3>3
  <2>2. CASE ~Commit(t)
    <3>1. PICK label \in Labels, l \in Locals : 
              Goto(t, label, l) /\ label \notin {"clear", "insert"} /\ l.n = local[t].n /\ pc[t] # "insert"
      <4>1. CASE Read(t)
        <5>1. PICK l : l = [local[t] EXCEPT !.prev = docs[local[t].doc]]
          OBVIOUS
        <5>2. l \in Locals /\ l.n = local[t].n
          <6>1. local[t].doc \in Docs
            BY <4>1 DEF Read, WorkOK, Reflecting
          <6> QED
            BY <5>1, <6>1 DEF Locals, Shapes
        <5> QED
          <6>1. Goto(t, "commit", l) /\ pc[t] = "read"
            BY <4>1, <5>1 DEF Read
          <6>2. "commit" \in Labels
            BY DEF Labels, Reflecting
          <6> QED
            BY <5>2, <6>1, <6>2
      <4>2. CASE Leave(t)
        BY <4>2, PgConstants DEF Leave, WorkOK
      <4>3. CASE Lint(t) \/ Acquire(t) \/ Enter(t) \/ LockDoc(t)
        BY <1>8, <4>3 DEF Lint, Acquire, Enter, LockDoc, Lock, Labels, Reflecting
      <4> QED
        BY <1>8, <2>2, <4>1, <4>2, <4>3 DEF Progress, FailLost
    <3>2. pc'[t] = label /\ local'[t] = l
      BY <3>1 DEF Goto, Shapes
    <3> QED
      BY <3>1, <3>2 DEF ImportOK
  <2> QED
    BY <2>1, <2>2
<1>9. CASE Import \/ Precreate \/ ImportNext \/ ImportEnds
  <2>1. \E label \in {"precreate", "next", "lint", "idle"}, l \in Locals : Goto(t, label, l) /\ l.n = 0
    <3>1. local[t].n = 0
      BY <1>9 DEF Import, Precreate, ImportNext, ImportEnds, Working, ImportOK
    <3>2. /\ [NoLocal EXCEPT !.todo = Docs] \in Locals /\ [NoLocal EXCEPT !.todo = Docs].n = 0
          /\ NoLocal \in Locals /\ NoLocal.n = 0
      BY DEF NoLocal, Locals
    <3>3. CASE Precreate
      <4>1. ASSUME NEW d \in local[t].todo
            PROVE  /\ [local[t] EXCEPT !.todo = @ \ {d}] \in Locals
                   /\ [local[t] EXCEPT !.todo = @ \ {d}].n = local[t].n
        BY DEF Locals
      <4> QED
        BY <3>1, <3>2, <3>3, <4>1 DEF Precreate
    <3>4. CASE ImportNext
      <4>1. PICK d \in local[t].todo :
                Goto(t, "lint", [local[t] EXCEPT !.todo = @ \ {d}, !.doc = d, !.new = Source[d].doc])
        BY <3>4 DEF ImportNext
      <4>2. d \in Docs /\ Source[d].doc \in Contents
        BY SourceIsTold DEF Locals
      <4>3. PICK l : l = [local[t] EXCEPT !.todo = @ \ {d}, !.doc = d, !.new = Source[d].doc]
        OBVIOUS
      <4>4. l \in Locals /\ l.n = local[t].n
        BY <4>2, <4>3 DEF Locals
      <4> QED
        BY <3>1, <4>1, <4>3, <4>4
    <3>5. CASE Import \/ ImportEnds
      BY <3>2, <3>5 DEF Import, ImportEnds, Return
    <3> QED
      BY <1>9, <3>3, <3>4, <3>5
  <2>2. PICK label \in {"precreate", "next", "lint", "idle"}, l \in Locals : Goto(t, label, l) /\ l.n = 0
    BY <2>1
  <2>3. pc'[t] = label /\ local'[t] = l
    BY <2>2 DEF Goto, Shapes
  <2> QED
    BY <2>2, <2>3, <1>2
<1>10. CASE Clear
  BY <1>10 DEF Clear, Working, Goto, Shapes, ImportOK
<1>11. CASE Insert
  <2>1. CASE Goto(t, "next", [NoLocal EXCEPT !.todo = local[t].todo])
    BY <2>1, <1>2 DEF Goto, Shapes, NoLocal
  <2>2. CASE /\ local[t].n + 1 # Len(Source[local[t].doc].history)
             /\ Goto(t, "insert", [local[t] EXCEPT !.n = @ + 1])
    <3>1. /\ pc'[t] = "insert" /\ local'[t].doc = local[t].doc /\ local'[t].n = local[t].n + 1
      BY <2>2 DEF Goto, Shapes, Locals
    <3>2. /\ local[t].doc \in Docs /\ local[t].n \in Nat
          /\ local[t].n < Len(Source[local[t].doc].history)
      BY <1>11 DEF Insert, Working, WorkOK, ImportOK, Locals
    <3>3. Len(Source[local[t].doc].history) \in Nat
      BY <3>2, SourceIsTold, LenProperties
    <3> QED
      BY <2>2, <3>1, <3>2, <3>3 DEF ImportOK
  <2> QED
    BY <1>11, <2>1, <2>2 DEF Insert
<1>12. CASE UNCHANGED vars
  BY <1>12, <1>1 DEF vars
<1>13. Fail(t) => Raise(t)
  BY DEF Fail
<1>14. ~FailUnlock(t) /\ \A r \in Requests : ~Call(t, r)
  BY PgConstants DEF FailUnlock, Call, WorkOK
<1> QED
  BY <1>4, <1>5, <1>6, <1>7, <1>8, <1>9, <1>10, <1>11, <1>12, <1>13, <1>14 DEF Next, ImportStep

---------------------------------------------------------------------------------
(* Theorems *)

THEOREM Locking == Spec => [](LockInv /\ ImportOK)
<1>1. Init => LockInv /\ ImportOK
  BY LockInit, PgConstants DEF Init, ImportOK, NoLocal
<1>2. LockInv /\ ImportOK /\ [Next]_vars => (LockInv /\ ImportOK)'
  BY LockStep, ImportStepOK
<1> QED
  BY <1>1, <1>2, PTL DEF Spec

(* What a session keeps ends with it. *)
LeakedInv ==
    /\ leaked \in [Procs -> SUBSET Keys]
    /\ \A p \in Procs : leaked[p] # {} => p \in conn

LEMMA LeakedStep ==
    ASSUME LockInv, LeakedInv, [Next]_vars
    PROVE  LeakedInv'
<1> Shapes /\ \A t \in Threads : Home[t] \in Procs
  BY PgConstants DEF LockInv
<1>1. ASSUME NEW p \in Procs, Disconnect(p)
      PROVE  LeakedInv'
  BY <1>1 DEF Disconnect, LeakedInv
<1>2. ASSUME UNCHANGED leaked, conn \subseteq conn'
      PROVE  LeakedInv'
  BY <1>2 DEF LeakedInv
<1>3. ASSUME NEW p \in Procs,
             Start(p) \/ Migrate(p) \/ Await(p) \/ FailStart(p) \/ Lose(p) \/ Kill(p)
      PROVE  LeakedInv'
  <2>1. Disconnect(p) \/ (UNCHANGED leaked /\ conn \subseteq conn')
    BY <1>3 DEF Start, Migrate, Await, Poll, FailStart, Lose, Kill, Exit
  <2> QED
    BY <2>1, <1>1, <1>2
<1>4. ASSUME NEW t \in Threads, FailUnlock(t)
      PROVE  LeakedInv'
  <2>1. local[t].key \in Keys /\ Home[t] \in conn /\ UNCHANGED conn
    BY <1>4 DEF FailUnlock, Alive, LockInv, WorkOK
  <2>2. leaked' = [leaked EXCEPT ![Home[t]] = @ \cup {local[t].key}]
    BY <1>4 DEF FailUnlock
  <2> QED
    BY <2>1, <2>2 DEF LeakedInv
<1>5. ASSUME NEW t \in Threads, Progress(t) \/ Fail(t) \/ \E r \in Requests : Call(t, r)
      PROVE  LeakedInv'
  <2>1. Raise(t) \/ UNCHANGED <<leaked, conn>>
    BY <1>5
    DEF Progress, Lint, Acquire, Enter, LockDoc, Lock, Read, Commit, Leave, FailLost, Fail, Call,
        process
  <2>2. Raise(t) => Disconnect(Home[t]) \/ UNCHANGED <<leaked, conn>>
    BY DEF Raise, Exit, process
  <2> QED
    BY <2>1, <2>2, <1>1, <1>2
<1>6. CASE Import \/ Precreate \/ ImportNext \/ Clear \/ Insert \/ UNCHANGED vars
  BY <1>2, <1>6 DEF Import, Precreate, ImportNext, Clear, Insert, vars, process
<1>7. CASE ImportEnds
  <2>1. Disconnect(Home[Importer]) /\ Home[Importer] \in Procs
    BY <1>7, PgConstants DEF ImportEnds, Exit
  <2> QED
    BY <2>1, <1>1
<1> QED
  BY <1>3, <1>4, <1>5, <1>6, <1>7 DEF Next, ImportStep

(* Type correctness: in every process, whatever was lost or killed, a thread that  *)
(* rests has no lock, and a lock of the database belongs to a live connection, one *)
(* whose unlock raised included.                                                   *)
THEOREM TypeCorrect == Spec => []TypeOK
<1>1. LockInv /\ LeakedInv => TypeOK
  <2> SUFFICES ASSUME LockInv, LeakedInv PROVE TypeOK
    OBVIOUS
  <2> Shapes
    BY DEF LockInv
  <2>1. \A d \in Docs : \A n \in DOMAIN history[d] : history[d][n] \in Entry
    BY DEF Shapes
  <2>2. ASSUME NEW k \in DOMAIN locks, locks[k] # None
        PROVE  Alive(locks[k]) /\ pc[locks[k]] # "idle"
    <3>1. k \in Keys \cup Docs /\ locks[k] \in Threads
      BY <2>2 DEF Shapes
    <3>2. LocksOK(locks[k])
      BY <3>1 DEF LockInv
    <3> QED
      BY <3>1, <3>2 DEF LocksOK, InSection, InTransaction, Reflecting
  <2>3. ASSUME NEW p \in Procs, rlock[p] # None
        PROVE  Home[rlock[p]] = p /\ pc[rlock[p]] # "idle"
    <3>1. rlock[p] \in Threads /\ Home[rlock[p]] = p
      BY <2>3 DEF LockInv, Shapes
    <3>2. HasRLock(rlock[p]) /\ LocksOK(rlock[p])
      BY <3>1 DEF HasRLock, LockInv
    <3> QED
      BY <3>1, <3>2 DEF LocksOK, NeedsRLock
  <2> QED
    BY <2>1, <2>2, <2>3 DEF TypeOK, Shapes, LeakedInv
<1>2. Init => LeakedInv
  BY DEF Init, LeakedInv
<1>3. LockInv /\ LeakedInv /\ [Next]_vars => LeakedInv'
  BY LeakedStep
<1> QED
  BY <1>1, <1>2, <1>3, Locking, PTL DEF Spec

(* At most one thread, of all processes whose connection works, is in an ingestion, *)
(* and one in a review: the advisory lock of the section is of its session.         *)
THEOREM OneSection == Spec => []OneLiveSection
<1>1. LockInv => OneLiveSection
  <2> SUFFICES ASSUME LockInv, NEW t \in Threads, NEW u \in Threads,
                      local[t].key # None, local[t].key = local[u].key,
                      {pc[t], pc[u]} \cap {"lock", "key"} = {}, Alive(t), Alive(u)
               PROVE  t = u
    BY DEF OneLiveSection
  <2> Shapes
    BY DEF LockInv
  <2>1. local[t].key \in Keys
    BY DEF Shapes, Locals
  <2>2. ASSUME NEW x \in {t, u} PROVE pc[x] \in InSection
    <3>1. WorkOK(x) /\ pc[x] \in Labels /\ local[x].key # None
      BY DEF LockInv, Shapes
    <3>2. pc[x] \notin Importing \cup {"idle"}
      BY <3>1 DEF WorkOK
    <3> QED
      BY <3>1, <3>2 DEF Labels, Importing, InSection
  <2>3. locks[local[t].key] = t /\ locks[local[t].key] = u
    BY <2>1, <2>2 DEF LockInv, LocksOK
  <2> QED
    BY <2>3
<1> QED
  BY <1>1, Locking, PTL

(* The locks are taken in one order: RLock, section, document.  Who has the lock   *)
(* of a document waits for nothing, so no set of threads waits within itself, but  *)
(* behind one that waits for a lock which another session keeps since its unlock   *)
(* raised.                                                                         *)
THEOREM NoCircle == Spec => []NoCircularWait
<1>1. LockInv => NoCircularWait
  <2> SUFFICES ASSUME LockInv, NEW waiting \in SUBSET Threads, waiting # {},
                      \A t \in waiting :
                         /\ Blocker(t) # None
                         /\ Blocker(t) \in waiting \/ pc[Blocker(t)] = "idle"
               PROVE  FALSE
    BY DEF NoCircularWait
  <2> Shapes
    BY DEF LockInv
  <2>1. \A t \in waiting : t \in Threads /\ WorkOK(t) /\ Home[t] \in Procs
    BY PgConstants DEF LockInv
  <2>2. ASSUME NEW t \in waiting PROVE pc[t] # "doc"
    <3> SUFFICES ASSUME pc[t] = "doc" PROVE FALSE
      OBVIOUS
    <3> DEFINE x == locks[local[t].doc]
    <3>1. Blocker(t) = x /\ local[t].doc \in Docs
      BY <2>1 DEF Blocker, WorkOK, Reflecting
    <3>2. x \in Threads
      BY <3>1 DEF Shapes
    <3>3. pc[x] \in {"read", "commit"}
      BY <3>1, <3>2 DEF LockInv, LocksOK, InTransaction
    <3>4. x \in waiting /\ Blocker(x) = None
      BY <3>1, <3>3 DEF Blocker
    <3> QED
      BY <3>4
  <2>3. ASSUME NEW t \in waiting PROVE pc[t] # "key"
    <3> SUFFICES ASSUME pc[t] = "key" PROVE FALSE
      OBVIOUS
    <3> DEFINE x == locks[local[t].key]
    <3>1. Blocker(t) = x /\ local[t].key \in Keys
      BY <2>1 DEF Blocker, WorkOK
    <3>2. x \in Threads
      BY <3>1 DEF Shapes
    <3>3. /\ pc[x] \in {"lint", "doc", "read", "commit", "unlock"}
          /\ pc[x] = "lint" => HasRLock(x)
      BY <3>1, <3>2, PgConstants DEF LockInv, LocksOK, NeedsRLock, InSection, Reflecting
    <3>4. x \in waiting
      BY <3>1, <3>3
    <3>5. Blocker(x) = None
      BY <2>2, <3>3, <3>4 DEF Blocker
    <3> QED
      BY <3>4, <3>5
  <2>4. PICK t \in waiting : TRUE
    OBVIOUS
  <2> DEFINE x == rlock[Home[t]]
  <2>5. Blocker(t) = x
    BY <2>2, <2>3, <2>4 DEF Blocker
  <2>6. x \in Threads /\ Home[x] = Home[t]
    BY <2>1, <2>4, <2>5 DEF Shapes, LockInv
  <2>7. HasRLock(x) /\ NeedsRLock(x)
    BY <2>6 DEF LockInv, LocksOK, HasRLock
  <2>8. x \in waiting
    BY <2>5, <2>7 DEF NeedsRLock
  <2>9. Blocker(x) = None
    BY <2>2, <2>3, <2>7, <2>8 DEF Blocker, NeedsRLock
  <2> QED
    BY <2>8, <2>9
<1> QED
  BY <1>1, Locking, PTL

---------------------------------------------------------------------------------
(* The schema *)

SchemaInv ==
    /\ \A p \in Owners : step[p] <= schema
    /\ ReadyOnSchema

LEMMA SchemaStep ==
    ASSUME LockInv, SchemaInv, [Next]_vars
    PROVE  SchemaInv'
<1> Shapes /\ schema \in Nat /\ schema <= Statements /\ Owners \subseteq Procs /\ Statements \in Nat
  BY PgConstants DEF LockInv, Shapes
<1> USE DEF SchemaInv, ReadyOnSchema
<1>1. ASSUME NEW p \in Procs, Exit(p), UNCHANGED schema
      PROVE  SchemaInv'
  BY <1>1 DEF Exit, Shapes
<1>2. ASSUME UNCHANGED <<schema, state, step>>
      PROVE  SchemaInv'
  BY <1>2
<1>3. ASSUME NEW p \in Procs, Start(p) \/ Lose(p)
      PROVE  SchemaInv'
  BY <1>3 DEF Start, Lose, db, Shapes
<1>4. ASSUME NEW p \in Procs, Migrate(p)
      PROVE  SchemaInv'
  <2>1. /\ p \in Owners /\ step[p] \in Nat /\ step[p] < Statements
        /\ schema' = IF step[p] + 1 > schema THEN step[p] + 1 ELSE schema
    BY <1>4 DEF Migrate, Shapes
  <2>2. schema' \in Nat /\ schema <= schema' /\ schema' <= Statements /\ step[p] + 1 <= schema'
    BY <2>1
  <2>3. \A q \in Owners \ {p} : step'[q] = step[q] /\ step[q] \in Nat
    BY <1>4 DEF Migrate, Up, Shapes
  <2>4. CASE Up(p) /\ step[p] + 1 = Statements
    BY <2>1, <2>2, <2>3, <2>4 DEF Up, Shapes
  <2>5. CASE step' = [step EXCEPT ![p] = @ + 1] /\ UNCHANGED state
    BY <2>1, <2>2, <2>3, <2>5 DEF Shapes
  <2> QED
    BY <1>4, <2>4, <2>5 DEF Migrate
<1>5. ASSUME NEW p \in Procs, Await(p)
      PROVE  SchemaInv'
  <2>1. p \notin Owners /\ UNCHANGED schema
    BY <1>5 DEF Await, Poll, Waiting, db
  <2>2. CASE Up(p) /\ schema = Statements
    BY <2>1, <2>2 DEF Up, Shapes
  <2>3. CASE Exit(p)
    BY <2>1, <2>3, <1>1
  <2>4. CASE step' = [step EXCEPT ![p] = @ + 1] /\ UNCHANGED state
    BY <2>1, <2>4 DEF Shapes
  <2> QED
    BY <1>5, <2>2, <2>3, <2>4 DEF Await, Poll
<1>6. ASSUME NEW p \in Procs, FailStart(p) \/ Kill(p)
      PROVE  SchemaInv'
  BY <1>1, <1>6 DEF FailStart, Kill, db
<1>7. ASSUME NEW t \in Threads, Raise(t)
      PROVE  SchemaInv'
  <2>1. Home[t] \in Procs
    BY PgConstants
  <2> QED
    BY <1>1, <1>2, <1>7, <2>1 DEF Raise, process
<1>8. ASSUME NEW t \in Threads,
             Progress(t) \/ Fail(t) \/ FailUnlock(t) \/ \E r \in Requests : Call(t, r)
      PROVE  SchemaInv'
  <2>1. Raise(t) \/ UNCHANGED <<schema, state, step>>
    BY <1>8
    DEF Progress, Lint, Acquire, Enter, LockDoc, Lock, Read, Commit, Leave, FailLost, Fail,
        FailUnlock, Call, db, process
  <2> QED
    BY <2>1, <1>2, <1>7
<1>9. CASE Import \/ Precreate \/ ImportNext \/ Clear \/ Insert \/ UNCHANGED vars
  BY <1>2, <1>9 DEF Import, Precreate, ImportNext, Clear, Insert, vars, db, process
<1>10. CASE ImportEnds
  <2>1. Home[Importer] \in Procs
    BY PgConstants
  <2> QED
    BY <1>1, <1>10, <2>1 DEF ImportEnds, db
<1> QED
  BY <1>3, <1>4, <1>5, <1>6, <1>8, <1>9, <1>10 DEF Next, ImportStep

(* However often the owner is killed while it creates the schema, and however many *)
(* processes wait for it: a process that is up has all of the schema.              *)
THEOREM SchemaIsReady == Spec => []ReadyOnSchema
<1>1. Init => SchemaInv
  BY PgConstants DEF Init, SchemaInv, ReadyOnSchema
<1>2. LockInv /\ SchemaInv /\ [Next]_vars => SchemaInv'
  BY SchemaStep
<1>3. SchemaInv => ReadyOnSchema
  BY DEF SchemaInv
<1> QED
  BY <1>1, <1>2, <1>3, Locking, PTL DEF Spec

---------------------------------------------------------------------------------
(* Documents and histories *)

(* What a thread has read, under the lock of the document, is still so when it     *)
(* commits, but that the row may have been created.                                *)
ReadStays(t) ==
    pc[t] = "commit" /\ Alive(t) =>
       \/ local[t].prev = docs[local[t].doc]
       \/ local[t].prev = None /\ docs[local[t].doc] = Blank

DocOK(d) ==
    /\ docs[d] \notin Contents => history[d] = <<>>
    /\ d \in mixed => Source[d].history # <<>>
    /\ docs[d] \in Contents /\ d \notin mixed /\ ~Replacing(d) => Telling(history[d], docs[d])

Inserted(h, entries, n) == Len(h) = n /\ \A i \in 1..n : h[i] = entries[i]

ReplacingOK(d) ==
    Replacing(d) =>
       /\ docs[d] \in Contents
       /\ ~Alive(Importer) => d \in mixed
       /\ d \notin mixed =>
             /\ docs[d] = Source[d].doc
             /\ pc[Importer] = "insert" =>
                   Inserted(history[d], Source[d].history, local[Importer].n)

DataInv ==
    /\ \A t \in Threads : ReadStays(t)
    /\ \A d \in Docs : DocOK(d) /\ ReplacingOK(d)

LEMMA TellingEntries ==
    ASSUME NEW h \in Seq(Entry), NEW prev \in {None, Blank} \cup Contents, NEW new \in Contents,
           IF prev \in Contents THEN Telling(h, prev) ELSE h = <<>>
    PROVE  Telling(h \o Entries(prev, new), new)
<1>1. CASE prev \notin Contents
  <2> DEFINE e == [old |-> None, new |-> new]
  <2>1. h = <<>> /\ Entries(prev, new) = <<e>>
    BY <1>1 DEF Entries
  <2>2. h \o Entries(prev, new) = <<e>>
    BY <2>1
  <2> QED
    BY <2>2 DEF Telling
<1>2. CASE prev = new
  <2>1. Entries(prev, new) = <<>> /\ Telling(h, new)
    BY <1>2 DEF Entries
  <2>2. h \o Entries(prev, new) = h
    BY <2>1
  <2> QED
    BY <2>1, <2>2
<1>3. CASE prev \in Contents /\ prev # new
  <2> DEFINE e == [old |-> prev, new |-> new]
             g == Append(h, e)
  <2>1. e \in Entry /\ h \o Entries(prev, new) = g
    BY <1>3 DEF Entries, Entry
  <2>2. Telling(h, prev) /\ Len(h) \in Nat /\ Len(h) > 0
    BY <1>3, LenProperties, EmptySeq DEF Telling
  <2>3. /\ Len(g) = Len(h) + 1 /\ g # <<>> /\ g[Len(h) + 1] = e
        /\ \A i \in 1..Len(h) : g[i] = h[i]
    BY <2>1, AppendProperties
  <2> HIDE DEF g
  <2>4. g[1].old = None /\ g[Len(g)].new = new
    BY <2>2, <2>3 DEF Telling
  <2>5. ASSUME NEW n \in 2..Len(g) PROVE g[n].old = g[n - 1].new
    <3>1. CASE n = Len(h) + 1
      <4>1. g[n].old = prev /\ g[n - 1] = h[Len(h)]
        BY <2>2, <2>3, <3>1
      <4> QED
        BY <2>2, <4>1 DEF Telling
    <3>2. CASE n # Len(h) + 1
      <4>1. n \in 2..Len(h) /\ n - 1 \in 1..Len(h) /\ n \in 1..Len(h)
        BY <2>2, <2>3, <3>2
      <4> QED
        BY <2>2, <2>3, <4>1 DEF Telling
    <3> QED
      BY <3>1, <3>2
  <2> QED
    BY <2>1, <2>3, <2>4, <2>5 DEF Telling
<1> QED
  BY <1>1, <1>2, <1>3

(* Steps that write no document: what was read stays read, and an import that is   *)
(* cut short is recorded.                                                          *)
LEMMA KeptData ==
    ASSUME LockInv, DataInv, ImportOK,
           UNCHANGED <<docs, history>>, mixed' \in {mixed, Cut},
           \A t \in Threads : ReadStays(t)',
           \A d \in Docs : Replacing(d)' => /\ Replacing(d)
                                            /\ pc'[Importer] = pc[Importer]
                                            /\ local'[Importer] = local[Importer],
           \A d \in Docs : Replacing(d) /\ ~Replacing(d)' => d \in mixed',
           \A d \in Docs : Replacing(d)' /\ ~Alive(Importer)' => d \in mixed'
    PROVE  DataInv'
<1>1. ASSUME NEW d \in Docs PROVE DocOK(d)' /\ ReplacingOK(d)'
  <2> DocOK(d) /\ ReplacingOK(d)
    BY DEF DataInv
  <2>1. d \in mixed => d \in mixed'
    BY DEF Cut
  <2>2. Replacing(d) => Source[d].history # <<>>
    <3>1. ASSUME Replacing(d) PROVE 0 < Len(Source[d].history)
      <4>1. local[Importer].n \in Nat /\ local[Importer].n < Len(Source[d].history)
        BY <3>1, PgConstants DEF Replacing, ImportOK, LockInv, Shapes, Locals
      <4>2. Len(Source[d].history) \in Nat
        BY SourceIsTold, LenProperties
      <4> QED
        BY <4>1, <4>2
    <3> QED
      BY <3>1, SourceIsTold, EmptySeq
  <2>3. d \in mixed' => d \in mixed \/ Replacing(d)
    BY DEF Cut
  <2>4. DocOK(d)'
    BY <2>1, <2>2, <2>3 DEF DocOK
  <2>5. ReplacingOK(d)'
    BY <2>1 DEF ReplacingOK
  <2> QED
    BY <2>4, <2>5
<1> QED
  BY <1>1 DEF DataInv

(* A step of another thread that leaves the documents alone. *)
LEMMA OtherData ==
    ASSUME LockInv, DataInv, ImportOK, NEW t \in Threads, NEW label \in Labels, NEW l,
           Goto(t, label, l), UNCHANGED <<docs, history, mixed, conn>>,
           label = "commit" => l.prev = docs[l.doc],
           t = Importer => pc[t] \notin {"clear", "insert"} /\ label \notin {"clear", "insert"}
    PROVE  DataInv'
<1>1. /\ pc'[t] = label /\ local'[t] = l
      /\ \A x \in Threads \ {t} : pc'[x] = pc[x] /\ local'[x] = local[x]
  BY DEF Goto, LockInv, Shapes
<1>2. \A x \in Threads : Alive(x)' <=> Alive(x)
  BY DEF Alive
<1>3. \A x \in Threads : ReadStays(x)'
  BY <1>1, <1>2 DEF ReadStays, DataInv
<1>4. \A d \in Docs : Replacing(d)' <=> Replacing(d)
  BY <1>1, PgConstants DEF Replacing
<1>5. t # Importer => pc'[Importer] = pc[Importer] /\ local'[Importer] = local[Importer]
  BY <1>1, PgConstants
<1>6. \A d \in Docs : Replacing(d) => /\ t # Importer
                                      /\ ~Alive(Importer) => d \in mixed
  BY DEF Replacing, DataInv, ReplacingOK
<1>7. \A d \in Docs : Replacing(d)' => /\ Replacing(d)
                                       /\ pc'[Importer] = pc[Importer]
                                       /\ local'[Importer] = local[Importer]
  BY <1>4, <1>5, <1>6
<1>8. \A d \in Docs : Replacing(d)' /\ ~Alive(Importer)' => d \in mixed'
  BY <1>2, <1>4, <1>6, PgConstants
<1>9. UNCHANGED <<docs, history>> /\ mixed' \in {mixed, Cut}
  OBVIOUS
<1> QED
  BY <1>3, <1>4, <1>7, <1>8, <1>9, KeptData

LEMMA RaiseData ==
    ASSUME LockInv, DataInv, ImportOK, NEW t \in Threads, Raise(t),
           mixed' \in {mixed, Cut},
           t = Importer => \A d \in Docs : Replacing(d) => d \in mixed'
    PROVE  DataInv'
<1>1. /\ UNCHANGED <<docs, history>> /\ pc'[t] \in {"idle", "unlock"}
      /\ \A x \in Threads \ {t} : pc'[x] = pc[x] /\ local'[x] = local[x]
      /\ \A x \in Threads \ {t} : Alive(x)' <=> Alive(x)
  <2>1. PICK label, l : label \in {"idle", "unlock"} /\ Goto(t, label, l)
    BY DEF Raise, Return
  <2>2. \A x \in Threads \ {t} : Alive(x)' <=> Alive(x)
    BY PgConstants DEF Raise, Exit, Disconnect, Alive, process
  <2> QED
    BY <2>1, <2>2 DEF Raise, Goto, LockInv, Shapes
<1>2. \A x \in Threads : ReadStays(x)'
  BY <1>1 DEF ReadStays, DataInv
<1>3. t = Importer => \A d \in Docs : ~Replacing(d)'
  BY <1>1 DEF Replacing
<1>4. t # Importer => /\ pc'[Importer] = pc[Importer] /\ local'[Importer] = local[Importer]
                      /\ Alive(Importer)' <=> Alive(Importer)
  BY <1>1, PgConstants
<1>5. \A d \in Docs : t # Importer => (Replacing(d)' <=> Replacing(d))
  BY <1>4 DEF Replacing
<1>6. \A d \in Docs : Replacing(d) /\ ~Alive(Importer) => d \in mixed'
  BY DEF DataInv, ReplacingOK, Cut
<1> QED
  BY <1>1, <1>2, <1>3, <1>4, <1>5, <1>6, KeptData

LEMMA ProcessData ==
    ASSUME LockInv, DataInv, ImportOK, NEW p \in Procs,
           Start(p) \/ Migrate(p) \/ Await(p) \/ FailStart(p) \/ Lose(p) \/ Kill(p)
    PROVE  DataInv'
<1> WorkOK(Importer) /\ Shapes /\ Home[Importer] \in Procs
  BY PgConstants DEF LockInv
<1>1. CASE Start(p) \/ Migrate(p) \/ Await(p) \/ FailStart(p)
  <2>1. /\ UNCHANGED <<docs, history, pc, local, mixed>> /\ state[p] # "up"
        /\ \A q \in Procs \ {p} : q \in conn' <=> q \in conn
    BY <1>1 DEF Start, Migrate, Await, Poll, Waiting, FailStart, Exit, Disconnect, Up, db, counts
  <2>2. \A x \in Threads : Home[x] = p => pc[x] = "idle"
    BY <2>1 DEF LockInv, WorkOK
  <2>3. \A x \in Threads : pc[x] # "idle" => (Alive(x)' <=> Alive(x))
    BY <2>1, <2>2, PgConstants DEF Alive
  <2>4. \A x \in Threads : ReadStays(x)'
    BY <2>1, <2>3 DEF ReadStays, DataInv
  <2>5. \A d \in Docs : Replacing(d)' <=> Replacing(d)
    BY <2>1 DEF Replacing
  <2>6. \A d \in Docs : Replacing(d)' /\ ~Alive(Importer)' => d \in mixed'
    BY <2>1, <2>3, <2>5, PgConstants DEF Replacing, DataInv, ReplacingOK
  <2> QED
    BY <2>1, <2>4, <2>5, <2>6, KeptData
<1>2. CASE Lose(p) \/ Kill(p)
  <2>1. /\ UNCHANGED <<docs, history>> /\ conn' = conn \ {p}
        /\ mixed' = IF p = Home[Importer] THEN Cut ELSE mixed
        /\ \A x \in Threads : \/ pc'[x] = pc[x] /\ local'[x] = local[x]
                              \/ Home[x] = p /\ pc'[x] = "idle"
    <3>1. CASE Lose(p)
      BY <3>1 DEF Lose, Disconnect
    <3>2. CASE Kill(p)
      <4>1. \A x \in Threads : \/ pc'[x] = pc[x] /\ local'[x] = local[x]
                               \/ Home[x] = p /\ pc'[x] = "idle"
        BY <3>2 DEF Kill
      <4> QED
        BY <3>2, <4>1 DEF Kill, Exit, Disconnect
    <3> QED
      BY <1>2, <3>1, <3>2
  <2>2. \A x \in Threads : ReadStays(x)'
    BY <2>1 DEF ReadStays, DataInv, Alive
  <2>3. \A d \in Docs : Replacing(d)' => /\ Replacing(d)
                                         /\ pc'[Importer] = pc[Importer]
                                         /\ local'[Importer] = local[Importer]
    BY <2>1, PgConstants DEF Replacing
  <2>4. \A d \in Docs : Replacing(d) /\ ~Replacing(d)' => d \in mixed'
    BY <2>1, PgConstants DEF Replacing, Cut
  <2>5. \A d \in Docs : Replacing(d)' /\ ~Alive(Importer)' => d \in mixed'
    BY <2>1, <2>3 DEF Alive, Cut, DataInv, ReplacingOK
  <2> QED
    BY <2>1, <2>2, <2>3, <2>4, <2>5, KeptData
<1> QED
  BY <1>1, <1>2

LEMMA CommitData ==
    ASSUME LockInv, DataInv, ImportOK, NEW t \in Threads, Commit(t), Typed(t)
    PROVE  DataInv'
<1>0. PICK doc : doc = local[t].doc
  OBVIOUS
<1> USE <1>0
<1> Shapes /\ WorkOK(t) /\ LocksOK(t) /\ ReadStays(t)
  BY DEF LockInv, DataInv
<1>2. PICK label \in {"next", "clear", "idle", "unlock"}, l \in Locals :
          /\ Goto(t, label, l)
          /\ label \in {"next", "clear"} <=> t = Importer
          /\ label = "next" => Source[local[t].doc].history = <<>>
          /\ label = "clear" => Source[local[t].doc].history # <<>>
          /\ label \in {"clear", "unlock"} =>
                l.doc = local[t].doc /\ l.new = local[t].new /\ l.key = local[t].key
          /\ label \in {"next", "idle"} => l.key = None
          /\ label = "unlock" <=> local[t].key # None
          /\ rlock' = IF label = "unlock" THEN rlock ELSE [rlock EXCEPT ![Home[t]] = None]
  BY CommitGoes
<1>3. /\ pc[t] = "commit" /\ Alive(t) /\ UNCHANGED <<state, conn, step>>
      /\ doc \in Docs /\ local[t].new \in Contents
      /\ docs' = [docs EXCEPT ![doc] = local[t].new]
      /\ history' = [history EXCEPT ![doc] = @ \o Entries(local[t].prev, local[t].new)]
      /\ mixed' = IF t = Importer THEN mixed \ {doc}
                  ELSE IF Replacing(doc) THEN mixed \cup {doc} ELSE mixed
  BY CommitGoes
<1>4. /\ pc'[t] = label /\ local'[t] = l
      /\ \A x \in Threads \ {t} : pc'[x] = pc[x] /\ local'[x] = local[x]
      /\ \A x \in Threads : Alive(x)' <=> Alive(x)
  BY <1>2, <1>3 DEF Goto, Alive, Shapes
<1>5. locks[doc] = t
  BY <1>3 DEF LocksOK, InTransaction
<1>6. ASSUME NEW x \in Threads PROVE ReadStays(x)'
  <2> SUFFICES ASSUME pc'[x] = "commit", Alive(x)' PROVE ReadStays(x)'
    BY DEF ReadStays
  <2>1. x # t /\ pc[x] = "commit" /\ local'[x] = local[x] /\ Alive(x)
    BY <1>4
  <2>2. local[x].doc \in Docs /\ LocksOK(x) /\ ReadStays(x)
    BY <2>1 DEF LockInv, WorkOK, DataInv, Reflecting
  <2>3. local[x].doc # doc
    BY <1>5, <2>1, <2>2 DEF LocksOK, InTransaction
  <2> QED
    BY <1>3, <2>1, <2>2, <2>3 DEF ReadStays, Shapes
<1>7. ASSUME NEW d \in Docs, d # doc PROVE DocOK(d)' /\ ReplacingOK(d)'
  <2>1. docs'[d] = docs[d] /\ history'[d] = history[d] /\ (d \in mixed' <=> d \in mixed)
    BY <1>3, <1>7 DEF Shapes
  <2>2. DocOK(d) /\ ReplacingOK(d)
    BY DEF DataInv
  <2>3. CASE t = Importer
    <3>1. ~Replacing(d) /\ ~Replacing(d)'
      BY <1>2, <1>3, <1>4, <1>7, <2>3 DEF Replacing
    <3> QED
      BY <2>1, <2>2, <3>1 DEF DocOK, ReplacingOK
  <2>4. CASE t # Importer
    <3>1. /\ pc'[Importer] = pc[Importer] /\ local'[Importer] = local[Importer]
          /\ Alive(Importer)' <=> Alive(Importer)
      BY <1>4, <2>4, PgConstants
    <3>2. Replacing(d)' <=> Replacing(d)
      BY <3>1 DEF Replacing
    <3> QED
      BY <2>1, <2>2, <3>1, <3>2 DEF DocOK, ReplacingOK
  <2> QED
    BY <2>3, <2>4
<1>8. docs'[doc] = local[t].new /\ docs'[doc] \in Contents
  BY <1>3 DEF Shapes
<1>9. history'[doc] = history[doc] \o Entries(local[t].prev, local[t].new)
  BY <1>3 DEF Shapes
<1>10. DocOK(doc) /\ ReplacingOK(doc)
  BY <1>3 DEF DataInv
<1>11. /\ history[doc] \in Seq(Entry)
       /\ local[t].prev \in {None, Blank} \cup Contents
  BY <1>3 DEF Shapes, Locals
<1>12. ASSUME doc \notin mixed, ~Replacing(doc)
       PROVE  Telling(history'[doc], docs'[doc])
  <2>1. /\ local[t].prev \in Contents => Telling(history[doc], local[t].prev)
        /\ local[t].prev \notin Contents => history[doc] = <<>>
    BY <1>3, <1>10, <1>11, <1>12, PgConstants DEF ReadStays, DocOK
  <2>2. IF local[t].prev \in Contents THEN Telling(history[doc], local[t].prev)
        ELSE history[doc] = <<>>
    BY <2>1
  <2>3. Telling(history[doc] \o Entries(local[t].prev, local[t].new), local[t].new)
    BY <1>3, <1>11, <2>2, TellingEntries
  <2> QED
    BY <1>8, <1>9, <2>3
<1>13. CASE t = Importer
  <2>1. doc \notin mixed' /\ docs'[doc] = Source[doc].doc /\ Alive(Importer)' /\ ~Replacing(doc)
    BY <1>3, <1>4, <1>8, <1>13 DEF WorkOK, Reflecting, Replacing
  <2>2. label = "next" => doc \notin mixed
    BY <1>2, <1>10 DEF DocOK
  <2>3. ~Replacing(doc)' => label = "next"
    BY <1>2, <1>4, <1>13 DEF Replacing
  <2>4. DocOK(doc)'
    BY <1>8, <1>12, <2>1, <2>2, <2>3 DEF DocOK
  <2>5. pc'[Importer] # "insert"
    BY <1>4, <1>13
  <2>6. ReplacingOK(doc)'
    BY <1>8, <2>1, <2>5 DEF ReplacingOK
  <2> QED
    BY <1>3, <1>6, <1>7, <2>4, <2>6 DEF DataInv
<1>14. CASE t # Importer
  <2>1. /\ pc'[Importer] = pc[Importer] /\ local'[Importer] = local[Importer]
        /\ Alive(Importer)' <=> Alive(Importer)
    BY <1>4, <1>14, PgConstants
  <2>2. Replacing(doc)' <=> Replacing(doc)
    BY <2>1 DEF Replacing
  <2>3. doc \in mixed' <=> doc \in mixed \/ Replacing(doc)
    BY <1>3, <1>14
  <2>4. Replacing(doc) => Source[doc].history # <<>>
    <3>1. ASSUME Replacing(doc) PROVE 0 < Len(Source[doc].history)
      <4>1. local[Importer].n \in Nat /\ local[Importer].n < Len(Source[doc].history)
        BY <3>1, PgConstants DEF Replacing, ImportOK, Shapes, Locals
      <4>2. Len(Source[doc].history) \in Nat
        BY <1>3, SourceIsTold, LenProperties
      <4> QED
        BY <4>1, <4>2
    <3> QED
      BY <1>3, <3>1, SourceIsTold, EmptySeq
  <2>5. DocOK(doc)'
    BY <1>8, <1>10, <1>12, <2>2, <2>3, <2>4 DEF DocOK
  <2>6. ReplacingOK(doc)'
    BY <1>8, <2>2, <2>3 DEF ReplacingOK
  <2> QED
    BY <1>3, <1>6, <1>7, <2>5, <2>6 DEF DataInv
<1> QED
  BY <1>13, <1>14

LEMMA PrecreateData ==
    ASSUME LockInv, DataInv, Precreate
    PROVE  DataInv'
<1> DEFINE t == Importer
<1> Shapes /\ t \in Threads
  BY PgConstants DEF LockInv
<1>1. /\ UNCHANGED <<history, conn, mixed>> /\ pc[t] = "precreate" /\ pc'[t] \in {"precreate", "next"}
      /\ \A x \in Threads \ {t} : pc'[x] = pc[x] /\ local'[x] = local[x]
  <2>1. \/ Goto(t, "next", [NoLocal EXCEPT !.todo = Docs])
        \/ \E d \in local[t].todo : Goto(t, "precreate", [local[t] EXCEPT !.todo = @ \ {d}])
    BY DEF Precreate
  <2> QED
    BY <2>1 DEF Precreate, Working, process, Goto, Shapes
<1>2. \A d \in Docs : docs'[d] = docs[d] \/ (docs[d] = None /\ docs'[d] = Blank)
  <2>1. CASE docs' = docs
    BY <2>1
  <2>2. CASE \E d \in Docs : docs' = IF docs[d] = None THEN [docs EXCEPT ![d] = Blank] ELSE docs
    BY <2>2 DEF Shapes
  <2>3. local[t].todo \subseteq Docs
    BY DEF Shapes, Locals
  <2> QED
    BY <2>1, <2>2, <2>3 DEF Precreate
<1>3. ASSUME NEW x \in Threads PROVE ReadStays(x)'
  <2> SUFFICES ASSUME pc'[x] = "commit", Alive(x)' PROVE ReadStays(x)'
    BY DEF ReadStays
  <2>1. pc[x] = "commit" /\ local'[x] = local[x] /\ Alive(x)
    BY <1>1 DEF Alive
  <2>2. local[x].doc \in Docs /\ ReadStays(x)
    BY <2>1 DEF LockInv, WorkOK, DataInv, Reflecting
  <2>3. \/ docs'[local[x].doc] = docs[local[x].doc]
        \/ docs[local[x].doc] = None /\ docs'[local[x].doc] = Blank
    BY <1>2, <2>2
  <2> QED
    BY <2>1, <2>2, <2>3 DEF ReadStays
<1>4. ASSUME NEW d \in Docs PROVE DocOK(d)' /\ ReplacingOK(d)'
  <2>1. ~Replacing(d) /\ ~Replacing(d)'
    BY <1>1 DEF Replacing
  <2>2. docs'[d] \in Contents => docs'[d] = docs[d]
    BY <1>2, PgConstants
  <2>3. docs[d] \in Contents => docs'[d] = docs[d]
    BY <1>2, PgConstants
  <2>4. DocOK(d)
    BY DEF DataInv
  <2> QED
    BY <1>1, <2>1, <2>2, <2>3, <2>4 DEF DocOK, ReplacingOK
<1> QED
  BY <1>3, <1>4 DEF DataInv

LEMMA ReplaceData ==
    ASSUME LockInv, DataInv, ImportOK, Clear \/ Insert
    PROVE  DataInv'
<1> DEFINE t == Importer
<1>0. PICK doc, n : doc = local[t].doc /\ n = local[t].n
  OBVIOUS
<1> USE <1>0
<1> DEFINE entries == Source[doc].history
<1> Shapes /\ t \in Threads /\ WorkOK(t)
  BY PgConstants DEF LockInv
<1>1. /\ UNCHANGED <<docs, conn, mixed>> /\ doc \in Docs /\ Replacing(doc) /\ Alive(t) /\ n \in Nat
      /\ \A d \in Docs \ {doc} : history'[d] = history[d]
      /\ \A d \in Docs \ {doc} : ~Replacing(d)
  BY DEF Clear, Insert, Working, Replacing, WorkOK, process, Shapes, Locals
<1>2. /\ entries \in Seq(Entry) /\ Len(entries) \in Nat /\ n < Len(entries)
      /\ history[doc] \in Seq(Entry)
  <2>1. entries \in Seq(Entry) /\ history[doc] \in Seq(Entry)
    BY <1>1, SourceIsTold DEF Shapes
  <2> QED
    BY <1>1, <2>1, LenProperties DEF Replacing, ImportOK
<1>3. DocOK(doc) /\ ReplacingOK(doc)
  BY <1>1 DEF DataInv
<1>4. PICK label, l :
          /\ label \in {"next", "insert"} /\ Goto(t, label, l)
          /\ label = "insert" => l.doc = doc
          /\ Clear => label = "insert" /\ l = local[t]
          /\ Insert => /\ label = "insert" <=> n + 1 # Len(entries)
                       /\ label = "insert" => l.n = n + 1
  <2>1. CASE Clear
    <3>1. ~Insert /\ Goto(t, "insert", local[t])
      BY <2>1 DEF Clear, Insert, Working
    <3> QED
      BY <3>1
  <2>2. CASE Insert /\ n + 1 = Len(entries)
    <3>1. ~Clear /\ Goto(t, "next", [NoLocal EXCEPT !.todo = local[t].todo])
      BY <2>2 DEF Clear, Insert, Working
    <3> QED
      BY <2>2, <3>1
  <2>3. CASE Insert /\ n + 1 # Len(entries)
    <3>1. PICK l : l = [local[t] EXCEPT !.n = @ + 1]
      OBVIOUS
    <3>2. ~Clear /\ Goto(t, "insert", l)
      BY <2>3, <3>1 DEF Clear, Insert, Working
    <3>3. l.doc = doc /\ l.n = n + 1
      BY <3>1 DEF Shapes, Locals
    <3> QED
      BY <2>3, <3>2, <3>3
  <2> QED
    BY <2>1, <2>2, <2>3
<1>5. /\ pc'[t] = label /\ local'[t] = l
      /\ \A x \in Threads \ {t} : pc'[x] = pc[x] /\ local'[x] = local[x]
      /\ \A x \in Threads : Alive(x)' <=> Alive(x)
  BY <1>1, <1>4 DEF Goto, Shapes, Alive
<1>6. \A x \in Threads : ReadStays(x)'
  BY <1>1, <1>4, <1>5 DEF ReadStays, DataInv
<1>7. ASSUME NEW d \in Docs \ {doc} PROVE DocOK(d)' /\ ReplacingOK(d)'
  <2>1. ~Replacing(d)'
    BY <1>4, <1>5 DEF Replacing
  <2>2. DocOK(d) /\ ~Replacing(d)
    BY <1>1 DEF DataInv
  <2> QED
    BY <1>1, <2>1, <2>2 DEF DocOK, ReplacingOK
<1>8. docs[doc] \in Contents /\ (doc \in mixed => entries # <<>>)
  BY <1>1, <1>3 DEF DocOK, ReplacingOK
<1>9. CASE Clear
  <2>1. pc'[t] = "insert" /\ local'[t] = local[t] /\ history'[doc] = <<>> /\ n = 0
    BY <1>1, <1>4, <1>5, <1>9 DEF Clear, Working, Shapes, ImportOK
  <2>2. Replacing(doc)' /\ Alive(t)'
    BY <1>1, <1>5, <2>1 DEF Replacing
  <2>3. Inserted(<<>>, entries, 0)
    BY DEF Inserted
  <2>4. DocOK(doc)' /\ ReplacingOK(doc)'
    BY <1>1, <1>3, <1>8, <2>1, <2>2, <2>3 DEF DocOK, ReplacingOK
  <2> QED
    BY <1>6, <1>7, <2>4 DEF DataInv
<1>10. CASE Insert
  <2> DEFINE h == Append(history[doc], entries[n + 1])
  <2>1. pc[t] = "insert" /\ history'[doc] = h
    BY <1>1, <1>10 DEF Insert, Working, Shapes
  <2>2. doc \notin mixed => Inserted(history[doc], entries, n) /\ docs[doc] = Source[doc].doc
    BY <1>1, <1>3, <2>1 DEF ReplacingOK
  <2>3. entries[n + 1] \in Entry
    BY <1>1, <1>2, ElementOfSeq
  <2>4. doc \notin mixed => Inserted(h, entries, n + 1)
    <3>1. /\ Len(h) = Len(history[doc]) + 1 /\ h[Len(history[doc]) + 1] = entries[n + 1]
          /\ \A i \in 1..Len(history[doc]) : h[i] = history[doc][i]
      BY <1>2, <2>3, AppendProperties
    <3> HIDE DEF h
    <3> SUFFICES ASSUME doc \notin mixed PROVE Inserted(h, entries, n + 1)
      OBVIOUS
    <3>2. Len(history[doc]) = n /\ \A j \in 1..n : history[doc][j] = entries[j]
      BY <2>2 DEF Inserted
    <3>3. ASSUME NEW i \in 1..(n + 1) PROVE h[i] = entries[i]
      <4>1. i \in 1..n \/ i = n + 1
        BY <1>1
      <4> QED
        BY <3>1, <3>2, <4>1
    <3>4. Len(h) = n + 1
      BY <3>1, <3>2
    <3> QED
      BY <3>3, <3>4 DEF Inserted
  <2>5. h # <<>> /\ h \in Seq(Entry)
    BY <1>2, <2>3, AppendProperties
  <2> HIDE DEF h
  <2>6. CASE label = "insert"
    <3>1. Replacing(doc)' /\ Alive(t)' /\ local'[t].n = n + 1
      BY <1>1, <1>4, <1>5, <1>10, <2>6 DEF Replacing
    <3>2. DocOK(doc)' /\ ReplacingOK(doc)'
      BY <1>1, <1>8, <2>1, <2>2, <2>4, <3>1 DEF DocOK, ReplacingOK
    <3> QED
      BY <1>6, <1>7, <3>2 DEF DataInv
  <2>7. CASE label = "next"
    <3>1. ~Replacing(doc)' /\ n + 1 = Len(entries)
      BY <1>4, <1>5, <1>10, <2>7 DEF Replacing
    <3>2. doc \notin mixed => Telling(h, docs[doc])
      <4>1. Telling(entries, Source[doc].doc)
        <5>1. entries # <<>>
          BY <1>1, <1>2, EmptySeq
        <5> QED
          BY <1>1, <5>1, SourceIsTold
      <4>2. doc \notin mixed => Len(h) = Len(entries) /\ \A i \in 1..Len(entries) : h[i] = entries[i]
        BY <2>4, <3>1 DEF Inserted
      <4>3. 1 \in 1..Len(entries) /\ Len(entries) \in 1..Len(entries)
            /\ \A i \in 2..Len(entries) : i \in 1..Len(entries) /\ i - 1 \in 1..Len(entries)
        BY <1>1, <1>2
      <4> QED
        BY <2>2, <2>5, <4>1, <4>2, <4>3 DEF Telling
    <3>3. DocOK(doc)' /\ ReplacingOK(doc)'
      BY <1>1, <1>8, <2>1, <3>1, <3>2 DEF DocOK, ReplacingOK
    <3> QED
      BY <1>6, <1>7, <3>3 DEF DataInv
  <2> QED
    BY <1>4, <2>6, <2>7
<1> QED
  BY <1>9, <1>10

LEMMA DataStep ==
    ASSUME LockInv, DataInv, ImportOK, [Next]_vars
    PROVE  DataInv'
<1>1. CASE \E p \in Procs : Start(p) \/ Migrate(p) \/ Await(p) \/ FailStart(p) \/ Lose(p) \/ Kill(p)
  BY <1>1, ProcessData
<1>2. ASSUME NEW t \in Threads, Raise(t), Progress(t) \/ Fail(t), ~(Commit(t) /\ Typed(t))
      PROVE  DataInv'
  <2>1. CASE Fail(t)
    BY <1>2, <2>1, RaiseData DEF Fail, Cut
  <2>2. CASE Progress(t) /\ ~Alive(t)
    <3>1. mixed' = mixed
      BY <2>2 DEF Progress, Lint, Acquire, Enter, LockDoc, Lock, Read, Commit, Leave, FailLost
    <3>2. t = Importer => \A d \in Docs : Replacing(d) => d \in mixed'
      BY <2>2, <3>1 DEF DataInv, ReplacingOK
    <3> QED
      BY <1>2, <3>1, <3>2, RaiseData
  <2>3. CASE Progress(t) /\ Alive(t)
    <3>1. pc[t] \notin {"clear", "insert"}
      BY <2>3 DEF Progress, Lint, Acquire, Enter, LockDoc, Lock, Read, Commit, Leave, FailLost
    <3>2. mixed' = mixed
      BY <1>2, <2>3
      DEF Progress, Lint, Acquire, Enter, LockDoc, Lock, Read, Commit, Typed, Leave, FailLost
    <3> QED
      BY <1>2, <3>1, <3>2, RaiseData DEF Replacing
  <2> QED
    BY <1>2, <2>1, <2>2, <2>3
<1>3. ASSUME NEW t \in Threads, ~Raise(t),
             \/ Lint(t) \/ Acquire(t) \/ Enter(t) \/ LockDoc(t) \/ Read(t) \/ Leave(t)
             \/ FailUnlock(t)
      PROVE  DataInv'
  <2>1. /\ UNCHANGED <<docs, history, mixed, conn>> /\ pc[t] \notin {"clear", "insert"}
        /\ local[t] \in Locals /\ Shapes /\ WorkOK(t)
    BY <1>3
    DEF Lint, Acquire, Enter, LockDoc, Lock, Read, Leave, FailUnlock, db, process, LockInv, Shapes
  <2>2. CASE Read(t)
    <3>1. PICK l : l = [local[t] EXCEPT !.prev = docs[local[t].doc]]
      OBVIOUS
    <3>2. l.prev = docs[l.doc]
      BY <2>1, <3>1 DEF Locals
    <3>3. Goto(t, "commit", l) /\ "commit" \in Labels
      BY <2>2, <3>1 DEF Read, Labels, Reflecting
    <3> QED
      BY <2>1, <3>2, <3>3, OtherData
  <2>3. CASE ~Read(t)
    <3>1. PICK label, l : label \in Labels \ {"commit", "clear", "insert"} /\ Goto(t, label, l)
      BY <1>3, <2>3
      DEF Lint, Acquire, Enter, LockDoc, Lock, Leave, FailUnlock, Return, Labels, Reflecting
    <3> QED
      BY <2>1, <3>1, OtherData
  <2> QED
    BY <2>2, <2>3
<1>4. ASSUME NEW t \in Threads, Progress(t) \/ Fail(t) \/ FailUnlock(t)
      PROVE  DataInv'
  <2>1. Commit(t) => Typed(t) \/ Raise(t)
    BY DEF Commit, Typed
  <2>2. FailUnlock(t) => ~Raise(t)
    BY PgConstants DEF FailUnlock, Raise, Return, Goto, LockInv, Shapes, WorkOK
  <2> QED
    BY <1>2, <1>3, <1>4, <2>1, <2>2, CommitData DEF Progress, Fail, FailLost
<1>5. ASSUME NEW t \in Threads, NEW r \in Requests, Call(t, r)
      PROVE  DataInv'
  <2>1. PICK label, l : label \in {"lint", "lock"} /\ Goto(t, label, l)
    BY <1>5 DEF Call
  <2>2. UNCHANGED <<docs, history, mixed, conn>> /\ t # Importer /\ label \in Labels
    BY <1>5, <2>1 DEF Call, db, process, Labels, Reflecting
  <2> QED
    BY <2>1, <2>2, OtherData
<1>6. CASE Import \/ ImportNext \/ ImportEnds
  <2>2. CASE Import \/ ImportNext
    <3>0. PICK label, l : label \in {"precreate", "lint"} /\ Goto(Importer, label, l)
      <4>1. CASE Import
        BY <4>1 DEF Import
      <4>2. CASE ImportNext
        BY <4>2 DEF ImportNext
      <4> QED
        BY <2>2, <4>1, <4>2
    <3>1. UNCHANGED <<docs, history, mixed, conn>> /\ pc[Importer] \notin {"clear", "insert"}
      BY <2>2 DEF Import, ImportNext, Working, db, process
    <3>2. Importer \in Threads /\ label \in Labels
      BY <3>0, PgConstants DEF Labels, Reflecting
    <3> QED
      BY <3>0, <3>1, <3>2, OtherData
  <2>3. CASE ImportEnds
    <3>1. /\ Importer \in Threads /\ pc[Importer] = "next" /\ mixed' = mixed
          /\ Exit(Home[Importer]) /\ Return(Importer)
          /\ UNCHANGED <<schema, docs, history, locks, calls, imports>>
      BY <2>3, PgConstants DEF ImportEnds, Working, db, counts
    <3>2. /\ locks \in [Keys \cup Docs -> Threads \cup {None}]
          /\ \A k \in Keys \cup Docs : locks[k] # Importer
      BY <3>1 DEF LockInv, Shapes, LocksOK, InSection, InTransaction, Reflecting
    <3>3. Free({Importer}) = locks
      BY <3>2 DEF Free
    <3>4. Raise(Importer)
      BY <3>1, <3>3 DEF Raise
    <3> QED
      BY <3>1, <3>4, RaiseData DEF Replacing
  <2> QED
    BY <1>6, <2>2, <2>3
<1>7. CASE UNCHANGED vars
  BY <1>7
  DEF vars, db, process, DataInv, ReadStays, DocOK, ReplacingOK, Replacing, Alive, Inserted
<1> QED
  BY <1>1, <1>2, <1>4, <1>5, <1>6, <1>7, PrecreateData, ReplaceData DEF Next, ImportStep

LEMMA DataInit == Init => DataInv
BY PgConstants DEF Init, DataInv, ReadStays, DocOK, ReplacingOK, Replacing

LEMMA Data == Spec => [](LockInv /\ ImportOK /\ DataInv)
<1>1. Init => DataInv
  BY DataInit
<1>2. LockInv /\ ImportOK /\ DataInv /\ [Next]_vars => DataInv'
  BY DataStep
<1> QED
  BY <1>1, <1>2, Locking, PTL DEF Spec

(* The history of every document leads from nothing to its text, whichever servers *)
(* wrote it and however often the import was run or killed, but for a document     *)
(* whose import was cut short or crossed an edit.                                  *)
THEOREM HistoriesTell == Spec => []HistoryTellsDocument
<1>1. DataInv => HistoryTellsDocument
  BY DEF DataInv, DocOK, HistoryTellsDocument
<1> QED
  BY <1>1, Data, PTL

(* A document keeps its type: whoever replaces it has read, under its lock, the     *)
(* version that it replaces.                                                       *)
THEOREM TypesStay == Spec => TypeStays
<1>1. ASSUME LockInv, DataInv, [Next]_vars, NEW d \in Docs, docs[d] \in Contents
      PROVE  docs'[d] \in Contents /\ TypeOf[docs'[d]] = TypeOf[docs[d]]
  <2>1. CASE docs' = docs
    BY <1>1, <2>1
  <2>2. CASE Precreate
    <3>1. \/ docs' = docs
          \/ \E x \in local[Importer].todo : docs[x] = None /\ docs' = [docs EXCEPT ![x] = Blank]
      BY <2>2 DEF Precreate
    <3>2. docs[d] # None /\ docs \in [Docs -> {None, Blank} \cup Contents]
      BY <1>1, PgConstants DEF LockInv, Shapes
    <3>3. docs'[d] = docs[d]
      BY <3>1, <3>2
    <3> QED
      BY <1>1, <3>3
  <2>3. ASSUME NEW t \in Threads, Commit(t), Typed(t)
        PROVE  docs'[d] \in Contents /\ TypeOf[docs'[d]] = TypeOf[docs[d]]
    <3>1. /\ pc[t] = "commit" /\ Alive(t) /\ local[t].doc \in Docs /\ local[t].new \in Contents
          /\ docs' = [docs EXCEPT ![local[t].doc] = local[t].new]
      BY <1>1, <2>3, CommitGoes
    <3>2. ReadStays(t)
      BY <1>1 DEF DataInv
    <3> QED
      BY <1>1, <2>3, <3>1, <3>2, PgConstants DEF Typed, ReadStays, LockInv, Shapes
  <2>4. \A t \in Threads : Raise(t) => docs' = docs
    BY DEF Raise
  <2>5. \A t \in Threads : Commit(t) => Typed(t) \/ Raise(t)
    BY DEF Commit, Typed
  <2> QED
    BY <1>1, <2>1, <2>2, <2>3, <2>4, <2>5
    DEF Next, Start, Migrate, Await, Poll, FailStart, Lose, Kill, Progress, Lint, Acquire, Enter,
        LockDoc, Lock, Read, Leave, FailLost, Fail, FailUnlock, Call, Import, ImportStep,
        ImportNext, Clear, Insert, ImportEnds, vars, db
<1>2. LockInv /\ DataInv /\ [Next]_vars =>
        [\A d \in Docs : docs[d] \in Contents
          => docs'[d] \in Contents /\ TypeOf[docs'[d]] = TypeOf[docs[d]]]_vars
  BY <1>1
<1> QED
  BY <1>2, Data, PTL DEF Spec, TypeStays
=================================================================================
