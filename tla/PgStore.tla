--------------------------------- MODULE PgStore ---------------------------------
(***************************************************************************)
(* The PostgreSQL backend, hub/store/pg_store.py, as it is deployed: the    *)
(* admin server, which owns the schema, and the MCP server, which waits for *)
(* it, each with one connection that its threads share, and the import of   *)
(* a file store, scripts/import_to_postgres.py, run beside them.            *)
(*                                                                         *)
(* A thread takes its process's RLock, then an advisory lock of its session *)
(* for an ingestion or a review, then, in a transaction, the lock of the    *)
(* document.  What PostgreSQL does is modelled by what the code relies on:  *)
(* statements commit one by one outside of a transaction, a statement sees  *)
(* what was committed before it, and the locks of a session end with its    *)
(* connection.  Import of submissions and docs-diffs is left out.           *)
(***************************************************************************)
EXTENDS Naturals, Sequences, FiniteSets

CONSTANTS
    None,
    Blank,       \* the row of a document of which only the id is there
    Docs,
    Contents,    \* normalised documents
    TypeOf,      \* [Contents -> types]
    RefersTo,    \* [Contents -> SUBSET Docs], related and supersedes
    Procs,
    Owners,      \* the processes with manage_schema
    Threads,
    Home,        \* [Threads -> Procs]
    Importer,    \* the one thread of the import
    Source,      \* the file store: [Docs -> [doc : Contents, history : Seq(entries)]]
    Keys,        \* the advisory locks ingest and submissions
    Statements,  \* of _SCHEMA; the last adds submissions.base_hash
    Attempts,    \* of _await_schema
    Requests,    \* the calls that the servers get: [key, doc, new]
    MaxCalls,    \* bound on them
    MaxImports,  \* bound on runs of the import
    MaxFaults    \* bound on kills, lost connections and failing statements

ASSUME PgConstants ==
    /\ None \notin Docs \cup Contents \cup Threads \cup Keys /\ Blank \notin Contents
    /\ Keys \cap Docs = {}
    /\ Home \in [Threads -> Procs]
    /\ Owners \subseteq Procs
    /\ Importer \in Threads /\ Home[Importer] \in Owners
    /\ \A t \in Threads \ {Importer} : Home[t] # Home[Importer]
    /\ \A c \in Contents : RefersTo[c] \subseteq Docs
    /\ Requests \subseteq [key : Keys \cup {None}, doc : Docs, new : Contents]
    /\ Statements \in Nat \ {0} /\ Attempts \in Nat \ {0}

Entry == [old : Contents \cup {None}, new : Contents]

(* A history that leads from nothing to c. *)
Telling(h, c) ==
    /\ h # <<>>
    /\ h[1].old = None /\ h[Len(h)].new = c
    /\ \A n \in 2..Len(h) : h[n].old = h[n - 1].new

(* What is imported is in order, or has no history. *)
ASSUME SourceIsTold ==
    /\ Source \in [Docs -> [doc : Contents, history : Seq(Entry)]]
    /\ \A d \in Docs :
          Source[d].history = <<>> \/ Telling(Source[d].history, Source[d].doc)

VARIABLES
    schema,   \* statements of _SCHEMA that have ever been executed
    docs,     \* [Docs -> None, Blank or Contents]: the row and its snapshot
    history,  \* [Docs -> Seq([old, new])]
    locks,    \* [Keys \cup Docs -> the thread that has it, through its session, or None]
    state,    \* [Procs -> {"down", "starting", "up"}]
    conn,     \* the processes whose connection works
    step,     \* [Procs -> statements or attempts made at this start]
    leaked,   \* [Procs -> the keys that its session keeps, since their unlock has raised]
    rlock,    \* [Procs -> the thread that has the RLock, or None]
    pc, local,
    calls, imports, faults,
    mixed     \* observation: documents whose imported history is cut or crossed an edit

db == <<schema, docs, history, locks>>
process == <<state, conn, step, leaked>>
counts == <<calls, imports, faults>>
vars == <<db, process, rlock, pc, local, counts, mixed>>

Reflecting == {"lint", "lock", "doc", "read", "commit"}
Labels == {"idle", "key", "unlock", "precreate", "next", "clear", "insert"} \cup Reflecting
NoLocal == [key |-> None, doc |-> None, new |-> None, prev |-> None, todo |-> {}, n |-> 0]

Init ==
    /\ schema = 0
    /\ docs = [d \in Docs |-> None]
    /\ history = [d \in Docs |-> <<>>]
    /\ locks = [k \in Keys \cup Docs |-> None]
    /\ state = [p \in Procs |-> "down"]
    /\ conn = {}
    /\ step = [p \in Procs |-> 0]
    /\ leaked = [p \in Procs |-> {}]
    /\ rlock = [p \in Procs |-> None]
    /\ pc = [t \in Threads |-> "idle"]
    /\ local = [t \in Threads |-> NoLocal]
    /\ calls = 0 /\ imports = 0 /\ faults = 0
    /\ mixed = {}

Alive(t) == Home[t] \in conn
HasRLock(t) == rlock[Home[t]] = t
Free(lost) == [k \in DOMAIN locks |-> IF locks[k] \in lost THEN None ELSE locks[k]]
Rows == {d \in Docs : docs[d] # None}

Goto(t, label, l) == pc' = [pc EXCEPT ![t] = label] /\ local' = [local EXCEPT ![t] = l]
Return(t) ==
    /\ Goto(t, "idle", NoLocal)
    /\ rlock' = [rlock EXCEPT ![Home[t]] = IF @ = t THEN None ELSE @]

---------------------------------------------------------------------------------
(* __init__ *)

Start(p) ==
    /\ state[p] = "down"
    /\ p = Home[Importer] => imports < MaxImports
    /\ state' = [state EXCEPT ![p] = "starting"]
    /\ conn' = conn \cup {p}
    /\ imports' = IF p = Home[Importer] THEN imports + 1 ELSE imports
    /\ UNCHANGED <<db, step, leaked, rlock, pc, local, calls, faults, mixed>>

Up(p) == state' = [state EXCEPT ![p] = "up"] /\ step' = [step EXCEPT ![p] = 0]

(* _init_schema of an owner: one statement more. *)
Migrate(p) ==
    /\ p \in Owners \cap conn
    /\ state[p] = "starting"
    /\ schema' = IF step[p] + 1 > schema THEN step[p] + 1 ELSE schema
    /\ IF step[p] + 1 = Statements THEN Up(p)
       ELSE step' = [step EXCEPT ![p] = @ + 1] /\ UNCHANGED state
    /\ UNCHANGED <<docs, history, locks, conn, leaked, rlock, pc, local, counts, mixed>>

(* Its session ends, and with it the locks that it kept. *)
Disconnect(p) ==
    /\ conn' = conn \ {p}
    /\ leaked' = [leaked EXCEPT ![p] = {}]

(* The process ends by itself: the import is done, or an exception ends it. *)
Exit(p) ==
    /\ state' = [state EXCEPT ![p] = "down"]
    /\ Disconnect(p)
    /\ step' = [step EXCEPT ![p] = 0]

FailStart(p) ==
    /\ state[p] = "starting" /\ p \notin conn
    /\ Exit(p)
    /\ UNCHANGED <<db, rlock, pc, local, counts, mixed>>

Waiting(p) == p \in conn \ Owners /\ state[p] = "starting"

Poll(p, ready) ==
    /\ Waiting(p)
    /\ IF ready THEN Up(p) /\ UNCHANGED <<conn, leaked>>
       ELSE IF step[p] + 1 = Attempts THEN Exit(p)
       ELSE step' = [step EXCEPT ![p] = @ + 1] /\ UNCHANGED <<state, conn, leaked>>
    /\ UNCHANGED <<db, rlock, pc, local, counts, mixed>>

(* Mutant: the first table is taken for all of the schema. *)
AwaitTable(p) == Poll(p, schema > 0)

(* _await_schema: the column that the last statement adds is polled. *)
Await(p) == Poll(p, schema = Statements)

---------------------------------------------------------------------------------
(* reflect, and the sections of ingest_lock and submissions_lock *)

(* A reflect, alone (key None) or in a section. *)
Call(t, r) ==
    /\ t # Importer
    /\ pc[t] = "idle"
    /\ state[Home[t]] = "up"
    /\ calls < MaxCalls
    /\ calls' = calls + 1
    /\ Goto(t, IF r.key = None THEN "lint" ELSE "lock",
            [NoLocal EXCEPT !.key = r.key, !.doc = r.doc, !.new = r.new])
    /\ UNCHANGED <<db, process, rlock, imports, faults, mixed>>

(* What an exception leaves: the transaction is rolled back, a section is left.   *)
(* The import ends, and its process with it.                                      *)
Raise(t) ==
    /\ UNCHANGED <<schema, docs, history, calls, imports>>
    /\ IF t = Importer
       THEN /\ Exit(Home[t])
            /\ locks' = Free({t})
            /\ Return(t)
       ELSE /\ UNCHANGED process
            /\ \/ /\ Alive(t) /\ HasRLock(t) /\ local[t].key # None /\ pc[t] # "key"
                  /\ locks' = [locks EXCEPT ![local[t].doc] = IF @ = t THEN None ELSE @]
                  /\ Goto(t, "unlock", local[t])
                  /\ UNCHANGED rlock
               \/ /\ ~Alive(t) \/ local[t].key = None \/ pc[t] = "key"
                  /\ locks' = Free({t})
                  /\ Return(t)

(* lint asks exists(), which takes the RLock for itself, for what is referred to. *)
Lint(t) ==
    /\ pc[t] = "lint" /\ Alive(t)
    /\ rlock[Home[t]] \in {None, t}
    /\ IF RefersTo[local[t].new] \ {local[t].doc} \subseteq Rows
       THEN /\ Goto(t, IF HasRLock(t) THEN "doc" ELSE "lock", local[t])
            /\ UNCHANGED <<db, process, rlock, calls, imports, mixed>>
       ELSE Raise(t) /\ UNCHANGED mixed
    /\ UNCHANGED faults

Acquire(t) ==
    /\ pc[t] = "lock"
    /\ rlock[Home[t]] = None
    /\ rlock' = [rlock EXCEPT ![Home[t]] = t]
    /\ Goto(t, IF local[t].key = None THEN "doc" ELSE "key", local[t])
    /\ UNCHANGED <<db, process, counts, mixed>>

Lock(t, k, label) ==
    /\ locks' = [locks EXCEPT ![k] = t]
    /\ Goto(t, label, local[t])
    /\ UNCHANGED <<schema, docs, history, process, rlock, counts, mixed>>

(* Mutant: the lock of the process is held to be enough. *)
EnterAnyway(t) ==
    /\ pc[t] = "key" /\ Alive(t)
    /\ Lock(t, local[t].key, "lint")

(* The session of another process keeps what t wants to enter. *)
Barred(t) == pc[t] = "key" /\ \E p \in Procs \ {Home[t]} : local[t].key \in leaked[p]

(* pg_advisory_lock of _advisory, which a session that has the lock gets again. *)
Enter(t) ==
    /\ pc[t] = "key" /\ Alive(t)
    /\ locks[local[t].key] = None /\ ~Barred(t)
    /\ Lock(t, local[t].key, "lint")

(* Mutant: no pg_advisory_xact_lock. *)
LockNothing(t) ==
    /\ pc[t] = "doc" /\ Alive(t)
    /\ Lock(t, local[t].doc, "read")

(* pg_advisory_xact_lock of reflect *)
LockDoc(t) ==
    /\ pc[t] = "doc" /\ Alive(t)
    /\ locks[local[t].doc] = None
    /\ Lock(t, local[t].doc, "read")

(* The previous row and the snapshot. *)
Read(t) ==
    /\ pc[t] = "read" /\ Alive(t)
    /\ Goto(t, "commit", [local[t] EXCEPT !.prev = docs[local[t].doc]])
    /\ UNCHANGED <<db, process, rlock, counts, mixed>>

Entries(prev, new) ==
    IF prev \notin Contents THEN <<[old |-> None, new |-> new]>>
    ELSE IF prev = new THEN <<>>
    ELSE <<[old |-> prev, new |-> new]>>

(* The import is between its reflect of d and the end of the history of d. *)
Replacing(d) == pc[Importer] \in {"clear", "insert"} /\ local[Importer].doc = d

(* All writes of reflect in one transaction, the end of which releases the lock of *)
(* the document; a reflect outside of a section also releases the RLock.           *)
Commit(t) ==
    LET l == local[t]
        typed == l.prev \in Contents => TypeOf[l.prev] = TypeOf[l.new]
    IN  /\ pc[t] = "commit" /\ Alive(t)
        /\ IF typed
           THEN /\ docs' = [docs EXCEPT ![l.doc] = l.new]
                /\ history' = [history EXCEPT ![l.doc] = @ \o Entries(l.prev, l.new)]
                /\ locks' = [locks EXCEPT ![l.doc] = None]
                /\ mixed' = IF t = Importer THEN mixed \ {l.doc}
                            ELSE IF Replacing(l.doc) THEN mixed \cup {l.doc}
                            ELSE mixed
                /\ IF t = Importer
                   THEN /\ rlock' = [rlock EXCEPT ![Home[t]] = None]
                        /\ IF Source[l.doc].history = <<>>
                           THEN Goto(t, "next", [NoLocal EXCEPT !.todo = l.todo])
                           ELSE Goto(t, "clear", [l EXCEPT !.prev = None])
                   ELSE IF l.key = None THEN Return(t)
                   ELSE Goto(t, "unlock", l) /\ UNCHANGED rlock
                /\ UNCHANGED <<schema, process, calls, imports>>
           ELSE Raise(t) /\ UNCHANGED mixed
        /\ UNCHANGED faults

(* The end of a section: pg_advisory_unlock, then the RLock. *)
Leave(t) ==
    /\ pc[t] = "unlock" /\ Alive(t)
    /\ locks' = [locks EXCEPT ![local[t].key] = None]
    /\ Return(t)
    /\ UNCHANGED <<schema, docs, history, process, counts, mixed>>

---------------------------------------------------------------------------------
(* import_to_postgres: every document is reflected, and its history is replaced *)
(* by the history of the file store                                             *)

Import ==
    /\ pc[Importer] = "idle"
    /\ state[Home[Importer]] = "up"
    /\ Goto(Importer, "precreate", [NoLocal EXCEPT !.todo = Docs])
    /\ UNCHANGED <<db, process, rlock, counts, mixed>>

Working(label) == pc[Importer] = label /\ Alive(Importer)

(* precreate_ids: a row per id, each committed by itself. *)
Precreate ==
    /\ Working("precreate")
    /\ IF local[Importer].todo = {}
       THEN /\ Goto(Importer, "next", [NoLocal EXCEPT !.todo = Docs])
            /\ UNCHANGED docs
       ELSE \E d \in local[Importer].todo :
              /\ docs' = IF docs[d] = None THEN [docs EXCEPT ![d] = Blank] ELSE docs
              /\ Goto(Importer, "precreate", [local[Importer] EXCEPT !.todo = @ \ {d}])
    /\ UNCHANGED <<schema, history, locks, process, rlock, counts, mixed>>

ImportNext ==
    /\ Working("next")
    /\ \E d \in local[Importer].todo :
          Goto(Importer, "lint", [local[Importer] EXCEPT !.todo = @ \ {d}, !.doc = d,
                                                         !.new = Source[d].doc])
    /\ UNCHANGED <<db, process, rlock, counts, mixed>>

(* Mutant: what reflect has recorded is kept. *)
KeepEntries ==
    /\ Working("clear")
    /\ Goto(Importer, "insert", local[Importer])
    /\ UNCHANGED <<db, process, rlock, counts, mixed>>

(* replace_history: all entries are deleted ... *)
Clear ==
    LET d == local[Importer].doc
    IN  /\ Working("clear")
        /\ history' = [history EXCEPT ![d] = <<>>]
        /\ Goto(Importer, "insert", local[Importer])
        /\ UNCHANGED <<schema, docs, locks, process, rlock, counts, mixed>>

(* ... and those of the file store inserted, each committed by itself. *)
Insert ==
    LET l == local[Importer]
        entries == Source[l.doc].history
    IN  /\ Working("insert")
        /\ history' = [history EXCEPT ![l.doc] = Append(@, entries[l.n + 1])]
        /\ IF l.n + 1 = Len(entries)
           THEN Goto(Importer, "next", [NoLocal EXCEPT !.todo = l.todo])
           ELSE Goto(Importer, "insert", [l EXCEPT !.n = @ + 1])
        /\ UNCHANGED <<schema, docs, locks, process, rlock, counts, mixed>>

ImportEnds ==
    /\ Working("next")
    /\ local[Importer].todo = {}
    /\ Exit(Home[Importer])
    /\ Return(Importer)
    /\ UNCHANGED <<db, counts, mixed>>

---------------------------------------------------------------------------------
(* Faults *)

(* Mutant: an exception leaves the RLock locked. *)
FailLocked(t) ==
    /\ t # Importer
    /\ pc[t] \in Reflecting \cup {"key", "unlock"}
    /\ ~Alive(t)
    /\ Goto(t, "idle", NoLocal)
    /\ UNCHANGED <<db, process, rlock, counts, mixed>>

(* Without the connection every statement raises. *)
FailLost(t) ==
    /\ pc[t] \notin {"idle", "lock"}
    /\ pc[t] = "lint" => rlock[Home[t]] \in {None, t}
    /\ ~Alive(t)
    /\ Raise(t)
    /\ UNCHANGED <<faults, mixed>>

(* The import is cut short, which may leave a part of a history. *)
Cut == mixed \cup {d \in Docs : Replacing(d)}

(* A statement before the end of the transaction raises. *)
Fail(t) ==
    /\ faults < MaxFaults
    /\ faults' = faults + 1
    /\ pc[t] \in {"key", "doc", "read", "commit", "precreate", "clear", "insert"}
    /\ Alive(t)
    /\ mixed' = IF t = Importer THEN Cut ELSE mixed
    /\ Raise(t)

(* pg_advisory_unlock raises: the RLock is released, the lock of the session is not. *)
FailUnlock(t) ==
    /\ faults < MaxFaults
    /\ faults' = faults + 1
    /\ pc[t] = "unlock" /\ Alive(t)
    /\ locks' = [locks EXCEPT ![local[t].key] = None]
    /\ leaked' = [leaked EXCEPT ![Home[t]] = @ \cup {local[t].key}]
    /\ Return(t)
    /\ UNCHANGED <<schema, docs, history, state, conn, step, calls, imports, mixed>>

(* The server ends the session; the code never connects again. *)
Lose(p) ==
    /\ faults < MaxFaults
    /\ faults' = faults + 1
    /\ p \in conn
    /\ Disconnect(p)
    /\ locks' = Free({t \in Threads : Home[t] = p})
    /\ mixed' = IF p = Home[Importer] THEN Cut ELSE mixed
    /\ UNCHANGED <<schema, docs, history, state, step, rlock, pc, local, calls, imports>>

Kill(p) ==
    /\ faults < MaxFaults
    /\ faults' = faults + 1
    /\ state[p] # "down"
    /\ Exit(p)
    /\ locks' = Free({t \in Threads : Home[t] = p})
    /\ rlock' = [rlock EXCEPT ![p] = None]
    /\ pc' = [t \in Threads |-> IF Home[t] = p THEN "idle" ELSE pc[t]]
    /\ local' = [t \in Threads |-> IF Home[t] = p THEN NoLocal ELSE local[t]]
    /\ mixed' = IF p = Home[Importer] THEN Cut ELSE mixed
    /\ UNCHANGED <<schema, docs, history, calls, imports>>

---------------------------------------------------------------------------------
Progress(t) ==
    \/ Lint(t)
    \/ Acquire(t)
    \/ Enter(t)
    \/ LockDoc(t)
    \/ Read(t)
    \/ Commit(t)
    \/ Leave(t)
    \/ FailLost(t)

ImportStep == Precreate \/ ImportNext \/ Clear \/ Insert \/ ImportEnds

Next ==
    \/ \E p \in Procs : Start(p) \/ Migrate(p) \/ Await(p) \/ FailStart(p) \/ Lose(p) \/ Kill(p)
    \/ \E t \in Threads : Progress(t) \/ Fail(t) \/ FailUnlock(t)
    \/ \E t \in Threads, r \in Requests : Call(t, r)
    \/ Import
    \/ ImportStep

Spec == Init /\ [][Next]_vars

---------------------------------------------------------------------------------
(* Properties *)

(* Every variable has its shape, a thread that rests has no lock, and a process    *)
(* without a connection has none in the database, also none that it has kept       *)
(* because pg_advisory_unlock raised (pg_store.py:150-152, 474-484).               *)
TypeOK ==
    /\ schema \in 0..Statements
    /\ docs \in [Docs -> {None, Blank} \cup Contents]
    /\ \A d \in Docs : \A n \in DOMAIN history[d] : history[d][n] \in Entry
    /\ \A k \in DOMAIN locks : locks[k] # None => Alive(locks[k]) /\ pc[locks[k]] # "idle"
    /\ state \in [Procs -> {"down", "starting", "up"}]
    /\ conn \subseteq {p \in Procs : state[p] # "down"}
    /\ leaked \in [Procs -> SUBSET Keys]
    /\ \A p \in Procs : leaked[p] # {} => p \in conn
    /\ \A p \in Procs : rlock[p] # None => Home[rlock[p]] = p /\ pc[rlock[p]] # "idle"
    /\ pc \in [Threads -> Labels]
    /\ mixed \subseteq Docs

(* A server takes calls only when all of the schema is there, in whichever order   *)
(* the servers were started and however the owner was interrupted (pg_store.py:    *)
(* 104-108, docker-compose.yml:83).                                                *)
ReadyOnSchema == \A p \in Procs : state[p] = "up" => schema = Statements

(* Of all threads of all processes at most one works in an ingestion, and one in a *)
(* review: a section whose connection is lost goes on, but can do nothing more     *)
(* (pg_store.py:472-484).                                                          *)
OneLiveSection ==
    \A t, u \in Threads :
       /\ local[t].key # None /\ local[t].key = local[u].key
       /\ {pc[t], pc[u]} \cap {"lock", "key"} = {}
       /\ Alive(t) /\ Alive(u)
       => t = u

(* The history of a document leads from nothing to its text, whoever wrote it:     *)
(* any server, or the import once or again, killed in between or not.  Not told is *)
(* a document whose import was cut short, or crossed an edit (pg_store.py:130-256, *)
(* 506-516; import_to_postgres.py:13, "멱등").                                      *)
HistoryTellsDocument ==
    \A d \in Docs : docs[d] \in Contents /\ d \notin mixed /\ ~Replacing(d)
                      => Telling(history[d], docs[d])

(* The type of a document never changes, also when two processes save it for the   *)
(* first time at once (pg_store.py:154-161).                                       *)
TypeStays ==
    [][\A d \in Docs : docs[d] \in Contents
          => docs'[d] \in Contents /\ TypeOf[docs'[d]] = TypeOf[docs[d]]]_vars

(* The thread that t waits for. *)
Blocker(t) ==
    CASE pc[t] = "lock" -> rlock[Home[t]]
      [] pc[t] = "lint" /\ ~HasRLock(t) -> rlock[Home[t]]
      [] pc[t] = "key" -> locks[local[t].key]
      [] pc[t] = "doc" -> locks[local[t].doc]
      [] OTHER -> None

(* Threads never wait in a circle through the RLocks of the processes and the      *)
(* locks of the database, nor for a thread that is done, whatever statement or     *)
(* connection has failed: every call comes to its end, but one that waits until    *)
(* another process ends whose pg_advisory_unlock has raised, and one behind it     *)
(* (pg_store.py:472-484).                                                          *)
NoCircularWait ==
    \A waiting \in (SUBSET Threads) \ {{}} :
       \E t \in waiting :
          \/ Blocker(t) = None
          \/ Blocker(t) \notin waiting /\ pc[Blocker(t)] # "idle"
          \/ Barred(t)

(* A section can be entered when nobody is in it (pg_store.py:472-484). *)
LeftIsFree == \A t \in Threads : ~Barred(t)
=================================================================================
