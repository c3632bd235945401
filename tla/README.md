# why-hub, specified

TLA+ modules, TLC runs and TLAPS proofs for why-hub, a team knowledge hub: Markdown
documents with a history of *why* they changed, saved through one write path, reviewed
through an approval queue, edited by hand, through HTTP or MCP, or by a chat that stages
changes. Paths below are relative to the repository root (`src/` here).

## The system

| part | state | operations | talks to |
|---|---|---|---|
| save engine `hub/store/{save,journal,reconcile,locking,history,snapshots,file_store}.py` | per document: the file `docs/<type>/<id>.md`, its history file, snapshot and hash, docs-diff files, a pending journal, a `flock` | save, rollback, open, recover | writes the index; called by the service |
| index `hub/store/index_fts.py` | one SQLite row and text chunks per document | reindex, remove, look up, search | read by every read operation, by save and by recovery |
| normalise, lint, anchors, diff `hub/store/{normalize,lint,anchors,diffing,paths}.py` | none | pure functions | used by save, recovery, service |
| PostgreSQL store `hub/store/pg_store.py` | the same data as rows; one shared connection, an in-process `RLock`, advisory locks | one transaction per save; import helpers | alternative to the file store |
| submission queue `hub/store/submissions.py` | one JSON file per submission: content, base version, status | create, read, set status | the service, under the submissions lock |
| service `hub/service.py` | none of its own | save or submit, approve, reject, ingest, lineage, reads with project access control | store, index, queue |
| chat `hub/chat.py` | sessions in memory: owner, messages, staged changes | turn (streamed or not), tool calls, apply | LLM, service |
| authentication `hub/auth/*` | users, sessions, access tokens, projects and members, audit rows; rate-limit queues in memory | sign up, log in, change password, tokens, project administration | all interfaces |
| interfaces `hub/interfaces/*` | none | HTML pages, HTTP API, MCP tools | service, chat, authentication |
| scripts, evaluation, web client | none that lasts | import to PostgreSQL, role migration, seeding, metrics | stores |

What makes it hard: a save writes to five places that no transaction covers, and the
process may die, or any call may raise, between two of them, including in the code that
puts things back and in the recovery that runs at the next start; threads, and a second
process, work on the same directory; an approval is a check, a save and a status change;
chat sessions and rate-limit queues are shared by request threads.

What makes each part correct:

* save engine: an entry that was acknowledged stays; a document and its history change
  together or not at all; a failed save leaves no trace; at rest a document, its row and
  its snapshot agree; locks are released and recovery ends;
* approval: a submission is reflected at most once and only when approved; an approved
  change is not overwritten by one made from an older version;
* ingest: one document per source and project; an id is given out once;
* chat: a staged change is submitted exactly once; only the owner uses a session;
* authentication: after a change of password no other session works; no more than the
  allowed attempts in a window; a right that is taken away is soon gone from every token;
* PostgreSQL store: nobody works on half a schema; at most one ingestion and one review at
  a time over all processes; a document's history leads to its text; nobody waits for ever;
* pure functions: normalising is idempotent and leaves code alone; unique anchors; every
  changed line attributed to one section;
* references and lineage: what a document refers to exists; the history names every change
  of lineage; a lineage is whole and its search ends, whatever circles references form.

## Modules

| module | models |
|---|---|
| `DeltaStore` | the promise: per document, an atomic pair of content and history |
| `SaveEngine` | the file backend's write path, rollback and recovery, step by step |
| `MCSaveEngine` | process layouts and crash points for its runs |
| `SaveEngineProofs` | all the safety of `SaveEngine` its runs check, proved: the acknowledged history, recovery, rollback, refinement of `DeltaStore` |
| `ReviewQueue` | the promise of the approval workflow: each decision one atomic step |
| `Approval` | submitting, approving, rejecting and direct saves, step by step |
| `ApprovalProofs` | all the safety of `Approval`, proved: no lost update, at most one reflection, refinement of `ReviewQueue` |
| `ChatSession` | one chat session: turns, tool calls, staged changes, apply |
| `ChatProofs` | that with one apply and one turn at a time its safety holds, proved |
| `Ingest` | ingestion of sources and the allocation of ids, against approvals |
| `IngestProofs` | that a source stays one document, proved |
| `RateLimiter` | the sliding window of attempts, with the clock read outside its lock |
| `Accounts` | sign-up, login, sessions, change of password; extends `RateLimiter` |
| `AccountsProofs` | the bound on attempts, in the limiter and in the login, and the sessions after a change of password, proved |
| `Access` | projects, memberships, personal access tokens and the JWTs made from them |
| `AccessProofs` | that rights lapse in time and members go before their project, proved |
| `PgStore` | the PostgreSQL backend: start, schema, connection, locks, transactions, import |
| `PgStoreProofs` | all the properties of `PgStore`, proved |
| `Documents` | the text of a document: normalise, lint, anchors, chunks, differences |
| `References` | saves that refer to each other: lint of references, kinds of change, rollback; extends `Lineage` with saves beside the lookup |
| `Lineage` | the search for the lineage of a document |
| `DocumentsProofs` | all the properties of `Documents`, `References` and `Lineage` but that the search ends, proved |
| `MCApproval`, `MCChatSession`, `MCIngest`, `MCAccounts`, `MCAccess`, `MCPgStore`, `MCDocuments`, `MCReferences` | small instances: failure points, limits, layouts, lines, symmetry |

`Approval` takes the save as one step that happens or fails; `SaveEngine` is about when that
is so. `ChatSession` takes a submission as one step; `Approval` goes on from there. `Ingest`
ends in a submission, and has an approval as the two steps that matter to it: comparison with
save, and status. `Accounts` composes the limiter with the login that asks it twice, `References`
the lookup of a lineage with the saves whose files it reads. A
document is a model value everywhere but in `Documents`.

### SaveEngine

A thread's `pc` is its place in `_save_locked` or `_rollback`; `req`, `prev` and `entries`
are the locals of the call (the request, what it captured for a rollback, the history
entries it built). A process's `phase` is its place in `FileStore.__init__` and
`reconcile.run`, `rec` the locals. The directory is `files`, `history`, `snaps`, `diffs`,
`index` and `journals`; `lock` is the holder of each `flock`. `acked` and `base` only
observe: the history of the last acknowledged save, and a document's state when the
running save began.

| actions | code |
|---|---|
| `Request` ... `Begin` | `save_document`, lock, type check, capture, `journal.begin` |
| `Intent`, `AppendHistory` | diff, build the entries, journal step *before* the append |
| `OpenDoc`, `WriteDoc`, `MarkDoc` | the document is truncated, written, and the journal told |
| `OpenSnapshot` ... `Commit` | snapshot, docs-diff, index, journal removed |
| `Fail`, `Undo...`, `RolledBack`, `RollbackFails` | the `except` of `_save_locked` and `_rollback`, each write a step |
| `Open` ... `FinishRecovery` | when a process opens the store, and `reconcile.run` |
| `Crash` | a process is killed: threads and locals vanish, `flock`s are dropped |

A file rewritten in place is `Torn` between truncation and write. A body hash is the body
(SHA-256 taken as injective); the frontmatter is split into the part recovery compares
(`meta`) and `project`, which it does not. One history entry stands for the entries of one
save. Clients cannot choose the `change_type` (http_api.py:35, mcp_server.py:140), so the
branch for it is left to `References`. Journal steps nothing reads are part of the step before
them. The docs-diff file is written in one step.

### Approval

`docs` is the saved version of each document, `subs` the submission files, `holder` the
submissions lock, `gate` the setting `approval.enabled` of the running server. A thread's
`pc` is its place in `save_document`, `submit_change`, `approve_submission` or
`reject_submission`, `call` its locals. `applied`, `stale` and `held` only observe: how often
a submission was reflected, whether its author had read an older version, and which versions
a document ever had.

| actions | code |
|---|---|
| `Read` | an author opens the document that the change will be made to |
| `SaveDocument`, `Save` | `save_document`; with the gate off it saves |
| `ChooseOp`, `ReadBase`, `Create` | with the gate on: "create" or "edit", the base version, the file; no lock is held |
| `SubmitChange` | `submit_change` as the chat calls it |
| `Review`, `Acquire`, `LockTimeout`, `Processed` | a review asks, gets the lock or gives up; a decided submission is refused |
| `Compare` | already there: mark; changed since: conflict; else reflect |
| `ReflectSubmission`, `MarkApproved`, `MarkRejected` | `_reflect`, and the status file replaced |
| `Fail`, `Crash` | a call raises, and the `with` releases the lock; the server is killed and started, maybe with another `gate` |

A version is a text and whether its frontmatter has empty fields: `_version_hash` sees them,
a save drops them. Under the lock, reading the submission and reading the document are one
step: the lock protects the status, and that the document may change is exactly what
`ReflectedOnBase` is about (`Compare` to `ReflectSubmission`).

### ChatSession

`staged` and `messages` are the two lists of the session; `local` is what a turn or an apply
keeps between its steps. `submitted` is what reached the queue; `proposed`, `lost`, `cut`
and `local[t].shown` only observe.

| actions | code |
|---|---|
| `Turn` | `_prepare`: the user's message; a new session when the server has forgotten the old one |
| `Calls`, `NoCalls` | the model answers with tool calls or with text |
| `Exec`, `ToolFails`, `Answer` | `_exec_tool`, an exception as answer, the result appended |
| `Reply` | the text; a streamed turn asks for it once more |
| `ModelFails`, `Hangup` | the model raises; the client of a stream disconnects and its generator is closed |
| `Apply`, `More`, `Take`, `Submit`, `SubmitFails`, `Pop` | `apply`, item by item |
| `Restart` | the process ends and the session with it |

Reading tools leave everything alone, so one stands for all; the three proposing tools stage
one item each, so one stands for them.

### Ingest

`docs` has the source and text under each id, `subs` all submissions in the order of creation,
`holder` the ingest lock, `marking` the submission whose approval has saved and not yet set the
status (the submissions lock is held as long). What an ingestion reads of the queue are the pending
submissions, each under its place among all. A source stands for a `source_ref` within one project,
so the project is not written out. Ids are the numbers of one prefix; 0 is an id of another form,
and `LastNumber + 1` the first number with five digits. Such a number is given out and, with the
gate on, queued, since a submission is only linted for information (service.py:371-372, 405); the
lint of the save refuses it (config.py:19, lint.py:82-85), directly or when it is approved. Once the
last number is taken, a new source of the prefix therefore never becomes a document.

| actions | code |
|---|---|
| `Ingest` | `ingest_source` takes the ingest lock |
| `ReadPending`, `ReadDocs` | the queue first, then the documents; a document of the source, else its newest submission, else a new id |
| `NewId` | `_next_id` over documents and the queue as it was read |
| `ReadBase`, `Submit`, `ReflectNow` | `save_document`, gate on or off |
| `Write`, `Approve`, `Mark`, `Reject` | what people do meanwhile, not under the ingest lock |
| `Fail` | a call raises, the `with` releases the lock |

### RateLimiter and Accounts

`hits` are the queues of a limiter per key, `asked` the attempts whose clock reading is taken
and whose check is to come, `admitted` observes. Accounts, clients and sign-ups have limits of
their own, which are keys with a `MaxOf` each. A stored hash is the password and whether its
Argon2 parameters are out of date. `changer` and `cut` observe which session changed the
password and which change a restart cut off between its two statements.

| actions | code |
|---|---|
| `ReadClock`, `Check`, `Tick` | `SlidingWindowRateLimiter.check`: `now`, then the rest under the lock; time passes |
| `Signup`, `SignupLimit`, `Insert` | the sign-up page, which logs in on success |
| `Login`, `AccountLimit`, `AskClientLimit`, `ClientLimit` | `login`: first the account's limiter, then the client's |
| `Verify`, `Rehash`, `Create` | `_authenticate` and the session |
| `Logout` | the session is revoked |
| `Change`, `Compare`, `Update`, `Revoke` | `change_password`: verify, set, revoke the others, each a statement |
| `Restart` | requests end where they are; limiters forget |

### Access

`admins`, `projects`, `role` and `pats` are the tables, `jwts` the tokens handed out, which
copy a user's rights. `lost` observes when a right was last taken away, `late` which
memberships were added when their project was gone or about to be.

| actions | code |
|---|---|
| `SetAdmin` | `set_user_admin`, called by hand |
| `Create`, `Delete`, `DeleteMembers`, `DeleteProject` | `create_project`; `delete_project`, two statements |
| `AddMember`, `RemoveMember` | the upsert, which does not ask for the project, and the deletion |
| `CreatePat`, `RevokePat` | a personal access token |
| `Exchange`, `ReadPat`, `ReadTime`, `ReadUser`, `Issue` | `exchange_pat`: the token's row, `now`, the user, the memberships and the signature |
| `Restart` | between the two statements of a deletion |

`Rights` is what `principal.py` lets a principal do; `Current` is `principal_for_user`.

### PgStore

`schema` counts the statements of `_SCHEMA` that have been executed; `docs` and `history` are the
tables, `locks` the advisory locks, `conn` the processes whose connection works, `rlock` the lock of
each process around it. `leaked` are the keys that the session of a process keeps because their
unlock has raised. `mixed` observes documents whose import was cut short or crossed an edit.

| actions | code |
|---|---|
| `Start`, `Migrate`, `Await`, `FailStart` | `__init__`: `_init_schema` of an owner, `_await_schema` of the others |
| `Call`, `Lint`, `Acquire` | a call, alone or in an `ingest_lock` or `submissions_lock` section; the RLock |
| `Enter`, `Leave` | `_advisory`: `pg_advisory_lock` and `pg_advisory_unlock` |
| `LockDoc`, `Read`, `Commit` | `reflect`: `pg_advisory_xact_lock`, previous row, all writes of the transaction |
| `Import`, `Precreate`, `ImportNext`, `Clear`, `Insert`, `ImportEnds` | `import_to_postgres.py`: `precreate_ids`, `reflect`, `replace_history` |
| `Fail`, `FailLost`, `Lose`, `Kill` | a statement raises; the connection is gone and every statement raises; it is lost; a process is killed |
| `FailUnlock` | `pg_advisory_unlock` raises: the RLock is released, the session keeps its lock |

A transaction is one step at its commit: what it wrote before nobody sees, and what it read
before is `local.prev`, under the document's lock. The statements of the schema are taken to
commit one by one, which is what pg_store.py:104 says of them; in one transaction there would
only be fewer behaviours. What PostgreSQL does with them is modelled by what the code relies on.

### Documents

A line is what the code tells apart: text, a heading with its level and title, a fence with
its character, length and info string, each spelled normally or loosely. A title is a
sequence of code points, since a slug may be another heading's slug with a suffix; the number
of a suffix is one of them. `Type`, `Edit` and `SaveDocument` are a person writing;
`SaveDocument` is `normalize_document`, `lint` and `diff` with the entries of `history.build`.

| operators | code |
|---|---|
| `Fences` | the open fence that each loop over lines keeps: pass A and B, `_header_lines` |
| `PassA`, `Emit`, `PassB`, `Trim` | the two passes of `_normalize_body` and its end |
| `Headers`, `Slugify`, `Anchors` | `parse_anchors`; slugs are numbered in the order of the headings |
| `Complete`, `SectionContent` | `_lint_adr_sections` |
| `Chunks` | the cut of a text in `reindex_doc` |
| `Blocks` | the matching blocks of `difflib`: the longest run of a box, then the boxes before and after it, in rounds where `difflib` has a stack; what `Longest` picks is its definition |
| `Added`, `Removed`, `AnchorAt`, `AnchorForDelete`, `Diff` | `diff`: what is in no block was added or removed, and under which anchor it goes |

A fence is one for the code and for CommonMark, or a `Lookalike`, which only the code takes as one:
indented by four or more, or of backticks with another behind them in the line (`_FENCE_RE`,
anchors.py:23). Frontmatter, links, lists and code marked by its indentation are left out; in a list
item a fence may be indented further and still be one.

### References and Lineage

`References` is the part of a save that decides references and kinds of change, over several
documents: `row` is the index, `history` the entries with their type and references, `local` what
`_save_locked` captured. `early` observes the references whose lint saw a document that was being
created, which may still fail. References are those of `supersedes`; `related` passes the same lint.

| actions | code |
|---|---|
| `Save` | `lint` with `exists_fn`, before the document's lock |
| `Acquire`, `LockTimeout` | the lock or none; the frontmatter that is replaced and the size of the history are read |
| `Record`, `WriteFile`, `Reindex`, `Commit` | `determine_change_type`, `build` and `append`; file, row and lock |
| `Rollback` | any of them raises; `_rollback` as one step, its own failures and crashes being those of `SaveEngine` |
| `GetRelated` | `get_related` begins: the documents are read, `LineageInit` on what they say |

An ingestion is the one caller that gives a `change_type` (service.py:726). `GetRelated` reads all
documents in one step; one in the middle of `WriteFile` may be read cut short, which is without
references. Who may read a document is in its row, so an id without one is not held back. That other
saves may fall between two of these reads changes which references are read, and what is checked and
proved of the lookup holds on any.

`Lineage` is one call of `get_related`: `queue`, `seen` and `order` are the locals of `_chain`,
`way` says which of its two searches runs. `Visit` is one turn of its loop; `ChainEnds`,
`BackwardEnds` and `Relate` put the result together and leave out what the reader may not read.
References are what `_relation_maps` has read; documents are numbered in the order of their ids.

## Runs

### SaveEngine

Bounds: one document (documents share nothing but the count in `_index_stale`), two bodies,
three requests by two threads, two crashes. Three requests give a first version, a
second, and one that fails or crashes on top; two crashes put one inside recovery.

| run | shows |
|---|---|
| `SaveFaults` | killed anywhere, any call raising: no acknowledged entry is lost (`AckedHistoryKept`), every recovery that completes converges (`RecoveryConverges`), requests are answered and recovery ends |
| `SaveAtomic` | with failures anywhere in the try block and crashes where recovery can repair them: the write implements `DeltaStore`, agrees at rest, a rolled-back save leaves no trace |
| `SaveCrashAtMark` | *violated*: document written, journal not told, killed: the entry is cut, the document stays |

The crash points `SaveAtomic` leaves out (`Tolerated` in `MCSaveEngine`) are no more than is
needed: with any one of them added TLC finds `ImplementsDeltaStore` violated. The further
counterexamples below show what goes wrong there. Threads and processes are
asymmetric through `ProcOf`, so no symmetry is declared. Deadlock is not checked: when the requests are used up the system rests.

Fairness (`FairSpec`): a thread that can step does (`WF` on `ThreadStep`), a process that
is down or recovering does (`WF` on `ProcStep`): both run in OS threads, and deployment
restarts the servers. Requests, failures and crashes are never promised. A thread waiting
for a lock needs no strong fairness: it may time out.

### Approval

Bounds: one document, two texts, two submissions, two request threads, one crash, after which
the gate may be another in `ApprovalFaults`. The lock is global and decisions about different
documents only compete for it, so one document is enough; two submissions from one base, or one
from what the other left, are what the comparisons must tell apart. `SubIds` and `Threads` are
symmetric in `ApprovalFaults`; `ApprovalAtomic` checks liveness and has one thread whose authors
read first, and so declares none.

| run | shows |
|---|---|
| `ApprovalFaults` | killed anywhere, started with the gate on or off, any call raising: while the gate is on a submission is reflected only on the version it was made from; what is marked approved was reflected |
| `ApprovalAtomic` | without faults between save and status change: refines `ReviewQueue`, what was rejected was not reflected, the lock is released and every request answered |

Fairness: a thread inside a call goes on (`WF` on `Step`). A reviewer that waits needs no
more, since it may time out.

### ChatSession

Bounds: two turns, one thread that talks and one that applies, two rounds of tool calls with
two tools each, one restart. One apply and one
turn side by side already share both lists; the second turn is the one that meets what the
first left behind.

| run | shows |
|---|---|
| `ChatFaults` | failures, disconnects and restarts: every staged change is submitted once and in order or lost with the process; the model is asked with the results of all its calls; turns end |

Fairness: a thread inside a turn or an apply goes on (`WF` on `Step`); the model may answer
with tool calls whenever it is asked, so that turns end is the doing of `max_iters`.

### Ingest

Bounds: three sources and two ingestions side by side, four submissions, four-digit numbers up to 2,
so that the third source meets the end of the numbers, one id of another form that people write by
hand. Four submissions are two sources ingested twice, or once with an edit and a handwritten
document between; the text only matters as the base of a comparison, and the source tells documents
apart. The gate stays as it is at the start.

| run | shows |
|---|---|
| `IngestFaults` | whatever is approved, rejected or raises meanwhile: one document per source, no document taken over by another source, the lock released |

Fairness: an ingestion goes on (`WF` on `Step`); reviewers need not come.

### Accounts

Bounds: one name, one client, two passwords, two requests at a time, two sessions, one restart;
one attempt per account and window, two per client, one sign-up. Time has two values, and
`Window = 0` makes an instant a window: attempts that read the same time are in one. One name is
enough, since accounts meet only in the client's limiter, which two requests exhaust.

| run | shows |
|---|---|
| `AccountsFaults` | no more than the allowed attempts pass, although times may be recorded out of order; a session opened with a password that was valid does not outlive its change, unless it made the change, also when logins cross changes and changes cross each other |

### Access

Bounds: one user, the default project and another, two requests at a time, one token row, one
exchange, three instants with a lifetime of one. A right may be lost, given back and lost again
before, while and after the one exchange runs, which is what its age is measured against. Exchanges
run one at a time, which the code does not demand: each only reads, so another changes nothing for
it.

| run | shows |
|---|---|
| `AccessFaults` | a right that was taken away is in no token one lifetime later; a project that is gone has no members, but those added when it was gone or going |

### PgStore

Bounds: the admin server with two threads, the MCP server with one, the import, run up to twice;
two documents, one of which refers to the other, three contents of two types; one key of
sections, two calls, one fault. Two threads of one process and one of another are what the order
RLock, key, document is about; two statements of the schema tell "some" from "all".

| run | shows |
|---|---|
| `PgFaults` | killed, cut off or failing anywhere: nobody serves before the schema is there, one section at a time, the history leads to the text, no type changes, and no circle of waiting threads |

No fairness here: `NoCircularWait` says of each state what "nobody waits for ever" needs, that
a waiting thread waits, at the end, for one that runs.

### Documents

Bounds: up to three lines of nine kinds, one of them a lookalike, saved, edited in one place and
saved again. Three lines are enough for a fence inside a fence, two headings of one name next to one
with their suffix, and a heading whose section is empty; the edit then moves, removes or opens any
of them.

| run | shows |
|---|---|
| `DocumentEdits` | normalising is idempotent and keeps what a reader sees; sections are distinct and start outside of code (both about code for texts without lookalikes); a save records each added and removed line once, under its section |

### References

Bounds: three documents, two threads, three saves, each of which may be rolled back; what
documents refer to and their status are free. A reference, the document it is to and a save that
overlaps both are three saves; two threads are one that lints and one that rolls back.
One lookup beside them, by a reader of all documents or of all but the middle one. Documents
refer to the first, the second, both or none, which makes chains, forks and circles of two, and a
reference to oneself. No caller gives a `change_type` here (the proofs allow it). No symmetry is
declared, for a liveness property is checked.

| run | shows |
|---|---|
| `ReferenceSaves` | references exist but for those whose lint saw a creation under way; the history ends with the references of the document and names each one that appears; the lineage is what references reach, and the call returns |

Fairness: the lookup goes on (`WF` on `LineageNext`); it is a loop of one thread that waits for
nothing. Nothing is promised of the saves.

Deadlock is not checked in any run: when the bound on requests, submissions, sessions or edits
is used up the system rests. `RequestsAreAnswered`, `TurnsEnd`, `LockIsReleased` and
`NoCircularWait` say that it does not rest with a request under way.

### Further counterexamples

TLC finds these within a minute as well. Each is a cfg above with the changes named here, without
symmetry where one thread differs from the others, and the property alone; they are kept out of
the runs as variations of the same few gaps.

| cfg, with | property | what happens |
|---|---|---|
| `SaveCrashAtMark`, `Procs = {p1, p2}`, `ProcOf <- TwoProcesses`, `CrashIn <- Nowhere` | `AckedHistoryKept` | recovery of a second process cuts the history under a running save (reconcile.py:44) |
| `SaveCrashAtMark`, `CrashIn <- AtWrite` | `DocumentSurvives` | killed between truncation and write: the acknowledged document is gone (save.py:147) |
| `SaveCrashAtMark`, two `Projects`, `CrashIn <- AtIndex` | `ProjectIndexed` | the project is not among the fields recovery compares (reconcile.py:91) |
| `SaveCrashAtMark`, `CrashIn <- AtScan`, `MaxCrashes = 2` | `AgreesAtRest` | killed in recovery after the journals went: no later start recovers (reconcile.py:50) |
| `SaveCrashAtMark`, `CrashIn <- Restart`, `FailIn <- UndoHistoryFails` | `HistoryTellsDocument` | the rollback raises after restoring the document: the entry of the failed save stays (save.py:182) |
| `SaveCrashAtMark`, `CrashIn <- AtUndoSnap`, `FailIn <- TryFails` | `NoOrphanSnapshot` | killed in the rollback of a creation: its snapshot stays (save.py:204) |
| `ApprovalAtomic`, `CrashIn <- AtMark` | `RejectedNeverReflected` | killed after the save, then rejected: "rejected" and in the document (service.py:514) |
| `ApprovalAtomic`, `CrashIn <- AtMark`, three `SubIds` | `ReflectedOnce` | killed before the status change, then another approval restores the base: reflected twice (service.py:480) |
| `ApprovalFaults` | `ReapprovalConverges` | killed after the save, before the status change: an empty field of the submitted frontmatter (templates/adr.md:7, `tags: []`) was dropped by the save (normalize.py:80) and is hashed in the submission (service.py:79), so that approving it again is refused as a conflict, against service.py:464-466 |
| `ApprovalAtomic` | `NothingUnseenIsReplaced` | the base is the version at submission, not the one the author edited (service.py:396) |
| `ApprovalAtomic` | `CreationReplacesNothing` | approved between `ChooseOp` and `ReadBase`: a "create" replaces a document (service.py:320) |
| `ChatFaults`, `Appliers = {t1, t2}` | `ExactlyOnce` | two applies at once submit one change twice and drop another (chat.py:233) |
| `ChatFaults`, `Talkers = {t1, t2}` | `AskedWithResults` | the messages of two turns interleave (chat.py:147) |
| `ChatFaults` | `OnlyConfirmed` | an apply submits what was staged after it began (chat.py:225) |
| `IngestFaults`, `UserIds = {0, 1}` | `SourceKeepsItsDocument` | gate off: a document written by hand between `NewId` and `ReflectNow` is replaced (service.py:717) |
| `AccountsFaults` | `OldPasswordIsOut` | a login that verified the old password opens its session after the others were revoked (auth/service.py:247) |
| `PgFaults` | `LeftIsFree` | `pg_advisory_unlock` raises on a connection that works: the RLock is released, and the session keeps the lock, so that the other process waits until this one ends (pg_store.py:480-484) |
| `DocumentEdits` | `CodeIsKept` | a fence indented by four within a code block ends the block for the code, and what follows in it is normalised as text, against normalize.py:118 (anchors.py:23, 40) |
| `ReferenceSaves`, with `NothingDangles` without its `early` | `NothingDangles` | the lint sees a document whose first save is under way and then fails: the reference stays (lint.py:99, save.py:180) |

More follow from definitions. `ReflectedOnBase` speaks of the gate being on: with it off a direct
save, which takes no lock of the queue, falls between comparison and save of an approval, and is
overwritten (service.py:480). `AskedWithResults` excepts turns whose client disconnected, because
their unanswered calls stay in the session (chat.py:163). `OthersAreLoggedOut` excepts accounts with
an outdated hash, because `Rehash` stores the password it verified whatever was set since
(auth/service.py:160). `DeletedWithMembers` excepts memberships added late, because `AddMember` asks
for no project (auth/repository.py:398). In `Documents` a removed first section counts as removed
from the one that follows (diffing.py:7 against 40-51); an ADR section that has only subsections
counts as empty (anchors.py:127); text before the first heading is in no chunk
(index_fts.py:117-124, pg_store.py:238-252); blank lines at the end of a code block that is never
closed go (normalize.py:162-163).

## Proofs

`SaveEngineProofs`, for any number of documents, types, threads, requests and crashes. The
assumptions on the constants are those of `ConstantsAreSane`: no file and a torn file are no
document. Five theorems hold for one server process on a root (`OneServer`); with two, a save is
acknowledged while a recovery holds an older size, the first of the further counterexamples.

* `TypeCorrect`: `Spec => []TypeOK`, one step per action.
* `AcknowledgedHistorySurvives`: whatever fails and wherever the process is killed,
  `Spec => []AckedHistoryKept`. The invariant alone is not inductive: what cuts a history is the
  size a thread captured, the size in a journal, or the one a recovery read. `KeptInv` adds that
  none of the three is below what was acknowledged, and that rests on `LockInv`: a thread past the
  lock holds it, and its process is open.
* `RecoveryMakesTheIndexAgree`: with the same generality, `Spec => RecoveryConverges`. `ScanInv`
  follows the scan: every readable file is still listed or its document was seen; a document that
  was seen agrees with row and snapshot, but for the one whose snapshot is being looked at, of
  which the recovery holds the body. With one process no save runs beside it.
* `AtRestTheIndexAgrees`, `SavesRefineDeltaStore`: `Spec => []AgreesAtRest` and
  `Spec => ImplementsDeltaStore`, if kills come only where recovery can restore the document
  (`KilledWhereRestored`) and a rollback raises only after it has put file, history and snapshot
  back (`RollbacksRestore`).
* `RollbackRestoresTheDirectory`: `Spec => FailedSaveLeavesNoTrace`, if nothing raises in a
  rollback at all (`RollbacksSucceed`): a rollback that raises late leaves the row of its save, and
  the next failed save, which takes that row for the old one, does not put *it* back.

The last three rest on one invariant, `AtomicInv`. `Begin` finds a document whose file, row and
snapshot belong together and keeps it as `base`. From there `WriterInv` says for every label how far
each place has moved from `base` to the new document: the file, the history (which always begins
with the old one), the snapshot, the docs-diff, the row and the journal. The label of a kill then
gives `Recoverable`: the journal tells whether the directory is the old one, the old one with
entries nobody acknowledged, or the new one, and `RecoverInv` takes that through the recovery;
`QuietInv` says that without a journal the document is sound again, or a recovery is about to make it
so. In the refinement a save happens at `Commit`, or at the `ClearJournal` of a recovery that found
the file and the history new; every other step is a stutter.

The conditions are not more than the code needs. With any one label of a save or a rollback, or
phase of a recovery, that `KilledWhereRestored` leaves out, or with an exception at any one label
that `RollbacksRestore` leaves out, TLC finds `ImplementsDeltaStore` violated in `SaveAtomic`: a torn
document, a history beside the other document, a snapshot without its document, or a recovery that
is not resumed once its journals are gone.

`ApprovalProofs`, for any number of documents, texts, submissions, threads and crashes:

* `TypeCorrect`: `Spec => []TypeOK`.
* `NoLostUpdate`: `Spec => ReflectedOnBase`, whatever the gate was before. `ReviewInv` says that a
  thread between comparison and status change holds the lock and that what it decides is
  pending; `BaseInv` adds that while the gate is on nobody is about to save without the lock, and
  that a document about to be replaced still is the submission's base. Equal hashes mean equal versions by
  `HashInjective`, which is where SHA-256 is taken as injective. The gate changes only at a
  restart, when no request is under way.
* `DecidedOnce`: with `"mark"` in neither `CrashIn` nor `FailIn`, no submission is reflected
  twice and no rejected one at all. `OnceInv`: what was reflected is approved, or its
  approval holds the lock and is about to say so.
* `ApprovalRefinesReviewQueue`: with the same and `Gates = {TRUE}`, `Spec => ImplementsReviewQueue`. The
  mapping counts a submission as approved from the save on (`QueueSubs`); comparison and save
  are one `Approve`, the status change is a stutter.
* `ApprovedOnlyAfterSave`: `Spec => []ApprovedWasReflected`, wherever the server is killed and
  whatever raises, gate on or off. `HeldInv` adds that a document is among the versions it ever had,
  and so is what a thread is about to mark.

The assumption `NoneIsNothing` says that `None` is no data.

`AccountsProofs`, for any keys, limits and window, accounts, clients, passwords, threads and
sessions:

* `WindowIsKept`: `LimiterSpec => []AttemptsAreLimited`. The queue is in the order of the
  checks, not of the times, and only its head is dropped, so an old time may stay behind a
  newer one. `LimiterInv` says that this only ever refuses more: what was dropped is out of
  every window to come, and what is left are the last admitted attempts, at most `MaxOf`.
  The number of those dropped is a least natural number, which exists by the library's
  well-founded order of the naturals.
* `TypeCorrect`: `Spec => []TypeOK`.
* `LoginsAreLimited`: `Spec => []AttemptsAreLimited`, by `LimiterInv` again: every step of
  `Accounts` is one of the limiter or leaves it alone, and a restart begins it anew.
* `PasswordChangeEndsSessions`: `Spec => []OthersAreLoggedOut`. `ChangesInv` says that of a
  session that would outlive a change there is, all the time, a change under way that will
  revoke it: one that has not yet reached `Revoke` and keeps another session.

`ChatProofs`, for any threads, turns, rounds, answers, failures, disconnects and restarts:

* `TypeCorrect`: `Spec => []TypeOK`.
* `SubmittedOnce`: with one apply at a time, `Spec => []ExactlyOnce`. `OrderInv`: both lists are in
  the order of the proposals, and what is submitted comes before what is staged, but for the
  first staged change between `Submit` and `Pop`. A proposal beside the apply only appends.
* `AskedProperly`: with one turn at a time, `Spec => []AskedWithResults`. `CallsInv`: calls without
  all results belong to the thread that executes them, end the conversation, and as many results
  are missing as that thread has calls left.

Both assumptions are needed: two applies or two turns at once break what they are for, as the
further counterexamples show.

`PgStoreProofs`, for any processes, threads, documents, statements of the schema, calls, runs
of the import and faults. The file store that is imported has histories that are in order, or
empty (`SourceIsTold`): the import copies what it finds.

* `TypeCorrect`, `OneSection`, `NoCircle`: from `LockInv`, which says what lock a thread has at each
  of its steps, while its connection works. `NoCircularWait` then takes three arguments: who has a
  document's lock waits for nothing, who has a section's lock at most for a document, who has the
  RLock at most for a section or a document. Excepted is a set with a thread that is `Barred`: it
  waits for what the session of another process keeps because its unlock raised. `LeakedInv` says
  that such a session still has its connection.
* `SchemaIsReady`: `SchemaInv` adds that an owner is never further than the schema.
* `HistoriesTell`, `TypesStay`: `DataInv` says that what a thread has read of a document stays
  so until it commits, and how much of a history the import has inserted; an import that was
  cut short is recorded as long as it has not been repeated.

`DocumentsProofs`, for any documents, references, threads and saves; first of the lookup alone:

* `LineageTypes`: `LineageSpec => []LineageTypeOK`.
* `LineageComplete`: `LineageSpec => []LineageIsWhole`. What was seen is reached, and what a seen
  document refers to is seen or queued; when the queue is empty the seen documents are therefore
  closed under the references. To reach is to be in every closed set, which needs no induction.

and of the saves:

* `ReferenceTypes`: `Spec => []TypeOK`, and with it that one thread at a time saves a document.
* `ReferencesExist`: `Spec => []NothingDangles`. A document of the index that no unfinished save has
  created (`Lasting`) stays there: a save of it captured a previous text, and so its rollback keeps the
  row (`RowInv`). What a lint has seen is lasting or noted in `early`, and so are the references of
  every document and of what a rollback would restore (`KnownInv`), which is why the lint needs no
  lock.
* `LineageRecorded`: `Spec => []HistoryTellsLineage`. `FileInv` says of a save under way what a
  rollback would restore and how far file and history are, and of a document that rests that
  its history ends with it. It assumes that no caller gives the type `revision`, as is the case.
* `LineageIsWholeBesideSaves`: `Spec => []LineageIsWhole`, for the lookup with saves beside it.
  Whatever they leave, what `GetRelated` reads is a map of references, and the lookup begins as
  in `Lineage`; from there `LineageStep` is cited, since no save touches the locals of the call.

and of the text of a document, for any lines and titles, texts of any length and any edits. The
assumption `DocumentConstants` says what a line is: a title is a sequence of numbers, a fence has at
least three characters.

* `NormalFormIsStable`: `DocumentSpec => []NormalizeIsIdempotent`. What pass B has written is `Tidy`:
  outside of code every line is spelled normally, no empty line is the first or follows another, and
  a heading has one before and after it. A tidy text that does not end with an empty line is what normalising makes of
  it again, line by line, because the fences open on the way are the same.
* `NormalizingKeepsMeaning`: `DocumentSpec => []MeaningIsKept`, for texts without lookalikes.
  Whether a line is code by CommonMark's words (`InCode`, which looks for the fence that opened it)
  is what the fence that the code carries along says; with that the reading of a text is computed
  beside the two passes.
* `SectionsHaveNames`: `DocumentSpec => []SectionsAreDistinct`; that no section starts in code again
  for texts without lookalikes. `Slugify` never leaves an underscore, so a slug with a number is
  nobody's title, and its two underscores tell where the title ends; two headings of one title
  differ in the number, which counts those before.
* `EditsAreRecorded`: `DocumentSpec => EditIsRecorded`. In every round what was found and what is
  still to do lie in order and do not cross (`InOrder`), so the kept lines of both texts are in
  one-to-one correspondence and alike (`KeptAlike`): of every line as many are kept in the one as in
  the other. What is left is recorded at its rank among the lines of its anchor, which loses none and
  takes none twice (`RecordedIs`). For a text that has not changed the whole of it is the first run.

These four are inductions over a text. The induction rule of the library takes an operator as a
parameter; what is used instead is the least number that is not in a set (`InductionTo`, by the well-founded
order of the naturals), and a lemma that a recursive definition
up to `n` has the values its equation says (`RecursionHasSolution`), cited once for each.

`AccessProofs`, for any users, projects, threads, tokens, times and lifetime of a token:

* `AccessTypes`: `Spec => []TypeOK`.
* `RightsLapseInTime`: `Spec => []RightsLapse`. Rights are copied into a token some steps after the
  user was read, so what counts is when they were read: `GrantsInv` says that a right an exchange
  holds is still the user's, or was lost after the instant the exchange has read as `now`;
  `TokensInv` says the same of every token and the instant it was issued at. The order of
  `exchange_pat` is what makes it so: the time is read before the user.
* `MembersGoFirst`: `Spec => []DeletedWithMembers`. `GoingInv`: a project that is gone, or whose
  members a deletion has already removed, has only the members that were added since.

`IngestProofs`, for any sources, texts, threads and submissions:

* `IngestTypes`: `Spec => []TypeOK`, and with it that one ingestion at a time has the lock.
* `SourcesAreOneDocument`, `DocumentsKeepTheirSource`: if people give the documents they write ids
  of another form (`OwnIds`), `Spec` implies `[]OneDocumentPerSource` and `SourceKeepsItsDocument`,
  whether the numbers run out or not. Neither store nor queue tells alone which document a source
  is. `Known` is what both, what ingestions have read of the queue and what they are about to submit
  say together, and `IngestInv` that all of it agrees: an id of four digits has one source, a source
  one id. A number of five digits may be given out twice, but has no document. Why a new id is new
  is `SeenInv`: what was pending when the queue was read, or has been submitted since, is in what
  was read or in the store by now, since an approval moves a submission from the queue to the store
  and the store is read second.

The condition is needed: one of the further counterexamples drops it.

Type invariants that are proved are left out of the runs; those of `Access` and `Ingest` are
checked there.

Model-checked only: liveness (requests are answered, recovery ends, turns end, locks are released,
the search ends), which is out of the prover's reach. Every other property of a passing run is a
theorem. The violated one, of `SaveCrashAtMark`, has none.

## Plan

1. Done: `SaveEngine`, `Approval`, `ChatSession`, `Ingest`, `RateLimiter`, `Accounts`,
   `Access`, `PgStore`, `Documents`, `References`, `Lineage`, with the runs and proofs above.
2. Proofs: what holds with two server processes on one root, where a recovery runs beside saves.

## Not modelled

* Reads of files, search, ranking and tokenising; parsing and rendering of Markdown and YAML;
  the LLM and HTTP; HTML and style sheets; evaluation metrics; settings; seeding and role
  migration. They hold no state the properties speak about.
* Write access to projects, which is decided from the document as it was read
  (service.py:207-288); of `Access` only the rights themselves.
* Password hashing, token signing, CSRF and origin checks: pure functions of a request. Audit
  rows are written and never read; `set_user_status` has no caller.
* Of the PostgreSQL backend the import of submissions and docs-diffs, which insert what is not
  there, and collisions of `hashtext`, which only make documents wait for each other.
* Of `Documents` frontmatter, links, lists and indented code. Texts longer than the bound are left
  to the proofs.
