# sbom-helper: TLA+ models and proofs of the backend

This directory models the backend of sbom-helper (`src/src/purl_resolver/`, paths below are
relative to it unless they start with `docs/`, `specs/` or `tests/`). The backend is one Python
process with one asyncio event loop: code between two `await`s is atomic, every `await` is a point
where any other coroutine may run, and the process may end at any of them. Every model here is
built on that: the state of a coroutine is the await it is suspended in, an action is one answered
await with the code that runs up to the next one.

## 1. The system

| Part | State | Operations | Interacts with |
|---|---|---|---|
| **Job queue** (`job_manager.py`, `job_repository.py`, `routes/jobs.py`) | table `jobs`, `JOBS_DIR/<id>/`, `_queue`, `_running_tasks` | create, cancel, delete, worker loop, `_process_job`, TTL cleanup, `start`, `stop` | clients over HTTP, the pipeline, the lifespan, the database |
| **Lifespan** (`main.py`, `config.py`) | phase of the process | start, shutdown, zombie reaper, expiry of the URL cache, fallback to memory | starts and stops the job queue |
| **Pipeline** (`sbom_enrichment.py`) | one SBOM, its components | parse, ignore, validate references, resolve, enrich, remove, report | job queue (progress), resolution service |
| **Resolution service** (`service.py`) | per batch: semaphore, lock, counter | `resolve_purl`, `resolve_many`, `resolve_batch`, `store_preexisting_references` | storage, validation service, resolvers |
| **URL validation** (`validation_service.py`, `url_validation_cache.py`) | disk cache URL → time | validate with cooldown, clear, expire | settings, URL validator |
| **URL validator** (`url_validator.py`) | tracked child processes | HEAD request, four VCS probes, process termination | child processes, zombie reaper |
| **Storage** (`storage/postgres.py`, `storage/inmemory.py`) | table `resolved_purls` | lookup, store, update, delete, upsert, list | resolution service, administration |
| **Administration** (`db_admin_service.py`, `routes/db_admin.py`, `csv_io.py`) | none of its own | create, update, delete, import, export, list | storage |
| **Settings** (`settings_store.py`, `routes/settings.py`) | one JSON file | load, PATCH with a token check | everybody |
| **Stores of ignore patterns and fix options** | JSON files | load, save | pipeline, fixer |
| **Resolvers** (`resolver/`), **retry helper** | rate limiters, HTTP clients | `resolve`, retried calls | outside services |
| **SBOM algorithms** (`sbom/`) | none | parse, collect, enrich, remove, report, fix, convert an images list | pipeline, routes |
| **Front end** (`frontend/`) | display only | polls the job list, shows results | HTTP interface |

What is hard here, and what makes each part correct:

* **Job queue.** Requests, the worker, the task of a job and the cleanup interleave at every
  statement; rows are read, awaited upon and then written; files, rows and tasks of one job are
  removed by different coroutines; a crash, a failing statement or a shutdown can come anywhere.
  Correct means: one job at a time; no job is lost, started twice or left unfinished; a confirmed
  cancellation stops the work; a deleted job never comes back; a completed one can be downloaded.
* **Pipeline and batch.** Up to `batch_semaphore_limit` resolutions run at once under one
  semaphore and one lock, and each can fail or be cancelled anywhere. Correct means: permits are
  conserved, the counters a poll shows never go back within a phase or exceed their total, nothing
  is written after the job is over, and everything ends.
* **Resolution table.** Resolutions, references of an SBOM, edits, imports and deletions of the
  same row interleave between a lookup and the write that follows. Correct means: no URL without a
  repository is handed out while validation is on, redirects are followed, a rename destroys
  nothing.
* **URL validator.** Three-valued probe answers; child processes that must be reaped although the
  coroutine is cancelled, clients leave helpers behind and a second reaper is at work. Correct
  means: a client is waited for before the validation goes on, a termination leaves no helper it
  knew of, the verdict is what the answers amount to, and everything ends.
* **Settings and resolvers.** PATCH loads, awaits a check, saves the whole object and replaces the
  resolvers while resolutions go through them; a write can fail half-way. Correct means: what is in
  the file is what is in force, a request changes what it names, a resolution sees one chain, tries
  as often as that chain says and keeps the resolvers' intervals.
* **SBOM algorithms and fixer.** Components are addressed by paths that removals shift; rules undo or
  enable each other; totals have to add up over deduplicated keys. Correct means: exactly what was to
  be removed is removed, every reference of the result is accounted for, a fix makes no new defect
  and a second one finds nothing to do.

`PROJECT.json` lists every component with its status and every hazard with its line.

## 2. The plan

1. *(done)* `JobQueue`, `JobLifecycle`, `JobQueueRefinement`, `JobQueueProofs`: the core.
2. *(done)* `JobProgress`, `JobProgressProofs`: what one running job reports, over the concurrent
   batch.
3. *(done)* `PurlResolution`, `PurlResolutionProofs`: the table and everybody who edits it.
4. *(done)* `SbomDocument`, `SbomEnrichment`, `SbomFix`, `ImagesList`, `SbomDocuments`: what is done
   to a document; `FoldLaws`, `DocumentLaws`, `SbomDocumentsProofs`: the proofs about it.
5. *(done)* `UrlValidator`, `UrlValidatorProofs`: client processes and the verdict.
6. *(done)* `Settings`, `ResolverChain`, `ResolverChainProofs`: concurrent PATCHes beside the
   resolvers they replace.
7. Left: the in-memory storage where it differs from Postgres; the batch endpoint (every row of a
   request gets the answer of its PURL); a clock for the cooldown of the validation cache; the
   stores of ignore patterns and fix options; the CSV import's columns.

Abstract specifications: `JobLifecycle` for the queue, `SettingsSpec` for the settings within
`ResolverChain`; that they are implemented is checked by TLC and proved.

## 3. The modules

### JobQueue

State: the columns `status`, `cancel_requested`, `started_at` of a row; `dir` (the directory of a
job: absent, with the input, with the result); `queue`; `worker` (the job `_run_worker` awaits);
`running` (`_running_tasks`); `pc[j]`, the await the task of job `j` is in; `kill`, cancellations
that were requested and not delivered; `at[c]`, `on[c]` for request handlers; `sweep`, `sweeping`
for the cleanup; `server` for `start()` and `stop()`. `gone` and `answered` record, for the
properties only, which rows were deleted and which cancellations were confirmed. Job ids are ranks
in `created_at` order; only identity and order matter of the uuids.

| Code | Actions |
|---|---|
| `create_job` | `CreateJob`, then `insert` and `enqueue` in `ClientStep` |
| `cancel_job`, `delete_job` | `Request`, `CancelGet`, `CancelTask`, `DeleteGet`, `DeleteFiles` and the statements between them |
| `_run_worker` | `WorkerTake`, `WorkerReap` |
| `_process_job` | `Get1` … `Return`, `Cancelled`, in the order of the code; `TaskDbError` for a statement that raises |
| `_run_cleanup` | `SweepStart`, `SweepFiles`, `SweepRow`, `SweepDbError` |
| `start`, `stop`, end of the process | `Start`, `RecoverStuck`, `RecoverQueued`, `StopBegin`, `StopGathered`, `Exit`, `Crash` |

What asyncio does with cancellation is modelled as it is: `task.cancel()` marks the task, the
`CancelledError` arrives at its await, a statement under way may or may not have been committed,
and a task that is awaited by another passes the cancellation on. `_run_worker` catches the
`CancelledError` of the task it awaits, including one that was meant for itself.

### JobLifecycle, JobQueueRefinement

`JobLifecycle` is the promise of the queue per job: started at most once, its outcome recorded at
most once and by its own execution, `cancelled` only on request, a deleted row never returns.
`JobQueueRefinement` instantiates it with a mapping of `JobQueue`'s state (`turn`, how far the one
execution of a job has come, is derived from `pc` and the row).

### JobProgress

One running job. `at` is the await of `_process_job` within the pipeline, `sub[p]` that of
`_resolve_one` for PURL `p`, `client` that of a concurrent `cancel_job`; `permits` and `line` are
the semaphore and the lock of `_resolve_concurrent`; `phase`, `current`, `total` the columns that
`update_progress` writes if the row is running and not to be cancelled. The throttle is a choice,
except for the first and the last event, which it never drops (`Forced`). A `gather()` ends with the
first exception and leaves the other resolutions running; a cancellation of the waiting task
cancels those that are left.

### PurlResolution

The table `resolved_purls` (URL and origin by normalised PURL), the validation cache as the set of
URLs within their cooldown, and calls (`task[t]`) of every kind that writes: a resolution, a
reference of an SBOM, create, import with either strategy, update, delete. `Final` maps a URL to
the end of its redirects, `Repo` is where a VCS probe succeeds; a resolver answers anything. A
*glitch* is a network failure during a validation: the HEAD request fails and the redirect is lost,
or a probe fails and the others decide alone (which can make a good URL invalid), or nothing is
known, or the validation raises.

### SbomDocument, SbomEnrichment, SbomFix, ImagesList, SbomDocuments

`SbomDocument` is a CycloneDX document as Python holds it: objects as sequences of members in
order (the order matters to the fixer's `reorder` rule), values by their kind, so that "absent",
"null", "blank text", "not a list" stay apart where the code tells them apart, and the component
tree as a sequence in pre-order with the id of the parent. Ids exist in the model only: they are
what a property means by "the same component" after a removal has shifted every path.

| Code | Definitions |
|---|---|
| `sbom_enrichment.py` | the actions of `SbomEnrichment`: `Collect`, `ValidateReferences`, `Resolve`, `Finish`, one per await of `process()` |
| `sbom/collector.py`, `enricher.py`, `remover.py`, `reporter.py` | `CollectComponents`, `Path`, `At`; `AfterValidation`, `EnrichOne`; `ToRemove`, `RemovalOrder`, `Pop`; `BuildReport` |
| `sbom/fixer.py`, `sbom/optional_fields.py`, `routes/sbom_fix.py` | `SbomFix`: the fifteen rules in their order, the removal of fields, the analysis, what remains defective, refused requests |
| `sbom/images_list_converter.py`, `routes/images_list.py` | `ImagesList` |

`SbomDocuments` puts the three side by side, one per behaviour, because they share the document and
have to agree on what counts as a source reference. In `SbomEnrichment` the answers of the
validation and the resolution are any (`Outcomes`, a subset of the purls asked for): how they come
about is `UrlValidator`, `PurlResolution` and `ResolverChain`.

### UrlValidator

One validation of a URL: the HEAD request, the clients (`git`, `svn`, `hg`) in turn, the Fossil
probe. A client is a process (`running`, `zombie`, `gone`) and may start one helper, in its process
group or not (`git` starts `git-remote-https`). Three parties wait for children: asyncio's child
watcher (`WatcherReaps`, then `WatcherNotices` one step later), the reaper task of `main.py`
(`ReapOrphans`, everything that is not tracked), and the termination of a probe itself
(`ReapDescendant`). `pc` is the await a validation is in: between `spawned` and `communicate` the
client runs and is not yet in `_TRACKED_PIDS`. A cancellation may arrive at every await; within
the termination it is remembered (`cancelled`) and raised at the end. `causes` records, for the
properties only, what became of each probe. In production uvloop plays the child watcher's part;
the model's watcher may be arbitrarily slow, which covers both.

### Settings, ResolverChain

`Settings`: `content` is the file (`absent`, `torn` or `whole`), `cached` the store's copy, `chain`
the resolvers in force, `ttl` the job manager's retention time, `patch[p]` a request with its
`snapshot`. A PATCH with a key of libraries.io awaits the check of the key between the load and the
save; a write may fail after the file was cut, and the server may die in it. `Chain` is
`resolver/factory.py`. `SettingsSpec` is that system alone.

`ResolverChain` EXTENDS it with resolutions: `held[t]` is the list `resolve_purl` iterates over
(taken once: a PATCH replaces the list, it does not change it), `at[t]` where it is, `step[t]` the
await, `attempt[t]` the retry helper's counter. `granted` and `open` number the requests of each
rate limiter and record which intervals have not passed yet; a rebuilt chain has new limiters
(`gen`). Everything a resolver may meet is there: no support for the type, a pause of the limiter,
a failed connection, an answer with or without a repository, a status, the second request of
deps.dev, the language model's bad replies and the check of its URL.

## 4. The runs

| Run | Instance | Question |
|---|---|---|
| `job_queue_faults` | 2 jobs, 1 client, 1 failing statement, 2 starts, 1 shutdown | the safety properties that hold under every fault |
| `job_queue_clients` | 2 jobs, 2 concurrent requests, no faults | nothing lost, results available, `JobLifecycle` implemented |
| `job_queue_live` | 2 jobs, 1 client, 2 starts, fair | every accepted job ends |
| `job_progress` | 3 PURLs, 2 permits, up to 3 references, 1 failing statement, fair | all properties of the progress of a job |
| `purl_resolution` | 2 calls, 2 PURLs, 3 URLs, 2 resolvers, 1 failing statement, 1 glitch | the properties of the table and its answers |
| `sbom_documents` | families of small documents, eleven option sets, three field sets, 2 fixes in a row | what happens to a document |
| `url_validator` | 1 validation, 2 clients and Fossil, 2 waits for a helper, 2 cancellations, fair | processes and verdict |
| `resolver_chain` | 2 requests, 2 resolutions, 1 failed write, 1 crash, fair; at most 4 events, a resolution counting as two, and 4 chains | settings in force, resolvers asked |
| `cancel_is_final`, `stop_keeps_input`, `stop_ends` | 2 jobs, 1 client | three statements about the queue that the code breaks |
| `inconclusive_probes` | 1 validation, no cancellation | a statement about the verdict that the code breaks |

Why the bounds are enough to be interesting:

* Two jobs are needed for one waiting behind another (the shutdown defects need exactly that); the
  queue is first-in first-out, so a third waits as the second does. Two clients give every pair of
  handlers on one job or on two. One failing statement per behaviour hits every statement; two
  starts give every state a crash can leave, recovered once.
* With three PURLs and two permits one resolution waits for a permit while two hold them, and all
  three can stand in the line of the lock. Three references leave a middle event for the throttle
  to drop.
* Two calls on two PURLs give every pair of operations, on the same and on different rows, and an
  import or deletion of both rows at once. The URLs are one that redirects, its end, and one with
  nothing behind it. All contents the table and the cache can have from earlier are initial states.
* A rule of the fixer looks at one object, or at a component and its children. So each family of
  `MCSbomDocuments` varies all members that the rules of one kind of object look at, together: the
  root (`RootDocs`), metadata and its component (`MetaDocs`), one component (`CompDocs`), and
  presence and defects in a tree of four (`TreeDocs`). `Trees` and `References` do the same for the
  enrichment, with two spellings of one purl and two URLs that may lead to one another. Two fixes
  in a row are what idempotence needs.
* Two clients: the second is started while a helper of the first may still be there; two
  cancellations: one remembered by the termination, one on top of it. Validations share nothing but
  the reaper, and the proofs cover any number of them.
* Two requests overlap at the check of a key; two resolutions share a rate limiter and may hold
  different chains. More of both are covered by the proofs.
* The bounds limit how often something happens, never when.

`CHECK_DEADLOCK FALSE` everywhere: with the bounds used up and nothing to do these systems stop, as
an idle server does.

Symmetry is used for clients (`job_queue_clients`), for calls and PURLs (`purl_resolution`): nothing
in those modules distinguishes them, and those runs check no liveness.

### What the properties say

* `OneTaskAtATime`: at most one job is processed, and `cancel_job` will find its task.
* `NoFilesAfterDelete`: nobody writes a file or a row of a job after its row was deleted, although
  `delete_job` does not stop the task. It holds because `write_text` does not create the directory
  that `delete_job` removed, so the task then takes its failure path, and because an UPDATE of a
  missing row changes nothing. The task's own re-read would let a job without a row go on.
* `CancelStopsWork`: once cancel was answered, the task does not work on beyond the await it is in.
* `StartedAtMostOnce`: over all crashes and restarts.
* `NoJobForgotten`: without faults, a queued row is in the queue, about to be, or just taken.
* `CompletedHasResult`: a completed job that nobody asked to cancel has its result file.
* `JobsSettle`: every accepted job ends, unless someone asks to cancel it.
* `CurrentWithinTotal`, `CompletedIsFull`, `CounterNeverBack`, `ShownIsFinal`: what a poll sees. The
  first holds although an event can be lost, because a counter is only written with its total.
* `NothingAfterCancel`, `EverythingEnds`: what a batch leaves behind; a permit that is not given
  back would keep a resolution waiting for ever.
* `AnswersAreGood`, `AnswersAreFinal`, `RenameKeepsOthers`: see section 5.
* `LeavesRemovedExactly`, `FieldsRemovedExactly`: a fix removes what it was asked to and nothing
  else, whatever order the rules come in; `NoNewDefect`: it makes no defect that was not there,
  with the exceptions named in the property; `SecondFixIdle`: fixing twice is fixing once.
* `RemovalHitsItsTarget`: removal by path removes the components that were meant;
  `ReferencesAccounted`: where each reference of the result comes from; `ReportCovers`: the report
  has every purl that was asked for, in one row.
* `FixKeepsEnrichment`: fixer and enrichment agree on what a source reference is.
* `ImagesAccounted`: no container is lost, duplicates add up.
* `ClientsReaped`, `TerminationLeavesNoHelper`, `TrackedNotStolen`: nobody is left behind by a
  validation, and the reaper keeps off registered clients. Each names what the code does not give:
  two cancellations while a client is being started get past the waiting, and a helper outside the
  group that starts after the collection outlives its client.
* `VerdictIsFold`: the verdict against all answers of the probes.
* `FileInForce`, `OnlyGivenChange`: the settings, under overlapping, failed and lost requests.
* `OneChain`, `RetriesAreBounded`, `SpacedUnlessWaiting`: a resolution beside requests that replace
  its resolvers. `SpacedUnlessWaiting` is what the rate limiter gives and no more (see below).

### Fairness

`JobQueue`: the worker, the task of a job, every pending request, and the start and stop of the
server are weakly fair: the event loop resumes what can run, asyncpg answers or raises, every
request of the pipeline has a timeout, and `docker-compose.yml` restarts the process
(`restart: unless-stopped`). Nothing obliges a client to act, a job to expire, a statement to fail,
or the process to end.

`JobProgress`: the task and each resolution are weakly fair for the same reasons; asyncio's
semaphore and lock wake their waiters in order, and a waiting resolution needs no stronger
assumption because every holder releases for good.

`UrlValidator`: a validation goes on when it can, its timeout (`asyncio.wait_for`) fires, the child
watcher and the reaper task of `main.py` run for ever. No client and no helper is assumed to end by
itself, which is what the timeouts are for.

`ResolverChain`: an outside request is answered or times out (every resolver hands its HTTP client
a timeout; purl2repo runs in a thread with one), and a pause ends. No request for the settings is assumed to come or to end.

### What the code does otherwise

Four violation runs, described with their lines under `findings` in `PROJECT.json`:

1. `cancel_is_final`: `UPDATE … SET status` has no condition on the old status, so a cancellation
   written between a read and `running` or `completed` is overwritten.
2. `stop_keeps_input`: a graceful shutdown deletes the input of the *next* queued job.
3. `stop_ends`: the worker swallows the cancellation `stop()` sends it, and `stop()` never returns.
4. `inconclusive_probes`: a client of Subversion or Mercurial that cannot reach the host counts as a
   definite no, so a transport error yields INVALID.

Seen while modelling, part of the models, and at odds with a document:

* A confirmed cancellation can leave the files of a job until the TTL sweep.
* A hit of the validation cache loses the redirect, so a fresh answer need not be the final URL
  (`validation_service.py:28`, `specs/domains/purl-resolution.md:227`).
* `create_purl` upserts after an awaited check and overwrites what was stored meanwhile
  (`db_admin_service.py:78`, `docs/superpowers/specs/2026-07-26-manual-add-row-design.md:17`).
* `total_purls` of a report counts an invalid PURL twice
  (`docs/superpowers/specs/2026-07-13-total-purls-include-skipped-design.md:5`).
* Answers 429 and 5xx are never retried, since `raise_for_status` runs outside the retried call,
  although the policy lists them (`specs/domains/purl-resolution.md:273`).
* The rate limiter lets a burst through after a common pause, and every PATCH starts new limiters
  (`specs/decisions/0006-async-first-resolver-architecture.md:29`); retries pass no limiter.
* `validate_url` is said never to raise (`specs/domains/purl-resolution.md:217`); a malformed URL
  makes `urlsplit` or httpx raise.
* The references of an SBOM are removed on NETWORK_ERROR, as `specs/contracts/api-contract.md:847`
  says and `specs/domains/purl-resolution.md:228` does not.
* Of two overlapping PATCHes the first to save is undone where it was not named by the second
  (`specs/contracts/api-contract.md:517`).

Seen while modelling, with no document that says otherwise:

* A database error before the `try` of `_process_job` leaves the job queued or running until the
  next restart; a shutdown that reaches a task in its last statement deletes the result of a
  completed job; a directory without a row remains after a failed INSERT or a crash between the two.
* An exception of a resolver other than the two that are caught fails the whole batch while the
  other resolutions go on, and cancelling the job does not reach them any more
  (`NothingAfterCancel` excludes that case by name). `response.json()` of libraries.io and
  ecosyste.ms can raise one.
* Two resolutions that validate the same bad row can delete a good row one of them has just stored;
  a rename whose row is deleted between its SELECT and its DELETE brings the row back.
* A client can be reaped by `main.py`'s reaper between its start and its registration
  (`url_validator.py:143`); its exit code is then lost and counts as a no. A termination finds no
  helper when the client has been reaped already.
* An explicit `null` for a setting that has to have a value is saved (`model_copy` does not
  validate); from then on every load raises, and the server cannot be started. `FileInForce` names
  the case.
* A failed write leaves a torn file, and the next load starts from the defaults; the job manager's
  retention time then differs from the file's. Replaced HTTP clients are never closed.
* The fix endpoint without `options` uses the defaults, not the stored options; with
  `filter_non_proprietary` and `add_proprietary` together a fix can report a change and return the
  same document.
* `add_provided_by` comes before `add_proprietary` in the order of the rules, so a pattern on the
  field `licenses` meets the licence that `add_proprietary` adds only in the second fix: fixing
  twice is then not fixing once. `SecondFixIdle` names the case.

## 5. The proofs

All proofs are from the named assumptions of the modules and for every value of the constants, but
for three theorems that hold only while no statement fails and say so: `FollowsLifecycle`,
`NoneForgotten` and `ResultIsKept`. The assumptions say that bounds are natural numbers, that sets
are finite where the code's are and that redirects end; for documents, what the code is given:

* `DocumentsAssumption`, `EnrichDocumentsAssumption`, `ImageDocumentsAssumption`: the inputs are
  parsed JSON (`IsDocument`: an object has each key once, which a Python dict guarantees) whose
  components have ids as described in section 3 (`WellFormed`). Nothing is assumed about which keys
  there are or of which kinds their values are.
* `UrlsAssumption`: a URL that was found or validated is not the empty text (`enricher.py` and the
  pipeline test for it before they write). `PurlKeyAssumption`: a normalised purl is its own normal
  form. `JobOptionsAssumption`, `OptionsAssumption`, `DefaultOptionsAssumption`,
  `FieldsAssumption`: the requests' schemas, with patterns and fields that are any pair of names.

TLC evaluates every assumption in the runs of its module.

`JobQueueProofs` proves, for every number of jobs, clients, failing statements, starts and
shutdowns (assuming only that the bounds are natural numbers), `TypeOK`, `OneTaskAtATime`,
`NoFilesAfterDelete`, `CancelStopsWork` and `StartedAtMostOnce`.
None of them is inductive. The invariant `IInv` describes the life of a job id: handed out
(`ClientInv`: known to its creator only), inserted, enqueued once (`QueueInv`: no duplicates, never
started), taken once (`TaskInv`: the one job with a task is the one the worker awaits), over. Two
conjuncts carry the weight. A job whose row may be written to `running` has never been started,
which needs uniqueness in the queue, which needs that the creator enqueues once. And after
`stop()`'s `gather()` the next job can only be at its very first await, which is what the shutdown
actions rely on. One lemma per action shows that it is kept; `TaskMoveInv` covers the many steps of
a task that only move it on.

Part II of `JobQueueProofs` proves, for any number of jobs, clients, crashes, restarts and shutdowns with
`DbFaults = 0`, that the queue implements `JobLifecycle` (`FollowsLifecycle`) and `NoJobForgotten`.
With a failing statement neither holds: an INSERT that was executed and raised leaves a row nobody
enqueues, and the UPDATE to `running` ends the execution it starts. `CleanInv` adds to `IInv` that a queued job is on its way (`KeptInv`), that `cancelled`
and `cancel_requested` go together (`RequestedInv`) and that a task past its start works on a row it
started (`ExecutionInv`). A cancellation that is delivered early could drop a queued job; it does
not, because every cancellation pending while requests are served was answered, and `AnsweredInv`
says that such a row is not queued any more. The proof of the refinement is that each step makes one
job advance, in a way the abstract specification has an action for, while the others rest: one lemma
per action, and `OneJobMoves` for what they have in common. After a restart the queue holds every
queued row, because a list of distinct rows that is as long as the table's set of them has each one.

Part III proves `CompletedHasResult` for one life of the process (`DbFaults = 0`,
`MaxStops = 0`, `MaxStarts <= 1`). The bounds are needed: a process that dies between the removal of
a directory and the DELETE of its row leaves a completed job without a file, and a shutdown cancels
a task whose UPDATE may still be executed. `FilesInv` says that a task is cancelled, and the files
of a job dropped by its own task or the worker, only when a client asked for it, so that the row and
the directory differ only for jobs that are cancelled, deleted or about to be.

`PurlResolutionProofs` proves, for any calls, PURLs, URLs, redirects that end, and resolvers:
`TypeOK` (a row never lacks a URL), `AnswersAreGood`, `AnswersAreFinal` and `RenameKeepsOthers`.
Its invariant says what a call knows in each await (one key; a row it has read; a URL) and where a
URL has been found good: in the cache, when the row is to be moved, when the answer is to be stored.
The table itself is *not* part of it, since anybody may put anything there; that is why the proof
shows that `resolve_purl` validates on its way out and does not depend on the table being clean.
`RenameKeepsOthers` uses the type invariant and that a step of one call leaves the others' state
alone.

`JobProgressProofs` proves, for any number of PURLs, permits, references and failing statements,
the module's types (with the bound on the permits), `CurrentWithinTotal`, `CompletedIsFull`,
`NothingAfterCancel`, `ShownIsFinal` and `CounterNeverBack`. The counters of a poll depend on the
whole batch, so the invariant ties three things together. `SubInv` says where the resolutions can
be at each await of the task. `LineInv` says that the line of the lock has no duplicates and that
whoever reports is at its head. `CountInv` says that the number being reported is the number of
resolutions counted so far, which gives `CounterNeverBack`; `CountersInv` then says what the row can
show at each await as long as no statement failed and nobody asked to cancel. Without the last
clause of `CountInv` a smaller count could be written after a larger one: that is the lock.
`CancelInv` says that a cancellation reaches every resolution under way unless one of them has
raised, and that a kill always follows a recorded request.

Part I of `ResolverChainProofs` proves the types of `Settings`, `FileInForce` and `OnlyGivenChange`. The invariant
adds what a dead server lacks, that every snapshot could be read when it was taken, and that the
request that gave None has begun (without that, the property would be true of a request that never
comes). Part II proves `KeepsSettings`: the composed system implements
`SettingsSpec`, every step of it being a step of the settings or leaving them alone. The settings'
theorems carry over by that alone. It then proves the types, `OneChain`, `RetriesAreBounded` and
`SpacedUnlessWaiting`, from an invariant that says which resolver each await belongs to, what the
attempts so far met, and that the interval a sleeping resolution waits for began before it fell
asleep.

`UrlValidatorProofs` proves the types, `ClientsReaped`, `TerminationLeavesNoHelper`, `VerdictIsFold`
and `TrackedNotStolen`, for any number of validations, clients, waits and cancellations. The
invariant is per validation: which probes have answered, what the client can be at each await, what
`sawFalse` remembers of the answers, the verdict, and what a termination has left. The reaper is the
only step that touches several validations at once.

**Documents.** The three modules about documents prove every property of the run `sbom_documents`,
for any documents, options, fields, patterns, answers and containers.

The operators of `SbomFix`, `SbomEnrichment` and `ImagesList` are recursive functions over numbers
and sequences and the folds of the community modules, so these proofs need induction over data. The
library states induction with an operator as parameter, which none of the provers can instantiate.
`FoldLaws` therefore proves it in a first-order form: a *set* of numbers that has 0 and is closed
under successor has every number, and the same for sequences. From that it proves what
`SequencesExt`'s `FoldLeft` and the recursive definitions compute step by step, for an operator that
is a CONSTANT of the module; `INSTANCE FoldLaws WITH` gives each fold of the model its law. All else
is ordinary reasoning about the steps.

`DocumentLaws` has the laws of the operators. Part I is about documents: an object with a
key put, replaced or removed; selecting from and renumbering a component tree; the ids of a tree and
of what a removal leaves. Part II is about the fixer, one law per rule: what it does to one object,
what a pass over all components does to the tree, what it reports, and which members it leaves alone
(`Keeps`, with the exact set of members a rule may touch), and in which form it leaves what it looks
at (`QuietAt`); then what a fix as a whole removes, leaves and reports.

`SbomDocumentsProofs` has the theorems of the specification, in three parts.

* *Images* (`ImagesAreAccounted`): the converted document lists every container's image once with
  the number of its containers, as a law about the fold of the converter.
* *Enrichment* (`JobsFollowStages`, `RemovalIsExact`, `ReferencesAreAccounted`, `ReportIsComplete`). The invariant
  follows a job through the awaits of `process()`: which document each stage has, which purls have
  been asked for, what was collected. The core of `RemovalIsExact` is the order of the
  removals: paths are sorted from the last to the first, so that every path still to be used names
  the component it named when it was collected; the proof has to compare paths as sequences of
  numbers and to show that removing a component and its children moves no earlier one.
* *Fixer* (`FixesAreSound`, `LeavesAreRemovedExactly`, `FieldsAreRemovedExactly`,
  `FixMakesNoDefect`, `EnrichmentIsKept`, `SecondFixesAreIdle`). `FixHolds` is the invariant: the
  result of a fix is `Fix` of a document that is well formed, and of the previous result the second
  time. `Fix` is then taken apart into its
  fifteen passes (`FixStages`), and each property is carried along them. Components are removed by
  the three passes for leaves only, and which ones is settled before the first of them; that fixes
  the ids. For members, each rule has a set of keys it may
  touch, and a path removed by the user is either untouched by all later rules or put back by a rule
  named in the property. For `FixMakesNoDefect` every one of the analysis' counters is shown not to
  rise along each of the passes, which is where the order of the rules matters. `EnrichmentIsKept`
  needs that a source reference survives every rule but the one that removes source references on
  purpose. `SecondFixesAreIdle` says that fixing twice is fixing once, save for what the property
  names. Every rule has a form it finds nothing to do about: only source references, only GOST
  properties, the required ones there, a provider wherever a pattern matches, and so on. A rule
  leaves its own form and disturbs that of no rule before it (`RuleSettles`), hence the result of a
  fix has the forms of all enabled rules (`FixSettles`). The second fix removes the fields first,
  which can take nothing but licences (`RemovedIsGone`), and from there every pass keeps `Again`:
  it counts nothing, but where licences are put back. For the order of the keys it is enough that a
  member is replaced where it stands (`InPlace`), since an object in order is put in the same order.

Only model-checked, and why:

* liveness (`JobsSettle`, `EverythingEnds`, `EveryValidationEnds`, `HelpersReaped`,
  `ResolutionsEnd`): liveness under fairness, and ENABLED, are outside the proof system used.

## 6. What is not modelled

* What a resolver or the database computes: outcomes only. How a URL is picked out of an answer, CSV
  parsing, formatting, logging and HTTP routing are data or presentation.
* Reads that change nothing (list, get, download, export), and the length of the TTL: any finished
  job may have expired in `JobQueue`, while `Settings` has what the job manager is told.
* The in-memory storage and the degraded mode without a database, where the queue is off.
* A cooldown of zero at the very same clock reading, and PURLs an administrator enters in a form
  that is not normalised.
* In documents: texts are kinds of texts; containers elsewhere than under `components` and
  `metadata.component`; a key `component.x` of metadata, which the fields' grammar takes for a path
  into the component.
* The guard of the URL validator against private addresses and the two requests of the Fossil probe
  are one answer each.
* The stores of ignore patterns and fix options: one synchronous write and one read of a file, with
  no await in between, so nothing interleaves; both enter as any value.
* The batch endpoint formats what the batch returns; the PURL utilities are an outside library; the
  front end only displays what the HTTP interface returns.
