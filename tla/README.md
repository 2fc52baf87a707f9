# Formal specification of Vault Bridge

TLA+ modules, TLC configurations and TLAPS proofs for Vault Bridge, the server
that mirrors an Obsidian vault kept in CouchDB by LiveSync into PostgreSQL and
memory, and serves it over REST and MCP. Paths below are relative to the
repository; `store.rs` stands for `src/store.rs` and so on.

## The system

| Part | State it keeps | Operations | Talks to |
| --- | --- | --- | --- |
| Sync worker (`workers.rs`) | `poll_since`, `current_seq`, backoff, the response being ingested | poll, sub-batch, commit, retry, discovery and replay of stale files | CouchDB client, store |
| Store (`store.rs`: `StoreInner`) | notes, raw files, links, aliases (`file_doc_paths`, `file_doc_revs`, `file_children`), staged chunks, `last_seq`, `created_file_paths` | ingest a batch, hydrate, prepare and project a write, confirmed deletion, reads | persistence, callers |
| Read cache (`store.rs`) | `cache_generation`, `sync_state`, `read_refresh_lock`, `projection_health` | `prepare_cached_read`, hydrate, status | persistence |
| Persistence (`persistence.rs`) | rows, `sync_state`, `store_state.generation`, recovery queue | content transactions, ingest delta, confirmed deletion, snapshot | PostgreSQL |
| CouchDB client (`couchdb.rs`) | none | `_changes`, fetch of leaves and parents, write, update by revision, leaf repair | CouchDB |
| Write service (`service.rs`) | one lock per path | create, update, edit, reconcile from the source | store, CouchDB client |
| Chunk staging (`livesync.rs`) | chunks of incomplete parents | stage, complete, purge | store |
| Recovery queue (`workers.rs`, `persistence.rs`) | targets with failures, next retry, quarantine | enqueue, due, fail, resolve, reactivate | sync worker |
| Embedding workers (`workers.rs`) | failure counters, provider health | batches, retries, bisection | store, LocalAI |
| Authorization, runtime configuration (`authorization.rs`, `runtime_config.rs`) | snapshot of principals and policies, time of the file, status | decide, poll, signal, reload | every request |
| Search, graph, context (`search.rs`, `graph.rs`, `context.rs`) | none | rank, fuse, filter, traverse, assemble | store |
| Base queries (`base_query.rs`) | none | parse, evaluate, sort, tabulate | store |
| New notes, patches, blocks (`new_note.rs`, `markdown.rs`) | none | path of a title, patch of a body, chunks of a text | write service, store |
| REST and MCP adapters (`api.rs`, `mcp.rs`) | none; the configuration is read anew at each step | who is calling, what MCP offers, dispatch | service |

The processes run in one of two ways. `all` is one process with the API and the
workers over one `StoreInner`; `api` and `workers` are two processes that share
only PostgreSQL and CouchDB. Nothing but `store_state.generation` and the
persisted `sync_state` tells a process that its memory is old.

What is hard in this code:

* Ingesting a batch changes the memory first and the rows afterwards, in one
  transaction that can roll back or never happen. The memory is not rolled back.
* Leaves and file documents arrive in any order; fetches of leaves may fail and
  are only logged.
* A write commits at CouchDB, then projects rows, then memory, and three further
  parties change the same path: the worker, another request, another client.
* A cache compares a number it stored itself. The store is plain, so an older
  transaction's owner may overwrite what a later one said.
* Recovery replays source documents through the ingest path of the feed.
* One operation on a file is up to a dozen HTTP calls, between which other clients
  write, delete and clean up; each call may fail, or succeed and say nothing.
* Vectors are computed outside any lock from a text that may be gone when they
  are stored, by a provider that fails for itself and for single texts alike.
* Handlers hold one lock while they wait for another, or for the same one again.
* The rules change between the decision of a request and its write.
* Rankings, tables, bundles and chunks are cut to limits, and what is cut first
  decides what is found.

What makes each part correct: the durable cursor never passes a change it does
not reflect (worker, persistence); retries and replays bring nothing old back
(store); memory and rows differ only while something is bound to level them
(worker, cache); an edit never overwrites a revision it has not seen (service,
client); what is visible is committed (service, store); everything converges to
the source once it is quiet (all of them).

## Modules

| Module | What it is |
| --- | --- |
| `FeedSync` | the sync worker against the source, memory and rows of several files |
| `RecoveryQueue` | the idle work of the worker: stale files, staged chunks, the queue of recovery targets |
| `WriteThrough` | requests, worker, caches and source of one path |
| `Couch` | one file and its leaves in CouchDB, one HTTP call at a time |
| `AtomicFile` | what `Couch` implements: a file that changes in one step |
| `Embedding` | vectors of notes and blocks, the embedding worker and its provider |
| `Requests` | the handlers of an API process between its locks |
| `Graph`, `Context`, `Ranking`, `BaseQuery` | paths and neighbours, bundles, searches and note queries, tables |
| `Text`, `Blocks`, `NewNote` | texts, how they are cut for embedding, paths of new notes and patches |
| `Access`, `Reload` | what the policy lets a write do, and how the policy is reloaded |
| `Adapters` | a call over REST or MCP, from its token to its answer |
| `Order` | sets in order and the members of a sequence that are kept, for `Couch` and `Graph` |
| `Finding` | composes `Graph`, `Context` and `Ranking`: the questions about a vault and their answers |
| `Queries` | composes `Finding` and the modules from `BaseQuery` on: questions, writes, reloads and calls |
| `MCFeedSync`, `MCRecoveryQueue`, ... | each of them for TLC: symmetry, questions |
| `FeedSyncProofs`, `RecoveryQueueProofs`, `WriteThroughProofs`, `CouchProofs`, `RequestsProofs`, `EmbeddingProofs` | theorems about the module of that name |
| `PolicyProofs` | theorems about `Reload`, `Access` and `Adapters` |
| `FindingProofs` | theorems about `Finding`, and what the algorithms of `Graph`, `Context` and `Ranking` compute |

### FeedSync

The state is the source (`log`, the latest change of each document, and `head`),
the rows (`pg`), the memory (`mem`) and the loop of `spawn_sync_worker`.

| Action | Code |
| --- | --- |
| `Restart` | start-up and `hydrate_from_persistence`, which adopts staged leaves and persists the notes it repaired |
| `Watermark` | `current_sequence`, then `set_sync_state(poll_since)`: memory first, the row may fail |
| `Poll`, `PollFails` | `poll_changes` from `poll_since` |
| `Ingest` | one turn of `ingest_changes_cooperatively`: `refresh_file_change_batch`, then the memory half of `ingest_changes_batch_at`; the delta is fixed in `tx` |
| `Commit`, `CommitFails` | `apply_ingest_delta`, and the loop's reaction |
| `Replay` | `run_bounded_sync_recovery` for one stale file, up to its transaction |
| `Idle` | an empty feed with nothing to recover |
| `Crash` | the process dies at any point |

Abstractions. A file of revision r names one leaf, and content is that revision.
A deletion either leaves a document that still names its path (`deleted`) or an
opaque tombstone (`tomb`) that only a known alias can resolve. Sequences are
numbers; an empty feed therefore always has `last_seq` equal to `poll_since`.
The set of stale files takes the place of the recovery queue, whose backoff and
quarantine are `RecoveryQueue`'s. A replay's documents go in as one batch. Chunk timeout, renames,
repair of note timestamps, encryption, and a commit whose acknowledgement is
lost are left out.

### RecoveryQueue

Files of several leaves: the source (`src`, and `news`, what the feed has yet to
deliver of a file), memory and rows (`mem`, `pg`: registered revision, indexed
revision, staged chunks), the rows of `sync_recovery_queue`, and the pass of
`run_bounded_sync_recovery` in hand (`targets`, `current`).

| Action | Code |
| --- | --- |
| `WriteFile`, `UploadLeaf`, `TombstoneLeaf`, `DeleteFile` | other LiveSync clients |
| `Deliver` | a batch of the feed: leaves fetched, ingested, purged on the timeout, purged parents queued |
| `Discover`, `Undiscovered` | `discover_sync_recovery_targets`, or the interval since the last has not passed |
| `LoadDue`, `LoadFails` | `due_recovery_targets`, by `next_retry_at`, at most a batch |
| `Prune` | a loaded target that is no longer unresolved |
| `Replay` | repair of tombstoned leaves, fetch, ingest, and what counts as resolved |
| `Settle` | `resolve_sync_recovery` or `fail_sync_recovery` with the next delay; the write may fail |
| `EndPass` | back to the feed |
| `Reactivate` | an edit that found its source incomplete (`reactivate_sync_recovery`) |
| `Tick` | time passes, at any point |
| `Crash`, `Restart` | the process dies; hydration |

Abstractions. Time is relative: a row holds the ticks until its retry and since
its reactivation, overdue rows are told apart for `Horizon` ticks only, and one
tick outlasts both the chunk timeout and the interval between discoveries.
Whether a discovery also looks for remote drift is left open. The feed delivers
one file at a time. The repair of leaves is one step, and an edit that finds its
source complete is `WriteThrough`'s. Leaves whose file is not registered are
staged under their own id in the code and are not followed here. Document ids are
taken to differ from paths, so chunks, which are staged under the path, keep a
`chunk_parent` target unresolved and not a `file_alias` one. No other process
writes rows, so the hydration a target's check may start has nothing to do.
`tries` is history: no action reads it.

### WriteThrough

One path, whose vault file and note rows are written together. A process has a
memory of it (revision, alias, membership of `created_file_paths`), a Boolean
for "`cache_generation` is not behind" and its `sync_state` compared with the
persisted one. A request is a record with a program counter.

| Action | Code |
| --- | --- |
| `BeginUpdate` | `update_note`, `edit_vault_file`: path lock, `refresh_vault_file_for_write` |
| `FetchSource` | `reconcile_vault_file_from_source` |
| `WriteRows`, `WriteMemory`, `RecordHealth` | `apply_prepared_vault_write`, in three steps since other tasks run between them |
| `EraseRows`, `EraseMemory` | `commit_confirmed_vault_file_deletion` |
| `Prepare` | `prepare_update_note_request`, `prepare_edit_vault_file_write` |
| `CommitUpdate` | `update_livesync_note_if_revision` |
| `BeginCreate`, `CommitCreate` | `validate_new_note_write_at`, `write_livesync_note` |
| `CachedRead`, `Read` | `prepare_cached_read` with its hydration, and `status` |
| `Poll`, `Apply`, `Persist`, `PersistFails`, `Recover` | the worker on this path |
| `Crash` | a process dies and starts again |
| `ExternalWrite` | another LiveSync client |

Abstractions. The GETs and PUTs of an update are one step, because the last PUT
carries the document's `_rev` and fails if anything came between. A lost reply
is a fault after which the source has changed and the request has its error. The
policy admits the request. `prepare_cached_read` is one step with the decision
it feeds, and so is the worker's commit with the store of its generation. When
an edit finds the file gone after its projection the model allows both another
fetch and an answer. `created_file_paths` survives a hydration, as in the code.

### Couch

One vault file: the file document (`file`), its leaves, which are addressed by
their content (`leaf`), the lock of the path and the requests (`req`), each with
what it has read so far. A chunk is identified with its leaf, so the content of a
file is the sequence of its children.

| Action | Code |
| --- | --- |
| `Begin` | `create_note`, `edit_vault_file` under the lock of the path, the worker's repair, the command line's deletion |
| `Bulk`, `WalkFile`, `WalkLeaf`, `WalkAgain`, `Judge`, `Verdict` | the recovery fetch of a file and its leaves and what is concluded from it |
| `Diagnose` to `Report` | `repair_tombstoned_livesync_leaves`: status of the parent and its leaves, their past revisions, the restoration, the parent again |
| `GetFile`, `GetRevs`, `PutLeaf`, `PutFile` | `write_livesync_note`, `update_livesync_note_if_revision` |
| `Find`, `Erase` | `delete_file` |
| `CallFails`, `ReplyLost` | a call that fails, or one that is done and not answered |
| `UploadLeaf`, `WriteFile`, `DeleteFile`, `CollectLeaf`, `Compact` | other LiveSync clients and CouchDB |

`AtomicFile` is the file that `WriteThrough` takes for granted. `ActsAtomically`
is its specification under the mapping `value <- the children of a live file` and
`answer <- what each request was told`: creations find no file, edits append to
what is there at the moment of their last PUT, refusals change nothing. An edit
is modelled as appending a chunk. `WalkAgain` allows another walk wherever the
code may make one, and never counts them. A creation is refused when a leaf of
its content already lives elsewhere, or is left over from its own failed attempt
(`couchdb.rs:987`); so is one after a logical deletion; and an empty file is never
taken for complete, so that edits of it answer that it is unavailable. No
document says otherwise, and the model shows all three.

### Embedding

Notes and blocks with their vectors, failures and content, the memory of the
worker's process, the process that has blocks to bring up to date (`sync`), the
worker's batch in hand and the provider. A content is the sequence of its parts,
each a text (`Text`) under a breadcrumb of folder, title and headings, which is
embedded with it; some parts the provider rejects. `Local` are the writers that
share the worker's memory; the memory of others it learns when it hydrates. A batch
is the set of its entries: their order is that of their note and index, which is
the order the queries ask for, so the next note is the least (`FirstOf`) and the
half of a batch its first entries (`First`).

| Action | Code |
| --- | --- |
| `Upsert`, `Delete` | a committed note; its vector is cleared with it |
| `SyncBlocks`, `SyncFails` | `sync_blocks_for_note`, in a transaction after the note's |
| `LoadNotes`, `EmbedChunk`, `StoreNote`, `EndNotes` | a pass over notes without a vector; a failure that cannot be recorded is only logged |
| `LoadFromMemory` | the same when the rows cannot be read: notes that memory has no vector of, also those in quarantine |
| `Hydrate` | `prepare_cached_read` in the worker's process |
| `LoadBlocks`, `EmbedBlocks`, `Probe`, `EndBlocks` | a pass over blocks: bisection of a failed batch, probe of the provider |
| `Reindex`, `ClearVectors`, `Unblock` | the command line and the API |
| `Configure`, `StartApi`, `StartWorker` | a change of the model and the restarts that follow |
| `Outage`, `Recovery` | the provider |

What `VectorsSettle` excuses, by its history variable `disturbed`, the code does
not repair: a vector stored over a note that was written meanwhile; a batch that came
from a memory behind the rows; a worker with the old model that runs on after the API
cleared the vectors; a block whose text was put back by another process; a
transaction of blocks that failed. A note of several chunks of which some fail for a
passing reason keeps the vector of the rest. Beyond that, a block whose text stayed
keeps its vector when the title of its note, its folder or a heading above it
changes, with nothing going wrong: `sync_blocks_for_note` compares the hash of the
text alone (`persistence.rs:2145`), while the breadcrumb is embedded with it
(`persistence.rs:2232`). `Settled` therefore asks for a vector of the text under the
breadcrumb it was stored with, and the two headings of `MCEmbedding` show the case.

`RetriesAreBounded` charges a fault for each read from memory, for each batch of which
failures went unrecorded, and for each vector that did not reach the rows: while the
database does not answer, the quarantine does not hold (`store.rs:3671`), and how often
the worker comes back is then up to its backoff.

### Requests

Memory, rows and generation as versions of three things (a note written here, one
indexed by the worker, a raw file it recovers), the two locks with their queues
and, for each handler, where it is. `inner` is tokio's `RwLock`: many readers or
one writer, first come first served, a reader behind a waiting writer included;
`refresh` is the mutex `read_refresh_lock`. Each action runs from one lock or call
to the next: `Check`, `Recheck`, `Replace`, `Stamp`, `Generation`, `Reconcile` are
`prepare_cached_read` with its hydration, `CannotRefresh` its fallback, `Rank`,
`RankMemory`, `Serve`, `Provider` and `Assemble` the readers, `Lock`, `Project`,
`Publish` and `Published` a projection, and `Commit` is the worker's.

### Queries

The rest of the program answers questions, and has no state but policy and note.
`Queries` composes four things that share nothing but the vault: questions
(`Ask`, of which `Finding` is a part that stands alone), writes of a note under a policy (`Access`), the reload of the policy
(`Reload`), calls through the adapters (`Adapters`). A question brings the part
of the vault it is about along, so it is asked in a first state; and since
`Access` and `Adapters` let the policy become any other at any step, the steps of
`Reload` are not interleaved with theirs.

* `Graph`: `Neighbors`, along the links, against them and both ways, and
  `ShortestPath` over what the caller may read, breadth first as the code does it
  (`Visit`, `Explore`), against the notes within so many links, without a queue
  (`IsShortest`, `AreLevels`).
* `Context`: seeds and their surroundings, hubs with a limited fan-out, Brandes'
  betweenness counted backwards from each path's end, the order of candidates and
  the budget of tokens. Scores are exact fractions where the code has floats.
  `BundlesFit` is about the budget and the seeds, `PlacesAreShares` compares the
  betweenness with a count of the paths themselves.
* `Ranking`: rankings by words and by vectors of notes and blocks, from the rows or
  from memory, reciprocal rank fusion, the policy after the cut, and `query_notes`
  with its filters and sorts.
* `BaseQuery`: the precedence parser of expressions, their evaluation with errors
  and short circuits, filters, views, sorts and the table with its column types. A
  document is what the YAML parser leaves, an expression a sequence of tokens. The
  order of a sort is not transitive for a column that mixes dates and other texts
  (`base_query.rs:1090`); the questions have no such column.
* `Blocks`: blocks at headings, short ones merged into the one before, chunks of
  paragraphs, sentences or bytes, sentence overlap; and the chunks and the sample
  of a whole note. `Text` has characters of a width in bytes. A merged block keeps
  the headings of the one before it, also where it is cut off again into a chunk of
  its own: `AreBlocks` asks for no more.
* `NewNote`: the path of a title under a template, with its rules for segments,
  and patches. `NewTextIsPlaced` asks that a patch was applied only where its text
  "must occur exactly once" (`api_docs.rs:473`). It leaves out a text that occurs
  again only overlapping itself: `match_indices` does not count that, so the code
  takes the first "aa" of "aaa", which is not what the document says.
* `Access`: matchers of tags, age and owner, what a rule adds to a new note and
  keeps of an edited one, create, raw edit and update in the order of their checks
  and of the rereading in between, with the user changing tags and owner meanwhile
  (`UserEdits`, `UserClaims`). An update with new content and no tags does not
  keep tags that only the old body had. Of its metadata the owner is what matters:
  `created_by` is dropped (`store.rs:3078`), the key of older versions is not
  (`claim`). Path and title of the note are fixed, and so are the matchers that look
  at them.
* `Reload`: the file, the poller with the time it knows, the signal handler, and
  the snapshot. An edit of the file before the poller starts is missed until the
  next, and a load that a signal began may put an older file back over a newer
  one; `SnapshotFollowsFile` says exactly that much.
* `Adapters`: `Arrive` looks the token up in the files that hold tokens, in their
  order and without those of unknown names; `Discover` is the gate of MCP, which
  lists and calls only tools that the policy of the context could allow for some
  note, and asks for a context that is missing once more; `Refresh` and `Decide` are
  the service's own decisions; `ReloadSetup` may come between any two. REST has no
  gate and cuts limits to what is allowed where MCP refuses them. They also differ
  for a caller whose rules deny reading everything by default beside one that
  allows some: MCP refuses `query_notes` and REST answers it with nothing, which
  `Granted` tells apart. MCP looks at the
  flag `raw` when the tool has run (`mcp.rs:1247`), so a write that was made can be
  answered as having invalid arguments; `CallsAreAdmitted` excuses that case alone.

## Runs

| Run | Expected | What it shows |
| --- | --- | --- |
| `feed` | pass | `CursorLosesNothing`, `DivergenceIsRedelivered`, `ReplayKeepsCursor`, `RegressionIsRedelivered`, `LiveFilesConverge` |
| `feed_deletion` | violation | `DeletedNotesAreGone`: a deletion whose transaction rolls back is lost on retry |
| `recovery` | pass | `AttemptsAreBounded`, `PrunedOnlyWhenRecovered`, `BackoffIsKept`, `QueueSettles` |
| `recovery_late_leaf` | violation | `CompleteFilesAreIndexed`: a leaf that comes after the quarantine is not indexed |
| `write_safety` | pass | `NoLostUpdate`, `VisibleIsCommitted`, `FreshMeansEqual` |
| `write_liveness` | pass | `LiveFileConverges`, `CacheConverges`, `UnprojectedIsPending` |
| `couch` | pass | `NamedLeavesWereWritten`, `DeletionIsConfirmed`, `ActsAtomically` (the refinement) |
| `couch_repeats` | violation | `EditsKeepTheRest`: a file that names a leaf twice loses the repetition |
| `embedding` | pass | `RetriesAreBounded`, `BlameIsBounded`, `VectorsSettle` |
| `requests` | pass | `AnswersAreFresh`, `FreshIsTrue`, `RequestsEnd` |
| `requests_context` | violation | `ContextsAreAssembled`: a request waits for itself |
| `queries` | pass | the answers of the modules above, `SnapshotFollowsFile`, `EditsKeepTheirGrounds`, `CallsAreAdmitted` |

Bounds. Two files and sub-batches of two make a response that needs more
than one transaction, and let a deletion of one file travel with the leaf of
another. Four changes are a leaf, its file, its deletion and a change of the other
file; three revisions let an older leaf stay staged behind a newer file. Two faults
include a rollback followed by a crash; three let a restart adopt a staged leaf
whose deletion rolled back, which puts an older note in the rows, and a fourth does
the same to the raw file. Two requests
meet in every order, create against update included, and three revisions are
one for the file, one for a rival and one for the edit. Writes at the bound are
refused rather than blocked, so a request always ends. One file with two leaves
has three targets, one of each kind, which compete for passes of one; two
failures reach both delays and the quarantine; a cooldown and a horizon of one
tick tell "not yet" from "over"; three changes are a file without a leaf, its
next revision or its deletion, and a leaf that comes late or goes. In `couch` two
requests of any kind meet another client and one fault: three revisions of the
file are one to edit, one that comes between and the edit; two chunks are one
that is shared and one that is not. In `embedding` a batch of two holds a text
that is taken beside one that is not, and two failures are one and the last; the
only other writer is the command line, which writes no contents, so that memory is
behind the rows in its vectors only, and memory of other contents is met by the proofs
alone. In `requests` two handlers are enough for a reader behind a writer behind a reader.

The questions of `queries` are all graphs of four notes with up to four links (for
paths: all) and all acyclic ones of five, with a traversal bound that cuts some
of them; all scores of three notes in both rankings with limits below, at and
above their number; all sequences of up to five tokens and all trees of two
levels; documents with every kind of filter, view and sort over notes on which
expressions are true, false and fail; texts of up to four pieces with limits that
cut words, sentences and paragraphs; all titles of up to three characters; all
patches of one operation on bodies of up to four characters and of two on up to
two. Three writes of a note are a creation, an edit and what comes between, which
leaves room for the edit (`Room`); an update's metadata are without an owner, with
either principal or with none. Three configurations have names, contexts and rules that another lacks; a token is in
several files, one of them of an unknown name; and the notes are one without tags,
one with all and one that the caller owns. The types of `Access` and `Reload` are not
among the invariants of `queries`, since `PolicyProofs` has them for all constants.

Deadlock is not checked: with the source at its bound and the faults spent, the
loops run on but the system may have nothing else to do. `requests` does not need
it to find waiting handlers, since `RequestsEnd` is about each of them.

Fairness. The worker is an endless loop that sleeps and continues on every
error, and a supervisor restarts the process: weak fairness of its steps. A
recovery pass takes every due target, so no stale file is passed over for ever:
strong fairness of `Replay` per file. A request that has begun is carried
through: weak fairness of its steps, none of beginning one. Health checks read
the status of the service periodically: weak fairness of `Read`. The embedding
loop runs for ever, a provider that is down comes back, and a transaction that a
task owes is made. Locks serve in the order of arrival, which `Requests` models
rather than assumes. Nothing is assumed of faults, other clients or new requests.

What the liveness properties leave out, and why. `write_liveness` has one
request at a time, since two let a creation revive a file while an edit erases
it (below). It runs API and workers apart, since `CacheConverges` fails in the
shared process (below). It leaves out the failure of a replay's transaction: the
memory is then repaired although the rows are not, the target counts as resolved
at the next pass and is pruned (`workers.rs:635`), and only a hydration brings it
back; for the same reason `PrunedOnlyWhenRecovered` is about the memory, and
`LiveFilesConverge` excuses a second fault: a file becomes stale only through a
first one.

## Findings

1. `store.rs:1459`. A note is deleted durably only if memory still held it.
   After a rolled back batch it does not, so the retry moves the cursor past the
   deletion and leaves the row; the next restart serves the deleted note.
2. `persistence.rs:1547`. A known target is not queued again, also when it is
   quarantined. A file whose last leaf comes after both its targets were given
   up, and after its other chunk was purged, is complete at the source and never
   indexed: there is nothing to repair, and the edit that would reactivate the
   target is refused for a file never indexed (`service.rs:456`). README.md:230
   says a successful replay follows once the source is reconstructable.
3. `store.rs:6541`. The children of a file are taken each once. A content with the
   same chunk twice is stored as one leaf named twice, is reassembled without the
   repetition, and an edit writes the shorter text back.
4. `store.rs:2628`. A context request with a semantic query searches with the
   memory locked for reading. When a writer arrives in between, the search waits
   behind it for the memory that its own request holds.

Behaviours met while modelling that have no run, since other runs say more:

* `store.rs:1754`. In the single process deployment a confirmed deletion and a
  worker batch of the same path can cross: the worker changes memory, the
  request erases rows, the worker writes rows and stores the current
  generation, the request erases memory. The rows hold what memory does not, and
  no later comparison notices (`CacheConverges` with `Deployments = {"all"}`).
* `store.rs:3368`. A confirmed deletion erases rows unconditionally. If the file
  was written again and ingested after the source was read, live rows and alias
  are erased, and without the alias recovery does not look for the file
  (`LiveFileConverges` with two clients and `Revives = TRUE`).
* `store.rs:1114`. Pending projections are only reconciled by a hydration that
  finds exactly the pending revision. In the single process deployment the
  worker that completes the projection keeps the cache current, so the pending
  entry, and with it a failing readiness probe, stays.
* `store.rs:3019`. A raw file that a replay recovers leaves no stamp of the feed,
  so a projection that stores the next generation over it hides it from the
  memory until something else is committed (`skips` in `Requests`).
* `persistence.rs:2145`. The vector of a block is of the breadcrumb its text was
  stored with: a new title, folder or heading above an unchanged text is not embedded
  until the text or the model changes (`SyncedBlocks`; with a whole part compared in
  `Settled`, `VectorsSettle` fails).
* `store.rs:3671`. When the notes to embed cannot be read, the worker goes by its
  memory, which knows neither failures nor quarantine, and embeds again what has
  failed often enough (`LoadFromMemory`).
* `store.rs:3078`, `new_note.rs:296`. An update drops `created_by` from the metadata it
  is given, but not the owner under the key of older versions: a note without
  `created_by` changes hands by an update that names another, where a raw edit keeps
  the owner (`RebuildMarkdown`, `RawUpdate`).
* `new_note.rs:387`. A patch for "aa" in "aaa" is applied to the first, where
  `api_docs.rs:473` says the text "must occur exactly once" (`IsPatched` without its
  last exemption).
* `store.rs:3011`, `store.rs:2969`, `store.rs:3024`, `service.rs:625`,
  `persistence.rs:1711`. A file created here and deleted elsewhere cannot be created
  again before a restart; a projection prepared before a deletion and written
  after it resurrects the file locally; the success of an older projection may
  clear the pending entry of a newer one; an edit may queue a target that the
  next pass drops; rows of quarantined targets stay when their file recovers.

## Proofs

TLAPS checks every theorem for all values of the constants, under the named
assumptions of the modules only (finite `Files`, positive batch size, natural
bounds, a base backoff of at most the maximal one, subsets of the known deployments and
failures, values that stand for "none" apart from the rest, and configurations,
policies and calls that are records of the shape the modules give them; questions
with whole depths, limits, dates and tokens, scores without bound and any links). Two
hypotheses beyond these are in the theorems themselves: `Alone` and `~ Repeats`.

`FeedSyncProofs` proves `TypeOK`, `CursorLosesNothing`, `ReplayKeepsCursor` and
`DivergenceIsRedelivered`. That the cursor loses nothing is not inductive: while
a response is being ingested, a change may be known, still pending, or in the
open transaction. `IInv` says so (`Covered`), says that what is in flight is the
current document of its file unless the source has replaced it with one beyond
the response (`Current`), fixes what the open transaction will write (`OpenTx`),
and keeps one document per file, all sequences behind `head`, and both
`pg.cursor` and `poll_since` as points up to which everything is known.
`DivergenceIsRedelivered` needs a second invariant, about memory and open
transaction against the rows.

`RecoveryQueueProofs` proves every safety property of its module: `TypeOK`,
`AttemptsAreBounded`, `PrunedOnlyWhenRecovered` and `BackoffIsKept`. The
invariant adds to the types what the pass in hand relies on although it read the
queue some steps ago (`HeldOK`: its rows are still there, due, not quarantined,
with the failure count it loaded, and a resolved one still is) and an account of
every replay (`CountsOK`: a replay is recorded as a failure, is about to be, or
was lost to a fault). `GoodStep` collects what the two action properties ask of a
step, and each action is shown to keep the invariant and to be one. That a delay
lies between base and maximum (`BackoffIsBounded`) needs that a power of two is
positive, which follows from the number of subsets of an interval.

`WriteThroughProofs` proves `TypeOK`, `VisibleIsCommitted`, `NoLostUpdate` and
`FreshMeansEqual`. The second rests on `Committed`: what requests and worker carry has been
accepted by the source as well, so wherever it is copied it stays within it. The
third needs no invariant but the types: of all steps, only the commit of the
request itself moves it past its commit and the source along.

`FreshMeansEqual` speaks of the moments at which no request stands between its
rows and its memory. `CacheInv` adds what holds in between: there is one such
request at most, the cache does not count as fresh meanwhile, what it will put
into memory is what the rows hold as long as its transaction is the latest, and
the alias agrees unless the persisted `sync_state` is newer. The theorem is for
split processes before any fault: in a shared process the worker's memory step
has no lock in common with a projection, and a projection whose rows failed
leaves memory ahead of the rows on purpose.

`RegressionIsRedelivered` is what remains of the wish that rows never go back. They
do, after three faults (see the bounds), but the alias never does, and
whenever a note or a raw file does the feed has not passed its file document yet.
`RInv` says that rows, memory and what is in flight stay within what the source
has, that no document in flight is behind the alias in the rows, and that an open
transaction writes either what is there or what the memory's alias says.

`UnprojectedIsPending` is proved for one client (`Alone`). With two, it is false: a
creation holds no lock, so the success of an older projection may take the entry
of a newer one off the list (`store.rs:3024`). The invariant follows the one
request through its projection: between its rows and its memory the cache does not
count as fresh, and from its memory to its health it knows that it failed.

`CouchProofs` proves every property of its module, for any number of requests. The
invariant has, for each request, where it may be (`PlaceOK`), that it knows of a
deletion it met (`DeathOK`), that what it is about to name is written or on its
list (`PutsOK`), and that what it read is the file's as long as its revision is
(`BasisOK`). From the last the refinement follows: the only call that changes the
file is the last PUT, and it is accepted only when nothing came between. That is
proved for files that name no leaf twice (`~ Repeats`), as is `EditsKeepTheRest`;
`couch_repeats` shows what happens otherwise. Facts about the order of children,
which would be inductions over sequences, are proved from the least position at
which they fail.

`RequestsProofs` proves the three safety properties of its module for any number of
handlers. First the locks: what a handler holds and waits for is a function of
where it is (`Held`, `Want`), every queue serves without losing a claim (`Served`),
and holders exclude each other as they should (`LocksOK`). Then the data
(`DataOK`): every snapshot is a point of the history of the rows, memory and cache
are never behind what a handler that passed its check has seen, and before any
fault the stored generation counts the changes that the memory has, unless a
projection has skipped one.

`PolicyProofs` proves `SnapshotFollowsFile`, `EditsKeepTheirGrounds` and
`CallsAreAdmitted`, each from an inductive invariant of its own. For the first,
the time the poller knows is never newer than the copy it loads, and two copies
of the file of the same time are the same. For the second, a request in hand
carries the rules that allowed it, what they keep and whose the note was then, so
nothing that a reload does in between matters, and of what the user does only a new
owner, which the property names. For the third, the invariant says at each step
of a call who the caller is (the first file that holds the token, by the least
position), what has been found already, and that a tool which MCP does not list
is of no use under the rules that decided so (`UndiscoverableIsHopeless`).

`EmbeddingProofs` proves `TypeOK`, `RetriesAreBounded` and `BlameIsBounded`. Neither
bound is inductive. That reads are bounded needs an account of each of them
(`Paid`): as long as a note has no vector, its reads are its failures, the one in
the worker's hands, and those that a fault or a change of the model cost, a read from
memory and a failure that was not recorded among them (`Slack`). Memory may hold
anything but ill-formed contents (`MemoryOK`). That
blame is bounded needs that the worker knows the texts it asks about while nobody
disturbs the note (`TextsOK`), and that an outage has been counted before it lets a
block be blamed: a block in the batch that is being probed has one failure less
than there were faults (`BlameOK`).

`FindingProofs` proves `GraphAnswersRight`, `SearchFinds` and `BundlesFit` of
`FindingSpec`, whose one action `Find` is a disjunct of `Ask` in `Queries`, for every
vault, ranking, depth, limit and number of tokens. A question is answered in one step,
so the theorems are about what the algorithms compute, and the inductions are those
over their loops.

* Loops and sums are recursive functions of the model, which are defined by a CHOOSE.
  That there is a function as asked for is proved for functions on the naturals
  (`Iteration`) and for any rank that falls (`RankedRecursion`), both from the least
  natural number of a set (`LeastNat`), which the library's theorem on well-founded
  orders gives without an operator as a parameter.
* Breadth first: `SearchOK` is the invariant of the queue. Every note is queued once;
  the depths in the queue ascend and differ by one at most; what was visited is no
  deeper than what waits, and all it leads to was found one step further at most; and
  a parent is a link and a step away. The visited notes grow with each step, so the
  queue is empty after as many steps as there are notes (`ExploreEnds`), and then the
  notes with a depth of at most `k` are those within `k` links (`BallsAreDepths`).
* Rankings: rows stand once each and in the order of their scores; what both rankings
  prefer has the larger sum of reciprocal ranks, which the model compares by products
  (`SharesDecrease`); a cut keeps the first and the policy keeps the order.
* Bundles: `BundleOK` is the invariant of the loop over candidates: what was taken,
  its tokens, and that a seed that was left out does not fit beside the seeds that are
  in. The last part holds only because the seeds come first: while a seed is looked at,
  all tokens in use are those of seeds. That order is total because scores are numbers,
  for which the sums of Brandes' algorithm must be whole (`PlacesAreWhole`).

Two properties that TLC had found to hold turned out wrong beyond its instances when
they were to be proved, and are stated as the code has them now: that rows never go
back, which took more faults than `feed` had, and that REST and MCP grant the same,
which took rules that deny by default beside one that allows. Both cases are in the
runs now (the faults of `feed`, the third configuration of `queries`).

Only model-checked, and why:

* everything temporal under fairness (`LiveFilesConverge`, `QueueSettles`,
  `LiveFileConverges`, `CacheConverges`, `VectorsSettle`, `RequestsEnd`), which the
  prover cannot express;
* `TablesAreRight`, `ChunksKeepTheText` and `NewTextIsPlaced`: `BaseQuery`, `Blocks` and
  `NewNote` have recursive operators, over expressions and texts, which the prover
  cannot unfold;
* `PlacesAreShares`: its shares are whole numbers in vaults as small as those of
  `queries`, where the numbers of shortest paths divide `Denominator`, and not in all;
* `DeletedNotesAreGone`, `CompleteFilesAreIndexed` and `ContextsAreAssembled`, which
  are false.

## Not modelled

* The lexer of Base expressions, YAML, Markdown and slugs: what libraries and
  character tables make of a text. The models begin with their result.
* Renames of files, leaves without a known parent, and the repair of time stamps
  during ingestion: `FeedSync` and `RecoveryQueue` have fixed paths.
* The bodies of requests and answers of REST and MCP and the images that MCP takes
  out of them; audit, metrics and diagnostics tables, which nothing reads back;
  the parsing of the configuration.
* Encryption, which is outside the method, and deployment scripts.
* The arithmetic of vectors and scores: likenesses are small numbers.

## Plan

1. `NewNote` and `Blocks` with recursive functions on positions in place of recursive
   operators, so that patches and chunks can be proved about like bundles.
2. `UnprojectedIsPending` for several clients of different paths, which needs a
   model of more than one path.
3. The strengthened form of `PrunedOnlyWhenRecovered` that speaks of the rows, under
   the assumption that the transaction of a replay does not fail.
