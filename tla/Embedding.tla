------------------------------- MODULE Embedding -------------------------------
(***************************************************************************)
(* Vectors of notes and of their semantic blocks.  Whoever commits a note  *)
(* clears its vector and afterwards brings its blocks up to date in a      *)
(* transaction of their own; the embedding worker reads what has no vector, *)
(* asks the provider, and stores the answer under the id it read, whatever *)
(* the row holds by then.  When it cannot read the rows it goes on from the *)
(* memory of its process, which knows of no failures.                      *)
(*                                                                         *)
(* The content of a note is the sequence of its parts: what it is split    *)
(* into, for its blocks and for the requests of its own vector.  A part is *)
(* a text and the breadcrumb it stands under: folder, title and headings.  *)
(***************************************************************************)
EXTENDS Naturals, Sequences, FiniteSets

CONSTANTS NumNotes,     \* notes are numbered in the order of their ids
          Parts,        \* texts of a block under a breadcrumb
          Text,         \* the text of a part, without its breadcrumb
          Poison,       \* parts the provider rejects
          Writers,      \* processes that commit notes
          Local,        \* those of them the worker is a part of
          Contents,     \* contents of a note: sequences of parts, one per block
          MaxFailures,  \* max_embedding_failures
          BatchSize,    \* embedding.batch_size
          MaxModel,     \* bound: models the configuration names in turn
          MaxWrites,    \* bound: commits of notes and runs of the command line
          MaxFaults     \* bound: outages, crashes, failed transactions and reads

ASSUME PartsAssumption == Poison \subseteq Parts /\ Contents \subseteq Seq(Parts) \ {<<>>}
ASSUME TextAssumption == DOMAIN Text = Parts
ASSUME WritersAssumption == "cli" \notin Writers /\ Local \subseteq Writers
ASSUME NumbersAssumption == {NumNotes, MaxFailures, BatchSize, MaxModel} \subseteq Nat \ {0}

VARIABLES
  note,       \* rows of notes: content (none: <<>>), vector, failures
  block,      \* rows of blocks, in the order of their index
  schema,     \* embedding_schema: the model of the vectors
  config,     \* the model the configuration names
  memory,     \* notes as the worker's process remembers them
  sync,       \* per process, the notes whose blocks are yet to be synced
  reindexing, \* whether the command line is at --reindex-blocks
  worker,     \* the embedding worker
  provider,
  writes, faults,
  tries,      \* history: times a note was read for embedding since written
  disturbed   \* history: notes a race, a fault or an outage has touched since created

rows == <<note, block, schema, config>>
history == <<tries, disturbed>>
vars == <<rows, memory, sync, reindexing, worker, provider, writes, faults, history>>

Notes == 1..NumNotes
NoVec == [of |-> <<>>, model |-> 0]
Vec(of, model) == [of |-> of, model |-> model]
NoNote == [content |-> <<>>, vec |-> NoVec, fails |-> 0]
Remembered(content, embedded) == [content |-> content, embedded |-> embedded]
FreshBlock(p) == [part |-> p, vec |-> NoVec, fails |-> 0]
Procs == Writers \cup {"cli"}

IdleWorker(model) == [pc |-> "idle", model |-> model, batch |-> {}, queue |-> <<>>,
                      todo |-> <<>>, got |-> <<>>, failed |-> {}]

Init ==
  /\ note = [n \in Notes |-> NoNote] /\ block = [n \in Notes |-> <<>>]
  /\ schema = 1 /\ config = 1
  /\ memory = [n \in Notes |-> Remembered(<<>>, FALSE)]
  /\ sync = [w \in Procs |-> {}] /\ reindexing = FALSE
  /\ worker = IdleWorker(1)
  /\ provider = "up"
  /\ writes = 0 /\ faults = 0
  /\ tries = [n \in Notes |-> 0] /\ disturbed = {}

Row(n) == note[n].content # <<>>
Fault == faults < MaxFaults /\ faults' = faults + 1
Write == writes < MaxWrites /\ writes' = writes + 1

\* What the worker has read and not yet answered for.
InHand(n) == \/ \E e \in worker.batch : e.n = n
             \/ n \in worker.failed
             \/ \E q \in DOMAIN worker.queue : \E e \in worker.queue[q] : e.n = n
Unsynced(n) == \E w \in Procs : \E t \in sync[w] : t.n = n

-----------------------------------------------------------------------------
(* Commits.                                                                 *)

\* The row is written without a vector and without failures.
Upsert(w, n) ==
  /\ sync[w] = {} /\ Write
  /\ \E c \in Contents :
       /\ note' = [note EXCEPT ![n] = [content |-> c, vec |-> NoVec, fails |-> 0]]
       /\ memory' = IF w \in Local THEN [memory EXCEPT ![n] = Remembered(c, FALSE)] ELSE memory
       /\ sync' = [sync EXCEPT ![w] = {[n |-> n, content |-> c]}]
  /\ tries' = [tries EXCEPT ![n] = 0]
  /\ disturbed' = IF InHand(n) \/ Unsynced(n) \/ worker.model # schema
                  THEN disturbed \cup {n} ELSE disturbed
  /\ UNCHANGED <<block, schema, config, reindexing, worker, provider, faults>>

(* Mutant of Delete: the rows of the blocks do not go with the note.        *)
DeleteTheRow(w, n) ==
  /\ Row(n) /\ Write
  /\ note' = [note EXCEPT ![n] = NoNote]
  /\ memory' = IF w \in Local THEN [memory EXCEPT ![n] = Remembered(<<>>, FALSE)] ELSE memory
  /\ tries' = [tries EXCEPT ![n] = 0]
  /\ disturbed' = disturbed \ {n}
  /\ UNCHANGED <<block, schema, config, sync, reindexing, worker, provider, faults>>

\* The rows of its blocks go with the note.
Delete(w, n) ==
  /\ Row(n) /\ Write
  /\ note' = [note EXCEPT ![n] = NoNote]
  /\ memory' = IF w \in Local THEN [memory EXCEPT ![n] = Remembered(<<>>, FALSE)] ELSE memory
  /\ block' = [block EXCEPT ![n] = <<>>]
  /\ tries' = [tries EXCEPT ![n] = 0]
  /\ disturbed' = disturbed \ {n}
  /\ UNCHANGED <<schema, config, sync, reindexing, worker, provider, faults>>

(* Mutant of SyncedBlocks: the text is not compared.                        *)
SyncedBlocksById(old, content) ==
  [i \in DOMAIN content |-> IF i \in DOMAIN old THEN [old[i] EXCEPT !.part = content[i]]
                            ELSE FreshBlock(content[i])]

\* A block stays as it is while the text at its index stays the same, also
\* under the breadcrumb of another title, folder or heading.
SyncedBlocks(old, content) ==
  [i \in DOMAIN content |-> IF i \in DOMAIN old /\ Text[old[i].part] = Text[content[i]] THEN old[i]
                            ELSE FreshBlock(content[i])]

\* The transaction fails without the row of the note, and may fail anyway:
\* a process logs that and nobody comes back to it, the command line stops.
SyncBlocks(w, t) ==
  /\ IF Row(t.n) THEN block' = [block EXCEPT ![t.n] = SyncedBlocks(@, t.content)]
     ELSE UNCHANGED block
  /\ sync' = [sync EXCEPT ![w] = IF Row(t.n) \/ w # "cli" THEN @ \ {t} ELSE {}]
  /\ reindexing' = (reindexing /\ (Row(t.n) \/ w # "cli"))
  /\ disturbed' = IF InHand(t.n) THEN disturbed \cup {t.n} ELSE disturbed
  /\ UNCHANGED <<note, schema, config, memory, worker, provider, writes, faults, tries>>

SyncFails(w, t) ==
  /\ Fault
  /\ sync' = [sync EXCEPT ![w] = IF w = "cli" THEN {} ELSE @ \ {t}]
  /\ reindexing' = (reindexing /\ w # "cli")
  /\ disturbed' = disturbed \cup {t.n}
  /\ UNCHANGED <<rows, memory, worker, provider, writes, tries>>

-----------------------------------------------------------------------------
(* The command line.                                                        *)

\* --reindex-blocks reads all notes, or those without blocks, ...
Reindex ==
  /\ ~ reindexing /\ Write
  /\ reindexing' = TRUE
  /\ \E S \in {{n \in Notes : Row(n)}, {n \in Notes : Row(n) /\ block[n] = <<>>}} :
       sync' = [sync EXCEPT !["cli"] = {[n |-> n, content |-> note[n].content] : n \in S}]
  /\ UNCHANGED <<rows, memory, worker, provider, faults, history>>

\* ... syncs their blocks one note after the other, and clears all vectors.
ClearVectors ==
  /\ reindexing /\ sync["cli"] = {}
  /\ reindexing' = FALSE
  /\ note' = [n \in Notes |-> [note[n] EXCEPT !.vec = NoVec, !.fails = 0]]
  /\ tries' = [n \in Notes |-> 0]
  /\ UNCHANGED <<block, schema, config, memory, sync, worker, provider, writes, faults, disturbed>>

\* --embedding-unblock gives the failed rows of a note another chance.
FailedBlocks(n) == {i \in DOMAIN block[n] : block[n][i].fails > 0}

Unblocked(n) ==
  /\ note' = [note EXCEPT ![n].fails = 0]
  /\ block' = [block EXCEPT ![n] =
                 [i \in DOMAIN @ |-> IF i \in FailedBlocks(n) THEN [@[i] EXCEPT !.fails = 0] ELSE @[i]]]

Unblock(n) ==
  /\ Row(n) /\ Write
  /\ note[n].fails > 0 \/ FailedBlocks(n) # {}
  /\ Unblocked(n)
  /\ tries' = [tries EXCEPT ![n] = 0]
  /\ UNCHANGED <<schema, config, memory, sync, reindexing, worker, provider, faults, disturbed>>

-----------------------------------------------------------------------------
(* A change of the model.  Every process brings the schema in line with the *)
(* configuration it starts with, which clears all vectors if it differs.    *)

Configure ==
  /\ config < MaxModel /\ config' = config + 1
  /\ UNCHANGED <<note, block, schema, memory, sync, reindexing, worker, provider, writes, faults, history>>

Align ==
  IF schema = config THEN UNCHANGED <<note, block, schema, tries>>
  ELSE /\ schema' = config
       /\ note' = [n \in Notes |-> [note[n] EXCEPT !.vec = NoVec, !.fails = 0]]
       /\ block' = [n \in Notes |-> [i \in DOMAIN block[n] |-> FreshBlock(block[n][i].part)]]
       /\ tries' = [n \in Notes |-> 0]

StartApi ==
  /\ schema # config /\ Align
  /\ disturbed' = IF worker.model = config THEN disturbed ELSE Notes
  /\ UNCHANGED <<config, memory, sync, reindexing, worker, provider, writes, faults>>

\* The worker's process reads its memory from the rows, as it does when it
\* looks for stale files and others have committed.
FromRows(rowsOfNotes) == [n \in Notes |-> Remembered(rowsOfNotes[n].content, rowsOfNotes[n].vec # NoVec)]

Hydrate ==
  /\ memory' = FromRows(note)
  /\ UNCHANGED <<rows, sync, reindexing, worker, provider, writes, faults, history>>

\* The worker starts anew, for the configuration or after a crash, and hydrates.
StartWorker ==
  /\ IF worker.model # config THEN UNCHANGED faults ELSE Fault
  /\ Align
  /\ memory' = FromRows(note')
  /\ worker' = IdleWorker(config)
  /\ \/ /\ UNCHANGED <<sync, disturbed>>
     \/ /\ \E w \in Writers : /\ sync[w] # {} /\ sync' = [sync EXCEPT ![w] = {}]
                              /\ disturbed' = disturbed \cup {t.n : t \in sync[w]}
  /\ UNCHANGED <<config, reindexing, provider, writes>>

-----------------------------------------------------------------------------
(* The provider answers, rejects a text (4xx), fails (5xx), or is not       *)
(* reached at all.                                                          *)

Reply(parts) == IF provider # "up" THEN provider
                ELSE IF parts \cap Poison # {} THEN "rejects" ELSE "answers"

Outage ==
  /\ provider = "up" /\ Fault
  /\ provider' \in {"fails", "away"}
  /\ UNCHANGED <<rows, memory, sync, reindexing, worker, writes, history>>

Recovery ==
  /\ provider # "up" /\ provider' = "up"
  /\ UNCHANGED <<rows, memory, sync, reindexing, worker, writes, faults, history>>

-----------------------------------------------------------------------------
(* The worker: notes first.                                                 *)

Works(d) == worker' = d

PendingNotes == {n \in Notes : Row(n) /\ note[n].vec = NoVec /\ note[n].fails < MaxFailures}
Unembedded == {n \in Notes : memory[n].content # <<>> /\ ~ memory[n].embedded}

\* The first of them by their ids, as many as a batch takes.
NoteBatch(pending) == {n \in pending : Cardinality({m \in pending : m < n}) < BatchSize}

\* The notes of a batch are embedded in the order of their ids.
FirstOf(batch) == CHOOSE e \in batch : \A f \in batch : e.n <= f.n
TodoOf(batch) == IF batch = {} THEN <<>> ELSE FirstOf(batch).content

Reads(batch) ==
  /\ worker.pc = "idle" /\ batch # {}
  /\ Works([worker EXCEPT !.pc = "note", !.batch = batch, !.todo = TodoOf(batch)])
  /\ tries' = [n \in Notes |-> IF \E e \in batch : e.n = n THEN tries[n] + 1 ELSE tries[n]]
  /\ UNCHANGED <<rows, memory, sync, reindexing, provider, writes>>

LoadNotes ==
  /\ Reads({[n |-> n, content |-> note[n].content] : n \in NoteBatch(PendingNotes)})
  /\ UNCHANGED <<faults, disturbed>>

\* The rows cannot be read: what memory has no vector of, however often it
\* has failed and whatever the rows hold.
LoadFromMemory ==
  LET batch == {[n |-> n, content |-> memory[n].content] : n \in NoteBatch(Unembedded)} IN
  /\ Fault /\ Reads(batch)
  /\ disturbed' = disturbed \cup {e.n : e \in {f \in batch : f.content # note[f.n].content}}

\* On to the next note of the batch; failed ones are recorded at its end.
NextNote(failed) ==
  LET rest == worker.batch \ {FirstOf(worker.batch)}
  IN [worker EXCEPT !.batch = rest, !.got = <<>>, !.failed = @ \cup failed, !.todo = TodoOf(rest)]

\* Requests for several chunks are bisected down to the chunk at fault, which
\* a note of several chunks does without; other errors fail the note.
EmbedChunk ==
  LET n == FirstOf(worker.batch).n
      p == Head(worker.todo)
      reply == Reply({p})
      last == Len(worker.todo) = 1
      skips == reply \in {"rejects", "fails"} /\ Len(FirstOf(worker.batch).content) > 1
                 /\ ~ (last /\ worker.got = <<>>)
  IN
  /\ worker.pc = "note" /\ worker.todo # <<>>
  /\ \/ reply = "answers" /\ Works([worker EXCEPT !.todo = Tail(@), !.got = Append(@, p)])
     \/ skips /\ Works([worker EXCEPT !.todo = Tail(@)])
     \/ reply # "answers" /\ ~ skips /\ Works(NextNote({n}))
  /\ disturbed' = IF reply = "fails" THEN disturbed \cup {n} ELSE disturbed
  /\ UNCHANGED <<rows, memory, sync, reindexing, provider, writes, faults, tries>>

\* UPDATE ... WHERE id: whatever the row holds, if there is one.
StoresNote(n, vec) ==
  note' = IF Row(n) THEN [note EXCEPT ![n].vec = vec, ![n].fails = 0] ELSE note

\* Memory takes the vector first, and keeps it when the rows do not.
StoreNote ==
  LET n == FirstOf(worker.batch).n IN
  /\ worker.pc = "note" /\ worker.batch # {} /\ worker.todo = <<>>
  /\ memory' = IF memory[n].content = <<>> THEN memory ELSE [memory EXCEPT ![n].embedded = TRUE]
  /\ \/ StoresNote(n, Vec(worker.got, worker.model)) /\ UNCHANGED faults
     \/ Fault /\ UNCHANGED note
  /\ Works(NextNote({}))
  /\ UNCHANGED <<block, schema, config, sync, reindexing, provider, writes, history>>

\* record_embedding_failure, note by note.
FailedNotes(failed) ==
  [n \in Notes |-> IF n \in failed /\ Row(n) THEN [note[n] EXCEPT !.fails = @ + 1] ELSE note[n]]

(* Mutant of EndNotes: when all fail it is the provider, and nobody counts. *)
EndNotesUnlessAll ==
  /\ worker.pc = "note" /\ worker.batch = {}
  /\ note' = IF PendingNotes \subseteq worker.failed THEN note ELSE FailedNotes(worker.failed)
  /\ Works(IdleWorker(worker.model))
  /\ UNCHANGED <<block, schema, config, memory, sync, reindexing, provider, writes, faults, history>>

\* A failure that cannot be recorded is only logged.
EndNotes ==
  /\ worker.pc = "note" /\ worker.batch = {}
  /\ \E recorded \in SUBSET worker.failed :
       /\ note' = FailedNotes(recorded)
       /\ IF recorded = worker.failed THEN UNCHANGED faults ELSE Fault
  /\ Works(IdleWorker(worker.model))
  /\ UNCHANGED <<block, schema, config, memory, sync, reindexing, provider, writes, history>>

-----------------------------------------------------------------------------
(* Blocks, when no note is pending, or none can be read.                    *)

PendingBlocks ==
  UNION {{[n |-> n, i |-> i, part |-> block[n][i].part] :
            i \in {j \in DOMAIN block[n] : block[n][j].vec = NoVec /\ block[n][j].fails < MaxFailures}} :
         n \in Notes}

\* The first k of the batch, by note and index.
Before(a, b) == a.n < b.n \/ (a.n = b.n /\ a.i < b.i)
First(k, batch) == {e \in batch : Cardinality({f \in batch : Before(f, e)}) < k}

LoadBlocks ==
  LET batch == First(BatchSize, PendingBlocks) IN
  /\ worker.pc = "idle" /\ batch # {}
  /\ \/ PendingNotes = {} /\ UNCHANGED faults
     \/ Unembedded = {} /\ Fault
  /\ Works([worker EXCEPT !.pc = "block", !.queue = <<batch>>])
  /\ UNCHANGED <<rows, memory, sync, reindexing, provider, writes, history>>

Batch == Head(worker.queue)
Entry(n, i) == {e \in Batch : e.n = n /\ e.i = i}

StoredBlocks ==
  [n \in Notes |-> [i \in DOMAIN block[n] |->
     IF Entry(n, i) = {} THEN block[n][i]
     ELSE [block[n][i] EXCEPT !.fails = 0,
             !.vec = Vec(<<(CHOOSE e \in Entry(n, i) : TRUE).part>>, worker.model)]]]

FailedBlock ==
  [n \in Notes |-> [i \in DOMAIN block[n] |->
     IF Entry(n, i) = {} THEN block[n][i] ELSE [block[n][i] EXCEPT !.fails = @ + 1]]]

\* The error is about a text of the batch: look for it in the halves.  The
\* failure of a block may not get recorded either.
Isolate ==
  LET half == First(Cardinality(Batch) \div 2, Batch) IN
  IF \E e, f \in Batch : e # f
    THEN /\ UNCHANGED <<block, faults>>
         /\ Works([worker EXCEPT !.pc = "block", !.queue = <<half, Batch \ half>> \o Tail(@)])
    ELSE /\ \/ block' = FailedBlock /\ UNCHANGED faults
            \/ Fault /\ UNCHANGED block
         /\ Works([worker EXCEPT !.pc = "block", !.queue = Tail(@)])

EmbedBlocks ==
  LET reply == Reply({e.part : e \in Batch}) IN
  /\ worker.pc = "block" /\ worker.queue # <<>>
  /\ \/ /\ reply = "answers" /\ Works([worker EXCEPT !.queue = Tail(@)])
        /\ \/ block' = StoredBlocks /\ UNCHANGED faults
           \/ Fault /\ UNCHANGED block
     \/ reply = "rejects" /\ Isolate
     \/ reply = "fails" /\ Works([worker EXCEPT !.pc = "probe"]) /\ UNCHANGED <<block, faults>>
     \/ reply = "away" /\ Works(IdleWorker(worker.model)) /\ UNCHANGED <<block, faults>>
  /\ UNCHANGED <<note, schema, config, memory, sync, reindexing, provider, writes, history>>

(* Mutant of Probe: the provider is not asked.                              *)
ProbeNobody ==
  /\ worker.pc = "probe" /\ Isolate
  /\ UNCHANGED <<note, schema, config, memory, sync, reindexing, provider, writes, history>>

\* health_probe tells whether it was the texts or the provider.
Probe ==
  /\ worker.pc = "probe"
  /\ IF provider = "up" THEN Isolate
     ELSE Works(IdleWorker(worker.model)) /\ UNCHANGED <<block, faults>>
  /\ UNCHANGED <<note, schema, config, memory, sync, reindexing, provider, writes, history>>

EndBlocks ==
  /\ worker.pc = "block" /\ worker.queue = <<>>
  /\ Works(IdleWorker(worker.model))
  /\ UNCHANGED <<rows, memory, sync, reindexing, provider, writes, faults, history>>

-----------------------------------------------------------------------------
Worker == \/ LoadNotes \/ LoadFromMemory \/ EmbedChunk \/ StoreNote \/ EndNotes
          \/ LoadBlocks \/ EmbedBlocks \/ Probe \/ EndBlocks

Operator == \/ Reindex \/ ClearVectors \/ Configure \/ StartApi \/ StartWorker
            \/ \E n \in Notes : Unblock(n)

Next == \/ \E n \in Notes : \E w \in Writers : Upsert(w, n) \/ Delete(w, n)
        \/ \E w \in Procs : \E t \in sync[w] : SyncBlocks(w, t) \/ SyncFails(w, t)
        \/ Operator \/ Hydrate \/ Outage \/ Recovery \/ Worker

Spec == Init /\ [][Next]_vars

FairSpec == /\ Spec /\ WF_vars(Worker) /\ WF_vars(Recovery) /\ WF_vars(ClearVectors)
            /\ WF_vars(\E w \in Procs : \E t \in sync[w] : SyncBlocks(w, t))

-----------------------------------------------------------------------------
(* Properties.                                                              *)

(* Types of the rows, of the memory, of the tasks and of the worker.        *)
TypeOK ==
  /\ \A n \in Notes :
       /\ note[n].content \in Contents \cup {<<>>} /\ note[n].fails \in Nat
       /\ note[n].vec.of \in Seq(Parts) /\ note[n].vec.model \in 0..MaxModel
       /\ (~ Row(n) => block[n] = <<>>)
       /\ \A i \in DOMAIN block[n] : block[n][i].part \in Parts /\ block[n][i].fails \in Nat
       /\ memory[n].content \in Contents \cup {<<>>} /\ memory[n].embedded \in BOOLEAN
  /\ schema \in 1..config /\ config \in 1..MaxModel /\ worker.model \in 1..config
  /\ \A w \in Procs : \A t \in sync[w] : t.n \in Notes /\ t.content \in Contents
  /\ worker.pc \in {"idle", "note", "block", "probe"}
  /\ worker.pc = "probe" => worker.queue # <<>>
  /\ worker.pc # "note" => worker.batch = {} /\ worker.failed = {}

(* Quarantine protects the provider from retry storms                       *)
(* (docs/embedding_operations.md:3): since a note was last written, cleared *)
(* or unblocked, it is read for embedding at most max_embedding_failures    *)
(* times, and once more for every crash, restart, failed transaction and    *)
(* failed read.  It is the database that has to answer: while it does not,  *)
(* the worker goes by its memory, which knows of no quarantine, and what    *)
(* fails may not get counted (store.rs:3671, 3701).                         *)
RetriesAreBounded == \A n \in Notes : tries[n] <= MaxFailures + faults + config - 1

(* A batch that fails is bisected and the provider probed (workers.rs:1807) *)
(* so that a block is blamed for its own text only: a block the provider    *)
(* would take is blamed at most once per outage, when the provider is back  *)
(* for the probe.                                                           *)
BlameIsBounded ==
  \A n \in Notes \ disturbed : \A i \in DOMAIN block[n] :
    block[n][i].part \notin Poison => block[n][i].fails <= faults

\* What the worker owes a note: blocks with the texts of its content, its own
\* vector over what the provider takes of it, and a vector for every block it
\* takes, under the breadcrumb the block was stored with.
Settled(n) ==
  LET good == SelectSeq(note[n].content, LAMBDA p : p \notin Poison) IN
  Row(n) => /\ [i \in DOMAIN block[n] |-> Text[block[n][i].part]]
                  = [i \in DOMAIN note[n].content |-> Text[note[n].content[i]]]
            /\ \/ note[n].vec = Vec(good, schema)
               \/ note[n].fails >= MaxFailures /\ (good = <<>> \/ faults > 0)
            /\ \A i \in DOMAIN block[n] : LET b == block[n][i] IN
                 \/ b.vec = Vec(<<b.part>>, schema)
                 \/ b.fails >= MaxFailures /\ (b.part \in Poison \/ faults >= MaxFailures)

(* Nothing starves and no text stays stale (workers.rs:1878): once nobody   *)
(* writes any more, the vector of every note is of its content and of the   *)
(* model, and the vectors of its blocks are of their texts, whatever else   *)
(* is in its batches, except for a note that was written while the worker   *)
(* or another process had it in its hands, or that met a fault.  The        *)
(* breadcrumb a block is embedded with is the one it stood under when its   *)
(* text was stored: a new title, folder or heading above an unchanged text  *)
(* is never embedded (persistence.rs:2145).                                 *)
VectorsSettle == \A n \in Notes : <>[](n \in disturbed \/ Settled(n))
=============================================================================
