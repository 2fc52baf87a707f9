---------------------------- MODULE EmbeddingProofs ----------------------------
(***************************************************************************)
(* For every number of notes, contents, faults and changes of the model:   *)
(* the types, that the reads of a note for embedding are bounded, and that *)
(* a block is blamed for its own text only.  Every read is paid for by a   *)
(* failure that counts, by the vector, or by a fault, which a read from    *)
(* memory and a failure that is not recorded are (Paid); the worker        *)
(* knows the texts of the blocks it asks the provider about as long as     *)
(* nobody disturbs them (TextsOK); and each outage lets a block be blamed  *)
(* once more at most (BlameOK).                                            *)
(***************************************************************************)
EXTENDS Embedding, SequenceTheorems, WellFoundedInduction, TLAPS

Tasks == [n : Notes, content : Contents]
Entries == [n : Notes, i : Nat, part : Parts]
Vecs == [of : Seq(Parts), model : 0..MaxModel]
NoteRows == [content : Contents \cup {<<>>}, vec : Vecs, fails : Nat]
BlockRows == [part : Parts, vec : Vecs, fails : Nat]
WorkerStates ==
  [pc : {"idle", "note", "block", "probe"}, model : 1..MaxModel, batch : SUBSET Tasks,
   queue : Seq(SUBSET Entries), todo : Seq(Parts), got : Seq(Parts), failed : SUBSET Notes]

Types ==
  /\ note \in [Notes -> NoteRows] /\ block \in [Notes -> Seq(BlockRows)]
  /\ schema \in 1..config /\ config \in 1..MaxModel
  /\ sync \in [Procs -> SUBSET Tasks]
  /\ worker \in WorkerStates /\ worker.model <= config
  /\ provider \in {"up", "fails", "away"} /\ faults \in Nat /\ (provider # "up" => faults > 0)
  /\ tries \in [Notes -> Nat]

\* What a step of the worker finds.
WorkerOK ==
  /\ worker.pc = "probe" => worker.queue # <<>>
  /\ worker.pc # "note" => worker.batch = {} /\ worker.failed = {}
  /\ worker.todo # <<>> => worker.batch # {}

RowsOK == \A n \in Notes : ~ Row(n) => block[n] = <<>>
MemoryOK == memory \in [Notes -> [content : Contents \cup {<<>>}, embedded : BOOLEAN]]

\* The worker has read n and not yet stored or counted it.
Reading(n) == n \in worker.failed \/ \E e \in worker.batch : e.n = n

\* A read is paid for by a failure that counts, by the vector, or by what
\* kept the worker from either.
Slack == faults + worker.model - 1
Paid(n) ==
  /\ tries[n] <= MaxFailures + Slack
  /\ ~ Row(n) => tries[n] <= Slack
  /\ Row(n) /\ note[n].vec = NoVec =>
       tries[n] <= note[n].fails + (IF Reading(n) THEN 1 ELSE 0) + Slack

\* The worker knows the texts of the blocks of n.
Asked(queue) == UNION {queue[q] : q \in DOMAIN queue}
TextsOK(n) ==
  \A e \in Asked(worker.queue) :
    e.n = n /\ e.i \in DOMAIN block[n] => block[n][e.i].part = e.part

\* A block is blamed when the provider rejects it, or is up for the probe
\* after an outage.
BlameOK(n) ==
  \A i \in DOMAIN block[n] : block[n][i].part \notin Poison =>
    /\ block[n][i].fails <= faults
    /\ provider # "up" => block[n][i].fails < faults
    /\ worker.pc = "probe" /\ Entry(n, i) # {} => block[n][i].fails < faults

Sound == Types /\ WorkerOK /\ RowsOK
IInv == /\ Sound /\ MemoryOK /\ \A n \in Notes : Paid(n)
        /\ \A n \in Notes \ disturbed : TextsOK(n) /\ BlameOK(n)

-----------------------------------------------------------------------------
(* Rows.                                                                    *)

LEMMA Numbers ==
  /\ NumNotes \in Nat /\ NumNotes > 0 /\ MaxFailures \in Nat /\ MaxFailures > 0
  /\ BatchSize \in Nat /\ BatchSize > 0 /\ MaxModel \in Nat /\ MaxModel > 0
BY NumbersAssumption

LEMMA NoVecIsVec == NoVec \in Vecs
<1>1. <<>> \in Seq(Parts)
  BY EmptySeq
<1> QED
  BY <1>1, Numbers DEF NoVec, Vecs

LEMMA VecIsVec ==
  ASSUME NEW of \in Seq(Parts), NEW model \in 1..MaxModel
  PROVE  Vec(of, model) \in Vecs /\ Vec(of, model) # NoVec
BY Numbers DEF Vec, Vecs, NoVec

LEMMA NoteEdits ==
  ASSUME NEW r \in NoteRows, NEW v \in Vecs, NEW f \in Nat
  PROVE  /\ [r EXCEPT !.vec = v, !.fails = f] \in NoteRows
         /\ [r EXCEPT !.vec = v, !.fails = f].content = r.content
         /\ [r EXCEPT !.vec = v, !.fails = f].vec = v
         /\ [r EXCEPT !.vec = v, !.fails = f].fails = f
         /\ [r EXCEPT !.fails = f] \in NoteRows
         /\ [r EXCEPT !.fails = f].content = r.content
         /\ [r EXCEPT !.fails = f].vec = r.vec
         /\ [r EXCEPT !.fails = f].fails = f
BY DEF NoteRows

LEMMA BlockEdits ==
  ASSUME NEW b \in BlockRows, NEW v \in Vecs, NEW f \in Nat
  PROVE  /\ [b EXCEPT !.fails = f, !.vec = v] \in BlockRows
         /\ [b EXCEPT !.fails = f, !.vec = v].part = b.part
         /\ [b EXCEPT !.fails = f, !.vec = v].fails = f
         /\ [b EXCEPT !.fails = f] \in BlockRows
         /\ [b EXCEPT !.fails = f].part = b.part
         /\ [b EXCEPT !.fails = f].fails = f
BY DEF BlockRows

LEMMA FreshBlockIsFresh ==
  ASSUME NEW p \in Parts
  PROVE  FreshBlock(p) \in BlockRows /\ FreshBlock(p).part = p /\ FreshBlock(p).fails = 0
BY NoVecIsVec DEF FreshBlock, BlockRows

\* A function over the indices of a sequence is a sequence.
LEMMA SameIndices ==
  ASSUME NEW S, NEW s \in Seq(S), NEW T, NEW f \in [DOMAIN s -> T]
  PROVE  f \in Seq(T) /\ DOMAIN f = DOMAIN s /\ (s = <<>> => f = <<>>)
<1>1. Len(s) \in Nat /\ DOMAIN s = 1..Len(s)
  BY LenProperties
<1>2. f \in [1..Len(s) -> T]
  BY <1>1
<1>3. f \in Seq(T)
  BY <1>1, <1>2, SeqDef
<1>4. ASSUME s = <<>> PROVE f = <<>>
  <2>1. DOMAIN f = {}
    BY <1>1, <1>4
  <2>2. Len(f) = 0
    BY <1>3, <2>1, LenProperties
  <2> QED
    BY <1>3, <2>2, EmptySeq
<1> QED
  BY <1>2, <1>3, <1>4

\* The numbers have a least one.
LEMMA LeastNumber ==
  ASSUME NEW S \in SUBSET Nat, S # {}
  PROVE  \E k \in S : \A l \in S : k <= l
<1>1. IsWellFoundedOn(OpToRel(<, Nat), Nat)
  BY NatLessThanWellFounded
<1>2. PICK k \in S : \A l \in S : ~ (<<l, k>> \in OpToRel(<, Nat))
  BY <1>1, WFMin
<1>3. \A l \in S : ~ l < k
  BY <1>2 DEF OpToRel
<1>4. k \in Nat /\ \A l \in S : l \in Nat
  OBVIOUS
<1> QED
  BY <1>3, <1>4

LEMMA FirstIsOne ==
  ASSUME NEW batch \in SUBSET Tasks, batch # {}
  PROVE  FirstOf(batch) \in batch
<1> DEFINE ids == {e.n : e \in batch}
<1>1. ids \in SUBSET Nat /\ ids # {}
  BY Numbers DEF Tasks, Notes
<1>2. PICK k \in ids : \A l \in ids : k <= l
  BY <1>1, LeastNumber
<1>3. \E e \in batch : \A f \in batch : e.n <= f.n
  BY <1>2
<1> QED
  BY <1>3 DEF FirstOf

LEMMA TodoIsText ==
  ASSUME NEW batch \in SUBSET Tasks
  PROVE  TodoOf(batch) \in Seq(Parts) /\ (TodoOf(batch) # <<>> => batch # {})
<1>1. <<>> \in Seq(Parts)
  BY EmptySeq
<1>2. CASE batch # {}
  BY <1>1, <1>2, FirstIsOne, PartsAssumption DEF TodoOf, Tasks
<1>3. CASE batch = {}
  BY <1>1, <1>3 DEF TodoOf
<1> QED
  BY <1>2, <1>3
-----------------------------------------------------------------------------
(* The worker.                                                              *)

\* A worker state by its fields.
WorkerIs(pc, model, batch, queue, todo, got, failed) ==
  [pc |-> pc, model |-> model, batch |-> batch, queue |-> queue, todo |-> todo, got |-> got,
   failed |-> failed]

LEMMA WorkerFields ==
  ASSUME Types
  PROVE  /\ worker = WorkerIs(worker.pc, worker.model, worker.batch, worker.queue, worker.todo,
                              worker.got, worker.failed)
         /\ worker.pc \in {"idle", "note", "block", "probe"} /\ worker.model \in 1..MaxModel
         /\ worker.model \in Nat /\ worker.model >= 1
         /\ worker.batch \in SUBSET Tasks /\ worker.queue \in Seq(SUBSET Entries)
         /\ worker.todo \in Seq(Parts) /\ worker.got \in Seq(Parts) /\ worker.failed \in SUBSET Notes
BY Numbers DEF Types, WorkerStates, WorkerIs

LEMMA IdleIsIdle ==
  ASSUME NEW model \in 1..MaxModel
  PROVE  /\ IdleWorker(model) \in WorkerStates
         /\ IdleWorker(model) = WorkerIs("idle", model, {}, <<>>, <<>>, <<>>, {})
BY EmptySeq DEF IdleWorker, WorkerStates, WorkerIs

\* On to the next note: what is read stays what is read or failed.
LEMMA NextNoteIs ==
  ASSUME Types, worker.pc = "note", worker.batch # {}, NEW failed \in SUBSET {FirstOf(worker.batch).n}
  PROVE  /\ NextNote(failed) \in WorkerStates
         /\ FirstOf(worker.batch) \in worker.batch /\ FirstOf(worker.batch).n \in Notes
         /\ NextNote(failed) =
              WorkerIs("note", worker.model, worker.batch \ {FirstOf(worker.batch)}, worker.queue,
                       TodoOf(worker.batch \ {FirstOf(worker.batch)}), <<>>, worker.failed \cup failed)
<1> DEFINE rest == worker.batch \ {FirstOf(worker.batch)}
<1>1. NextNote(failed) = [worker EXCEPT !.batch = rest, !.got = <<>>, !.failed = worker.failed \cup failed,
                                        !.todo = TodoOf(rest)]
  BY WorkerFields DEF NextNote, WorkerIs
<1>2. rest \in SUBSET Tasks /\ FirstOf(worker.batch) \in worker.batch /\ FirstOf(worker.batch).n \in Notes
  BY WorkerFields, FirstIsOne DEF Tasks
<1>3. TodoOf(rest) \in Seq(Parts) /\ <<>> \in Seq(Parts) /\ worker.failed \cup failed \in SUBSET Notes
  BY <1>2, WorkerFields, TodoIsText, EmptySeq
<1> HIDE DEF rest
<1>4. NextNote(failed) = WorkerIs("note", worker.model, rest, worker.queue, TodoOf(rest), <<>>,
                                  worker.failed \cup failed)
  BY <1>1, WorkerFields DEF WorkerIs
<1>5. NextNote(failed) \in WorkerStates
  BY <1>2, <1>3, <1>4, WorkerFields DEF WorkerIs, WorkerStates
<1> QED
  BY <1>2, <1>4, <1>5 DEF rest

-----------------------------------------------------------------------------
(* The types, what the worker finds, and the rows that are gone.            *)

LEMMA SoundInit == Init => Sound
<1> SUFFICES ASSUME Init PROVE Sound
  OBVIOUS
<1>1. note \in [Notes -> NoteRows] /\ \A n \in Notes : note[n] = NoNote
  BY NoVecIsVec DEF Init, NoNote, NoteRows
<1>2. block \in [Notes -> Seq(BlockRows)] /\ \A n \in Notes : block[n] = <<>>
  BY EmptySeq DEF Init
<1>3. 1 \in 1..MaxModel /\ worker = IdleWorker(1)
  BY Numbers DEF Init
<1>4. worker \in WorkerStates /\ worker = WorkerIs("idle", 1, {}, <<>>, <<>>, <<>>, {})
  BY <1>3, IdleIsIdle
<1>5. /\ schema = 1 /\ config = 1 /\ sync \in [Procs -> SUBSET Tasks] /\ provider = "up"
      /\ faults = 0 /\ tries = [n \in Notes |-> 0]
  BY DEF Init
<1>6. Types
  BY <1>1, <1>2, <1>3, <1>4, <1>5 DEF Types, WorkerIs
<1>7. WorkerOK
  BY <1>4 DEF WorkerOK, WorkerIs
<1>8. RowsOK
  BY <1>2, <1>5 DEF RowsOK
<1> QED
  BY <1>6, <1>7, <1>8 DEF Sound

\* A step of the others.
LEMMA WorkerStays ==
  ASSUME WorkerOK, UNCHANGED worker
  PROVE  WorkerOK'
BY DEF WorkerOK

LEMMA SoundUpsert == ASSUME Sound, NEW w \in Writers, NEW n \in Notes, Upsert(w, n) PROVE Sound'
<1>1. PICK c \in Contents :
        /\ note' = [note EXCEPT ![n] = [content |-> c, vec |-> NoVec, fails |-> 0]]
        /\ sync' = [sync EXCEPT ![w] = {[n |-> n, content |-> c]}]
  BY DEF Upsert
<1>2. /\ UNCHANGED <<block, schema, config, worker, provider, faults>> /\ tries' = [tries EXCEPT ![n] = 0]
  BY DEF Upsert
<1>3. [content |-> c, vec |-> NoVec, fails |-> 0] \in NoteRows
  BY NoVecIsVec DEF NoteRows
<1>4. note' \in [Notes -> NoteRows] /\ note'[n].content = c /\ \A m \in Notes \ {n} : note'[m] = note[m]
  BY <1>1, <1>3 DEF Sound, Types
<1>5. w \in Procs /\ {[n |-> n, content |-> c]} \in SUBSET Tasks
  BY DEF Procs, Tasks
<1>6. sync' \in [Procs -> SUBSET Tasks]
  BY <1>1, <1>5 DEF Sound, Types
<1>7. tries' \in [Notes -> Nat] /\ \A m \in Notes \ {n} : tries'[m] = tries[m]
  BY <1>2 DEF Sound, Types
<1>8. Types'
  BY <1>2, <1>4, <1>6, <1>7 DEF Sound, Types
<1>9. RowsOK'
  BY <1>2, <1>4, <1>7, PartsAssumption DEF Sound, RowsOK, Row
<1> QED
  BY <1>2, <1>8, <1>9, WorkerStays DEF Sound

LEMMA SoundDelete ==
  ASSUME Sound, NEW w \in Writers, NEW n \in Notes, Delete(w, n) PROVE Sound'
<1>1. /\ note' = [note EXCEPT ![n] = NoNote] /\ block' = [block EXCEPT ![n] = <<>>]
      /\ tries' = [tries EXCEPT ![n] = 0]
      /\ UNCHANGED <<schema, config, sync, worker, provider, faults>>
  BY DEF Delete
<1>2. NoNote \in NoteRows /\ <<>> \in Seq(BlockRows)
  BY NoVecIsVec, EmptySeq DEF NoNote, NoteRows
<1>3. /\ note' \in [Notes -> NoteRows] /\ block' \in [Notes -> Seq(BlockRows)]
      /\ tries' \in [Notes -> Nat] /\ block'[n] = <<>> /\ tries'[n] = 0
      /\ \A m \in Notes \ {n} : note'[m] = note[m] /\ block'[m] = block[m] /\ tries'[m] = tries[m]
  BY <1>1, <1>2 DEF Sound, Types
<1>4. Types'
  BY <1>1, <1>3 DEF Sound, Types
<1>5. RowsOK'
  BY <1>3 DEF Sound, RowsOK, Row
<1> QED
  BY <1>1, <1>4, <1>5, WorkerStays DEF Sound
LEMMA SyncedIsSynced ==
  ASSUME NEW old \in Seq(BlockRows), NEW content \in Contents
  PROVE  /\ SyncedBlocks(old, content) \in Seq(BlockRows)
         /\ \A i \in DOMAIN SyncedBlocks(old, content) :
              \/ i \in DOMAIN old /\ SyncedBlocks(old, content)[i] = old[i]
              \/ SyncedBlocks(old, content)[i].fails = 0
<1> DEFINE new == SyncedBlocks(old, content)
<1>1. content \in Seq(Parts) /\ DOMAIN new = DOMAIN content
  BY PartsAssumption DEF SyncedBlocks
<1>2. ASSUME NEW i \in DOMAIN content
      PROVE  /\ new[i] \in BlockRows
             /\ (i \in DOMAIN old /\ new[i] = old[i]) \/ new[i].fails = 0
  <2>1. content[i] \in Parts
    BY <1>1
  <2>2. i \in DOMAIN old => old[i] \in BlockRows
    OBVIOUS
  <2>3. \/ i \in DOMAIN old /\ new[i] = old[i]
        \/ new[i] = FreshBlock(content[i])
    BY <1>2 DEF SyncedBlocks
  <2> QED
    BY <2>1, <2>2, <2>3, FreshBlockIsFresh
<1>3. new \in [DOMAIN content -> BlockRows]
  BY <1>1, <1>2 DEF SyncedBlocks
<1>4. new \in Seq(BlockRows)
  BY <1>1, <1>3, SameIndices
<1> QED
  BY <1>1, <1>2, <1>4

LEMMA SoundSyncBlocks ==
  ASSUME Sound, NEW w \in Procs, NEW t \in sync[w], SyncBlocks(w, t) PROVE Sound'
<1>1. t \in Tasks /\ t.n \in Notes /\ t.content \in Contents
  BY DEF Sound, Types, Tasks
<1>2. /\ sync' = [sync EXCEPT ![w] = IF Row(t.n) \/ w # "cli" THEN sync[w] \ {t} ELSE {}]
      /\ UNCHANGED <<note, schema, config, worker, provider, faults, tries>>
  BY DEF SyncBlocks, Sound, Types
<1>3. sync' \in [Procs -> SUBSET Tasks]
  BY <1>2 DEF Sound, Types
<1>4. /\ block' \in [Notes -> Seq(BlockRows)]
      /\ \A m \in Notes : ~ Row(m) => block'[m] = block[m]
  <2>1. CASE Row(t.n)
    <3>1. block' = [block EXCEPT ![t.n] = SyncedBlocks(block[t.n], t.content)]
      BY <2>1, <1>1 DEF SyncBlocks, Sound, Types
    <3>2. block[t.n] \in Seq(BlockRows)
      BY <1>1 DEF Sound, Types
    <3> QED
      BY <1>1, <2>1, <3>1, <3>2, SyncedIsSynced DEF Sound, Types
  <2>2. CASE ~ Row(t.n)
    BY <2>2 DEF SyncBlocks, Sound, Types
  <2> QED
    BY <2>1, <2>2
<1>5. Types'
  BY <1>2, <1>3, <1>4 DEF Sound, Types
<1>6. RowsOK'
  BY <1>2, <1>4 DEF Sound, RowsOK, Row
<1> QED
  BY <1>2, <1>5, <1>6, WorkerStays DEF Sound

\* Steps that change the tasks and the bounds alone.
LEMMA SoundTasks ==
  ASSUME Sound, UNCHANGED <<note, block, schema, config, worker, provider, tries>>,
         sync' \in [Procs -> SUBSET Tasks], faults' = faults \/ faults' = faults + 1
  PROVE  Sound'
<1>1. faults' \in Nat /\ faults' >= faults
  BY DEF Sound, Types
<1>2. Types'
  BY <1>1 DEF Sound, Types
<1>3. RowsOK'
  BY DEF Sound, RowsOK, Row
<1> QED
  BY <1>2, <1>3, WorkerStays DEF Sound

LEMMA SoundSyncFails ==
  ASSUME Sound, NEW w \in Procs, NEW t \in sync[w], SyncFails(w, t) PROVE Sound'
<1>1. sync' = [sync EXCEPT ![w] = IF w = "cli" THEN {} ELSE sync[w] \ {t}]
  BY DEF SyncFails, Sound, Types
<1>2. sync' \in [Procs -> SUBSET Tasks]
  BY <1>1 DEF Sound, Types
<1> QED
  BY <1>2, SoundTasks DEF SyncFails, Fault, rows

LEMMA SoundReindex == ASSUME Sound, Reindex PROVE Sound'
<1>1. PICK S \in {{n \in Notes : Row(n)}, {n \in Notes : Row(n) /\ block[n] = <<>>}} :
        sync' = [sync EXCEPT !["cli"] = {[n |-> n, content |-> note[n].content] : n \in S}]
  BY DEF Reindex
<1>2. S \in SUBSET Notes /\ \A n \in S : Row(n)
  BY <1>1
<1>3. ASSUME NEW n \in S PROVE [n |-> n, content |-> note[n].content] \in Tasks
  BY <1>2 DEF Sound, Types, NoteRows, Row, Tasks
<1>4. sync' \in [Procs -> SUBSET Tasks]
  BY <1>1, <1>3 DEF Sound, Types
<1> QED
  BY <1>4, SoundTasks DEF Reindex, rows, history

\* All vectors and failures are cleared.
LEMMA Cleared ==
  ASSUME note \in [Notes -> NoteRows]
  PROVE  LET cleared == [n \in Notes |-> [note[n] EXCEPT !.vec = NoVec, !.fails = 0]]
         IN /\ cleared \in [Notes -> NoteRows]
            /\ \A n \in Notes : /\ cleared[n].content = note[n].content
                                /\ cleared[n].vec = NoVec /\ cleared[n].fails = 0
<1>1. ASSUME NEW n \in Notes
      PROVE  /\ [note[n] EXCEPT !.vec = NoVec, !.fails = 0] \in NoteRows
             /\ [note[n] EXCEPT !.vec = NoVec, !.fails = 0].content = note[n].content
             /\ [note[n] EXCEPT !.vec = NoVec, !.fails = 0].vec = NoVec
             /\ [note[n] EXCEPT !.vec = NoVec, !.fails = 0].fails = 0
  <2>1. note[n] \in NoteRows /\ NoVec \in Vecs /\ 0 \in Nat
    BY NoVecIsVec
  <2> QED
    BY <2>1 DEF NoteRows
<1> QED
  BY <1>1

LEMMA SoundClearVectors == ASSUME Sound, ClearVectors PROVE Sound'
<1>1. /\ note' = [n \in Notes |-> [note[n] EXCEPT !.vec = NoVec, !.fails = 0]]
      /\ tries' = [n \in Notes |-> 0]
      /\ UNCHANGED <<block, schema, config, sync, worker, provider, faults>>
  BY DEF ClearVectors
<1>2. note' \in [Notes -> NoteRows] /\ \A n \in Notes : note'[n].content = note[n].content
  BY <1>1, Cleared DEF Sound, Types
<1>3. Types'
  BY <1>1, <1>2 DEF Sound, Types
<1>4. RowsOK'
  BY <1>1, <1>2 DEF Sound, RowsOK, Row
<1> QED
  BY <1>1, <1>3, <1>4, WorkerStays DEF Sound

\* What an unblocking leaves of the blocks.
LEMMA UnblockedIsUnblocked ==
  ASSUME Types, NEW n \in Notes, Unblocked(n)
  PROVE  /\ note' \in [Notes -> NoteRows] /\ block' \in [Notes -> Seq(BlockRows)]
         /\ \A m \in Notes : /\ note'[m].content = note[m].content /\ note'[m].vec = note[m].vec
                             /\ DOMAIN block'[m] = DOMAIN block[m]
                             /\ block[m] = <<>> => block'[m] = <<>>
         /\ note'[n].fails = 0
         /\ \A m \in Notes \ {n} : note'[m] = note[m] /\ block'[m] = block[m]
         /\ \A i \in DOMAIN block[n] : /\ block'[n][i].part = block[n][i].part
                                       /\ block'[n][i] = block[n][i] \/ block'[n][i].fails = 0
<1>1. note' = [note EXCEPT ![n] = [note[n] EXCEPT !.fails = 0]]
  BY DEF Unblocked, Types
<1>2. /\ note' \in [Notes -> NoteRows] /\ note'[n].content = note[n].content
      /\ note'[n].vec = note[n].vec /\ note'[n].fails = 0
      /\ \A m \in Notes \ {n} : note'[m] = note[m]
  <2>1. note[n] \in NoteRows
    BY DEF Types
  <2> DEFINE r == [note[n] EXCEPT !.fails = 0]
  <2>2. r \in NoteRows /\ r.content = note[n].content /\ r.vec = note[n].vec /\ r.fails = 0
    BY <2>1 DEF NoteRows
  <2> HIDE DEF r
  <2> QED
    BY <1>1, <2>2 DEF r, Types
<1> DEFINE new == [i \in DOMAIN block[n] |->
                     IF i \in FailedBlocks(n) THEN [block[n][i] EXCEPT !.fails = 0] ELSE block[n][i]]
<1>3. block' = [block EXCEPT ![n] = new]
  BY DEF Unblocked, Types
<1>4. ASSUME NEW i \in DOMAIN block[n]
      PROVE  /\ new[i] \in BlockRows /\ new[i].part = block[n][i].part
             /\ new[i] = block[n][i] \/ new[i].fails = 0
  <2>1. block[n][i] \in BlockRows
    BY DEF Types
  <2>2. new[i] = block[n][i] \/ new[i] = [block[n][i] EXCEPT !.fails = 0]
    BY <1>4
  <2> QED
    BY <2>1, <2>2, BlockEdits, NoVecIsVec
<1>5. new \in [DOMAIN block[n] -> BlockRows]
  BY <1>4
<1> HIDE DEF new
<1>6. block[n] \in Seq(BlockRows)
  BY DEF Types
<1>7. new \in Seq(BlockRows) /\ DOMAIN new = DOMAIN block[n] /\ (block[n] = <<>> => new = <<>>)
  BY <1>5, <1>6, SameIndices
<1>8. /\ block' \in [Notes -> Seq(BlockRows)] /\ block'[n] = new
      /\ \A m \in Notes \ {n} : block'[m] = block[m]
  BY <1>3, <1>7 DEF Types
<1> QED
  BY <1>2, <1>4, <1>7, <1>8

LEMMA SoundUnblock == ASSUME Sound, NEW n \in Notes, Unblock(n) PROVE Sound'
<1>1. /\ Row(n) /\ Unblocked(n) /\ tries' = [tries EXCEPT ![n] = 0]
      /\ UNCHANGED <<schema, config, sync, worker, provider, faults>>
  BY DEF Unblock
<1>2. /\ note' \in [Notes -> NoteRows] /\ block' \in [Notes -> Seq(BlockRows)]
      /\ \A m \in Notes : note'[m].content = note[m].content /\ (block[m] = <<>> => block'[m] = <<>>)
  BY <1>1, UnblockedIsUnblocked DEF Sound
<1>3. tries' \in [Notes -> Nat] /\ \A m \in Notes : tries'[m] \in {tries[m], 0}
  BY <1>1 DEF Sound, Types
<1>4. Types'
  BY <1>1, <1>2, <1>3 DEF Sound, Types
<1>5. RowsOK'
  BY <1>2, <1>3 DEF Sound, RowsOK, Row
<1> QED
  BY <1>1, <1>4, <1>5, WorkerStays DEF Sound
-----------------------------------------------------------------------------
(* A change of the model.                                                   *)

LEMMA SoundConfigure == ASSUME Sound, Configure PROVE Sound'
<1>1. /\ config < MaxModel /\ config' = config + 1
      /\ UNCHANGED <<note, block, schema, sync, worker, provider, faults, tries>>
  BY DEF Configure, history
<1>2. config \in 1..MaxModel /\ schema \in 1..config /\ worker.model <= config /\ worker.model \in Nat
  BY WorkerFields DEF Sound, Types
<1>3. config' \in 1..MaxModel /\ schema' \in 1..config' /\ worker'.model <= config'
  BY <1>1, <1>2, Numbers
<1>4. Types'
  BY <1>1, <1>3 DEF Sound, Types
<1>5. RowsOK'
  BY <1>1 DEF Sound, RowsOK, Row
<1> QED
  BY <1>1, <1>4, <1>5, WorkerStays DEF Sound

\* The rows after the schema was aligned: as they were, or without vectors.
LEMMA Aligned ==
  ASSUME Sound, Align, config' = config
  PROVE  /\ note' \in [Notes -> NoteRows] /\ block' \in [Notes -> Seq(BlockRows)]
         /\ schema' \in 1..config /\ tries' \in [Notes -> Nat]
         /\ \A n \in Notes : /\ note'[n].content = note[n].content
                             /\ DOMAIN block'[n] = DOMAIN block[n]
                             /\ block[n] = <<>> => block'[n] = <<>>
                             /\ \A i \in DOMAIN block[n] :
                                  /\ block'[n][i].part = block[n][i].part
                                  /\ block'[n][i] = block[n][i] \/ block'[n][i].fails = 0
         /\ \/ note' = note /\ tries' = tries
            \/ \A n \in Notes : note'[n].fails = 0 /\ tries'[n] = 0
<1>1. CASE schema = config
  BY <1>1 DEF Align, Sound, Types
<1>2. CASE schema # config
  <2>1. /\ schema' = config /\ tries' = [n \in Notes |-> 0]
        /\ note' = [n \in Notes |-> [note[n] EXCEPT !.vec = NoVec, !.fails = 0]]
        /\ block' = [n \in Notes |-> [i \in DOMAIN block[n] |-> FreshBlock(block[n][i].part)]]
    BY <1>2 DEF Align
  <2>2. /\ note' \in [Notes -> NoteRows]
        /\ \A n \in Notes : note'[n].content = note[n].content /\ note'[n].fails = 0
    BY <2>1, Cleared DEF Sound, Types
  <2>3. ASSUME NEW n \in Notes
        PROVE  /\ block'[n] \in Seq(BlockRows) /\ DOMAIN block'[n] = DOMAIN block[n]
               /\ block[n] = <<>> => block'[n] = <<>>
               /\ \A i \in DOMAIN block[n] : block'[n][i].part = block[n][i].part /\ block'[n][i].fails = 0
    <3>1. block[n] \in Seq(BlockRows)
      BY DEF Sound, Types
    <3>2. ASSUME NEW i \in DOMAIN block[n]
          PROVE  /\ FreshBlock(block[n][i].part) \in BlockRows
                 /\ FreshBlock(block[n][i].part).part = block[n][i].part
                 /\ FreshBlock(block[n][i].part).fails = 0
      <4>1. block[n][i] \in BlockRows
        BY <3>1
      <4>2. block[n][i].part \in Parts
        BY <4>1 DEF BlockRows
      <4> QED
        BY <4>2, FreshBlockIsFresh
    <3> DEFINE new == [i \in DOMAIN block[n] |-> FreshBlock(block[n][i].part)]
    <3>3. new \in [DOMAIN block[n] -> BlockRows]
      BY <3>2
    <3>4. \A i \in DOMAIN block[n] : new[i].part = block[n][i].part /\ new[i].fails = 0
      BY <3>2
    <3>5. block'[n] = new
      BY <2>1
    <3> HIDE DEF new
    <3>6. new \in Seq(BlockRows) /\ DOMAIN new = DOMAIN block[n] /\ (block[n] = <<>> => new = <<>>)
      BY <3>1, <3>3, SameIndices
    <3> QED
      BY <3>4, <3>5, <3>6
  <2>4. block' \in [Notes -> Seq(BlockRows)]
    BY <2>1, <2>3
  <2>5. tries' \in [Notes -> Nat] /\ \A n \in Notes : tries'[n] = 0
    BY <2>1
  <2>6. config \in 1..config
    BY Numbers DEF Sound, Types
  <2> QED
    BY <2>1, <2>2, <2>3, <2>4, <2>5, <2>6
<1> QED
  BY <1>1, <1>2

LEMMA SoundStart ==
  ASSUME Sound, Align, UNCHANGED <<config, provider>>, sync' \in [Procs -> SUBSET Tasks],
         worker' = worker \/ worker' = IdleWorker(config),
         faults' = faults \/ faults' = faults + 1
  PROVE  Sound'
<1>1. faults' \in Nat /\ faults' >= faults /\ config \in 1..MaxModel
  BY DEF Sound, Types
<1>2. /\ worker' \in WorkerStates /\ worker'.model <= config /\ WorkerOK'
  <2>1. CASE worker' = worker
    BY <2>1, WorkerStays DEF Sound, Types
  <2>2. CASE worker' = IdleWorker(config)
    <3>1. worker' \in WorkerStates /\ worker' = WorkerIs("idle", config, {}, <<>>, <<>>, <<>>, {})
      BY <1>1, <2>2, IdleIsIdle
    <3>2. /\ worker'.pc = "idle" /\ worker'.model = config /\ worker'.batch = {} /\ worker'.failed = {}
          /\ worker'.todo = <<>>
      BY <3>1 DEF WorkerIs
    <3> QED
      BY <1>1, <3>1, <3>2, Numbers DEF WorkerOK
  <2> QED
    BY <2>1, <2>2
<1>3. /\ note' \in [Notes -> NoteRows] /\ block' \in [Notes -> Seq(BlockRows)]
      /\ schema' \in 1..config /\ tries' \in [Notes -> Nat]
      /\ \A n \in Notes : note'[n].content = note[n].content /\ (block[n] = <<>> => block'[n] = <<>>)
      /\ \A n \in Notes : tries'[n] \in {tries[n], 0}
  BY Aligned
<1>4. Types'
  BY <1>1, <1>2, <1>3 DEF Sound, Types
<1>5. RowsOK'
  BY <1>3 DEF Sound, RowsOK, Row
<1> QED
  BY <1>2, <1>4, <1>5 DEF Sound

LEMMA SoundStartApi == ASSUME Sound, StartApi PROVE Sound'
<1>1. sync \in [Procs -> SUBSET Tasks]
  BY DEF Sound, Types
<1> QED
  BY <1>1, SoundStart DEF StartApi

LEMMA SoundStartWorker == ASSUME Sound, StartWorker PROVE Sound'
<1>1. sync' \in [Procs -> SUBSET Tasks]
  BY DEF StartWorker, Sound, Types
<1>2. faults' = faults \/ faults' = faults + 1
  BY DEF StartWorker, Fault
<1> QED
  BY <1>1, <1>2, SoundStart DEF StartWorker

LEMMA SoundOutage == ASSUME Sound, Outage \/ Recovery PROVE Sound'
<1>1. /\ UNCHANGED <<note, block, schema, config, sync, worker, tries>>
      /\ provider' \in {"up", "fails", "away"} /\ faults' \in Nat /\ (provider' # "up" => faults' > 0)
  BY DEF Outage, Recovery, Fault, rows, history, Sound, Types
<1>2. Types'
  BY <1>1 DEF Sound, Types
<1>3. RowsOK'
  BY <1>1 DEF Sound, RowsOK, Row
<1> QED
  BY <1>1, <1>2, <1>3, WorkerStays DEF Sound

-----------------------------------------------------------------------------
(* Steps of the worker.                                                     *)

LEMMA SoundWorks ==
  ASSUME Sound, UNCHANGED <<schema, config, sync, provider>>,
         note' \in [Notes -> NoteRows], \A n \in Notes : note'[n].content = note[n].content,
         block' \in [Notes -> Seq(BlockRows)], \A n \in Notes : block[n] = <<>> => block'[n] = <<>>,
         tries' \in [Notes -> Nat],
         worker' \in WorkerStates, worker'.model = worker.model, WorkerOK',
         faults' = faults \/ faults' = faults + 1
  PROVE  Sound'
<1>1. faults' \in Nat /\ faults' >= faults
  BY DEF Sound, Types
<1>2. Types'
  BY <1>1 DEF Sound, Types
<1>3. RowsOK'
  BY DEF Sound, RowsOK, Row
<1> QED
  BY <1>2, <1>3 DEF Sound

LEMMA PendingIsPending ==
  \A n \in NoteBatch(PendingNotes) :
    n \in Notes /\ Row(n) /\ note[n].vec = NoVec /\ note[n].fails < MaxFailures
BY DEF NoteBatch, PendingNotes

\* A batch is read, from the rows or, as a fault, from memory.
LEMMA LoadIs ==
  ASSUME Sound, MemoryOK, LoadNotes \/ LoadFromMemory
  PROVE  /\ UNCHANGED <<note, block, schema, config, sync, provider>>
         /\ \E batch \in SUBSET Tasks :
              /\ Reads(batch)
              /\ \/ /\ faults' = faults
                    /\ \A e \in batch : Row(e.n) /\ note[e.n].vec = NoVec /\ note[e.n].fails < MaxFailures
                 \/ faults' = faults + 1
<1>1. CASE LoadNotes
  <2> DEFINE batch == {[n |-> n, content |-> note[n].content] : n \in NoteBatch(PendingNotes)}
  <2>1. Reads(batch) /\ faults' = faults
    BY <1>1 DEF LoadNotes
  <2>2. ASSUME NEW n \in NoteBatch(PendingNotes)
        PROVE  [n |-> n, content |-> note[n].content] \in Tasks
    BY PendingIsPending DEF Sound, Types, NoteRows, Row, Tasks
  <2>3. batch \in SUBSET Tasks
    BY <2>2
  <2>4. \A e \in batch : Row(e.n) /\ note[e.n].vec = NoVec /\ note[e.n].fails < MaxFailures
    BY PendingIsPending
  <2> HIDE DEF batch
  <2> QED
    BY <2>1, <2>3, <2>4 DEF Reads, rows
<1>2. CASE LoadFromMemory
  <2> DEFINE batch == {[n |-> n, content |-> memory[n].content] : n \in NoteBatch(Unembedded)}
  <2>1. Reads(batch) /\ faults' = faults + 1
    BY <1>2 DEF LoadFromMemory, Fault
  <2>2. ASSUME NEW n \in NoteBatch(Unembedded)
        PROVE  [n |-> n, content |-> memory[n].content] \in Tasks
    BY DEF MemoryOK, NoteBatch, Unembedded, Tasks
  <2>3. batch \in SUBSET Tasks
    BY <2>2
  <2> HIDE DEF batch
  <2> QED
    BY <2>1, <2>3 DEF Reads, rows
<1> QED
  BY <1>1, <1>2

LEMMA ReadsIs ==
  ASSUME Sound, NEW batch \in SUBSET Tasks, Reads(batch)
  PROVE  /\ worker.pc = "idle" /\ worker' \in WorkerStates
         /\ worker' = WorkerIs("note", worker.model, batch, worker.queue, TodoOf(batch),
                               worker.got, worker.failed)
<1>1. worker.pc = "idle" /\ worker' = [worker EXCEPT !.pc = "note", !.batch = batch, !.todo = TodoOf(batch)]
  BY DEF Reads, Works
<1>2. TodoOf(batch) \in Seq(Parts)
  BY TodoIsText
<1>3. worker' = WorkerIs("note", worker.model, batch, worker.queue, TodoOf(batch), worker.got, worker.failed)
  BY <1>1, WorkerFields DEF Sound, WorkerIs
<1>4. worker' \in WorkerStates
  BY <1>2, <1>3, WorkerFields DEF Sound, WorkerIs, WorkerStates
<1> QED
  BY <1>1, <1>3, <1>4

LEMMA SoundLoad == ASSUME Sound, MemoryOK, LoadNotes \/ LoadFromMemory PROVE Sound'
<1>1. PICK batch \in SUBSET Tasks : Reads(batch) /\ (faults' = faults \/ faults' = faults + 1)
  BY LoadIs
<1>2. /\ worker' \in WorkerStates
      /\ worker' = WorkerIs("note", worker.model, batch, worker.queue, TodoOf(batch),
                            worker.got, worker.failed)
  BY <1>1, ReadsIs
<1>3. TodoOf(batch) # <<>> => batch # {}
  BY TodoIsText
<1>4. /\ WorkerOK' /\ worker'.model = worker.model
  BY <1>2, <1>3 DEF WorkerOK, WorkerIs
<1>5. tries' = [n \in Notes |-> IF \E e \in batch : e.n = n THEN tries[n] + 1 ELSE tries[n]]
  BY <1>1 DEF Reads
<1>6. tries' \in [Notes -> Nat]
  BY <1>5 DEF Sound, Types
<1>7. UNCHANGED <<note, block, schema, config, sync, provider>>
  BY LoadIs
<1>8. note \in [Notes -> NoteRows] /\ block \in [Notes -> Seq(BlockRows)]
  BY DEF Sound, Types
<1> QED
  BY <1>1, <1>2, <1>4, <1>6, <1>7, <1>8, SoundWorks
\* A chunk is taken or skipped, or its note has failed.
LEMMA EmbedChunkIs ==
  ASSUME Sound, EmbedChunk
  PROVE  /\ worker.pc = "note" /\ worker.batch # {}
         /\ \/ \E got \in Seq(Parts) :
                 /\ Tail(worker.todo) \in Seq(Parts)
                 /\ worker' = WorkerIs("note", worker.model, worker.batch, worker.queue,
                                       Tail(worker.todo), got, worker.failed)
            \/ worker' = NextNote({FirstOf(worker.batch).n})
<1>1. worker.pc = "note" /\ worker.todo # <<>>
  BY DEF EmbedChunk
<1>2. worker.batch # {} /\ Head(worker.todo) \in Parts /\ Tail(worker.todo) \in Seq(Parts)
  BY <1>1, WorkerFields, HeadTailProperties DEF Sound, WorkerOK
<1> DEFINE got == Append(worker.got, Head(worker.todo))
<1>3. got \in Seq(Parts)
  BY <1>2, WorkerFields, AppendProperties DEF Sound
<1>4. \/ worker' = [worker EXCEPT !.todo = Tail(worker.todo), !.got = got]
      \/ worker' = [worker EXCEPT !.todo = Tail(worker.todo)]
      \/ worker' = NextNote({FirstOf(worker.batch).n})
  BY WorkerFields DEF EmbedChunk, Works, Sound, WorkerIs
<1> HIDE DEF got
<1>5. \/ worker' = WorkerIs("note", worker.model, worker.batch, worker.queue, Tail(worker.todo), got,
                            worker.failed)
      \/ worker' = WorkerIs("note", worker.model, worker.batch, worker.queue, Tail(worker.todo),
                            worker.got, worker.failed)
      \/ worker' = NextNote({FirstOf(worker.batch).n})
  BY <1>1, <1>4, WorkerFields DEF WorkerIs, Sound
<1> QED
  BY <1>1, <1>2, <1>3, <1>5, WorkerFields DEF Sound

LEMMA SoundNextNote ==
  ASSUME Sound, worker.pc = "note", worker.batch # {}, NEW failed \in SUBSET {FirstOf(worker.batch).n},
         worker' = NextNote(failed)
  PROVE  worker' \in WorkerStates /\ WorkerOK' /\ worker'.model = worker.model
<1> DEFINE rest == worker.batch \ {FirstOf(worker.batch)}
<1>1. /\ worker' \in WorkerStates
      /\ worker' = WorkerIs("note", worker.model, rest, worker.queue, TodoOf(rest), <<>>,
                            worker.failed \cup failed)
  BY NextNoteIs DEF Sound
<1>2. rest \in SUBSET Tasks
  BY WorkerFields DEF Sound
<1> HIDE DEF rest
<1>3. TodoOf(rest) # <<>> => rest # {}
  BY <1>2, TodoIsText
<1> QED
  BY <1>1, <1>3 DEF WorkerOK, WorkerIs

LEMMA SoundEmbedChunk == ASSUME Sound, EmbedChunk PROVE Sound'
<1>1. UNCHANGED <<note, block, schema, config, sync, provider, faults, tries>>
  BY DEF EmbedChunk, rows
<1>2. worker' \in WorkerStates /\ WorkerOK' /\ worker'.model = worker.model
  <2>1. worker.pc = "note" /\ worker.batch # {}
    BY EmbedChunkIs
  <2>2. ASSUME NEW got \in Seq(Parts), Tail(worker.todo) \in Seq(Parts),
               worker' = WorkerIs("note", worker.model, worker.batch, worker.queue,
                                  Tail(worker.todo), got, worker.failed)
        PROVE  worker' \in WorkerStates /\ WorkerOK' /\ worker'.model = worker.model
    <3>1. worker' \in WorkerStates
      BY <2>2, WorkerFields DEF Sound, WorkerIs, WorkerStates
    <3>2. WorkerOK' /\ worker'.model = worker.model
      BY <2>1, <2>2 DEF WorkerOK, WorkerIs
    <3> QED
      BY <3>1, <3>2
  <2>3. CASE worker' = NextNote({FirstOf(worker.batch).n})
    BY <2>1, <2>3, SoundNextNote
  <2> QED
    BY <2>2, <2>3, EmbedChunkIs
<1>3. /\ note \in [Notes -> NoteRows] /\ block \in [Notes -> Seq(BlockRows)] /\ tries \in [Notes -> Nat]
  BY DEF Sound, Types
<1> QED
  BY <1>1, <1>2, <1>3, SoundWorks

\* The vector is stored on the row, if there is one.
LEMMA StoreNoteIs ==
  ASSUME Sound, StoreNote
  PROVE  /\ worker.pc = "note" /\ worker.batch # {} /\ worker' = NextNote({})
         /\ FirstOf(worker.batch) \in worker.batch /\ FirstOf(worker.batch).n \in Notes
         /\ note' \in [Notes -> NoteRows] /\ \A m \in Notes : note'[m].content = note[m].content
         /\ \A m \in Notes \ {FirstOf(worker.batch).n} : note'[m] = note[m]
         /\ LET n == FirstOf(worker.batch).n
            IN \/ Row(n) /\ note'[n].vec # NoVec /\ note'[n].fails = 0 /\ faults' = faults
               \/ ~ Row(n) /\ note' = note /\ faults' = faults
               \/ note' = note /\ faults' = faults + 1
         /\ UNCHANGED <<block, schema, config, sync, provider, tries>>
<1> DEFINE n == FirstOf(worker.batch).n
           vec == Vec(worker.got, worker.model)
<1>1. /\ worker.pc = "note" /\ worker.batch # {} /\ worker' = NextNote({})
      /\ UNCHANGED <<block, schema, config, sync, provider, tries>>
  BY DEF StoreNote, Works, history
<1>2. FirstOf(worker.batch) \in worker.batch /\ n \in Notes
  BY <1>1, NextNoteIs DEF Sound
<1>3. vec \in Vecs /\ vec # NoVec /\ note[n] \in NoteRows /\ note \in [Notes -> NoteRows]
  BY <1>2, WorkerFields, VecIsVec DEF Sound, Types
<1>4. \/ Row(n) /\ note' = [note EXCEPT ![n] = [note[n] EXCEPT !.vec = vec, !.fails = 0]] /\ faults' = faults
      \/ ~ Row(n) /\ note' = note /\ faults' = faults
      \/ note' = note /\ faults' = faults + 1
  <2>1. \/ StoresNote(n, vec) /\ faults' = faults
        \/ faults' = faults + 1 /\ note' = note
    BY DEF StoreNote, Fault
  <2> HIDE DEF n, vec
  <2>2. ASSUME StoresNote(n, vec), Row(n)
        PROVE  note' = [note EXCEPT ![n] = [note[n] EXCEPT !.vec = vec, !.fails = 0]]
    <3>1. note' = [note EXCEPT ![n].vec = vec, ![n].fails = 0]
      BY <2>2 DEF StoresNote
    <3> QED
      BY <1>2, <1>3, <3>1 DEF NoteRows
  <2>3. StoresNote(n, vec) /\ ~ Row(n) => note' = note
    BY DEF StoresNote
  <2> QED
    BY <2>1, <2>2, <2>3
<1> HIDE DEF n, vec
<1> DEFINE r == [note[n] EXCEPT !.vec = vec, !.fails = 0]
<1>5. r \in NoteRows /\ r.content = note[n].content /\ r.vec = vec /\ r.fails = 0
  BY <1>3 DEF NoteRows
<1> HIDE DEF r
<1>6. ASSUME Row(n), note' = [note EXCEPT ![n] = r]
      PROVE  /\ note' \in [Notes -> NoteRows] /\ note'[n] = r
             /\ \A m \in Notes \ {n} : note'[m] = note[m]
  BY <1>2, <1>3, <1>5, <1>6
<1>7. \/ Row(n) /\ note' = [note EXCEPT ![n] = r] /\ faults' = faults
      \/ ~ Row(n) /\ note' = note /\ faults' = faults
      \/ note' = note /\ faults' = faults + 1
  BY <1>4 DEF r
<1>8. /\ note' \in [Notes -> NoteRows] /\ \A m \in Notes : note'[m].content = note[m].content
      /\ \A m \in Notes \ {n} : note'[m] = note[m]
      /\ \/ Row(n) /\ note'[n].vec # NoVec /\ note'[n].fails = 0 /\ faults' = faults
         \/ ~ Row(n) /\ note' = note /\ faults' = faults
         \/ note' = note /\ faults' = faults + 1
  BY <1>3, <1>5, <1>6, <1>7
<1> QED
  BY <1>1, <1>2, <1>8 DEF n

LEMMA SoundStoreNote == ASSUME Sound, StoreNote PROVE Sound'
<1>1. worker.pc = "note" /\ worker.batch # {} /\ worker' = NextNote({})
  BY StoreNoteIs
<1>2. worker' \in WorkerStates /\ WorkerOK' /\ worker'.model = worker.model
  BY <1>1, SoundNextNote
<1>3. /\ note' \in [Notes -> NoteRows] /\ \A m \in Notes : note'[m].content = note[m].content
      /\ UNCHANGED <<block, schema, config, sync, provider, tries>>
      /\ faults' = faults \/ faults' = faults + 1
  BY StoreNoteIs
<1>4. block \in [Notes -> Seq(BlockRows)] /\ tries \in [Notes -> Nat]
  BY DEF Sound, Types
<1> QED
  BY <1>2, <1>3, <1>4, SoundWorks

\* Failures are counted on the rows that are left.
LEMMA FailedNotesIs ==
  ASSUME note \in [Notes -> NoteRows], NEW failed \in SUBSET Notes
  PROVE  /\ FailedNotes(failed) \in [Notes -> NoteRows]
         /\ \A n \in Notes :
              /\ FailedNotes(failed)[n].content = note[n].content
              /\ FailedNotes(failed)[n].vec = note[n].vec
              /\ FailedNotes(failed)[n].fails =
                   IF n \in failed /\ Row(n) THEN note[n].fails + 1 ELSE note[n].fails
<1>1. ASSUME NEW n \in Notes
      PROVE  LET r == [note[n] EXCEPT !.fails = @ + 1]
             IN /\ r \in NoteRows /\ r.content = note[n].content /\ r.vec = note[n].vec
                /\ r.fails = note[n].fails + 1
  <2>1. note[n] \in NoteRows
    OBVIOUS
  <2> QED
    BY <2>1 DEF NoteRows
<1> QED
  BY <1>1 DEF FailedNotes

\* What fails is recorded, or some of it is lost, which is a fault.
LEMMA EndNotesIs ==
  ASSUME Sound, EndNotes
  PROVE  /\ worker.pc = "note" /\ worker.batch = {} /\ worker' = IdleWorker(worker.model)
         /\ UNCHANGED <<block, schema, config, sync, provider, tries>>
         /\ \E recorded \in SUBSET worker.failed :
              /\ note' = FailedNotes(recorded) /\ recorded \in SUBSET Notes
              /\ (recorded = worker.failed /\ faults' = faults) \/ faults' = faults + 1
<1>1. worker.failed \in SUBSET Notes
  BY WorkerFields DEF Sound
<1> QED
  BY <1>1 DEF EndNotes, Works, Fault, history

LEMMA SoundEndNotes == ASSUME Sound, EndNotes PROVE Sound'
<1>1. PICK recorded \in SUBSET Notes : note' = FailedNotes(recorded)
  BY EndNotesIs
<1>2. /\ worker.pc = "note" /\ worker' = IdleWorker(worker.model)
      /\ UNCHANGED <<block, schema, config, sync, provider, tries>>
      /\ faults' = faults \/ faults' = faults + 1
  BY EndNotesIs
<1>3. worker' \in WorkerStates /\ worker' = WorkerIs("idle", worker.model, {}, <<>>, <<>>, <<>>, {})
  BY <1>2, WorkerFields, IdleIsIdle DEF Sound
<1>4. WorkerOK' /\ worker'.model = worker.model
  BY <1>3 DEF WorkerOK, WorkerIs
<1>5. note \in [Notes -> NoteRows] /\ block \in [Notes -> Seq(BlockRows)] /\ tries \in [Notes -> Nat]
  BY DEF Sound, Types
<1>6. note' \in [Notes -> NoteRows] /\ \A m \in Notes : note'[m].content = note[m].content
  BY <1>1, <1>5, FailedNotesIs
<1> QED
  BY <1>2, <1>3, <1>4, <1>5, <1>6, SoundWorks
-----------------------------------------------------------------------------
(* Steps that ask for blocks.                                               *)

LEMMA AskedOfTail ==
  ASSUME NEW S, NEW q \in Seq(SUBSET S), q # <<>>
  PROVE  Asked(Tail(q)) \subseteq Asked(q) /\ Head(q) \subseteq Asked(q)
<1>1. /\ Len(q) \in Nat /\ Len(q) > 0 /\ DOMAIN q = 1..Len(q)
      /\ Tail(q) \in Seq(SUBSET S) /\ Len(Tail(q)) = Len(q) - 1
      /\ \A i \in 1..Len(Tail(q)) : Tail(q)[i] = q[i + 1]
  BY HeadTailProperties, LenProperties, EmptySeq
<1>2. DOMAIN Tail(q) = 1..(Len(q) - 1)
  BY <1>1, LenProperties
<1>3. ASSUME NEW i \in DOMAIN Tail(q) PROVE Tail(q)[i] \subseteq Asked(q)
  <2>1. i + 1 \in DOMAIN q /\ Tail(q)[i] = q[i + 1]
    BY <1>1, <1>2, <1>3
  <2> QED
    BY <2>1 DEF Asked
<1>4. Head(q) = q[1] /\ 1 \in DOMAIN q
  BY <1>1
<1> QED
  BY <1>3, <1>4 DEF Asked

LEMMA AskedOfHalves ==
  ASSUME NEW S, NEW q \in Seq(SUBSET S), q # <<>>, NEW half \in SUBSET Head(q)
  PROVE  /\ <<half, Head(q) \ half>> \o Tail(q) \in Seq(SUBSET S)
         /\ Asked(<<half, Head(q) \ half>> \o Tail(q)) \subseteq Asked(q)
<1> DEFINE halves == <<half, Head(q) \ half>>
           all == halves \o Tail(q)
<1>1. Head(q) \in SUBSET S /\ Tail(q) \in Seq(SUBSET S)
  BY HeadTailProperties
<1>2. halves \in Seq(SUBSET S) /\ Len(halves) = 2 /\ halves[1] \subseteq Head(q) /\ halves[2] \subseteq Head(q)
  BY <1>1
<1> HIDE DEF halves
<1>3. /\ all \in Seq(SUBSET S) /\ Len(all) = 2 + Len(Tail(q))
      /\ \A i \in 1..(2 + Len(Tail(q))) : all[i] = IF i <= 2 THEN halves[i] ELSE Tail(q)[i - 2]
  <2> DEFINE tail == Tail(q)
  <2>1. tail \in Seq(SUBSET S)
    BY <1>1
  <2> HIDE DEF tail
  <2>2. /\ halves \o tail \in Seq(SUBSET S) /\ Len(halves \o tail) = Len(halves) + Len(tail)
        /\ \A i \in 1..Len(halves) + Len(tail) :
             (halves \o tail)[i] = IF i <= Len(halves) THEN halves[i] ELSE tail[i - Len(halves)]
    BY ONLY <1>2, <2>1, ConcatProperties
  <2> QED
    BY <1>2, <2>2 DEF tail
<1>4. DOMAIN all = 1..(2 + Len(Tail(q))) /\ Len(Tail(q)) \in Nat /\ DOMAIN Tail(q) = 1..Len(Tail(q))
  BY <1>1, <1>3, LenProperties
<1> HIDE DEF all
<1>5. ASSUME NEW i \in DOMAIN all PROVE all[i] \subseteq Asked(q)
  <2>1. CASE i \in {1, 2}
    <3>1. i \in 1..(2 + Len(Tail(q))) /\ i <= 2
      BY <1>4, <1>5, <2>1
    <3>2. all[i] = halves[i]
      BY <1>3, <3>1
    <3>3. halves[i] \subseteq Head(q)
      BY <1>2, <2>1
    <3> QED
      BY <3>2, <3>3, AskedOfTail
  <2>2. CASE i \notin {1, 2}
    <3>1. i - 2 \in DOMAIN Tail(q) /\ all[i] = Tail(q)[i - 2]
      BY <1>3, <1>4, <1>5, <2>2
    <3>2. Tail(q)[i - 2] \subseteq Asked(Tail(q))
      BY <3>1 DEF Asked
    <3> QED
      BY <3>1, <3>2, AskedOfTail
  <2> QED
    BY <2>1, <2>2
<1>6. Asked(all) \subseteq Asked(q)
  BY <1>5 DEF Asked
<1> QED
  BY <1>3, <1>6 DEF all, halves

\* Blocks row by row.
LEMMA BlocksAreBlocks ==
  ASSUME block \in [Notes -> Seq(BlockRows)], NEW new,
         DOMAIN new = Notes, \A n \in Notes : new[n] \in [DOMAIN block[n] -> BlockRows],
         new = [n \in Notes |-> new[n]]
  PROVE  /\ new \in [Notes -> Seq(BlockRows)]
         /\ \A n \in Notes : DOMAIN new[n] = DOMAIN block[n] /\ (block[n] = <<>> => new[n] = <<>>)
<1>1. ASSUME NEW n \in Notes
      PROVE  new[n] \in Seq(BlockRows) /\ DOMAIN new[n] = DOMAIN block[n] /\ (block[n] = <<>> => new[n] = <<>>)
  <2>1. block[n] \in Seq(BlockRows) /\ new[n] \in [DOMAIN block[n] -> BlockRows]
    OBVIOUS
  <2> QED
    BY <2>1, SameIndices
<1> QED
  BY <1>1

LEMMA StoredBlocksIs ==
  ASSUME Sound, worker.queue # <<>>
  PROVE  /\ StoredBlocks \in [Notes -> Seq(BlockRows)]
         /\ \A n \in Notes : /\ DOMAIN StoredBlocks[n] = DOMAIN block[n]
                             /\ block[n] = <<>> => StoredBlocks[n] = <<>>
                             /\ \A i \in DOMAIN block[n] :
                                  /\ StoredBlocks[n][i].part = block[n][i].part
                                  /\ StoredBlocks[n][i] = block[n][i] \/ StoredBlocks[n][i].fails = 0
<1>1. block \in [Notes -> Seq(BlockRows)] /\ Batch \in SUBSET Entries
  BY WorkerFields, HeadTailProperties DEF Sound, Types, Batch
<1>2. ASSUME NEW n \in Notes, NEW i \in DOMAIN block[n]
      PROVE  /\ StoredBlocks[n][i] \in BlockRows
             /\ StoredBlocks[n][i].part = block[n][i].part
             /\ StoredBlocks[n][i] = block[n][i] \/ StoredBlocks[n][i].fails = 0
  <2>0. block[n][i] \in BlockRows
    BY <1>1
  <2> DEFINE text == (CHOOSE e \in Entry(n, i) : TRUE).part
             vec == Vec(<<text>>, worker.model)
  <2>1. StoredBlocks[n][i] = IF Entry(n, i) = {} THEN block[n][i]
                             ELSE [block[n][i] EXCEPT !.fails = 0, !.vec = vec]
    BY DEF StoredBlocks
  <2>2. CASE Entry(n, i) = {}
    BY <2>0, <2>1, <2>2
  <2>3. CASE Entry(n, i) # {}
    <3>1. (CHOOSE e \in Entry(n, i) : TRUE) \in Entry(n, i)
      BY <2>3
    <3>2. text \in Parts
      BY <1>1, <3>1 DEF Entry, Entries
    <3> HIDE DEF text
    <3>3. <<text>> \in Seq(Parts)
      BY <3>2
    <3>4. vec \in Vecs
      BY <3>3, WorkerFields, VecIsVec DEF Sound
    <3> HIDE DEF vec
    <3>5. StoredBlocks[n][i] = [block[n][i] EXCEPT !.fails = 0, !.vec = vec]
      BY <2>1, <2>3
    <3> DEFINE b == block[n][i]
    <3> HIDE DEF b
    <3>6. LET c == [b EXCEPT !.fails = 0, !.vec = vec]
          IN b \in BlockRows => c \in BlockRows /\ c.part = b.part /\ c.fails = 0
      BY <3>4 DEF BlockRows
    <3> QED
      BY <2>0, <3>5, <3>6 DEF b
  <2> QED
    BY <2>2, <2>3
<1>3. /\ DOMAIN StoredBlocks = Notes /\ StoredBlocks = [n \in Notes |-> StoredBlocks[n]]
      /\ \A n \in Notes : DOMAIN StoredBlocks[n] = DOMAIN block[n]
                          /\ StoredBlocks[n] = [i \in DOMAIN block[n] |-> StoredBlocks[n][i]]
  BY DEF StoredBlocks
<1>4. \A n \in Notes : StoredBlocks[n] \in [DOMAIN block[n] -> BlockRows]
  BY <1>2, <1>3
<1>5. /\ StoredBlocks \in [Notes -> Seq(BlockRows)]
      /\ \A n \in Notes : block[n] = <<>> => StoredBlocks[n] = <<>>
  BY <1>1, <1>3, <1>4, BlocksAreBlocks
<1> QED
  BY <1>2, <1>3, <1>5

LEMMA FailedBlockIs ==
  ASSUME Sound
  PROVE  /\ FailedBlock \in [Notes -> Seq(BlockRows)]
         /\ \A n \in Notes : /\ DOMAIN FailedBlock[n] = DOMAIN block[n]
                             /\ block[n] = <<>> => FailedBlock[n] = <<>>
                             /\ \A i \in DOMAIN block[n] :
                                  /\ FailedBlock[n][i].part = block[n][i].part
                                  /\ FailedBlock[n][i].fails =
                                       IF Entry(n, i) = {} THEN block[n][i].fails ELSE block[n][i].fails + 1
<1>1. block \in [Notes -> Seq(BlockRows)]
  BY DEF Sound, Types
<1>2. ASSUME NEW n \in Notes, NEW i \in DOMAIN block[n]
      PROVE  /\ FailedBlock[n][i] \in BlockRows
             /\ FailedBlock[n][i].part = block[n][i].part
             /\ FailedBlock[n][i].fails =
                  IF Entry(n, i) = {} THEN block[n][i].fails ELSE block[n][i].fails + 1
  <2>1. block[n][i] \in BlockRows
    BY <1>1
  <2>2. FailedBlock[n][i] = IF Entry(n, i) = {} THEN block[n][i] ELSE [block[n][i] EXCEPT !.fails = @ + 1]
    BY DEF FailedBlock
  <2> QED
    BY <2>1, <2>2 DEF BlockRows
<1>3. /\ DOMAIN FailedBlock = Notes /\ FailedBlock = [n \in Notes |-> FailedBlock[n]]
      /\ \A n \in Notes : DOMAIN FailedBlock[n] = DOMAIN block[n]
                          /\ FailedBlock[n] = [i \in DOMAIN block[n] |-> FailedBlock[n][i]]
  BY DEF FailedBlock
<1>4. \A n \in Notes : FailedBlock[n] \in [DOMAIN block[n] -> BlockRows]
  BY <1>2, <1>3
<1>5. /\ FailedBlock \in [Notes -> Seq(BlockRows)]
      /\ \A n \in Notes : block[n] = <<>> => FailedBlock[n] = <<>>
  BY <1>1, <1>3, <1>4, BlocksAreBlocks
<1> QED
  BY <1>2, <1>3, <1>5
\* The batch is halved, or its one block is blamed.
LEMMA IsolateIs ==
  ASSUME Sound, worker.queue # <<>>, worker.pc # "note", Isolate
  PROVE  /\ \E queue \in Seq(SUBSET Entries) :
              /\ Asked(queue) \subseteq Asked(worker.queue)
              /\ worker' = WorkerIs("block", worker.model, {}, queue, worker.todo, worker.got, {})
         /\ \/ UNCHANGED block /\ (faults' = faults \/ faults' = faults + 1)
            \/ block' = FailedBlock /\ faults' = faults /\ \A e, f \in Batch : e = f
<1>1. worker.batch = {} /\ worker.failed = {} /\ worker.queue \in Seq(SUBSET Entries)
  BY WorkerFields DEF Sound, WorkerOK
<1> DEFINE half == First(Cardinality(Batch) \div 2, Batch)
           halves == <<half, Batch \ half>> \o Tail(worker.queue)
<1>2. half \in SUBSET Batch
  BY DEF First
<1>3. \/ /\ UNCHANGED <<block, faults>>
         /\ worker' = [worker EXCEPT !.pc = "block", !.queue = halves]
      \/ /\ worker' = [worker EXCEPT !.pc = "block", !.queue = Tail(worker.queue)]
         /\ \/ block' = FailedBlock /\ faults' = faults /\ \A e, f \in Batch : e = f
            \/ block' = block /\ faults' = faults + 1
  <2>1. CASE \E e, f \in Batch : e # f
    <3>1. UNCHANGED <<block, faults>> /\ worker' = [worker EXCEPT !.pc = "block", !.queue =
                               <<half, Batch \ half>> \o Tail(@)]
      BY <2>1 DEF Isolate, Works
    <3> HIDE DEF half
    <3> QED
      BY <3>1, WorkerFields DEF Sound, WorkerIs
  <2>2. CASE ~ \E e, f \in Batch : e # f
    <3>1. /\ worker' = [worker EXCEPT !.pc = "block", !.queue = Tail(@)]
          /\ \/ block' = FailedBlock /\ faults' = faults
             \/ block' = block /\ faults' = faults + 1
      BY <2>2 DEF Isolate, Works, Fault
    <3> QED
      BY <2>2, <3>1, WorkerFields DEF Sound, WorkerIs
  <2> QED
    BY <2>1, <2>2
<1> HIDE DEF half
<1>4. /\ halves \in Seq(SUBSET Entries) /\ Asked(halves) \subseteq Asked(worker.queue)
      /\ Tail(worker.queue) \in Seq(SUBSET Entries)
      /\ Asked(Tail(worker.queue)) \subseteq Asked(worker.queue)
  BY <1>1, <1>2, AskedOfHalves, AskedOfTail, HeadTailProperties DEF Batch
<1> HIDE DEF halves
<1>5. ASSUME NEW queue, worker' = [worker EXCEPT !.pc = "block", !.queue = queue]
      PROVE  worker' = WorkerIs("block", worker.model, {}, queue, worker.todo, worker.got, {})
  BY <1>1, <1>5, WorkerFields DEF Sound, WorkerIs
<1> QED
  BY <1>3, <1>4, <1>5

\* What a step that asks for blocks leaves of the worker.
LEMMA SoundBlocks ==
  ASSUME Sound, NEW pc \in {"block", "probe"}, NEW queue \in Seq(SUBSET Entries),
         pc = "probe" => queue # <<>>, worker.pc # "note",
         worker' = WorkerIs(pc, worker.model, {}, queue, worker.todo, worker.got, {})
  PROVE  worker' \in WorkerStates /\ WorkerOK' /\ worker'.model = worker.model
<1>1. worker.todo = <<>>
  BY DEF Sound, WorkerOK
<1>2. /\ worker'.pc = pc /\ worker'.model = worker.model /\ worker'.batch = {} /\ worker'.queue = queue
      /\ worker'.todo = worker.todo /\ worker'.failed = {}
  BY DEF WorkerIs
<1>3. worker' \in WorkerStates
  BY WorkerFields DEF Sound, WorkerIs, WorkerStates
<1>4. WorkerOK'
  BY <1>1, <1>2 DEF WorkerOK
<1> QED
  BY <1>2, <1>3, <1>4

LEMMA SoundIdle ==
  ASSUME Sound, worker' = IdleWorker(worker.model)
  PROVE  worker' \in WorkerStates /\ WorkerOK' /\ worker'.model = worker.model
<1>1. worker' \in WorkerStates /\ worker' = WorkerIs("idle", worker.model, {}, <<>>, <<>>, <<>>, {})
  BY WorkerFields, IdleIsIdle DEF Sound
<1> QED
  BY <1>1 DEF WorkerOK, WorkerIs

LEMMA LoadBlocksIs ==
  ASSUME Sound, LoadBlocks
  PROVE  LET batch == First(BatchSize, PendingBlocks)
         IN /\ batch \in SUBSET Entries
            /\ \A e \in batch : e.i \in DOMAIN block[e.n] /\ e.part = block[e.n][e.i].part
            /\ worker.pc = "idle"
            /\ worker' = WorkerIs("block", worker.model, {}, <<batch>>, worker.todo, worker.got, {})
<1> DEFINE batch == First(BatchSize, PendingBlocks)
<1>1. worker.pc = "idle" /\ worker' = [worker EXCEPT !.pc = "block", !.queue = <<batch>>]
  BY DEF LoadBlocks, Works
<1>2. ASSUME NEW e \in PendingBlocks
      PROVE  e \in Entries /\ e.i \in DOMAIN block[e.n] /\ e.part = block[e.n][e.i].part
  <2>1. PICK n \in Notes : \E i \in DOMAIN block[n] : e = [n |-> n, i |-> i, part |-> block[n][i].part]
    BY <1>2 DEF PendingBlocks
  <2>i. PICK i \in DOMAIN block[n] : e = [n |-> n, i |-> i, part |-> block[n][i].part]
    BY <2>1
  <2>2. block[n] \in Seq(BlockRows)
    BY DEF Sound, Types
  <2>3. i \in Nat /\ block[n][i] \in BlockRows
    BY <2>2
  <2> QED
    BY <2>i, <2>3 DEF Entries, BlockRows
<1>3. batch \subseteq PendingBlocks
  BY DEF First
<1> HIDE DEF batch
<1>4. worker' = WorkerIs("block", worker.model, {}, <<batch>>, worker.todo, worker.got, {})
  BY <1>1, WorkerFields DEF Sound, WorkerOK, WorkerIs
<1> QED
  BY <1>1, <1>2, <1>3, <1>4 DEF batch

LEMMA SoundLoadBlocks == ASSUME Sound, LoadBlocks PROVE Sound'
<1>1. PICK batch \in SUBSET Entries :
        /\ worker.pc = "idle"
        /\ worker' = WorkerIs("block", worker.model, {}, <<batch>>, worker.todo, worker.got, {})
  BY LoadBlocksIs
<1>2. <<batch>> \in Seq(SUBSET Entries)
  OBVIOUS
<1>3. worker' \in WorkerStates /\ WorkerOK' /\ worker'.model = worker.model
  BY <1>1, <1>2, SoundBlocks
<1>4. /\ note \in [Notes -> NoteRows] /\ block \in [Notes -> Seq(BlockRows)] /\ tries \in [Notes -> Nat]
      /\ UNCHANGED <<note, block, schema, config, sync, provider, tries>>
      /\ faults' = faults \/ faults' = faults + 1
  BY DEF Sound, Types, LoadBlocks, Fault, rows, history
<1> QED
  BY <1>3, <1>4, SoundWorks

\* The provider is asked.
LEMMA EmbedBlocksIs ==
  ASSUME Sound, EmbedBlocks
  PROVE  /\ worker.pc = "block" /\ worker.queue # <<>>
         /\ UNCHANGED <<note, schema, config, sync, provider, tries, disturbed>>
         /\ \/ /\ worker' = WorkerIs("block", worker.model, {}, Tail(worker.queue), worker.todo, worker.got, {})
               /\ provider = "up"
               /\ \/ block' = StoredBlocks /\ faults' = faults
                  \/ block' = block /\ faults' = faults + 1
            \/ /\ Isolate
               /\ \E e \in Batch : e.part \in Poison
            \/ /\ worker' = WorkerIs("probe", worker.model, {}, worker.queue, worker.todo, worker.got, {})
               /\ provider # "up" /\ UNCHANGED <<block, faults>>
            \/ worker' = IdleWorker(worker.model) /\ UNCHANGED <<block, faults>>
<1> DEFINE reply == Reply({e.part : e \in Batch})
<1>1. /\ worker.pc = "block" /\ worker.queue # <<>>
      /\ UNCHANGED <<note, schema, config, sync, provider, tries, disturbed>>
      /\ \/ /\ reply = "answers" /\ worker' = [worker EXCEPT !.queue = Tail(@)]
            /\ \/ block' = StoredBlocks /\ UNCHANGED faults
               \/ faults' = faults + 1 /\ UNCHANGED block
         \/ reply = "rejects" /\ Isolate
         \/ reply = "fails" /\ worker' = [worker EXCEPT !.pc = "probe"] /\ UNCHANGED <<block, faults>>
         \/ worker' = IdleWorker(worker.model) /\ UNCHANGED <<block, faults>>
  BY DEF EmbedBlocks, Works, Fault, history
<1>2. worker.batch = {} /\ worker.failed = {} /\ provider \in {"up", "fails", "away"}
  BY <1>1 DEF Sound, Types, WorkerOK
<1>3. /\ reply = "answers" => provider = "up"
      /\ reply = "rejects" => \E e \in Batch : e.part \in Poison
      /\ reply = "fails" => provider # "up"
  BY <1>2 DEF Reply
<1> HIDE DEF reply
<1>4. ASSUME worker' = [worker EXCEPT !.queue = Tail(@)]
      PROVE  worker' = WorkerIs("block", worker.model, {}, Tail(worker.queue), worker.todo, worker.got, {})
  BY <1>1, <1>2, <1>4, WorkerFields DEF Sound, WorkerIs
<1>5. ASSUME worker' = [worker EXCEPT !.pc = "probe"]
      PROVE  worker' = WorkerIs("probe", worker.model, {}, worker.queue, worker.todo, worker.got, {})
  BY <1>2, <1>5, WorkerFields DEF Sound, WorkerIs
<1> QED
  BY <1>1, <1>3, <1>4, <1>5

LEMMA SoundIsolate ==
  ASSUME Sound, worker.queue # <<>>, worker.pc # "note", Isolate
  PROVE  /\ worker' \in WorkerStates /\ WorkerOK' /\ worker'.model = worker.model
         /\ block' \in [Notes -> Seq(BlockRows)] /\ \A n \in Notes : block[n] = <<>> => block'[n] = <<>>
         /\ faults' = faults \/ faults' = faults + 1
<1>1. block \in [Notes -> Seq(BlockRows)]
  BY DEF Sound, Types
<1> QED
  BY <1>1, IsolateIs, SoundBlocks, FailedBlockIs

LEMMA SoundEmbedBlocks == ASSUME Sound, EmbedBlocks PROVE Sound'
<1>1. /\ worker.pc = "block" /\ worker.queue # <<>> /\ worker.queue \in Seq(SUBSET Entries)
      /\ note \in [Notes -> NoteRows] /\ block \in [Notes -> Seq(BlockRows)] /\ tries \in [Notes -> Nat]
      /\ UNCHANGED <<note, schema, config, sync, provider, tries>>
  BY EmbedBlocksIs, WorkerFields DEF Sound, Types
<1>2. Tail(worker.queue) \in Seq(SUBSET Entries)
  BY <1>1, HeadTailProperties
<1>3. /\ worker' \in WorkerStates /\ WorkerOK' /\ worker'.model = worker.model
      /\ block' \in [Notes -> Seq(BlockRows)] /\ \A n \in Notes : block[n] = <<>> => block'[n] = <<>>
      /\ faults' = faults \/ faults' = faults + 1
  <2>1. ASSUME worker' = WorkerIs("block", worker.model, {}, Tail(worker.queue), worker.todo, worker.got, {}),
               block' = block \/ block' = StoredBlocks
        PROVE  /\ worker' \in WorkerStates /\ WorkerOK' /\ worker'.model = worker.model
               /\ block' \in [Notes -> Seq(BlockRows)] /\ \A n \in Notes : block[n] = <<>> => block'[n] = <<>>
    <3>1. worker' \in WorkerStates /\ WorkerOK' /\ worker'.model = worker.model
      BY <1>1, <1>2, <2>1, SoundBlocks
    <3>2. /\ StoredBlocks \in [Notes -> Seq(BlockRows)]
          /\ \A n \in Notes : block[n] = <<>> => StoredBlocks[n] = <<>>
      BY <1>1, StoredBlocksIs
    <3> QED
      BY <1>1, <2>1, <3>1, <3>2
  <2>2. ASSUME worker' = WorkerIs("probe", worker.model, {}, worker.queue, worker.todo, worker.got, {})
        PROVE  worker' \in WorkerStates /\ WorkerOK' /\ worker'.model = worker.model
    BY <1>1, <2>2, SoundBlocks
  <2> QED
    BY <1>1, <2>1, <2>2, EmbedBlocksIs, SoundIsolate, SoundIdle
<1> QED
  BY <1>1, <1>3, SoundWorks

LEMMA SoundProbe == ASSUME Sound, Probe PROVE Sound'
<1>1. /\ worker.pc = "probe" /\ worker.queue # <<>>
      /\ note \in [Notes -> NoteRows] /\ block \in [Notes -> Seq(BlockRows)] /\ tries \in [Notes -> Nat]
      /\ UNCHANGED <<note, schema, config, sync, provider, tries>>
      /\ \/ Isolate
         \/ worker' = IdleWorker(worker.model) /\ UNCHANGED <<block, faults>>
  BY DEF Probe, Works, Sound, Types, WorkerOK, history
<1> QED
  BY <1>1, SoundIsolate, SoundIdle, SoundWorks

LEMMA SoundEndBlocks == ASSUME Sound, EndBlocks PROVE Sound'
<1>1. /\ worker' = IdleWorker(worker.model)
      /\ note \in [Notes -> NoteRows] /\ block \in [Notes -> Seq(BlockRows)] /\ tries \in [Notes -> Nat]
      /\ UNCHANGED <<note, block, schema, config, sync, provider, tries, faults>>
  BY DEF EndBlocks, Works, Sound, Types, history, rows
<1> QED
  BY <1>1, SoundIdle, SoundWorks

LEMMA SoundStep == ASSUME Sound, MemoryOK, [Next]_vars PROVE Sound'
<1>1. CASE UNCHANGED vars \/ Hydrate
  <2>1. UNCHANGED <<note, block, schema, config, sync, worker, provider, faults, tries>>
    BY <1>1 DEF Hydrate, vars, rows, history
  <2>2. sync \in [Procs -> SUBSET Tasks]
    BY DEF Sound, Types
  <2> QED
    BY <2>1, <2>2, SoundTasks
<1>2. CASE Worker
  BY <1>2, SoundLoad, SoundEmbedChunk, SoundStoreNote, SoundEndNotes, SoundLoadBlocks,
     SoundEmbedBlocks, SoundProbe, SoundEndBlocks DEF Worker
<1>3. CASE Operator
  BY <1>3, SoundReindex, SoundClearVectors, SoundConfigure, SoundStartApi, SoundStartWorker, SoundUnblock
     DEF Operator
<1>4. CASE \E n \in Notes : \E w \in Writers : Upsert(w, n) \/ Delete(w, n)
  BY <1>4, SoundUpsert, SoundDelete
<1>5. CASE \E w \in Procs : \E t \in sync[w] : SyncBlocks(w, t) \/ SyncFails(w, t)
  BY <1>5, SoundSyncBlocks, SoundSyncFails
<1>6. CASE Outage \/ Recovery
  BY <1>6, SoundOutage
<1> QED
  BY <1>1, <1>2, <1>3, <1>4, <1>5, <1>6 DEF Next

\* What the worker's process remembers is what was committed, or read from rows.
LEMMA MemoryStep == ASSUME Sound, Sound', MemoryOK, [Next]_vars PROVE MemoryOK'
<1> DEFINE M == [content : Contents \cup {<<>>}, embedded : BOOLEAN]
<1>0. /\ memory \in [Notes -> M]
      /\ \A c \in Contents \cup {<<>>} : \A b \in BOOLEAN : Remembered(c, b) \in M
  BY DEF MemoryOK, Remembered
<1>1. CASE \/ UNCHANGED vars \/ LoadNotes \/ LoadFromMemory \/ EmbedChunk \/ EndNotes \/ LoadBlocks
           \/ EmbedBlocks \/ Probe \/ EndBlocks \/ Reindex \/ ClearVectors \/ Configure \/ StartApi
           \/ (\E n \in Notes : Unblock(n)) \/ Outage \/ Recovery
           \/ \E w \in Procs : \E t \in sync[w] : SyncBlocks(w, t) \/ SyncFails(w, t)
  <2>1. UNCHANGED memory
    BY <1>1 DEF vars, LoadNotes, LoadFromMemory, Reads, EmbedChunk, EndNotes, LoadBlocks, EmbedBlocks,
                Probe, EndBlocks, Reindex, ClearVectors, Configure, StartApi, Unblock, Outage, Recovery,
                SyncBlocks, SyncFails
  <2> QED
    BY <2>1 DEF MemoryOK
<1>2. CASE StoreNote
  <2> DEFINE n == FirstOf(worker.batch).n
  <2>1. n \in Notes
    BY <1>2, StoreNoteIs
  <2>2. memory' = IF memory[n].content = <<>> THEN memory ELSE [memory EXCEPT ![n].embedded = TRUE]
    BY <1>2 DEF StoreNote
  <2> HIDE DEF n
  <2>3. memory[n] \in M
    BY <1>0, <2>1
  <2>4. [memory[n] EXCEPT !.embedded = TRUE] \in M
    BY <2>3
  <2>5. memory' \in [Notes -> M]
    BY <1>0, <2>1, <2>2, <2>4
  <2> QED
    BY <2>5 DEF MemoryOK
<1>3. ASSUME NEW n \in Notes, NEW w \in Writers, Upsert(w, n) \/ Delete(w, n)
      PROVE  MemoryOK'
  <2>1. memory' = memory \/ \E c \in Contents \cup {<<>>} : memory' = [memory EXCEPT ![n] = Remembered(c, FALSE)]
    BY <1>3 DEF Upsert, Delete
  <2>2. memory' \in [Notes -> M]
    BY <1>0, <2>1
  <2> QED
    BY <2>2 DEF MemoryOK
<1>4. CASE StartWorker \/ Hydrate
  <2>1. memory' = [n \in Notes |-> Remembered(note'[n].content, note'[n].vec # NoVec)]
    BY <1>4 DEF StartWorker, Hydrate, FromRows, rows
  <2>2. ASSUME NEW n \in Notes
        PROVE  note'[n].content \in Contents \cup {<<>>} /\ (note'[n].vec # NoVec) \in BOOLEAN
    BY DEF Sound, Types, NoteRows
  <2>3. memory' \in [Notes -> M]
    BY <1>0, <2>1, <2>2
  <2> QED
    BY <2>3 DEF MemoryOK
<1> QED
  BY <1>1, <1>2, <1>3, <1>4 DEF Next, Worker, Operator

LEMMA MemoryInit == Init => MemoryOK
BY DEF Init, MemoryOK, Remembered

LEMMA SoundHolds == Spec => [](Sound /\ MemoryOK)
<1>1. Init => Sound /\ MemoryOK
  BY SoundInit, MemoryInit
<1>2. Sound /\ MemoryOK /\ [Next]_vars => (Sound /\ MemoryOK)'
  BY SoundStep, MemoryStep
<1> QED
  BY <1>1, <1>2, PTL DEF Spec

(* Rows, tasks and the worker have their types for all contents: a note     *)
(* that is gone leaves no blocks, and no process aligns the schema with a   *)
(* model newer than the configuration.                                      *)
THEOREM TypeCorrect == Spec => []TypeOK
<1>1. ASSUME Sound, MemoryOK PROVE TypeOK
  <2>1. ASSUME NEW n \in Notes
        PROVE  /\ note[n].content \in Contents \cup {<<>>} /\ note[n].fails \in Nat
               /\ note[n].vec.of \in Seq(Parts) /\ note[n].vec.model \in 0..MaxModel
               /\ ~ Row(n) => block[n] = <<>>
               /\ \A i \in DOMAIN block[n] : block[n][i].part \in Parts /\ block[n][i].fails \in Nat
               /\ memory[n].content \in Contents \cup {<<>>} /\ memory[n].embedded \in BOOLEAN
    <3>1. note[n] \in NoteRows /\ block[n] \in Seq(BlockRows) /\ (~ Row(n) => block[n] = <<>>)
      BY <1>1 DEF Sound, Types, RowsOK
    <3>2. \A i \in DOMAIN block[n] : block[n][i] \in BlockRows
      BY <3>1
    <3>3. memory[n] \in [content : Contents \cup {<<>>}, embedded : BOOLEAN]
      BY <1>1 DEF MemoryOK
    <3> QED
      BY <3>1, <3>2, <3>3 DEF NoteRows, BlockRows, Vecs
  <2>2. worker.model \in 1..config
    BY <1>1, WorkerFields, Numbers DEF Sound, Types
  <2>3. \A w \in Procs : \A t \in sync[w] : t.n \in Notes /\ t.content \in Contents
    BY <1>1 DEF Sound, Types, Tasks
  <2> QED
    BY <1>1, <2>1, <2>2, <2>3, WorkerFields DEF Sound, Types, WorkerOK, TypeOK
<1> QED
  BY <1>1, SoundHolds, PTL
-----------------------------------------------------------------------------
(* Reads are paid for.                                                      *)

LEMMA PaidNumbers ==
  ASSUME Sound, NEW n \in Notes
  PROVE  /\ note[n].fails \in Nat /\ tries[n] \in Nat /\ faults \in Nat
         /\ worker.model \in Nat /\ worker.model >= 1 /\ MaxFailures \in Nat /\ MaxFailures > 0
         /\ Slack \in Nat /\ Slack = faults + worker.model - 1
BY WorkerFields, Numbers DEF Sound, Types, NoteRows, Slack

LEMMA PaidZero ==
  ASSUME Sound', NEW n \in Notes, tries'[n] = 0
  PROVE  Paid(n)'
<1>1. Slack' \in Nat /\ MaxFailures \in Nat /\ note'[n].fails \in Nat
  <2>1. worker'.model \in 1..MaxModel /\ faults' \in Nat /\ note'[n].fails \in Nat
    BY DEF Sound, Types, WorkerStates, NoteRows
  <2> QED
    BY <2>1, Numbers DEF Slack
<1>2. \A a, b, c \in Nat : 0 <= a + b /\ 0 <= b /\ 0 <= c + 1 + b /\ 0 <= c + 0 + b
  OBVIOUS
<1>3. /\ 0 <= MaxFailures + Slack' /\ 0 <= Slack'
      /\ 0 <= note'[n].fails + 1 + Slack' /\ 0 <= note'[n].fails + 0 + Slack'
  BY <1>1, <1>2
<1>4. 0 <= note'[n].fails + (IF Reading(n)' THEN 1 ELSE 0) + Slack'
  <2>1. CASE Reading(n)'
    BY <1>3, <2>1
  <2>2. CASE ~ Reading(n)'
    BY <1>3, <2>2
  <2> QED
    BY <2>1, <2>2
<1> QED
  BY <1>3, <1>4 DEF Paid

LEMMA PaidStays ==
  ASSUME Sound, NEW n \in Notes, Paid(n), Slack' \in Nat, Slack' >= Slack,
         note'[n].content = note[n].content, note'[n].fails = note[n].fails,
         note'[n].vec = note[n].vec, tries'[n] = tries[n],
         (Reading(n) => Reading(n)') \/ Slack' >= Slack + 1
  PROVE  Paid(n)'
<1>1. /\ note[n].fails \in Nat /\ tries[n] \in Nat /\ Slack \in Nat /\ MaxFailures \in Nat
  BY PaidNumbers
<1>2. tries[n] <= MaxFailures + Slack' /\ (~ Row(n) => tries[n] <= Slack')
  BY <1>1 DEF Paid
<1>3. Row(n)' <=> Row(n)
  BY DEF Row
<1>4. ASSUME Row(n), note[n].vec = NoVec
      PROVE  tries[n] <= note[n].fails + (IF Reading(n)' THEN 1 ELSE 0) + Slack'
  <2>1. tries[n] <= note[n].fails + (IF Reading(n) THEN 1 ELSE 0) + Slack
    BY <1>4 DEF Paid
  <2>2. CASE Reading(n)
    BY <1>1, <2>1, <2>2
  <2>3. CASE ~ Reading(n)
    BY <1>1, <2>1, <2>3
  <2> QED
    BY <2>2, <2>3
<1> QED
  BY <1>2, <1>3, <1>4 DEF Paid

LEMMA SlackGrows ==
  ASSUME Sound, Sound'
  PROVE  /\ Slack' \in Nat
         /\ worker'.model = worker.model =>
              /\ faults' = faults => Slack' = Slack
              /\ faults' = faults + 1 => Slack' = Slack + 1
<1>1. faults \in Nat /\ worker.model \in Nat /\ worker.model >= 1
  BY WorkerFields DEF Sound, Types
<1>2. faults' \in Nat /\ worker'.model \in 1..MaxModel
  BY DEF Sound, Types, WorkerStates
<1> QED
  BY <1>1, <1>2, Numbers DEF Slack

\* Steps that leave the notes alone, and what the worker has read of them.
LEMMA PaidAside ==
  ASSUME Sound, Sound', NEW n \in Notes, Paid(n), worker'.model = worker.model,
         faults' = faults \/ faults' = faults + 1,
         note'[n] = note[n], tries'[n] = tries[n],
         worker'.batch = worker.batch, worker'.failed = worker.failed
  PROVE  Paid(n)'
<1>1. Reading(n)' <=> Reading(n)
  BY DEF Reading
<1>2. Slack' \in Nat /\ Slack \in Nat /\ Slack' >= Slack
  BY SlackGrows, PaidNumbers
<1> QED
  BY <1>1, <1>2, PaidStays

LEMMA PaidCommit ==
  ASSUME Sound, Sound', NEW n \in Notes, \E w \in Writers : Upsert(w, n) \/ Delete(w, n),
         NEW m \in Notes, Paid(m)
  PROVE  Paid(m)'
<1>1. UNCHANGED <<worker, faults>>
  BY DEF Upsert, Delete
<1>2. CASE m = n
  <2>1. tries'[n] = 0
    BY DEF Upsert, Delete, Sound, Types
  <2> QED
    BY <1>2, <2>1, PaidZero
<1>3. CASE m # n
  <2>1. note'[m] = note[m] /\ tries'[m] = tries[m]
    BY <1>3 DEF Upsert, Delete, Sound, Types
  <2> QED
    BY <1>1, <2>1, PaidAside
<1> QED
  BY <1>2, <1>3

LEMMA PaidUnblock ==
  ASSUME Sound, Sound', NEW n \in Notes, Unblock(n), NEW m \in Notes, Paid(m)
  PROVE  Paid(m)'
<1>1. Unblocked(n) /\ tries' = [tries EXCEPT ![n] = 0] /\ UNCHANGED <<worker, faults>>
  BY DEF Unblock
<1>2. tries'[n] = 0 /\ \A k \in Notes \ {n} : tries'[k] = tries[k]
  BY <1>1 DEF Sound, Types
<1>3. \A k \in Notes \ {n} : note'[k] = note[k]
  BY <1>1, UnblockedIsUnblocked DEF Sound
<1> QED
  BY <1>1, <1>2, <1>3, PaidZero, PaidAside

LEMMA PaidClear ==
  ASSUME Sound, Sound', ClearVectors, NEW n \in Notes
  PROVE  Paid(n)'
<1>1. tries'[n] = 0
  BY DEF ClearVectors
<1> QED
  BY <1>1, PaidZero

LEMMA PaidStart ==
  ASSUME Sound, Sound', StartApi \/ StartWorker, NEW n \in Notes, Paid(n)
  PROVE  Paid(n)'
<1>1. Align /\ config' = config
  BY DEF StartApi, StartWorker
<1>2. \/ note' = note /\ tries' = tries
      \/ tries'[n] = 0
  BY <1>1, Aligned
<1>3. CASE tries'[n] = 0
  BY <1>3, PaidZero
<1>4. CASE StartApi /\ note' = note /\ tries' = tries
  BY <1>4, PaidAside DEF StartApi
<1>5. CASE StartWorker /\ note' = note /\ tries' = tries
  <2>1. worker' = IdleWorker(config) /\ ((worker.model # config /\ faults' = faults) \/ faults' = faults + 1)
    BY <1>5 DEF StartWorker, Fault
  <2>2. config \in 1..MaxModel /\ config \in Nat /\ worker.model \in Nat /\ worker.model <= config
    BY WorkerFields, Numbers DEF Sound, Types
  <2>3. worker'.model = config /\ worker'.batch = {} /\ worker'.failed = {}
    BY <2>1 DEF IdleWorker
  <2>4. faults \in Nat
    BY PaidNumbers
  <2>5. Slack' \in Nat /\ Slack' >= Slack + 1 /\ Slack \in Nat
    BY <2>1, <2>2, <2>3, <2>4, SlackGrows, PaidNumbers DEF Slack
  <2>6. tries'[n] = tries[n] /\ note'[n] = note[n] /\ Slack' >= Slack
    BY <1>5, <2>5
  <2> QED
    BY <2>5, <2>6, PaidStays
<1> QED
  BY <1>2, <1>3, <1>4, <1>5
LEMMA PaidLoad ==
  ASSUME Sound, MemoryOK, Sound', LoadNotes \/ LoadFromMemory, NEW n \in Notes, Paid(n)
  PROVE  Paid(n)'
<1>1. PICK batch \in SUBSET Tasks :
        /\ Reads(batch)
        /\ \/ /\ faults' = faults
              /\ \A e \in batch : Row(e.n) /\ note[e.n].vec = NoVec /\ note[e.n].fails < MaxFailures
           \/ faults' = faults + 1
  BY LoadIs
<1>2. /\ worker.pc = "idle" /\ note' = note
      /\ worker' = WorkerIs("note", worker.model, batch, worker.queue, TodoOf(batch), worker.got, worker.failed)
  BY <1>1, ReadsIs, LoadIs
<1>3. tries'[n] = IF \E e \in batch : e.n = n THEN tries[n] + 1 ELSE tries[n]
  BY <1>1 DEF Reads
<1>4. ~ Reading(n) /\ worker.failed = {}
  BY <1>2 DEF Sound, WorkerOK, Reading
<1>5. worker'.batch = batch /\ worker'.failed = {} /\ worker'.model = worker.model
  BY <1>2, <1>4 DEF WorkerIs
<1>6. Reading(n)' <=> \E e \in batch : e.n = n
  BY <1>5 DEF Reading
<1>7. /\ faults' = faults => Slack' = Slack
      /\ faults' = faults + 1 => Slack' = Slack + 1
      /\ Slack' \in Nat /\ Slack \in Nat
      /\ note[n].fails \in Nat /\ tries[n] \in Nat /\ MaxFailures \in Nat
  BY <1>5, SlackGrows, PaidNumbers
<1>8. /\ tries[n] <= MaxFailures + Slack /\ (~ Row(n) => tries[n] <= Slack)
      /\ Row(n) /\ note[n].vec = NoVec => tries[n] <= note[n].fails + Slack
  BY <1>4, <1>7 DEF Paid
<1>9. Row(n)' <=> Row(n)
  BY <1>2 DEF Row
<1>10. CASE ~ \E e \in batch : e.n = n
  <2>1. Slack' >= Slack /\ tries'[n] = tries[n] /\ note'[n] = note[n]
    BY <1>1, <1>2, <1>3, <1>7, <1>10
  <2> QED
    BY <1>4, <1>7, <2>1, PaidStays
<1>11. CASE (\E e \in batch : e.n = n) /\ faults' = faults + 1
  <2>1. tries'[n] = tries[n] + 1 /\ Slack' = Slack + 1
    BY <1>3, <1>7, <1>11
  <2>2. /\ tries'[n] <= MaxFailures + Slack' /\ (~ Row(n) => tries'[n] <= Slack')
        /\ Row(n) /\ note[n].vec = NoVec => tries'[n] <= note[n].fails + 1 + Slack'
    BY <1>7, <1>8, <2>1
  <2> QED
    BY <1>2, <1>6, <1>9, <1>11, <2>2 DEF Paid
<1>12. CASE /\ \E e \in batch : e.n = n
            /\ faults' = faults /\ Row(n) /\ note[n].vec = NoVec /\ note[n].fails < MaxFailures
  <2>1. tries'[n] = tries[n] + 1 /\ Slack' = Slack
    BY <1>3, <1>7, <1>12
  <2>2. tries'[n] <= MaxFailures + Slack' /\ tries'[n] <= note[n].fails + 1 + Slack'
    BY <1>7, <1>8, <1>12, <2>1
  <2> QED
    BY <1>2, <1>6, <1>9, <1>12, <2>2 DEF Paid
<1> QED
  BY <1>1, <1>10, <1>11, <1>12

\* On to the next note: those with an entry still have one, or have failed.
LEMMA ReadingOn ==
  ASSUME Sound, worker.pc = "note", worker.batch # {}, NEW failed \in SUBSET {FirstOf(worker.batch).n},
         worker' = NextNote(failed), NEW n
  PROVE  /\ worker'.model = worker.model /\ (Reading(n)' => Reading(n))
         /\ n # FirstOf(worker.batch).n \/ failed # {} => (Reading(n)' <=> Reading(n))
<1>1. /\ FirstOf(worker.batch) \in worker.batch
      /\ worker'.model = worker.model /\ worker'.batch = worker.batch \ {FirstOf(worker.batch)}
      /\ worker'.failed = worker.failed \cup failed
  BY NextNoteIs DEF Sound, WorkerIs
<1> QED
  BY <1>1 DEF Reading

LEMMA PaidEmbed ==
  ASSUME Sound, Sound', EmbedChunk, NEW n \in Notes, Paid(n)
  PROVE  Paid(n)'
<1>1. UNCHANGED <<note, faults, tries>> /\ worker.pc = "note" /\ worker.batch # {}
  BY EmbedChunkIs DEF EmbedChunk, rows
<1>2. CASE worker' = NextNote({FirstOf(worker.batch).n})
  <2>1. worker'.model = worker.model /\ (Reading(n)' <=> Reading(n))
    BY <1>1, <1>2, ReadingOn
  <2>2. Slack' = Slack /\ Slack \in Nat
    BY <1>1, <2>1, SlackGrows, PaidNumbers
  <2> QED
    BY <1>1, <2>1, <2>2, PaidStays
<1>3. ASSUME NEW got, worker' = WorkerIs("note", worker.model, worker.batch, worker.queue,
                                         Tail(worker.todo), got, worker.failed)
      PROVE  Paid(n)'
  <2>1. worker'.model = worker.model /\ worker'.batch = worker.batch /\ worker'.failed = worker.failed
    BY <1>3 DEF WorkerIs
  <2> QED
    BY <1>1, <2>1, PaidAside
<1> QED
  BY <1>2, <1>3, EmbedChunkIs

LEMMA PaidStore ==
  ASSUME Sound, Sound', StoreNote, NEW n \in Notes, Paid(n)
  PROVE  Paid(n)'
<1> DEFINE k == FirstOf(worker.batch).n
<1>1. /\ worker.pc = "note" /\ worker.batch # {} /\ worker' = NextNote({})
      /\ k \in Notes /\ FirstOf(worker.batch) \in worker.batch
      /\ \A m \in Notes \ {k} : note'[m] = note[m]
      /\ \/ Row(k) /\ note'[k].vec # NoVec /\ note'[k].fails = 0 /\ faults' = faults
         \/ ~ Row(k) /\ note' = note /\ faults' = faults
         \/ note' = note /\ faults' = faults + 1
      /\ tries' = tries
  BY StoreNoteIs
<1>2. /\ worker'.model = worker.model /\ (Reading(n)' => Reading(n))
      /\ n # k => (Reading(n)' <=> Reading(n))
  BY <1>1, ReadingOn
<1>3. /\ faults' = faults => Slack' = Slack
      /\ faults' = faults + 1 => Slack' = Slack + 1
      /\ Slack' \in Nat /\ Slack \in Nat
      /\ note[n].fails \in Nat /\ tries[n] \in Nat /\ MaxFailures \in Nat /\ MaxFailures > 0
  BY <1>2, SlackGrows, PaidNumbers
<1>4. Slack' >= Slack
  BY <1>1, <1>3
<1>5. note'[n].content = note[n].content
  BY StoreNoteIs
<1>6. Row(n)' <=> Row(n)
  BY <1>5 DEF Row
<1>7. tries[n] <= MaxFailures + Slack /\ (~ Row(n) => tries[n] <= Slack)
  BY DEF Paid
<1>8. CASE n # k
  BY <1>1, <1>2, <1>3, <1>4, <1>8, PaidStays
<1>9. CASE n = k /\ Row(k) /\ note'[k].vec # NoVec /\ faults' = faults
  BY <1>1, <1>3, <1>6, <1>7, <1>9 DEF Paid
<1>10. CASE n = k /\ ~ Row(k) /\ note' = note /\ faults' = faults
  BY <1>1, <1>3, <1>6, <1>7, <1>10 DEF Paid
<1>11. CASE n = k /\ note' = note /\ faults' = faults + 1
  <2>1. Slack' >= Slack + 1 /\ tries'[n] = tries[n] /\ note'[n] = note[n]
    BY <1>1, <1>3, <1>11
  <2> QED
    BY <1>3, <1>4, <2>1, PaidStays
<1> QED
  BY <1>1, <1>8, <1>9, <1>10, <1>11

LEMMA PaidEnd ==
  ASSUME Sound, Sound', EndNotes, NEW n \in Notes, Paid(n)
  PROVE  Paid(n)'
<1>1. PICK recorded \in SUBSET worker.failed :
        /\ note' = FailedNotes(recorded) /\ recorded \in SUBSET Notes
        /\ (recorded = worker.failed /\ faults' = faults) \/ faults' = faults + 1
  BY EndNotesIs
<1>2. worker.batch = {} /\ worker' = IdleWorker(worker.model) /\ tries' = tries
  BY EndNotesIs
<1>3. worker'.model = worker.model /\ worker'.batch = {} /\ worker'.failed = {}
  BY <1>2 DEF IdleWorker
<1>4. ~ Reading(n)' /\ (Reading(n) <=> n \in worker.failed)
  BY <1>2, <1>3 DEF Reading
<1>5. /\ faults' = faults => Slack' = Slack
      /\ faults' = faults + 1 => Slack' = Slack + 1
      /\ Slack' \in Nat /\ Slack \in Nat
      /\ note[n].fails \in Nat /\ tries[n] \in Nat /\ MaxFailures \in Nat
  BY <1>3, SlackGrows, PaidNumbers
<1>6. /\ note'[n].content = note[n].content /\ note'[n].vec = note[n].vec
      /\ note'[n].fails = IF n \in recorded /\ Row(n) THEN note[n].fails + 1 ELSE note[n].fails
  BY <1>1, FailedNotesIs DEF Sound, Types
<1>7. (Row(n)' <=> Row(n)) /\ Slack' >= Slack
  BY <1>1, <1>5, <1>6 DEF Row
<1>8. CASE n \in recorded /\ Row(n)
  <2>1. note'[n].fails = note[n].fails + 1 /\ tries'[n] = tries[n]
    BY <1>2, <1>6, <1>8
  <2>2. tries[n] <= MaxFailures + Slack /\ (note[n].vec = NoVec => tries[n] <= note[n].fails + 1 + Slack)
    BY <1>1, <1>4, <1>8 DEF Paid
  <2>3. /\ tries'[n] <= MaxFailures + Slack'
        /\ note'[n].vec = NoVec => tries'[n] <= note'[n].fails + 0 + Slack'
    BY <1>5, <1>6, <1>7, <2>1, <2>2
  <2> QED
    BY <1>4, <1>7, <1>8, <2>3 DEF Paid
<1>9. CASE ~ Row(n)
  <2>1. tries[n] <= MaxFailures + Slack /\ tries[n] <= Slack /\ tries'[n] = tries[n]
    BY <1>2, <1>9 DEF Paid
  <2>2. tries'[n] <= MaxFailures + Slack' /\ tries'[n] <= Slack'
    BY <1>5, <1>7, <2>1
  <2> QED
    BY <1>7, <1>9, <2>2 DEF Paid
<1>10. CASE n \notin recorded
  <2>1. note'[n].fails = note[n].fails /\ tries'[n] = tries[n]
    BY <1>2, <1>6, <1>10
  <2>2. (Reading(n) => Reading(n)') \/ Slack' >= Slack + 1
    BY <1>1, <1>4, <1>5, <1>10
  <2> QED
    BY <1>5, <1>6, <1>7, <2>1, <2>2, PaidStays
<1> QED
  BY <1>8, <1>9, <1>10

\* Steps that ask for blocks.
LEMMA PaidBlocks ==
  ASSUME Sound, Sound', LoadBlocks \/ EmbedBlocks \/ Probe \/ EndBlocks, NEW n \in Notes, Paid(n)
  PROVE  Paid(n)'
<1>1. /\ UNCHANGED <<note, tries>> /\ worker.pc # "note" /\ worker.batch = {} /\ worker.failed = {}
      /\ faults' = faults \/ faults' = faults + 1
  <2>1. CASE LoadBlocks
    BY <2>1 DEF LoadBlocks, Fault, Sound, WorkerOK, rows, history
  <2>2. CASE EmbedBlocks
    BY <2>2, EmbedBlocksIs, IsolateIs DEF Sound, WorkerOK
  <2>3. CASE Probe
    BY <2>3, IsolateIs DEF Probe, Sound, WorkerOK, history
  <2>4. CASE EndBlocks
    BY <2>4 DEF EndBlocks, Sound, WorkerOK, rows, history
  <2> QED
    BY <2>1, <2>2, <2>3, <2>4
<1>2. ASSUME worker.queue # <<>>, Isolate
      PROVE  worker'.batch = {} /\ worker'.failed = {} /\ worker'.model = worker.model
  BY <1>1, <1>2, IsolateIs DEF WorkerIs
<1>3. worker'.batch = {} /\ worker'.failed = {} /\ worker'.model = worker.model
  <2>1. CASE LoadBlocks
    BY <2>1, LoadBlocksIs DEF WorkerIs
  <2>2. CASE EmbedBlocks
    BY <1>2, <2>2, EmbedBlocksIs DEF WorkerIs, IdleWorker
  <2>3. CASE Probe
    BY <1>2, <2>3 DEF Probe, Works, IdleWorker, Sound, WorkerOK
  <2>4. CASE EndBlocks
    BY <2>4 DEF EndBlocks, Works, IdleWorker
  <2> QED
    BY <2>1, <2>2, <2>3, <2>4
<1> QED
  BY <1>1, <1>3, PaidAside

LEMMA PaidStep ==
  ASSUME Sound, MemoryOK, Sound', [Next]_vars, NEW n \in Notes, Paid(n)
  PROVE  Paid(n)'
<1>1. CASE UNCHANGED vars \/ Hydrate
  BY <1>1, PaidAside DEF Hydrate, vars, rows, history
<1>2. CASE Worker
  BY <1>2, PaidLoad, PaidEmbed, PaidStore, PaidEnd, PaidBlocks DEF Worker
<1>3. CASE Operator
  <2>1. CASE Reindex \/ Configure
    BY <2>1, PaidAside DEF Reindex, Configure, rows, history
  <2> QED
    BY <1>3, <2>1, PaidClear, PaidStart, PaidUnblock DEF Operator
<1>4. CASE \E k \in Notes : \E w \in Writers : Upsert(w, k) \/ Delete(w, k)
  BY <1>4, PaidCommit
<1>5. CASE \E w \in Procs : \E t \in sync[w] : SyncBlocks(w, t) \/ SyncFails(w, t)
  BY <1>5, PaidAside DEF SyncBlocks, SyncFails, Fault, rows
<1>6. CASE Outage \/ Recovery
  BY <1>6, PaidAside DEF Outage, Recovery, Fault, rows, history
<1> QED
  BY <1>1, <1>2, <1>3, <1>4, <1>5, <1>6 DEF Next
-----------------------------------------------------------------------------
(* Blame.                                                                   *)

LEMMA BlockNumbers ==
  ASSUME Sound, NEW n \in Notes, NEW i \in DOMAIN block[n]
  PROVE  block[n][i].fails \in Nat /\ faults \in Nat /\ (provider # "up" => faults > 0)
<1>1. block[n] \in Seq(BlockRows)
  BY DEF Sound, Types
<1>2. block[n][i] \in BlockRows
  BY <1>1
<1> QED
  BY <1>2 DEF Sound, Types, BlockRows

LEMMA AskedIsInHand ==
  ASSUME NEW n, ~ InHand(n)
  PROVE  \A e \in Asked(worker.queue) : e.n # n
BY DEF InHand, Asked

LEMMA EntryIsAsked ==
  ASSUME Sound, worker.queue # <<>>, NEW n, NEW i, NEW e \in Entry(n, i)
  PROVE  e \in Asked(worker.queue) /\ e \in Batch /\ e.n = n /\ e.i = i
BY WorkerFields, AskedOfTail DEF Sound, Entry, Batch

\* Texts stay, and failures are cleared at most.
LEMMA BlameStays ==
  ASSUME Sound, Sound', NEW n \in Notes, TextsOK(n), BlameOK(n),
         Asked(worker'.queue) \subseteq Asked(worker.queue),
         worker'.pc = "probe" => worker.pc = "probe" /\ worker'.queue = worker.queue,
         faults' = faults \/ faults' = faults + 1,
         provider' # "up" => provider # "up" \/ faults' = faults + 1,
         DOMAIN block'[n] = DOMAIN block[n],
         \A i \in DOMAIN block[n] : /\ block'[n][i].part = block[n][i].part
                                    /\ block'[n][i] = block[n][i] \/ block'[n][i].fails = 0
  PROVE  TextsOK(n)' /\ BlameOK(n)'
<1>1. TextsOK(n)'
  BY DEF TextsOK
<1>2. ASSUME NEW i \in DOMAIN block[n], block[n][i].part \notin Poison
      PROVE  /\ block'[n][i].fails <= faults'
             /\ provider' # "up" => block'[n][i].fails < faults'
             /\ worker'.pc = "probe" /\ Entry(n, i)' # {} => block'[n][i].fails < faults'
  <2>1. /\ block[n][i].fails \in Nat /\ faults \in Nat /\ faults' \in Nat /\ faults' >= faults
        /\ block'[n][i].fails \in {block[n][i].fails, 0}
    BY BlockNumbers
  <2>2. /\ block[n][i].fails <= faults
        /\ provider # "up" => block[n][i].fails < faults
        /\ worker.pc = "probe" /\ Entry(n, i) # {} => block[n][i].fails < faults
    BY <1>2 DEF BlameOK
  <2>3. worker'.pc = "probe" => Entry(n, i)' = Entry(n, i)
    BY DEF Entry, Batch
  <2>4. block'[n][i].fails <= faults'
    BY <2>1, <2>2
  <2>5. provider' # "up" => block'[n][i].fails < faults'
    BY <2>1, <2>2
  <2>6. worker'.pc = "probe" /\ Entry(n, i)' # {} => block'[n][i].fails < faults'
    BY <2>1, <2>2, <2>3
  <2> QED
    BY <2>4, <2>5, <2>6
<1>3. BlameOK(n)'
  BY <1>2 DEF BlameOK
<1> QED
  BY <1>1, <1>3

\* Steps of the others that leave the blocks of n alone.
LEMMA BlameAside ==
  ASSUME Sound, Sound', NEW n \in Notes, TextsOK(n), BlameOK(n), block'[n] = block[n],
         UNCHANGED worker, faults' = faults \/ faults' = faults + 1,
         provider' = provider \/ provider' = "up" \/ faults' = faults + 1
  PROVE  TextsOK(n)' /\ BlameOK(n)'
BY BlameStays

LEMMA BlameDelete ==
  ASSUME Sound, Sound', NEW w \in Writers, NEW n \in Notes, Delete(w, n), NEW m \in Notes \ disturbed',
         m \notin disturbed => TextsOK(m) /\ BlameOK(m)
  PROVE  TextsOK(m)' /\ BlameOK(m)'
<1>1. /\ UNCHANGED <<worker, faults, provider>> /\ disturbed' = disturbed \ {n}
      /\ block' = [block EXCEPT ![n] = <<>>]
  BY DEF Delete
<1>2. CASE m = n
  <2>1. DOMAIN block'[m] = {}
    BY <1>1, <1>2 DEF Sound, Types
  <2> QED
    BY <2>1 DEF TextsOK, BlameOK
<1>3. CASE m # n
  <2>1. block'[m] = block[m] /\ m \notin disturbed
    BY <1>1, <1>3 DEF Sound, Types
  <2> QED
    BY <1>1, <2>1, BlameAside
<1> QED
  BY <1>2, <1>3

LEMMA BlameSync ==
  ASSUME Sound, Sound', NEW w \in Procs, NEW t \in sync[w], SyncBlocks(w, t),
         NEW n \in Notes \ disturbed', TextsOK(n), BlameOK(n)
  PROVE  TextsOK(n)' /\ BlameOK(n)'
<1>1. UNCHANGED <<worker, faults, provider>> /\ t \in Tasks
  BY DEF SyncBlocks, Sound, Types
<1>2. CASE n = t.n /\ Row(n)
  <2>1. ~ InHand(n)
    BY <1>2 DEF SyncBlocks
  <2>2. \A e \in Asked(worker.queue) : e.n # n
    BY <2>1, AskedIsInHand
  <2>3. TextsOK(n)'
    BY <1>1, <2>2 DEF TextsOK
  <2> DEFINE new == SyncedBlocks(block[n], t.content)
  <2>4. block'[n] = new
    BY <1>2 DEF SyncBlocks, Sound, Types
  <2>5. \A i \in DOMAIN new : (i \in DOMAIN block[n] /\ new[i] = block[n][i]) \/ new[i].fails = 0
    <3>1. block[n] \in Seq(BlockRows) /\ t.content \in Contents
      BY <1>1 DEF Sound, Types, Tasks
    <3> QED
      BY <3>1, SyncedIsSynced
  <2> HIDE DEF new
  <2>6. faults \in Nat /\ (provider # "up" => faults > 0)
    BY DEF Sound, Types
  <2>7. ASSUME worker.pc = "probe", NEW i PROVE Entry(n, i)' = {}
    <3>1. Entry(n, i) = {}
      BY <2>2, <2>7, EntryIsAsked DEF Sound, WorkerOK
    <3> QED
      BY <1>1, <3>1 DEF Entry, Batch
  <2>8. ASSUME NEW i \in DOMAIN new, new[i].part \notin Poison
        PROVE  new[i].fails <= faults /\ (provider # "up" => new[i].fails < faults)
    <3>1. CASE i \in DOMAIN block[n] /\ new[i] = block[n][i]
      BY <2>8, <3>1 DEF BlameOK
    <3>2. CASE new[i].fails = 0
      BY <2>6, <3>2
    <3> QED
      BY <2>5, <3>1, <3>2
  <2>9. BlameOK(n)'
    BY <1>1, <2>4, <2>7, <2>8 DEF BlameOK
  <2> QED
    BY <2>3, <2>9
<1>3. CASE ~ (n = t.n /\ Row(n))
  <2>1. block'[n] = block[n]
    BY <1>1, <1>3 DEF SyncBlocks, Sound, Types, Tasks
  <2> QED
    BY <1>1, <2>1, BlameAside
<1> QED
  BY <1>2, <1>3

LEMMA BlameStart ==
  ASSUME Sound, Sound', StartApi \/ StartWorker, NEW n \in Notes, TextsOK(n), BlameOK(n)
  PROVE  TextsOK(n)' /\ BlameOK(n)'
<1>1. /\ Align /\ config' = config /\ provider' = provider
      /\ faults' = faults \/ faults' = faults + 1
      /\ worker' = worker \/ worker' = IdleWorker(config)
  BY DEF StartApi, StartWorker, Fault
<1>2. /\ DOMAIN block'[n] = DOMAIN block[n]
      /\ \A i \in DOMAIN block[n] : /\ block'[n][i].part = block[n][i].part
                                    /\ block'[n][i] = block[n][i] \/ block'[n][i].fails = 0
  BY <1>1, Aligned
<1>3. /\ Asked(worker'.queue) \subseteq Asked(worker.queue)
      /\ worker'.pc = "probe" => worker.pc = "probe" /\ worker'.queue = worker.queue
  BY <1>1 DEF IdleWorker, Asked
<1> QED
  BY <1>1, <1>2, <1>3, BlameStays

LEMMA BlameUnblock ==
  ASSUME Sound, Sound', NEW m \in Notes, Unblock(m), NEW n \in Notes, TextsOK(n), BlameOK(n)
  PROVE  TextsOK(n)' /\ BlameOK(n)'
<1>1. Unblocked(m) /\ UNCHANGED <<worker, provider, faults>>
  BY DEF Unblock
<1>2. /\ DOMAIN block'[n] = DOMAIN block[n]
      /\ \A i \in DOMAIN block[n] : /\ block'[n][i].part = block[n][i].part
                                    /\ block'[n][i] = block[n][i] \/ block'[n][i].fails = 0
  BY <1>1, UnblockedIsUnblocked DEF Sound
<1> QED
  BY <1>1, <1>2, BlameStays

\* Steps of the worker about notes.
LEMMA BlameNotes ==
  ASSUME Sound, MemoryOK, Sound', LoadNotes \/ LoadFromMemory \/ EmbedChunk \/ StoreNote \/ EndNotes,
         NEW n \in Notes, TextsOK(n), BlameOK(n)
  PROVE  TextsOK(n)' /\ BlameOK(n)'
<1>1. UNCHANGED <<block, provider>> /\ (faults' = faults \/ faults' = faults + 1)
  BY LoadIs DEF EmbedChunk, StoreNote, EndNotes, Fault, rows
<1>2. worker'.pc # "probe" /\ (worker'.queue = worker.queue \/ worker'.queue = <<>>)
  <2>1. CASE LoadNotes \/ LoadFromMemory
    BY <2>1, LoadIs, ReadsIs DEF WorkerIs
  <2>2. ASSUME worker.pc = "note", worker.batch # {}, NEW failed \in SUBSET {FirstOf(worker.batch).n},
               worker' = NextNote(failed)
        PROVE  worker'.pc = "note" /\ worker'.queue = worker.queue
    BY <2>2, NextNoteIs DEF Sound, WorkerIs
  <2>3. CASE EmbedChunk
    BY <2>2, <2>3, EmbedChunkIs DEF WorkerIs
  <2>4. CASE StoreNote
    BY <2>2, <2>4, StoreNoteIs
  <2>5. CASE EndNotes
    BY <2>5 DEF EndNotes, Works, IdleWorker
  <2> QED
    BY <2>1, <2>3, <2>4, <2>5
<1>3. Asked(worker'.queue) \subseteq Asked(worker.queue)
  BY <1>2 DEF Asked
<1> QED
  BY <1>1, <1>2, <1>3, BlameStays

LEMMA BlameLoad ==
  ASSUME Sound, Sound', LoadBlocks, NEW n \in Notes, BlameOK(n)
  PROVE  TextsOK(n)' /\ BlameOK(n)'
<1> DEFINE batch == First(BatchSize, PendingBlocks)
<1>1. /\ \A e \in batch : e.i \in DOMAIN block[e.n] /\ e.part = block[e.n][e.i].part
      /\ worker' = WorkerIs("block", worker.model, {}, <<batch>>, worker.todo, worker.got, {})
      /\ UNCHANGED <<block, provider>> /\ (faults' = faults \/ faults' = faults + 1)
  BY LoadBlocksIs DEF LoadBlocks, Fault, rows
<1> HIDE DEF batch
<1>2. worker'.pc = "block" /\ worker'.queue = <<batch>>
  BY <1>1 DEF WorkerIs
<1>3. Asked(worker'.queue) = batch
  BY <1>2 DEF Asked
<1>4. TextsOK(n)'
  BY <1>1, <1>3 DEF TextsOK
<1>5. ASSUME NEW i \in DOMAIN block[n], block[n][i].part \notin Poison
      PROVE  /\ block[n][i].fails <= faults' /\ (provider # "up" => block[n][i].fails < faults')
  <2>1. block[n][i].fails \in Nat /\ faults \in Nat
    BY BlockNumbers
  <2> QED
    BY <1>1, <1>5, <2>1 DEF BlameOK
<1>6. BlameOK(n)'
  BY <1>1, <1>2, <1>5 DEF BlameOK
<1> QED
  BY <1>4, <1>6

\* The one block that is blamed is the provider's reason, or it is up.
LEMMA BlameIsolate ==
  ASSUME Sound, Sound', worker.queue # <<>>, worker.pc # "note", Isolate, UNCHANGED provider,
         (\E e \in Batch : e.part \in Poison) \/ (worker.pc = "probe" /\ provider = "up"),
         NEW n \in Notes, TextsOK(n), BlameOK(n)
  PROVE  TextsOK(n)' /\ BlameOK(n)'
<1>1. PICK queue \in Seq(SUBSET Entries) :
        /\ Asked(queue) \subseteq Asked(worker.queue)
        /\ worker' = WorkerIs("block", worker.model, {}, queue, worker.todo, worker.got, {})
  BY IsolateIs
<1>2. worker'.pc = "block" /\ Asked(worker'.queue) \subseteq Asked(worker.queue)
  BY <1>1 DEF WorkerIs
<1>3. CASE UNCHANGED block /\ (faults' = faults \/ faults' = faults + 1)
  BY <1>2, <1>3, BlameStays
<1>4. CASE block' = FailedBlock /\ faults' = faults /\ \A e, f \in Batch : e = f
  <2>1. /\ DOMAIN block'[n] = DOMAIN block[n]
        /\ \A i \in DOMAIN block[n] :
             /\ block'[n][i].part = block[n][i].part
             /\ block'[n][i].fails = IF Entry(n, i) = {} THEN block[n][i].fails ELSE block[n][i].fails + 1
    BY <1>4, FailedBlockIs
  <2>2. TextsOK(n)'
    BY <1>2, <2>1 DEF TextsOK
  <2>3. ASSUME NEW i \in DOMAIN block[n], block[n][i].part \notin Poison
        PROVE  block'[n][i].fails <= faults /\ (provider # "up" => block'[n][i].fails < faults)
    <3>1. /\ block[n][i].fails \in Nat /\ faults \in Nat
          /\ block[n][i].fails <= faults
          /\ provider # "up" => block[n][i].fails < faults
          /\ worker.pc = "probe" /\ Entry(n, i) # {} => block[n][i].fails < faults
      BY <2>3, BlockNumbers DEF BlameOK
    <3>2. CASE Entry(n, i) = {}
      BY <2>1, <3>1, <3>2
    <3>3. CASE Entry(n, i) # {}
      <4>1. PICK e \in Entry(n, i) : TRUE
        BY <3>3
      <4>2. e \in Asked(worker.queue) /\ e \in Batch /\ e.n = n /\ e.i = i
        BY <4>1, EntryIsAsked
      <4>3. e.part = block[n][i].part
        BY <4>2 DEF TextsOK
      <4>4. ~ \E f \in Batch : f.part \in Poison
        BY <1>4, <2>3, <4>2, <4>3
      <4>5. worker.pc = "probe" /\ provider = "up"
        BY <4>4
      <4> QED
        BY <2>1, <3>1, <3>3, <4>5
    <3> QED
      BY <3>2, <3>3
  <2>4. BlameOK(n)'
    BY <1>2, <1>4, <2>1, <2>3 DEF BlameOK
  <2> QED
    BY <2>2, <2>4
<1> QED
  BY <1>3, <1>4, IsolateIs

LEMMA BlameEmbed ==
  ASSUME Sound, Sound', EmbedBlocks, NEW n \in Notes, TextsOK(n), BlameOK(n)
  PROVE  TextsOK(n)' /\ BlameOK(n)'
<1>1. worker.pc = "block" /\ worker.queue # <<>> /\ UNCHANGED provider
  BY EmbedBlocksIs
<1>2. ASSUME worker' = WorkerIs("block", worker.model, {}, Tail(worker.queue), worker.todo, worker.got, {}),
             \/ block' = StoredBlocks /\ faults' = faults
             \/ block' = block /\ faults' = faults + 1
      PROVE  TextsOK(n)' /\ BlameOK(n)'
  <2>1. worker'.pc = "block" /\ worker'.queue = Tail(worker.queue)
    BY <1>2 DEF WorkerIs
  <2>2. Asked(worker'.queue) \subseteq Asked(worker.queue)
    BY <1>1, <2>1, WorkerFields, AskedOfTail DEF Sound
  <2>3. /\ DOMAIN block'[n] = DOMAIN block[n]
        /\ \A i \in DOMAIN block[n] : /\ block'[n][i].part = block[n][i].part
                                      /\ block'[n][i] = block[n][i] \/ block'[n][i].fails = 0
    BY <1>1, <1>2, StoredBlocksIs
  <2> QED
    BY <1>1, <1>2, <2>1, <2>2, <2>3, BlameStays
<1>3. ASSUME Isolate, \E e \in Batch : e.part \in Poison
      PROVE  TextsOK(n)' /\ BlameOK(n)'
  BY <1>1, <1>3, BlameIsolate
<1>4. ASSUME worker' = WorkerIs("probe", worker.model, {}, worker.queue, worker.todo, worker.got, {}),
             provider # "up", UNCHANGED <<block, faults>>
      PROVE  TextsOK(n)' /\ BlameOK(n)'
  <2>1. worker'.queue = worker.queue
    BY <1>4 DEF WorkerIs
  <2>2. TextsOK(n)'
    BY <1>4, <2>1 DEF TextsOK
  <2>3. BlameOK(n)'
    BY <1>1, <1>4 DEF BlameOK
  <2> QED
    BY <2>2, <2>3
<1>5. ASSUME worker' = IdleWorker(worker.model), UNCHANGED <<block, faults>>
      PROVE  TextsOK(n)' /\ BlameOK(n)'
  <2>1. worker'.pc = "idle" /\ Asked(worker'.queue) \subseteq Asked(worker.queue)
    BY <1>5 DEF IdleWorker, Asked
  <2> QED
    BY <1>1, <1>5, <2>1, BlameStays
<1> QED
  BY <1>2, <1>3, <1>4, <1>5, EmbedBlocksIs

LEMMA BlameProbe ==
  ASSUME Sound, Sound', Probe \/ EndBlocks, NEW n \in Notes, TextsOK(n), BlameOK(n)
  PROVE  TextsOK(n)' /\ BlameOK(n)'
<1>1. ASSUME worker' = IdleWorker(worker.model), UNCHANGED <<block, provider, faults>>
      PROVE  TextsOK(n)' /\ BlameOK(n)'
  <2>1. worker'.pc = "idle" /\ Asked(worker'.queue) \subseteq Asked(worker.queue)
    BY <1>1 DEF IdleWorker, Asked
  <2> QED
    BY <1>1, <2>1, BlameStays
<1>2. CASE Probe /\ provider = "up"
  BY <1>2, BlameIsolate DEF Probe, Sound, WorkerOK
<1> QED
  BY <1>1, <1>2 DEF Probe, EndBlocks, Works, rows

LEMMA BlameStep ==
  ASSUME Sound, MemoryOK, Sound', [Next]_vars, \A n \in Notes \ disturbed : TextsOK(n) /\ BlameOK(n)
  PROVE  \A n \in Notes \ disturbed' : TextsOK(n)' /\ BlameOK(n)'
<1> SUFFICES ASSUME NEW n \in Notes \ disturbed'
             PROVE  TextsOK(n)' /\ BlameOK(n)'
  OBVIOUS
<1>0. ASSUME disturbed \subseteq disturbed' PROVE TextsOK(n) /\ BlameOK(n)
  BY <1>0
<1>1. CASE UNCHANGED vars \/ Hydrate
  BY <1>0, <1>1, BlameAside DEF Hydrate, vars, rows, history
<1>2. CASE Worker
  <2>1. disturbed \subseteq disturbed'
    BY <1>2 DEF Worker, LoadNotes, LoadFromMemory, EmbedChunk, StoreNote, EndNotes, LoadBlocks, EmbedBlocks, Probe,
                EndBlocks, history
  <2> QED
    BY <1>0, <1>2, <2>1, BlameNotes, BlameLoad, BlameEmbed, BlameProbe DEF Worker
<1>3. CASE Operator
  <2>1. CASE Reindex \/ Configure \/ ClearVectors
    BY <1>0, <2>1, BlameAside DEF Reindex, Configure, ClearVectors, rows, history
  <2>2. CASE StartApi \/ StartWorker
    <3>1. TextsOK(n) /\ BlameOK(n)
      BY <2>2 DEF StartApi, StartWorker
    <3> QED
      BY <2>2, <3>1, BlameStart
  <2>3. ASSUME NEW m \in Notes, Unblock(m) PROVE TextsOK(n)' /\ BlameOK(n)'
    BY <1>0, <2>3, BlameUnblock DEF Unblock
  <2> QED
    BY <1>3, <2>1, <2>2, <2>3 DEF Operator
<1>4. ASSUME NEW m \in Notes, NEW w \in Writers, Upsert(w, m) PROVE TextsOK(n)' /\ BlameOK(n)'
  <2>1. UNCHANGED <<block, worker, faults, provider>> /\ disturbed \subseteq disturbed'
    BY <1>4 DEF Upsert
  <2> QED
    BY <1>0, <2>1, BlameAside
<1>5. ASSUME NEW m \in Notes, NEW w \in Writers, Delete(w, m) PROVE TextsOK(n)' /\ BlameOK(n)'
  BY <1>5, BlameDelete
<1>6. ASSUME NEW w \in Procs, NEW t \in sync[w], SyncBlocks(w, t) PROVE TextsOK(n)' /\ BlameOK(n)'
  <2>1. disturbed \subseteq disturbed'
    BY <1>6 DEF SyncBlocks
  <2> QED
    BY <1>0, <1>6, <2>1, BlameSync
<1>7. ASSUME NEW w \in Procs, NEW t \in sync[w], SyncFails(w, t) PROVE TextsOK(n)' /\ BlameOK(n)'
  <2>1. UNCHANGED <<block, worker, provider>> /\ faults' = faults + 1 /\ disturbed \subseteq disturbed'
    BY <1>7 DEF SyncFails, Fault, rows
  <2> QED
    BY <1>0, <2>1, BlameAside
<1>8. CASE Outage \/ Recovery
  BY <1>0, <1>8, BlameAside DEF Outage, Recovery, Fault, rows, history
<1> QED
  BY <1>1, <1>2, <1>3, <1>4, <1>5, <1>6, <1>7, <1>8 DEF Next

-----------------------------------------------------------------------------
LEMMA InitHolds == Init => IInv
<1> SUFFICES ASSUME Init PROVE IInv
  OBVIOUS
<1>1. Sound /\ MemoryOK
  BY SoundInit, MemoryInit
<1>2. ASSUME NEW n \in Notes PROVE Paid(n)
  <2>1. tries[n] = 0 /\ ~ Row(n)
    BY DEF Init, NoNote, Row
  <2>2. Slack \in Nat /\ MaxFailures \in Nat
    BY <1>1, PaidNumbers
  <2> QED
    BY <2>1, <2>2 DEF Paid
<1>3. ASSUME NEW n \in Notes PROVE TextsOK(n) /\ BlameOK(n)
  <2>1. DOMAIN block[n] = {}
    BY DEF Init
  <2> QED
    BY <2>1 DEF TextsOK, BlameOK
<1> QED
  BY <1>1, <1>2, <1>3 DEF IInv

LEMMA StepHolds == ASSUME IInv, [Next]_vars PROVE IInv'
<1>1. Sound /\ MemoryOK /\ Sound' /\ MemoryOK'
  BY SoundStep, MemoryStep DEF IInv
<1>2. \A n \in Notes : Paid(n)'
  BY <1>1, PaidStep DEF IInv
<1>3. \A n \in Notes \ disturbed' : TextsOK(n)' /\ BlameOK(n)'
  BY <1>1, BlameStep DEF IInv
<1> QED
  BY <1>1, <1>2, <1>3 DEF IInv

LEMMA InvariantHolds == Spec => []IInv
BY InitHolds, StepHolds, PTL DEF Spec

(* However often notes are committed and unblocked, and whatever fails: the *)
(* reads of a note for embedding are bounded.                               *)
THEOREM RetriesCorrect == Spec => []RetriesAreBounded
<1>1. ASSUME IInv PROVE RetriesAreBounded
  <2> SUFFICES ASSUME NEW n \in Notes PROVE tries[n] <= MaxFailures + faults + config - 1
    BY DEF RetriesAreBounded
  <2>1. Sound /\ tries[n] <= MaxFailures + Slack
    BY <1>1 DEF IInv, Paid
  <2>2. /\ tries[n] \in Nat /\ faults \in Nat /\ MaxFailures \in Nat /\ worker.model \in Nat
        /\ Slack = faults + worker.model - 1
    BY <2>1, PaidNumbers
  <2>3. worker.model <= config /\ config \in Nat
    BY <2>1, Numbers DEF Sound, Types
  <2> QED
    BY <2>1, <2>2, <2>3
<1> QED
  BY <1>1, InvariantHolds, PTL

(* However batches are halved: a text that the provider takes is blamed at  *)
(* most once per fault, unless somebody else had the note in hand.          *)
THEOREM BlameCorrect == Spec => []BlameIsBounded
<1>1. IInv => BlameIsBounded
  BY DEF IInv, BlameOK, BlameIsBounded
<1> QED
  BY <1>1, InvariantHolds, PTL
=============================================================================
