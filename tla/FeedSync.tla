------------------------------ MODULE FeedSync ------------------------------
(***************************************************************************)
(* The sync worker: it follows the CouchDB _changes feed, applies every    *)
(* change to the process memory (StoreInner), persists the effect together *)
(* with the feed cursor in one PostgreSQL transaction, and replays stale   *)
(* files while the feed is idle.                                           *)
(*                                                                         *)
(* The source is the set of the latest change of every CouchDB document: a *)
(* file document (live, logically deleted, or a tombstone without a body)  *)
(* or a content-addressed leaf.  A file of revision r refers to one leaf,  *)
(* the one written for r; content is identified with its revision.         *)
(***************************************************************************)
EXTENDS Integers, FiniteSets

CONSTANTS Files,      \* file documents of the vault (each is a .md note)
          MaxRev,     \* bound: revisions of one file document
          MaxSeq,     \* bound: the last sequence number of the source
          SubBatch,   \* indexer.max_changes_per_batch
          MaxFaults   \* bound: crashes, failed transactions, failed fetches

ASSUME FilesAssumption == IsFiniteSet(Files)
ASSUME BoundsAssumption == MaxRev \in Nat \ {0} /\ MaxSeq \in Nat /\ MaxFaults \in Nat
ASSUME SubBatchAssumption == SubBatch \in Nat \ {0}

Revs == 1..MaxRev
NoRev == 0
OptRev == 0..MaxRev
Leaves == Files \X Revs

FileKinds == {"live", "deleted", "tomb"}
Change == [file : Files, rev : Revs, kind : FileKinds \cup {"leaf"}, seq : Nat]

VARIABLES
  log,        \* CouchDB: the latest change of every document
  head,       \* CouchDB: its current sequence
  pg,         \* PostgreSQL: rows and durable cursor
  mem,        \* the worker's memory
  pc,         \* where the worker loop stands
  mode,       \* whether the open transaction belongs to the feed or to a replay
  pollSince,  \* local variable poll_since of the loop
  currentSeq, \* local variable current_seq of the loop
  feedLast,   \* last sequence of the feed response being ingested
  pending,    \* changes of the response not yet ingested
  batch,      \* changes of the open transaction
  tx,         \* the rows PostgreSQL will hold if the open transaction commits
  faults      \* faults so far

source == <<log, head>>
loop == <<pc, mode, pollSince, currentSeq, feedLast, pending, batch, tx>>
vars == <<log, head, pg, mem, pc, mode, pollSince, currentSeq, feedLast,
          pending, batch, tx, faults>>

-----------------------------------------------------------------------------
(* The source.  Other LiveSync clients write a leaf, then the file document *)
(* that names it; a deletion keeps the document (path and all, kind         *)
(* "deleted") or leaves a CouchDB tombstone whose path is not known.        *)

FileChanges(S) == {c \in S : c.kind # "leaf"}
FileDoc(f) == {c \in FileChanges(log) : c.file = f}
NextRev(f) == IF FileDoc(f) = {} THEN 1 ELSE (CHOOSE c \in FileDoc(f) : TRUE).rev + 1
LiveLeaf(f) == {<<c.file, c.rev>> : c \in {d \in FileDoc(f) : d.kind = "live"}}

Publish(c) ==
  /\ head < MaxSeq
  /\ head' = head + 1
  /\ log' = {d \in log : d.kind = "leaf" \/ c.kind = "leaf" \/ d.file # c.file} \cup {c}
  /\ UNCHANGED <<pg, mem, loop, faults>>

WriteLeaf(f) ==
  /\ NextRev(f) \in Revs
  /\ ~ \E c \in log : c.kind = "leaf" /\ c.file = f /\ c.rev = NextRev(f)
  /\ Publish([file |-> f, rev |-> NextRev(f), kind |-> "leaf", seq |-> head + 1])

WriteFile(f) ==
  /\ NextRev(f) \in Revs
  /\ \E c \in log : c.kind = "leaf" /\ c.file = f /\ c.rev = NextRev(f)
  /\ Publish([file |-> f, rev |-> NextRev(f), kind |-> "live", seq |-> head + 1])

DeleteFile(f, kind) ==
  /\ NextRev(f) \in Revs
  /\ \E c \in FileDoc(f) : c.kind = "live"
  /\ Publish([file |-> f, rev |-> NextRev(f), kind |-> kind, seq |-> head + 1])

-----------------------------------------------------------------------------
(* What ingesting the changes S does to the memory m, where leaves is the   *)
(* set of leaves available to the batch (in S, or fetched with S).          *)

InLive(S, f) == \E c \in S : c.file = f /\ c.kind = "live"
InGone(S, f) == \E c \in S : c.file = f /\ c.kind \in {"deleted", "tomb"}
LiveRev(S, f) == (CHOOSE c \in S : c.file = f /\ c.kind = "live").rev

(* Live file documents are registered before any change is applied. *)
Registered(m, S, f) == IF InLive(S, f) THEN LiveRev(S, f) ELSE m.alias[f]

(* Leaves staged under their own id that a newly registered file names. *)
Rehomed(m, S) ==
  {l \in m.staged : InLive(S, l[1]) /\ l[2] = Registered(m, S, l[1])}

(* A registered file whose leaf the batch carries is reassembled; one that  *)
(* the batch deletes only if the leaf comes before the deletion.            *)
Reassembled(m, S, leaves) ==
  {f \in Files :
     /\ <<f, Registered(m, S, f)>> \in leaves
     /\ InGone(S, f) => \E c, d \in S :
          /\ c.kind = "leaf" /\ c.file = f /\ c.rev = m.alias[f]
          /\ d.kind \in {"deleted", "tomb"} /\ d.file = f
          /\ c.seq < d.seq}

(* A deletion reaches the rows of a file only when the deleted document     *)
(* still names its path, or when the memory knows the alias of its id.      *)
Erased(m, S) ==
  {f \in Files : \E c \in S : /\ c.file = f
                              /\ \/ c.kind = "deleted"
                                 \/ c.kind = "tomb" /\ m.alias[f] # NoRev}

Indexed(m, S, leaves) ==
  Reassembled(m, S, leaves) \cup {l[1] : l \in Rehomed(m, S)}

NewlyStaged(m, S, leaves) ==
  {l \in leaves : ~ (l[1] \in Reassembled(m, S, leaves) /\ l[2] = Registered(m, S, l[1]))}

(* The sequence of the last change of a batch becomes last_seq; a replayed  *)
(* change carries the empty sequence, here 0, and leaves it as it was.      *)
(* Mutant: the empty sequence counts.                                       *)
LastSeqReplayed(m, last) == last
LastSeq(m, last) == IF last = 0 THEN m.last ELSE last

IngestMem(m, S, leaves, last) ==
  [alias  |-> [f \in Files |-> IF InGone(S, f) THEN NoRev ELSE Registered(m, S, f)],
   vault  |-> [f \in Files |->
                 IF f \in Erased(m, S) THEN NoRev
                 ELSE IF f \in Reassembled(m, S, leaves) THEN Registered(m, S, f)
                 ELSE m.vault[f]],
   note   |-> [f \in Files |->
                 IF f \in Erased(m, S) THEN NoRev
                 ELSE IF f \in Indexed(m, S, leaves) THEN Registered(m, S, f)
                 ELSE m.note[f]],
   staged |-> (m.staged \ Rehomed(m, S)) \cup NewlyStaged(m, S, leaves),
   last   |-> LastSeq(m, last)]

(* The rows after the delta of that batch.  A note row is deleted only when *)
(* the memory still held the note: delete_note_locked returned true.        *)
DeletedNotes(m, S, leaves) ==
  {f \in Erased(m, S) : m.note[f] # NoRev \/ f \in Indexed(m, S, leaves)}

IngestPg(p, m, S, leaves, last) ==
  LET after == IngestMem(m, S, leaves, last) IN
  [alias  |-> [f \in Files |->
                 IF InLive(S, f) \/ InGone(S, f) THEN after.alias[f] ELSE p.alias[f]],
   vault  |-> [f \in Files |->
                 IF f \in Erased(m, S) \cup Reassembled(m, S, leaves)
                 THEN after.vault[f] ELSE p.vault[f]],
   note   |-> [f \in Files |->
                 IF f \in DeletedNotes(m, S, leaves)
                           \cup (Indexed(m, S, leaves) \ Erased(m, S))
                 THEN after.note[f] ELSE p.note[f]],
   staged |-> (p.staged \ Rehomed(m, S)) \cup NewlyStaged(m, S, leaves),
   cursor |-> IF \/ last # 0
                 \/ Indexed(m, S, leaves) # {}
                 \/ DeletedNotes(m, S, leaves) # {}
              THEN after.last ELSE p.cursor]

(* hydrate_from_persistence: rows into memory, then every alias adopts the  *)
(* staged leaf it names, which indexes the note but not the raw file.       *)
Adoptable(p) == {l \in p.staged : p.alias[l[1]] = l[2]}

(* Mutant of HydratedNote: a staged leaf is adopted whatever its revision.  *)
HydratedNoteAnyLeaf(p) ==
  [f \in Files |-> IF \E l \in p.staged : l[1] = f
                   THEN (CHOOSE l \in p.staged : l[1] = f)[2] ELSE p.note[f]]

HydratedNote(p) ==
  [f \in Files |-> IF \E l \in Adoptable(p) : l[1] = f THEN p.alias[f] ELSE p.note[f]]
Hydrated(p) ==
  [alias  |-> p.alias,
   vault  |-> p.vault,
   note   |-> HydratedNote(p),
   staged |-> p.staged \ Adoptable(p),
   last   |-> p.cursor]

EmptyRows == [alias  |-> [f \in Files |-> NoRev], vault |-> [f \in Files |-> NoRev],
              note   |-> [f \in Files |-> NoRev], staged |-> {}, cursor |-> 0]

-----------------------------------------------------------------------------
(* The loop of spawn_sync_worker.  Every failure returns to its head with   *)
(* poll_since unchanged.                                                    *)

Fault == faults < MaxFaults /\ faults' = faults + 1
NoFault == UNCHANGED faults
AtHead == pc' = "head" /\ pending' = {} /\ batch' = {}

(* Mutant of Restart: the worker resumes before the durable cursor.         *)
RestartOffByOne ==
  /\ pc = "down"
  /\ mem' = Hydrated(pg)
  /\ pg' = [pg EXCEPT !.note = HydratedNote(pg)]
  /\ pollSince' = pg.cursor - 1
  /\ AtHead
  /\ UNCHANGED <<source, mode, currentSeq, feedLast, tx, faults>>

Restart ==
  /\ pc = "down"
  /\ mem' = Hydrated(pg)
  /\ pg' = [pg EXCEPT !.note = HydratedNote(pg)]
  /\ pollSince' = pg.cursor
  /\ AtHead
  /\ UNCHANGED <<source, mode, currentSeq, feedLast, tx, faults>>

Crash ==
  /\ pc # "down"
  /\ Fault
  /\ pc' = "down"
  /\ mem' = Hydrated(EmptyRows)
  /\ pending' = {} /\ batch' = {}
  /\ UNCHANGED <<source, pg, mode, pollSince, currentSeq, feedLast, tx>>

(* Mutant of Watermark: the cursor published is that of the memory.         *)
WatermarkFromMemory ==
  /\ pc = "head"
  /\ currentSeq' = head
  /\ \/ pg' = [pg EXCEPT !.cursor = mem.last] /\ pc' = "poll" /\ NoFault
     \/ UNCHANGED <<pg, pc>> /\ Fault
  /\ UNCHANGED <<source, mem, mode, pollSince, feedLast, pending, batch, tx>>

(* current_sequence, then set_sync_state(poll_since): memory, then the row. *)
Watermark ==
  /\ pc = "head"
  /\ currentSeq' = head
  /\ mem' = [mem EXCEPT !.last = pollSince]
  /\ \/ pg' = [pg EXCEPT !.cursor = pollSince] /\ pc' = "poll" /\ NoFault
     \/ UNCHANGED <<pg, pc>> /\ Fault
  /\ UNCHANGED <<source, mode, pollSince, feedLast, pending, batch, tx>>

(* poll_changes: the latest change of every document changed since then.    *)
Poll ==
  /\ pc = "poll"
  /\ pending' = {c \in log : c.seq > pollSince}
  /\ feedLast' = head
  /\ pc' = IF pending' = {} THEN "idle" ELSE "ingest"
  /\ UNCHANGED <<source, pg, mem, mode, pollSince, currentSeq, batch, tx, faults>>

PollFails ==
  /\ pc = "poll"
  /\ Fault
  /\ AtHead
  /\ UNCHANGED <<source, pg, mem, mode, pollSince, currentSeq, feedLast, tx>>

(* refresh_file_change_batch: the leaves the live files of S now refer to.  *)
Children(S) == UNION {LiveLeaf(f) : f \in {g \in Files : InLive(S, g)}}
LeavesIn(S) == {<<c.file, c.rev>> : c \in {d \in S : d.kind = "leaf"}}

(* One sub-batch: fetch its children, apply it to memory, open its          *)
(* transaction.  A failed fetch is only logged.                             *)
Ingest(last) ==
  LET S == {c \in pending : c.seq <= last.seq} IN
  /\ pc = "ingest"
  /\ \/ Cardinality(S) = SubBatch
     \/ S = pending /\ Cardinality(S) <= SubBatch
  /\ \E fetched \in {Children(S), {}} :
       /\ IF fetched = Children(S) THEN NoFault ELSE Fault
       /\ mem' = IngestMem(mem, S, LeavesIn(S) \cup fetched, last.seq)
       /\ tx' = IngestPg(pg, mem, S, LeavesIn(S) \cup fetched, last.seq)
  /\ batch' = S
  /\ pending' = pending \ S
  /\ mode' = "feed"
  /\ pc' = "commit"
  /\ UNCHANGED <<source, pg, pollSince, currentSeq, feedLast>>

(* apply_ingest_delta.  poll_since moves once the whole response is in.     *)
Commit ==
  /\ pc = "commit"
  /\ pg' = tx
  /\ batch' = {}
  /\ pollSince' = IF mode = "feed" /\ pending = {} THEN tx.cursor ELSE pollSince
  /\ pc' = IF pending = {} THEN "head" ELSE "ingest"
  /\ UNCHANGED <<source, mem, mode, currentSeq, feedLast, pending, tx, faults>>

(* Mutant of CommitFails: poll_since moves although the batch was lost.     *)
CommitFailsSkipping ==
  /\ pc = "commit"
  /\ Fault
  /\ AtHead
  /\ pollSince' = feedLast
  /\ UNCHANGED <<source, pg, mem, mode, currentSeq, feedLast, tx>>

(* The transaction rolls back; the memory keeps what the batch did to it.   *)
CommitFails ==
  /\ pc = "commit"
  /\ Fault
  /\ AtHead
  /\ UNCHANGED <<source, pg, mem, mode, pollSince, currentSeq, feedLast, tx>>

-----------------------------------------------------------------------------
(* Recovery: only with an empty feed that has reached currentSeq, a file    *)
(* whose rows do not match its registered revision, or a note without its   *)
(* raw file, is read again from the source and replayed.                    *)

(* Mutant of Stale: only a missing raw file counts, not an outdated one.    *)
StaleWhenMissing(m) == {f \in Files : m.alias[f] # NoRev /\ m.vault[f] = NoRev}

Stale(m) ==
  {f \in Files : \/ m.alias[f] # NoRev /\ (m.vault[f] # m.alias[f] \/ m.note[f] # m.alias[f])
                 \/ m.alias[f] = NoRev /\ m.note[f] # NoRev /\ m.vault[f] = NoRev}

CaughtUp == pollSince >= currentSeq

(* What the source still serves of f: a tombstone has no body to serve.     *)
Refetched(f) == {[c EXCEPT !.seq = 0] : c \in {d \in FileDoc(f) : d.kind # "tomb"}}

Replay(f) ==
  LET S == Refetched(f) IN
  /\ pc = "idle" /\ CaughtUp
  /\ f \in Stale(mem)
  /\ IF S = {}
     THEN AtHead /\ UNCHANGED <<mem, mode, feedLast, tx>>
     ELSE /\ mem' = IngestMem(mem, S, LiveLeaf(f), 0)
          /\ tx' = IngestPg(pg, mem, S, LiveLeaf(f), 0)
          /\ batch' = S
          /\ feedLast' = head
          /\ mode' = "replay"
          /\ pc' = "commit"
          /\ UNCHANGED pending
  /\ UNCHANGED <<source, pg, pollSince, currentSeq, faults>>

Idle ==
  /\ pc = "idle"
  /\ CaughtUp => Stale(mem) = {}
  /\ AtHead
  /\ UNCHANGED <<source, pg, mem, mode, pollSince, currentSeq, feedLast, tx, faults>>

-----------------------------------------------------------------------------
Init ==
  /\ log = {} /\ head = 0
  /\ pg = EmptyRows /\ mem = Hydrated(EmptyRows) /\ tx = EmptyRows
  /\ pc = "down" /\ mode = "feed"
  /\ pollSince = 0 /\ currentSeq = 0 /\ feedLast = 0
  /\ pending = {} /\ batch = {}
  /\ faults = 0

SourceNext == \E f \in Files : \/ WriteLeaf(f)
                               \/ WriteFile(f)
                               \/ \E kind \in {"deleted", "tomb"} : DeleteFile(f, kind)

WorkerNext == \/ Restart \/ Watermark \/ Poll \/ Commit \/ Idle
              \/ \E c \in pending : Ingest(c)
              \/ \E f \in Files : Replay(f)

FaultNext == Crash \/ PollFails \/ CommitFails

Next == SourceNext \/ WorkerNext \/ FaultNext

(* The worker is a loop the supervisor restarts; recovery takes every due   *)
(* target of a pass, so no stale file is passed over for ever.              *)
Fairness == WF_vars(WorkerNext) /\ \A f \in Files : SF_vars(Replay(f))

Spec == Init /\ [][Next]_vars
FairSpec == Spec /\ Fairness

-----------------------------------------------------------------------------
(* Every variable keeps its type. *)
RowsType == [alias : [Files -> OptRev], vault : [Files -> OptRev],
             note : [Files -> OptRev], staged : SUBSET Leaves, cursor : Nat]
MemType == [alias : [Files -> OptRev], vault : [Files -> OptRev],
            note : [Files -> OptRev], staged : SUBSET Leaves, last : Nat]

TypeOK ==
  /\ log \subseteq Change /\ head \in Nat
  /\ pg \in RowsType /\ tx \in RowsType /\ mem \in MemType
  /\ pc \in {"down", "head", "poll", "ingest", "commit", "idle"}
  /\ mode \in {"feed", "replay"}
  /\ pollSince \in Nat /\ currentSeq \in Nat /\ feedLast \in Nat
  /\ pending \subseteq Change /\ batch \subseteq Change
  /\ faults \in Nat

Known(c) == pg.alias[c.file] = IF c.kind = "live" THEN c.rev ELSE NoRev

(* No change is lost: whatever failed, crashed or was retried, the latest   *)
(* change of a file that the durable cursor has passed is reflected in the  *)
(* durable alias of that file, so that a restart from the cursor knows      *)
(* which revision each file must be brought to.                             *)
CursorLosesNothing ==
  \A c \in FileChanges(log) : c.seq <= pg.cursor => Known(c)

(* Memory and PostgreSQL disagree on the revision of a file only while the  *)
(* feed still has a change of that file to deliver after poll_since, or the *)
(* transaction that will level them is open.                                *)
DivergenceIsRedelivered ==
  pc \in {"head", "poll", "ingest", "idle"} =>
    \A f \in Files : mem.alias[f] # pg.alias[f] =>
      \E c \in FileDoc(f) : c.seq > pollSince

(* A replay of recovered documents never moves the durable cursor, although *)
(* its transaction may write the cursor row from the memory.                *)
ReplayKeepsCursor ==
  [][pc = "commit" /\ mode = "replay" => pg'.cursor = pg.cursor]_vars

(* Retries, re-deliveries and replays never bring back an older revision of *)
(* an alias.  The rows of its file may show one: a leaf that is delivered   *)
(* again ahead of its file, after the transaction of the file failed, is    *)
(* indexed for the alias in memory (store.rs:1537), and a staged leaf whose *)
(* deletion rolled back is adopted by the next start (store.rs:1037).  But  *)
(* then the feed is still to deliver the file.                              *)
AliasAdvances(f) == pg'.alias[f] # NoRev => pg'.alias[f] >= pg.alias[f]
Regresses(f) == \/ pg'.vault[f] # NoRev /\ pg'.vault[f] < pg.vault[f]
                \/ pg'.note[f] # NoRev /\ pg'.note[f] < pg.note[f]
RegressionIsRedelivered ==
  [][\A f \in Files : /\ AliasAdvances(f)
                      /\ Regresses(f) => \E c \in FileDoc(f) : c.seq > pollSince']_vars

(* Once the source is quiet, every live file is durably indexed, raw file   *)
(* and note, at its source revision, unless the database or the source      *)
(* failed twice.                                                            *)
LiveFilesConverge ==
  [](faults <= 1) => <>[](\A c \in FileChanges(log) : c.kind = "live" =>
         pg.alias[c.file] = c.rev /\ pg.vault[c.file] = c.rev /\ pg.note[c.file] = c.rev)

(* A note whose deletion the durable cursor has passed has no durable row.  *)
DeletedNotesAreGone ==
  \A c \in FileChanges(log) :
    c.kind = "deleted" /\ c.seq <= pg.cursor => pg.note[c.file] = NoRev
=============================================================================
