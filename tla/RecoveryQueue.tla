---------------------------- MODULE RecoveryQueue ----------------------------
(***************************************************************************)
(* The idle work of the sync worker: with an empty feed it looks for files *)
(* whose content does not match their registered revision, keeps a queue   *)
(* of them in PostgreSQL, and reads due ones again from the source, with   *)
(* exponential backoff and quarantine.  Chunks of a file whose other       *)
(* chunks do not come are purged after a timeout and queued as well.       *)
(*                                                                         *)
(* A file has the leaves Leaves.  A leaf is readable, tombstoned (then its *)
(* former body may be restored), or was never there.  Time is in ticks: a  *)
(* tick outlasts the chunk timeout and the interval between discoveries.   *)
(***************************************************************************)
EXTENDS Integers, FiniteSets

CONSTANTS Files,        \* file documents
          Leaves,       \* leaves of a revision of a file
          MaxRev,       \* bound: revisions of one file document
          MaxChanges,   \* bound: changes other clients make to the source
          BatchSize,    \* indexer.recovery_batch_size
          MaxFailures,  \* indexer.recovery_max_failures
          BaseBackoff,  \* indexer.recovery_base_backoff_seconds, in ticks
          MaxBackoff,   \* indexer.recovery_max_backoff_seconds, in ticks
          Cooldown,     \* cooldown of a reactivation, in ticks
          Horizon,      \* bound: ticks after which overdue rows count as equally old
          MaxRequests,  \* bound: edits that find their source incomplete
          MaxFaults     \* bound: crashes, failed transactions and fetches

ASSUME FilesAssumption == IsFiniteSet(Files) /\ IsFiniteSet(Leaves) /\ Leaves # {}
ASSUME BoundsAssumption ==
  /\ MaxRev \in Nat /\ MaxChanges \in Nat /\ Horizon \in Nat
  /\ MaxRequests \in Nat /\ MaxFaults \in Nat /\ Cooldown \in Nat
ASSUME LimitsAssumption ==
  /\ BatchSize \in Nat \ {0} /\ MaxFailures \in Nat \ {0}
  /\ BaseBackoff \in Nat \ {0} /\ MaxBackoff \in Nat \ {0} /\ BaseBackoff <= MaxBackoff

NoRev == 0
OptRev == 0..MaxRev

(* RECOVERY_KIND_*; a row of the queue is identified by kind and target. *)
Kinds == {"file_alias", "chunk_parent", "remote_drift"}
Keys == Kinds \X Files

VARIABLES
  src,       \* CouchDB, per file: revision, whether live, readable and tombstoned leaves
  news,      \* what the feed still has to deliver of a file
  mem,       \* worker memory, per file: registered revision, indexed revision, chunks staged
  pg,        \* the same in PostgreSQL
  old,       \* files whose staged chunks are past the timeout
  queue,     \* rows of sync_recovery_queue, a function on some of Keys
  pc,        \* where the worker loop stands
  targets,   \* due rows of this pass not yet handled: their failure_count when loaded
  current,   \* the replayed row, and whether the replay resolved it
  checked,   \* discovery has run since the last tick
  changes,   \* changes of the source so far
  requests,  \* edits so far that found their source incomplete
  faults     \* faults so far

source == <<src, news, changes>>
store == <<mem, pg, old>>
pass == <<pc, targets, current, checked>>
vars == <<src, news, mem, pg, old, queue, pc, targets, current, checked,
          changes, requests, faults>>

NoTarget == [key |-> <<>>, resolved |-> FALSE]
Without(g, k) == [x \in DOMAIN g \ {k} |-> g[x]]
Faults(n) == faults + n <= MaxFaults /\ faults' = faults + n

-----------------------------------------------------------------------------
(* The source.  A new revision may come before its leaves; a leaf may be    *)
(* tombstoned under a live file, which the feed delivers but nobody reads.  *)

NoNews == [doc |-> FALSE, leaves |-> {}]
Complete(f) == src[f].live /\ src[f].leaves = Leaves
Repairable(f) == src[f].live /\ src[f].lost # {} /\ src[f].leaves \cup src[f].lost = Leaves

Change ==
  /\ changes < MaxChanges /\ changes' = changes + 1
  /\ UNCHANGED <<store, queue, pass, requests, faults>>

WriteFile(f, leaves) ==
  /\ Change
  /\ src[f].rev < MaxRev
  /\ src' = [src EXCEPT ![f] = [rev |-> @.rev + 1, live |-> TRUE, leaves |-> leaves, lost |-> {}]]
  /\ news' = [news EXCEPT ![f] = [doc |-> TRUE, leaves |-> {}]]

UploadLeaf(f, l) ==
  /\ Change
  /\ src[f].live /\ l \notin src[f].leaves
  /\ src' = [src EXCEPT ![f].leaves = @ \cup {l}, ![f].lost = @ \ {l}]
  /\ news' = [news EXCEPT ![f].leaves = @ \cup {l}]

TombstoneLeaf(f, l) ==
  /\ Change
  /\ l \in src[f].leaves
  /\ src' = [src EXCEPT ![f].leaves = @ \ {l}, ![f].lost = @ \cup {l}]
  /\ UNCHANGED news

DeleteFile(f) ==
  /\ Change
  /\ src[f].live /\ src[f].rev < MaxRev
  /\ src' = [src EXCEPT ![f] = [rev |-> @.rev + 1, live |-> FALSE, leaves |-> {}, lost |-> {}]]
  /\ news' = [news EXCEPT ![f] = [doc |-> TRUE, leaves |-> {}]]

-----------------------------------------------------------------------------
(* Ingestion of one file: its document, live or gone or not in the batch,   *)
(* and leaves.  Chunks are staged until every leaf of the registered        *)
(* revision is there; a chunk of another revision drops what was staged.    *)

Registered(m, doc, rev) ==
  CASE doc = "live" -> rev [] doc = "gone" -> NoRev [] doc = "none" -> m.alias

Staged(m, rev, got) == got \cup {l \in Leaves : <<rev, l>> \in m.staged}

(* A leaf whose file is not registered goes to staging under its own id and *)
(* is left out here.                                                        *)
Stages(m, doc, rev, got) == got # {} /\ Registered(m, doc, rev) # NoRev
Completes(m, doc, rev, got) ==
  /\ Stages(m, doc, rev, got)
  /\ Staged(m, Registered(m, doc, rev), got) = Leaves

Ingested(m, doc, rev, got) ==
  LET alias == Registered(m, doc, rev) IN
  [alias   |-> alias,
   content |-> IF doc = "gone" \/ Completes(m, doc, rev, got) THEN alias ELSE m.content,
   staged  |-> IF Completes(m, doc, rev, got) THEN {}
               ELSE IF Stages(m, doc, rev, got) THEN {alias} \X Staged(m, alias, got)
               ELSE m.staged]

(* The rows after the delta of that batch, computed by the memory m. *)
Persisted(p, m, doc, rev, got) ==
  LET after == Ingested(m, doc, rev, got) IN
  [alias   |-> IF doc = "none" THEN p.alias ELSE after.alias,
   content |-> IF doc = "gone" \/ Completes(m, doc, rev, got) THEN after.content ELSE p.content,
   staged  |-> IF doc = "gone" \/ Completes(m, doc, rev, got) THEN {}
               ELSE IF Stages(m, doc, rev, got)
               THEN {s \in p.staged : s[2] \notin got} \cup ({after.alias} \X got)
               ELSE p.staged]

Purge(s, files) == [f \in Files |-> IF f \in files THEN [s[f] EXCEPT !.staged = {}] ELSE s[f]]

(* stale_file_recovery_targets, and sync_recovery_target_is_unresolved: a   *)
(* chunk parent is identified by the path its chunks are staged under.      *)
Stale(m) == m.alias # NoRev /\ m.content # m.alias
Unresolved(m, k) == Stale(m[k[2]]) \/ (k[1] = "chunk_parent" /\ m[k[2]].staged # {})

-----------------------------------------------------------------------------
(* Rows of the queue.  Times are relative: wait is the time until           *)
(* next_retry_at, age the time since last_reactivated_at.  tries counts     *)
(* the replays of a row since it was created or reactivated, for properties *)
(* only.                                                                    *)

NewRow == [failures |-> 0, wait |-> 0, quarantined |-> FALSE,
           rev |-> NoRev, age |-> Cooldown, tries |-> 0]
Row == [failures : 0..MaxFailures, wait : -Horizon..MaxBackoff, quarantined : BOOLEAN,
        rev : OptRev, age : 0..Cooldown, tries : Nat]

(* Mutant: queueing a known target again makes it a new one. *)
EnqueueAgain(q, keys) == [k \in DOMAIN q \cup keys |-> IF k \in keys THEN NewRow ELSE q[k]]
Enqueue(q, keys) == [k \in DOMAIN q \cup keys |-> IF k \in DOMAIN q THEN q[k] ELSE NewRow]

Reactivated(rev) == [NewRow EXCEPT !.rev = rev, !.age = 0]

(* Mutant: also a target that is waiting for its retry is reactivated. *)
ReactivableAny(row, rev) == row.rev # rev \/ row.age >= Cooldown
Reactivable(row, rev) == row.quarantined /\ (row.rev # rev \/ row.age >= Cooldown)

Backoff(failures) ==
  LET delay == BaseBackoff * 2 ^ (IF failures < 20 THEN failures ELSE 20)
  IN  IF delay < MaxBackoff THEN delay ELSE MaxBackoff

(* The delay uses the failure count the pass has loaded. *)
(* Mutant: the failure that is being recorded does not count. *)
FailedLate(row, failures) ==
  [row EXCEPT !.failures = @ + 1, !.wait = Backoff(failures),
              !.quarantined = row.failures >= MaxFailures]
Failed(row, failures) ==
  [row EXCEPT !.failures = @ + 1, !.wait = Backoff(failures),
              !.quarantined = row.failures + 1 >= MaxFailures]

Due == {k \in DOMAIN queue : ~ queue[k].quarantined /\ queue[k].wait <= 0}

-----------------------------------------------------------------------------
(* What a batch of the file f does to the store, and to the queue once its  *)
(* transaction has committed: chunks past the timeout are purged with it.   *)
Apply(f, doc, got, failed, q) ==
  LET purged == IF got = {} THEN old ELSE old \ {f} IN
  /\ mem' = Purge([mem EXCEPT ![f] = Ingested(@, doc, src[f].rev, got)], purged)
  /\ pg' = IF "commit" \in failed THEN pg
           ELSE Purge([pg EXCEPT ![f] = Persisted(@, mem[f], doc, src[f].rev, got)], purged)
  /\ old' = {}
  /\ queue' = IF failed \cap {"commit", "enqueue"} # {} THEN q
              ELSE Enqueue(q, {"chunk_parent"} \X purged)

(* The feed delivers what it has of a file; a live document brings its      *)
(* leaves, unless fetching them fails.                                      *)
Deliver(f) ==
  /\ pc = "feed" /\ news[f] # NoNews
  /\ LET doc == IF ~ news[f].doc THEN "none" ELSE IF src[f].live THEN "live" ELSE "gone" IN
     \E failed \in SUBSET {"fetch", "commit", "enqueue"} :
       /\ Faults(Cardinality(failed))
       /\ Apply(f, doc,
                src[f].leaves \cap
                  (news[f].leaves \cup IF doc = "live" /\ "fetch" \notin failed THEN Leaves ELSE {}),
                failed, queue)
       /\ news' = IF "commit" \in failed THEN news ELSE [news EXCEPT ![f] = NoNews]
  /\ UNCHANGED <<src, changes, pass, requests>>

QuietFeed == pc = "feed" /\ \A f \in Files : news[f] = NoNews

(* discover_sync_recovery_targets: purge, queue the purged parents, queue   *)
(* stale files, drop the rows of files no longer stale, and now and then    *)
(* queue the files whose source revision is not the registered one.         *)
Drifted == {f \in Files : mem[f].alias # NoRev /\ mem[f].alias # src[f].rev}

Discover ==
  /\ QuietFeed /\ ~ checked
  /\ \E failed \in SUBSET {"purge", "chunks", "enqueue", "clear", "drift"}, drift \in BOOLEAN :
       LET stale  == {f \in Files : Stale(mem[f])}
           chunks == IF {"purge", "chunks"} \subseteq failed THEN {} ELSE {"chunk_parent"} \X old
           alias  == IF "enqueue" \in failed THEN {} ELSE {"file_alias"} \X stale
           moved  == IF drift /\ "drift" \notin failed THEN {"remote_drift"} \X Drifted ELSE {}
           over   == IF "clear" \in failed THEN {} ELSE {"file_alias"} \X (Files \ stale)
           q      == Enqueue(queue, chunks \cup alias \cup moved)
       IN
       /\ Faults(Cardinality(failed))
       /\ mem' = Purge(mem, old)
       /\ pg' = IF "purge" \in failed THEN pg ELSE Purge(pg, old)
       /\ queue' = [k \in DOMAIN q \ over |-> q[k]]
  /\ old' = {}
  /\ checked' = TRUE
  /\ pc' = "due"
  /\ UNCHANGED <<source, targets, current, requests>>

Undiscovered ==
  /\ QuietFeed /\ checked
  /\ pc' = "due"
  /\ UNCHANGED <<source, store, queue, targets, current, checked, requests, faults>>

(* due_recovery_targets: the earliest next_retry_at first, at most a batch. *)
LoadDue ==
  /\ pc = "due"
  /\ \E S \in SUBSET Due :
       /\ \/ S = Due /\ Cardinality(Due) <= BatchSize
          \/ Cardinality(S) = BatchSize
       /\ \A k \in S, j \in Due \ S : queue[k].wait <= queue[j].wait
       /\ targets' = [k \in S |-> queue[k].failures]
  /\ pc' = "replay"
  /\ UNCHANGED <<source, store, queue, current, checked, requests, faults>>

LoadFails ==
  /\ pc = "due"
  /\ Faults(1)
  /\ pc' = "feed"
  /\ UNCHANGED <<source, store, queue, targets, current, checked, requests>>

(* Every change of a row may fail; the worker logs that and goes on. *)
Write(q) == \/ queue' = q /\ Faults(0)
            \/ queue' = queue /\ Faults(1)

(* A target that is no longer unresolved is dropped without a replay.       *)
Prune(k) ==
  /\ pc = "replay" /\ k \in DOMAIN targets
  /\ k[1] # "remote_drift" /\ ~ Unresolved(mem, k)
  /\ Write(Without(queue, k))
  /\ targets' = Without(targets, k)
  /\ UNCHANGED <<source, store, pc, current, checked, requests>>

(* Mutant: a replay that was persisted counts as a recovery. *)
RecoveredWhenPersisted(k, m, failed) == "commit" \notin failed
Recovered(k, m, failed) == "commit" \notin failed /\ ~ Unresolved(m, k)

(* The tombstoned leaves of a stale file are restored at the source if      *)
(* nothing else is missing; the feed will deliver them, too.  Then the file *)
(* is read from the source and ingested.  A deleted file may still have a   *)
(* document that says so.                                                   *)
Replay(k) ==
  LET f == k[2] IN
  /\ pc = "replay" /\ k \in DOMAIN targets
  /\ k[1] = "remote_drift" \/ Unresolved(mem, k)
  /\ \E failed \in SUBSET {"repair", "fetch", "commit", "enqueue"}, body \in BOOLEAN :
       LET repairs == k[1] = "file_alias" /\ Repairable(f) /\ "repair" \notin failed
           found   == "fetch" \notin failed /\ (src[f].live \/ (body /\ src[f].rev # NoRev))
           tried   == [queue EXCEPT ![k].tries = @ + 1]
       IN
       /\ Faults(Cardinality(failed))
       /\ src' = IF repairs THEN [src EXCEPT ![f].leaves = Leaves, ![f].lost = {}] ELSE src
       /\ news' = IF repairs THEN [news EXCEPT ![f].leaves = @ \cup src[f].lost] ELSE news
       /\ IF found
          THEN Apply(f, IF src[f].live THEN "live" ELSE "gone", src'[f].leaves, failed, tried)
          ELSE queue' = tried /\ UNCHANGED store
       /\ current' = [key |-> k, resolved |-> found /\ Recovered(k, mem', failed)]
  /\ targets' = targets
  /\ pc' = "settle"
  /\ UNCHANGED <<changes, checked, requests>>

(* Mutant of Settle: the pass goes on with the targets it started with.     *)
SettleKeepsTarget ==
  LET k == current.key IN
  /\ pc = "settle"
  /\ Write(IF current.resolved THEN Without(queue, k)
           ELSE [queue EXCEPT ![k] = Failed(@, targets[k])])
  /\ current' = NoTarget
  /\ pc' = "replay"
  /\ UNCHANGED <<source, store, targets, checked, requests>>

(* resolve_sync_recovery, or fail_sync_recovery with the next delay. *)
Settle ==
  LET k == current.key IN
  /\ pc = "settle"
  /\ Write(IF current.resolved THEN Without(queue, k)
           ELSE [queue EXCEPT ![k] = Failed(@, targets[k])])
  /\ targets' = Without(targets, k)
  /\ current' = NoTarget
  /\ pc' = "replay"
  /\ UNCHANGED <<source, store, checked, requests>>

EndPass ==
  /\ pc = "replay" /\ DOMAIN targets = {}
  /\ pc' = "feed"
  /\ UNCHANGED <<source, store, queue, targets, current, checked, requests, faults>>

-----------------------------------------------------------------------------
(* An edit of a file that has been indexed once, and whose source is found  *)
(* incomplete after an attempt to repair it, reactivates the target of the  *)
(* file or adds it.                                                         *)
Reactivate(f) ==
  LET k == <<"file_alias", f>> IN
  /\ requests < MaxRequests /\ requests' = requests + 1
  /\ src[f].live /\ ~ Complete(f)
  /\ mem[f].content # NoRev \/ pg[f].content # NoRev
  /\ IF Repairable(f) THEN Faults(1) ELSE Faults(0)
  /\ queue' = IF k \notin DOMAIN queue \/ Reactivable(queue[k], src[f].rev)
              THEN [j \in DOMAIN queue \cup {k} |->
                      IF j = k THEN Reactivated(src[f].rev) ELSE queue[j]]
              ELSE queue
  /\ UNCHANGED <<source, store, pass>>

(* Time passes, between any two steps. *)
Tick ==
  /\ old' = {f \in Files : mem[f].staged # {}}
  /\ checked' = FALSE
  /\ queue' = [k \in DOMAIN queue |->
       [queue[k] EXCEPT !.wait = IF @ > -Horizon THEN @ - 1 ELSE @,
                        !.age = IF @ < Cooldown THEN @ + 1 ELSE @]]
  /\ UNCHANGED <<source, mem, pg, pc, targets, current, requests, faults>>

Crash ==
  /\ pc # "down"
  /\ Faults(1)
  /\ pc' = "down"
  /\ targets' = <<>> /\ current' = NoTarget
  /\ UNCHANGED <<source, store, queue, checked, requests>>

(* The memory is hydrated from the rows, and discovery is due at once. *)
Restart ==
  /\ pc = "down"
  /\ mem' = pg
  /\ old' = {}
  /\ checked' = FALSE
  /\ pc' = "feed"
  /\ UNCHANGED <<source, pg, queue, targets, current, requests, faults>>

-----------------------------------------------------------------------------
NoFile == [alias |-> NoRev, content |-> NoRev, staged |-> {}]

Init ==
  /\ src = [f \in Files |-> [rev |-> NoRev, live |-> FALSE, leaves |-> {}, lost |-> {}]]
  /\ news = [f \in Files |-> NoNews]
  /\ mem = [f \in Files |-> NoFile] /\ pg = [f \in Files |-> NoFile] /\ old = {}
  /\ queue = <<>> /\ targets = <<>>
  /\ current = NoTarget
  /\ pc = "down" /\ checked = FALSE
  /\ changes = 0 /\ requests = 0 /\ faults = 0

SourceNext == \E f \in Files : \/ \E leaves \in SUBSET Leaves : WriteFile(f, leaves)
                               \/ \E l \in Leaves : UploadLeaf(f, l) \/ TombstoneLeaf(f, l)
                               \/ DeleteFile(f)

WorkerNext == \/ \E f \in Files : Deliver(f)
              \/ Discover \/ Undiscovered \/ LoadDue \/ LoadFails \/ Settle \/ EndPass \/ Restart
              \/ \E k \in DOMAIN targets : Prune(k) \/ Replay(k)

Next == SourceNext \/ WorkerNext \/ Crash \/ Tick \/ \E f \in Files : Reactivate(f)

(* The worker loops for ever and is restarted, and time passes. *)
Fairness == WF_vars(WorkerNext) /\ WF_vars(Tick)

Spec == Init /\ [][Next]_vars
FairSpec == Spec /\ Fairness

-----------------------------------------------------------------------------
(* Every variable keeps its type. *)
FileType == [alias : OptRev, content : OptRev, staged : SUBSET (OptRev \X Leaves)]
TypeOK ==
  /\ src \in [Files -> [rev : OptRev, live : BOOLEAN,
                        leaves : SUBSET Leaves, lost : SUBSET Leaves]]
  /\ news \in [Files -> [doc : BOOLEAN, leaves : SUBSET Leaves]]
  /\ mem \in [Files -> FileType] /\ pg \in [Files -> FileType] /\ old \subseteq Files
  /\ DOMAIN queue \subseteq Keys /\ \A k \in DOMAIN queue : queue[k] \in Row
  /\ DOMAIN targets \subseteq DOMAIN queue /\ \A k \in DOMAIN targets : targets[k] \in Nat
  /\ pc \in {"down", "feed", "due", "replay", "settle"}
  /\ pc = "settle" => current.key \in DOMAIN targets
  /\ checked \in BOOLEAN
  /\ changes \in Nat /\ requests \in Nat /\ faults \in Nat

(* A target is replayed the configured number of times, no more and no less, *)
(* before it is quarantined: every replay beyond that, and none but those,   *)
(* is one whose failure a crash or a lost transaction left unrecorded.       *)
AttemptsAreBounded ==
  \A k \in DOMAIN queue :
    /\ queue[k].tries <= MaxFailures + faults
    /\ queue[k].quarantined => queue[k].tries >= MaxFailures

(* A target leaves the queue only when the worker's memory shows its file   *)
(* recovered or gone, whatever replay, discovery or request came between.   *)
PrunedOnlyWhenRecovered ==
  [][\A k \in DOMAIN queue \ DOMAIN queue' : ~ Unresolved(mem, k)]_vars

(* While a target waits for its retry nothing but time brings that retry    *)
(* nearer, and nothing takes back a failure: not discovery, not a replay of *)
(* another kind, not an edit that asks for a reactivation.                  *)
BackoffIsKept ==
  [][\A k \in DOMAIN queue \cap DOMAIN queue' :
       ~ queue[k].quarantined =>
         /\ queue'[k].failures >= queue[k].failures
         /\ queue'[k].wait < queue[k].wait => UNCHANGED <<source, mem, pg, pc, requests>>]_vars

(* Once the source is quiet the queue comes to rest: what stays in it is    *)
(* quarantined, and every file that is still stale is in it.  No target is  *)
(* starved by the others, none is tried for ever, and none is forgotten.    *)
QueueSettles ==
  <>[](/\ \A k \in DOMAIN queue : queue[k].quarantined
       /\ \A f \in Files : Stale(mem[f]) => <<"file_alias", f>> \in DOMAIN queue)

(* Once every leaf of a file is there, the file is indexed in the end.      *)
CompleteFilesAreIndexed ==
  <>[](\A f \in Files : Complete(f) => mem[f].content = src[f].rev)
=============================================================================
