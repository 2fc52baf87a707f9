---------------------------- MODULE WriteThrough ----------------------------
(***************************************************************************)
(* Writes of one vault path through the REST and MCP service: the source   *)
(* (CouchDB) is committed first, then the committed revision is projected  *)
(* into PostgreSQL and the process memory, while the sync worker delivers  *)
(* the changes of the source to the same rows and other LiveSync clients   *)
(* write the same file.                                                    *)
(*                                                                         *)
(* Content is identified with its revision.  The rows of the path (vault   *)
(* file and note) are written together here; FeedSync tells them apart.    *)
(***************************************************************************)
EXTENDS Integers

CONSTANTS Clients,      \* requests the service handles at the same time
          Deployments,  \* "all": one process; "split": API and workers apart
          Revives,      \* whether other clients write a deleted file again
          MaxRev,       \* bound: changes of the source document
          Failures,     \* what may fail
          MaxFaults     \* bound: how often

ASSUME DeploymentsAssumption == Deployments \subseteq {"all", "split"}
ASSUME RevivesAssumption == Revives \in BOOLEAN
ASSUME FailuresAssumption == Failures \subseteq {"crash", "source", "rows", "feed", "replay"}
ASSUME BoundsAssumption == MaxRev \in Nat \ {0} /\ MaxFaults \in Nat

Procs == {"api", "workers"}
None == 0
OptRev == 0..MaxRev

VARIABLES
  deployment, \* the run modes the processes were started in
  src,        \* CouchDB: the file document of the path
  pg,         \* PostgreSQL: the rows of the path
  mem,        \* per process: its memory of the path
  genFresh,   \* per process: cache_generation is not behind store_state
  stamp,      \* per process: its sync_state against the persisted one
  fed,        \* durable feed cursor: the last change of the source ingested
  wk,         \* the sync worker
  req,        \* the requests
  lock,       \* vault_file_repair_lock of the path: who holds it
  pending,    \* projection_health: revision awaiting projection, if any
  faults

caches == <<mem, genFresh, stamp>>
vars == <<deployment, src, pg, mem, genFresh, stamp, fed, wk, req, lock, pending, faults>>

WorkerProc == IF deployment = "all" THEN "api" ELSE "workers"

SourceKinds == {"absent", "live", "deleted", "tomb"}
IdleReq == [pc |-> "idle", op |-> "none", base |-> None, rev |-> None,
            next |-> "idle", latest |-> FALSE, failed |-> FALSE, known |-> FALSE]
IdleWorker == [pc |-> "poll", rev |-> None, kind |-> "absent", mode |-> "feed",
               known |-> FALSE]

(* A process stops, a call to CouchDB fails or its reply is lost, the rows  *)
(* cannot be read or written by the API, the worker's transaction rolls     *)
(* back.                                                                    *)
Fault(kind) == kind \in Failures /\ faults < MaxFaults /\ faults' = faults + 1
NoFault == UNCHANGED faults

-----------------------------------------------------------------------------
(* The source.  Every change of the document is a revision of its own; a    *)
(* write that would exceed the bound is refused.                            *)

AtBound == src.rev = MaxRev

SourceBecomes(kind) ==
  /\ ~ AtBound
  /\ src' = [rev |-> src.rev + 1, kind |-> kind]

ExternalWrite ==
  /\ \/ (src.kind \in {"absent", "live"} \/ Revives) /\ SourceBecomes("live")
     \/ src.kind = "live" /\ \E kind \in {"deleted", "tomb"} : SourceBecomes(kind)
  /\ UNCHANGED <<deployment, pg, caches, fed, wk, req, lock, pending, faults>>

-----------------------------------------------------------------------------
(* Caches.  A content transaction bumps store_state.generation: every cache *)
(* falls behind it until its process stores the generation it was told.     *)

Bump(p) == genFresh' = [q \in Procs |-> q = p]

(* Whoever holds read_refresh_lock is between its rows and its memory. *)
RefreshLockFree == \A c \in Clients : req[c].pc \notin {"memory", "forget"}

(* Mutant of Newer: the persisted sync_state is not compared.               *)
NewerGeneration(p) == ~ genFresh[p]

Newer(p) == ~ genFresh[p] \/ stamp[p] = "behind"

(* Mutant of CachedRead: loading forgets the rows of the vault file.        *)
CachedReadAlias(p) ==
  \/ ~ Newer(p) /\ UNCHANGED <<caches, pending, faults>>
  \/ Newer(p) /\ Fault("rows") /\ UNCHANGED <<caches, pending>>
  \/ /\ Newer(p) /\ (p = "api" => RefreshLockFree)
     /\ mem' = [mem EXCEPT ![p].alias = pg.alias]
     /\ genFresh' = [genFresh EXCEPT ![p] = TRUE]
     /\ stamp' = [stamp EXCEPT ![p] = "level"]
     /\ pending' = IF p = "api" /\ pending = pg.rev THEN None ELSE pending
     /\ NoFault

(* prepare_cached_read: a stale cache is loaded again, unless PostgreSQL    *)
(* does not answer; loading drops the pending projection it finds applied.  *)
CachedRead(p) ==
  \/ ~ Newer(p) /\ UNCHANGED <<caches, pending, faults>>
  \/ Newer(p) /\ Fault("rows") /\ UNCHANGED <<caches, pending>>
  \/ /\ Newer(p) /\ (p = "api" => RefreshLockFree)
     /\ mem' = [mem EXCEPT ![p].rev = pg.rev, ![p].alias = pg.alias]
     /\ genFresh' = [genFresh EXCEPT ![p] = TRUE]
     /\ stamp' = [stamp EXCEPT ![p] = "level"]
     /\ pending' = IF p = "api" /\ pending = pg.rev THEN None ELSE pending
     /\ NoFault

Read ==
  /\ Newer("api")
  /\ CachedRead("api")
  /\ UNCHANGED <<deployment, src, pg, fed, wk, req, lock>>

-----------------------------------------------------------------------------
(* Requests.  An update holds the lock of its path from its first lookup to *)
(* its answer; a creation takes no lock.                                    *)

Goes(c, r) == req' = [req EXCEPT ![c] = r]
Answers(c) ==
  /\ Goes(c, IdleReq)
  /\ lock' = lock \ {c}
Step(c, pc) == Goes(c, [req[c] EXCEPT !.pc = pc]) /\ UNCHANGED lock

(* update_note, edit_vault_file: a path the memory does not know is refused *)
(* without asking the source.                                               *)
BeginUpdate(c) ==
  /\ req[c].pc = "idle" /\ lock = {}
  /\ CachedRead("api")
  /\ mem'["api"].rev # None
  /\ Goes(c, [IdleReq EXCEPT !.pc = "fetch", !.op = "update"])
  /\ lock' = {c}
  /\ UNCHANGED <<deployment, src, pg, fed, wk>>

(* reconcile_vault_file_from_source: the current source file is projected   *)
(* before the edit; a confirmed deletion removes the local state.           *)
FetchSource(c) ==
  /\ req[c].pc = "fetch"
  /\ \/ /\ src.kind = "live"
        /\ Goes(c, [req[c] EXCEPT !.pc = "rows", !.rev = src.rev, !.next = "prepare"])
        /\ NoFault /\ UNCHANGED <<caches, lock, pending>>
     \/ /\ src.kind \in {"deleted", "tomb"}
        /\ CachedRead("api")
        /\ Step(c, "erase")
     \/ Fault("source") /\ Answers(c) /\ UNCHANGED <<caches, pending>>
  /\ UNCHANGED <<deployment, src, pg, fed, wk>>

(* apply_prepared_vault_write: rows, then memory, then projection_health.   *)
WriteRows(c) ==
  /\ req[c].pc = "rows" /\ RefreshLockFree
  /\ \/ /\ pg' = [pg EXCEPT !.rev = req[c].rev]
        /\ genFresh' = [p \in Procs |-> FALSE]
        /\ req' = [d \in Clients |-> [req[d] EXCEPT
                     !.latest = (d = c), !.failed = IF d = c THEN FALSE ELSE @,
                     !.pc = IF d = c THEN "memory" ELSE @]]
        /\ NoFault
     \/ /\ Fault("rows")
        /\ Goes(c, [req[c] EXCEPT !.pc = "memory", !.failed = TRUE])
        /\ UNCHANGED <<pg, genFresh>>
  /\ UNCHANGED <<deployment, src, mem, stamp, fed, wk, lock, pending>>

WriteMemory(c) ==
  /\ req[c].pc = "memory"
  /\ mem' = [mem EXCEPT !["api"].rev = req[c].rev,
                        !["api"].made = @ \/ req[c].op = "create"]
  /\ genFresh' = IF req[c].failed THEN genFresh ELSE [genFresh EXCEPT !["api"] = req[c].latest]
  /\ Step(c, "health")
  /\ UNCHANGED <<deployment, src, pg, stamp, fed, wk, pending, faults>>

(* Mutant of RecordHealth: a failed projection is not recorded.             *)
RecordHealthAlways(c) ==
  /\ req[c].pc = "health"
  /\ pending' = None
  /\ IF req[c].next = "idle" THEN Answers(c) ELSE Step(c, req[c].next)
  /\ UNCHANGED <<deployment, src, pg, caches, fed, wk, faults>>

RecordHealth(c) ==
  /\ req[c].pc = "health"
  /\ pending' = IF req[c].failed THEN req[c].rev ELSE None
  /\ IF req[c].next = "idle" THEN Answers(c) ELSE Step(c, req[c].next)
  /\ UNCHANGED <<deployment, src, pg, caches, fed, wk, faults>>

(* commit_confirmed_vault_file_deletion: rows and alias, then memory, whose  *)
(* alias goes only if it was known before the rows were touched.             *)
EraseRows(c) ==
  /\ req[c].pc = "erase" /\ RefreshLockFree
  /\ \/ /\ pg' = [rev |-> None, alias |-> None]
        /\ genFresh' = [p \in Procs |-> FALSE]
        /\ req' = [d \in Clients |-> [req[d] EXCEPT
                     !.latest = (d = c), !.known = IF d = c THEN mem["api"].alias # None ELSE @,
                     !.pc = IF d = c THEN "forget" ELSE @]]
        /\ NoFault /\ UNCHANGED lock
     \/ Fault("rows") /\ Answers(c) /\ UNCHANGED <<pg, genFresh>>
  /\ UNCHANGED <<deployment, src, mem, stamp, fed, wk, pending>>

(* Mutant of EraseMemory: the entry of created_file_paths is left out.      *)
EraseMemoryPartly(c) ==
  /\ req[c].pc = "forget"
  /\ mem' = [mem EXCEPT !["api"] = [rev |-> None, alias |-> None]]
  /\ genFresh' = [genFresh EXCEPT !["api"] = req[c].latest]
  /\ Answers(c)
  /\ UNCHANGED <<deployment, src, pg, stamp, fed, wk, pending, faults>>

EraseMemory(c) ==
  /\ req[c].pc = "forget"
  /\ mem' = [mem EXCEPT !["api"] = [rev |-> None, made |-> FALSE,
                                    alias |-> IF req[c].known THEN None ELSE @.alias]]
  /\ genFresh' = [genFresh EXCEPT !["api"] = req[c].latest]
  /\ Answers(c)
  /\ UNCHANGED <<deployment, src, pg, stamp, fed, wk, pending, faults>>

(* The edit starts from what the memory holds now, and expects its revision. *)
(* A file that went away meanwhile is fetched again or reported.             *)
Prepare(c) ==
  /\ req[c].pc = "prepare"
  /\ CachedRead("api")
  /\ IF mem'["api"].rev # None
     THEN /\ Goes(c, [req[c] EXCEPT !.pc = "commit", !.base = mem'["api"].rev])
          /\ UNCHANGED lock
     ELSE Step(c, "fetch") \/ Answers(c)
  /\ UNCHANGED <<deployment, src, pg, fed, wk>>

(* Mutant of Expected: the revision is not compared.                        *)
ExpectedAny(c) == src.kind = "live"

(* update_livesync_note_if_revision: any other revision is a conflict.      *)
Expected(c) == src.kind = "live" /\ src.rev = req[c].base

(* Mutant of CommitUpdate: a failed call is projected like an accepted one. *)
CommitUpdateAnyway(c) ==
  /\ req[c].pc = "commit"
  /\ IF Expected(c) /\ ~ AtBound
     THEN src' = [rev |-> src.rev + 1, kind |-> "live"] /\ NoFault
     ELSE UNCHANGED src /\ Fault("source")
  /\ Goes(c, [req[c] EXCEPT !.pc = "rows", !.rev = src.rev + 1, !.next = "idle"])
  /\ UNCHANGED <<deployment, pg, caches, fed, wk, lock, pending>>

CommitUpdate(c) ==
  /\ req[c].pc = "commit"
  /\ \/ /\ Expected(c)
        /\ SourceBecomes("live")
        /\ \/ /\ Goes(c, [req[c] EXCEPT !.pc = "rows", !.rev = src.rev + 1, !.next = "idle"])
              /\ NoFault /\ UNCHANGED lock
           \/ Fault("source") /\ Answers(c)     \* the reply is lost
     \/ (~ Expected(c) \/ AtBound) /\ Answers(c) /\ NoFault /\ UNCHANGED src
     \/ Fault("source") /\ Answers(c) /\ UNCHANGED src
  /\ UNCHANGED <<deployment, pg, caches, fed, wk, pending>>

(* create_note, create_vault_file: refused when the rows, the memory or     *)
(* created_file_paths know the path.  A failed look at the rows is ignored. *)
Free == mem["api"].rev = None /\ ~ mem["api"].made

BeginCreate(c) ==
  /\ req[c].pc = "idle" /\ Free
  /\ \/ pg.rev = None /\ NoFault
     \/ Fault("rows")
  /\ Goes(c, [IdleReq EXCEPT !.pc = "put", !.op = "create"])
  /\ UNCHANGED <<deployment, src, pg, caches, fed, wk, lock, pending>>

(* write_livesync_note: a document that is not gone is a conflict.          *)
CommitCreate(c) ==
  /\ req[c].pc = "put"
  /\ \/ /\ src.kind \in {"absent", "tomb"}
        /\ SourceBecomes("live")
        /\ \/ /\ Goes(c, [req[c] EXCEPT !.pc = "rows", !.rev = src.rev + 1])
              /\ NoFault /\ UNCHANGED lock
           \/ Fault("source") /\ Answers(c)
     \/ /\ src.kind \in {"live", "deleted"} \/ AtBound
        /\ Answers(c) /\ NoFault /\ UNCHANGED src
     \/ Fault("source") /\ Answers(c) /\ UNCHANGED src
  /\ UNCHANGED <<deployment, pg, caches, fed, wk, pending>>

Request(c) ==
  \/ FetchSource(c) \/ WriteRows(c) \/ WriteMemory(c) \/ RecordHealth(c)
  \/ EraseRows(c) \/ EraseMemory(c) \/ Prepare(c) \/ CommitUpdate(c) \/ CommitCreate(c)

-----------------------------------------------------------------------------
(* The sync worker, in the process of the requests or in its own.           *)

(* set_sync_state and poll_changes.  The persisted sync_state becomes newer *)
(* than that of the other process.                                          *)
Poll ==
  /\ wk.pc = "poll"
  /\ stamp' = [p \in Procs |-> IF p = WorkerProc THEN "level" ELSE "behind"]
  /\ wk' = IF src.rev > fed
           THEN [wk EXCEPT !.pc = "apply", !.rev = src.rev, !.kind = src.kind, !.mode = "feed"]
           ELSE [wk EXCEPT !.pc = "idle"]
  /\ UNCHANGED <<deployment, src, pg, mem, genFresh, fed, req, lock, pending, faults>>

(* ingest_changes_batch: the memory, under the lock of StoreInner only.  A  *)
(* tombstone reaches the file only through an alias that is still known.    *)
Apply ==
  /\ wk.pc = "apply"
  /\ LET known == mem[WorkerProc].alias # None IN
     /\ mem' = [mem EXCEPT ![WorkerProc].alias = IF wk.kind = "live" THEN wk.rev ELSE None,
                           ![WorkerProc].rev = IF wk.kind = "live" THEN wk.rev
                                               ELSE IF wk.kind = "deleted" \/ known THEN None
                                               ELSE @]
     /\ wk' = [wk EXCEPT !.pc = "persist", !.known = known]
  /\ stamp' = [stamp EXCEPT ![WorkerProc] = "ahead"]
  /\ UNCHANGED <<deployment, src, pg, genFresh, fed, req, lock, pending, faults>>

(* apply_ingest_delta, then the store of the generation it returned.        *)
Persist ==
  /\ wk.pc = "persist"
  /\ pg' = [alias |-> IF wk.kind = "live" THEN wk.rev ELSE None,
            rev   |-> IF wk.kind = "live" THEN wk.rev
                      ELSE IF wk.kind = "deleted" \/ wk.known THEN None
                      ELSE pg.rev]
  /\ fed' = IF wk.mode = "feed" THEN wk.rev ELSE fed
  /\ Bump(WorkerProc)
  /\ stamp' = [p \in Procs |-> IF p = WorkerProc /\ stamp[p] = "ahead" THEN "level" ELSE "behind"]
  /\ req' = [c \in Clients |-> [req[c] EXCEPT !.latest = FALSE]]
  /\ wk' = IdleWorker
  /\ UNCHANGED <<deployment, src, mem, lock, pending, faults>>

PersistFails ==
  /\ wk.pc = "persist"
  /\ Fault(wk.mode)
  /\ wk' = IdleWorker
  /\ UNCHANGED <<deployment, src, pg, caches, fed, req, lock, pending>>

(* Idle recovery: a file whose row does not match its alias is read again   *)
(* from the source and replayed; a tombstone has nothing to replay.         *)
(* Mutant of Stale: only a missing row counts, not an outdated one.         *)
StaleWhenMissing(m) == m.alias # None /\ m.rev = None

Stale(m) == m.alias # None /\ m.rev # m.alias

Recover ==
  /\ wk.pc = "idle"
  /\ CachedRead(WorkerProc)
  /\ wk' = IF Stale(mem'[WorkerProc]) /\ src.kind \in {"live", "deleted"}
           THEN [wk EXCEPT !.pc = "apply", !.rev = src.rev, !.kind = src.kind, !.mode = "replay"]
           ELSE IdleWorker
  /\ UNCHANGED <<deployment, src, pg, fed, req, lock>>

(* A process that starts again loads the rows; its requests are gone.       *)
Crash(p) ==
  /\ Fault("crash")
  /\ p = "workers" => deployment = "split"
  /\ mem' = [mem EXCEPT ![p] = [rev |-> pg.rev, alias |-> pg.alias, made |-> FALSE]]
  /\ genFresh' = [genFresh EXCEPT ![p] = TRUE]
  /\ stamp' = [stamp EXCEPT ![p] = "level"]
  /\ wk' = IF p = WorkerProc THEN IdleWorker ELSE wk
  /\ IF p = "api"
     THEN req' = [c \in Clients |-> IdleReq] /\ lock' = {} /\ pending' = None
     ELSE UNCHANGED <<req, lock, pending>>
  /\ UNCHANGED <<deployment, src, pg, fed>>

-----------------------------------------------------------------------------
Init ==
  /\ deployment \in Deployments
  /\ src = [rev |-> 0, kind |-> "absent"]
  /\ pg = [rev |-> None, alias |-> None]
  /\ mem = [p \in Procs |-> [rev |-> None, alias |-> None, made |-> FALSE]]
  /\ genFresh = [p \in Procs |-> TRUE]
  /\ stamp = [p \in Procs |-> "level"]
  /\ fed = 0
  /\ wk = IdleWorker
  /\ req = [c \in Clients |-> IdleReq]
  /\ lock = {}
  /\ pending = None
  /\ faults = 0

Begin(c) == BeginUpdate(c) \/ BeginCreate(c)
Worker == Poll \/ Apply \/ Persist \/ Recover

Next ==
  \/ ExternalWrite \/ Read \/ Worker \/ PersistFails
  \/ \E c \in Clients : Begin(c) \/ Request(c)
  \/ \E p \in Procs : Crash(p)

(* The worker loops for ever, a request that was begun is carried through,  *)
(* and health checks read the status of the service periodically.           *)
Fairness == WF_vars(Worker) /\ WF_vars(Read) /\ \A c \in Clients : WF_vars(Request(c))

Spec == Init /\ [][Next]_vars
FairSpec == Spec /\ Fairness

-----------------------------------------------------------------------------
(* Every variable keeps its type. *)
RowType == [rev : OptRev, alias : OptRev]
MemType == [rev : OptRev, alias : OptRev, made : BOOLEAN]
WorkerType == [pc : {"poll", "apply", "persist", "idle"}, rev : OptRev, kind : SourceKinds,
               mode : {"feed", "replay"}, known : BOOLEAN]
ReqType == [pc : {"idle", "fetch", "rows", "memory", "health", "erase", "forget",
                  "prepare", "commit", "put"},
            op : {"none", "update", "create"}, base : OptRev, rev : OptRev,
            next : {"idle", "prepare"}, latest : BOOLEAN, failed : BOOLEAN, known : BOOLEAN]

TypeOK ==
  /\ deployment \in {"all", "split"}
  /\ src \in [rev : OptRev, kind : SourceKinds]
  /\ pg \in RowType
  /\ mem \in [Procs -> MemType]
  /\ genFresh \in [Procs -> BOOLEAN]
  /\ stamp \in [Procs -> {"behind", "level", "ahead"}]
  /\ fed \in OptRev
  /\ wk \in WorkerType
  /\ req \in [Clients -> ReqType]
  /\ lock \subseteq Clients
  /\ pending \in OptRev
  /\ faults \in Nat

(* No lost update: an edit reaches the source only on top of the revision   *)
(* its content was computed from, whoever wrote in between.                 *)
NoLostUpdate ==
  [][\A c \in Clients :
       req[c].pc = "commit" /\ req'[c].pc # "commit" /\ src' # src => req[c].base = src.rev]_vars

(* CouchDB is the commit point: what rows and memory show of the file is a  *)
(* revision the source accepted, never one it is still to accept.           *)
VisibleIsCommitted ==
  /\ pg.rev <= src.rev /\ pg.alias <= src.rev
  /\ \A p \in Procs : mem[p].rev <= src.rev /\ mem[p].alias <= src.rev

NoOpenProjection == \A c \in Clients : req[c].pc \notin {"memory", "forget"}

(* A cache that believes it is fresh holds the rows, file and alias, when   *)
(* the workers run in a process of their own and nothing has failed: the    *)
(* generation alone would not tell, an API process that stores the number   *)
(* of its own transaction steps over that of the worker before it.          *)
FreshMeansEqual ==
  deployment = "split" /\ faults = 0 /\ ~ Newer("api") /\ NoOpenProjection
    => mem["api"].rev = pg.rev /\ mem["api"].alias = pg.alias

(* Once the source is quiet, the rows hold its live file, whatever late     *)
(* projection, replay, crash or failed transaction came in between.         *)
LiveFileConverges == <>[](src.kind = "live" => pg.rev = src.rev)

(* Once everything is quiet, what the API serves from memory is what the    *)
(* rows hold: the persisted generation invalidates every older cache.       *)
CacheConverges == <>[](mem["api"].rev = pg.rev)

(* While the memory shows a committed revision that the rows do not hold,   *)
(* the projection is on the list of pending ones: readiness tells.          *)
UnprojectedIsPending ==
  deployment = "split" /\ ~ Newer("api") /\ (\A c \in Clients : req[c].pc = "idle")
    /\ src.kind = "live" /\ mem["api"].rev = src.rev /\ pg.rev # src.rev
  => pending # None
=============================================================================
