------------------------------- MODULE Requests -------------------------------
(***************************************************************************)
(* The requests of an API process, step by step between its locks.  The    *)
(* process answers from its memory, which it replaces by the rows when     *)
(* their generation or the stamp of the feed says that they are newer, and *)
(* puts its own writes into both.  The sync worker is another process that *)
(* commits to the rows.                                                    *)
(*                                                                         *)
(* "inner" is a lock for many readers or one writer that serves in the     *)
(* order of arrival: a reader waits behind a writer that waits.  A task    *)
(* may come to wait for it while it holds it.                              *)
(***************************************************************************)
EXTENDS Naturals, Sequences

CONSTANTS Tasks,       \* handlers that run concurrently
          None,        \* no task
          Kinds,       \* what they are asked for
          SeedQueries, \* whether context requests carry a semantic seed query
          MaxRequests, \* bound: requests
          MaxCommits,  \* bound: commits of the worker
          MaxFaults    \* bound: failures of the database

AllKinds == {"read", "query", "search", "context", "write"}

ASSUME TasksAssumption == None \notin Tasks
ASSUME KindsAssumption == Kinds \subseteq AllKinds /\ SeedQueries \in BOOLEAN
ASSUME BoundsAssumption == {MaxRequests, MaxCommits, MaxFaults} \subseteq Nat

VARIABLES
  pg,      \* rows: versions of a note written here, of one the worker indexes and of
           \* a raw file it recovers; their generation and the stamp of the feed
  mem,     \* the same three in memory
  cache,   \* cache_generation, last_sync_at of the memory, and whether a projection
           \* has advanced the generation over a commit the memory does not know
  inner,   \* readers (how often), writer, and who waits
  refresh, \* read_refresh_lock: the task that holds it and who waits
  task,    \* per handler, where it is
  requests, commits, faults

vars == <<pg, mem, cache, inner, refresh, task, requests, commits, faults>>

NoRows == [here |-> 0, there |-> 0, raw |-> 0]
NoPg == [gen |-> 0, stamp |-> 0, rows |-> NoRows]
Idle == [pc |-> "idle", kind |-> "read", nested |-> FALSE, snap |-> NoPg, start |-> NoRows,
         sure |-> TRUE, answer |-> NoRows]

Init ==
  /\ pg = NoPg /\ mem = NoRows /\ cache = [gen |-> 0, stamp |-> 0, skips |-> FALSE]
  /\ inner = [readers |-> [t \in Tasks |-> 0], writer |-> None, queue |-> <<>>]
  /\ refresh = [holder |-> None, queue |-> <<>>]
  /\ task = [t \in Tasks |-> Idle]
  /\ requests = 0 /\ commits = 0 /\ faults = 0

-----------------------------------------------------------------------------
(* The locks.                                                               *)

Free(i) == i.writer = None /\ \A t \in Tasks : i.readers[t] = 0

\* Whoever waits first is served first, readers up to the next writer.
Served(i) ==
  IF i.queue = <<>> THEN i
  ELSE IF Head(i.queue).mode = "write"
    THEN IF Free(i) THEN [i EXCEPT !.writer = Head(i.queue).t, !.queue = Tail(@)] ELSE i
    ELSE IF i.writer # None THEN i
    ELSE LET writers == {k \in DOMAIN i.queue : i.queue[k].mode = "write"}
             n == IF writers = {} THEN Len(i.queue)
                  ELSE (CHOOSE k \in writers : \A l \in writers : k <= l) - 1
             next == {i.queue[k].t : k \in 1..n}
         IN [i EXCEPT !.readers = [t \in Tasks |-> IF t \in next THEN @[t] + 1 ELSE @[t]],
                      !.queue = SubSeq(@, n + 1, Len(@))]

AskInner(t, mode) == inner' = Served([inner EXCEPT !.queue = Append(@, [t |-> t, mode |-> mode])])
LeaveInner(t, mode) ==
  inner' = Served(IF mode = "write" THEN [inner EXCEPT !.writer = None]
                  ELSE [inner EXCEPT !.readers[t] = @ - 1])

Waits(t) == \E k \in DOMAIN inner.queue : inner.queue[k].t = t
Reads(t) == inner.readers[t] > 0 /\ ~ Waits(t)
Writes(t) == inner.writer = t

AskRefresh(t) ==
  refresh' = IF refresh.holder = None THEN [refresh EXCEPT !.holder = t]
             ELSE [refresh EXCEPT !.queue = Append(@, t)]
LeaveRefresh ==
  refresh' = IF refresh.queue = <<>> THEN [refresh EXCEPT !.holder = None]
             ELSE [holder |-> Head(refresh.queue), queue |-> Tail(refresh.queue)]

At(t, pc) == task[t].pc = pc
Go(t, pc) == task' = [task EXCEPT ![t].pc = pc]
Fault == faults < MaxFaults /\ faults' = faults + 1

-----------------------------------------------------------------------------
(* A request arrives, and the worker commits.                               *)

Start(t, kind) ==
  /\ At(t, "idle") /\ requests < MaxRequests
  /\ requests' = requests + 1
  /\ task' = [task EXCEPT ![t] = [Idle EXCEPT !.kind = kind, !.start = pg.rows, !.pc =
                CASE kind = "write" -> "lock" [] kind = "search" -> "rank" [] OTHER -> "check"]]
  /\ UNCHANGED <<pg, mem, cache, inner, refresh, commits, faults>>

\* A batch of the feed with the stamp of its cursor, or a replay that has
\* recovered a raw file: without a note and a sequence it has no stamp.
Commit ==
  /\ commits < MaxCommits /\ commits' = commits + 1
  /\ pg' \in {[gen |-> pg.gen + 1, stamp |-> pg.stamp + 1, rows |-> [pg.rows EXCEPT !.there = @ + 1]],
              [gen |-> pg.gen + 1, stamp |-> pg.stamp, rows |-> [pg.rows EXCEPT !.raw = @ + 1]]}
  /\ UNCHANGED <<mem, cache, inner, refresh, task, requests, faults>>

-----------------------------------------------------------------------------
(* prepare_cached_read.                                                     *)

(* Mutant of Newer: the stamp of the feed is not compared.                  *)
NewerByGeneration == pg.gen > cache.gen

Newer == pg.gen > cache.gen \/ pg.stamp > cache.stamp

(* Mutant of Check: nobody waits for a refresh that is under way.           *)
CheckWithoutWaiting(t) ==
  /\ At(t, "check")
  /\ IF Newer /\ refresh.holder = None
     THEN AskRefresh(t) /\ Go(t, "recheck")
     ELSE Go(t, "enter") /\ UNCHANGED refresh
  /\ UNCHANGED <<pg, mem, cache, inner, requests, commits, faults>>

Check(t) ==
  /\ At(t, "check")
  /\ IF Newer THEN AskRefresh(t) /\ Go(t, "recheck") ELSE Go(t, "enter") /\ UNCHANGED refresh
  /\ UNCHANGED <<pg, mem, cache, inner, requests, commits, faults>>

\* load_snapshot: the rows and their generation as of one moment, in a
\* transaction that others commit beside.
Snapshot == pg

(* Mutant of Recheck: whoever got the lock lets the next one in.            *)
RecheckUnguarded(t) ==
  /\ At(t, "recheck") /\ refresh.holder = t
  /\ LeaveRefresh
  /\ IF Newer
     THEN task' = [task EXCEPT ![t].pc = "replace", ![t].snap = Snapshot] /\ AskInner(t, "write")
     ELSE Go(t, "enter") /\ UNCHANGED inner
  /\ UNCHANGED <<pg, mem, cache, requests, commits, faults>>

\* Under the lock the question is asked again, and the rows are loaded.
Recheck(t) ==
  /\ At(t, "recheck") /\ refresh.holder = t
  /\ IF Newer
     THEN /\ task' = [task EXCEPT ![t].pc = "replace", ![t].snap = Snapshot]
          /\ AskInner(t, "write") /\ UNCHANGED refresh
     ELSE Go(t, "enter") /\ LeaveRefresh /\ UNCHANGED inner
  /\ UNCHANGED <<pg, mem, cache, requests, commits, faults>>

\* Without the database the memory has to do.
CannotRefresh(t) ==
  /\ At(t, "check") \/ (At(t, "recheck") /\ refresh.holder = t)
  /\ Fault
  /\ task' = [task EXCEPT ![t].pc = "enter", ![t].sure = FALSE]
  /\ IF At(t, "recheck") THEN LeaveRefresh ELSE UNCHANGED refresh
  /\ UNCHANGED <<pg, mem, cache, inner, requests, commits>>

Replace(t) ==
  /\ At(t, "replace") /\ Writes(t)
  /\ mem' = task[t].snap.rows
  /\ LeaveInner(t, "write") /\ Go(t, "stamp")
  /\ UNCHANGED <<pg, cache, refresh, requests, commits, faults>>

Stamp(t) ==
  /\ At(t, "stamp")
  /\ cache' = [cache EXCEPT !.stamp = task[t].snap.stamp]
  /\ Go(t, "generation")
  /\ UNCHANGED <<pg, mem, inner, refresh, requests, commits, faults>>

\* The generation counts from now on; pending projections are looked through.
Generation(t) ==
  /\ At(t, "generation")
  /\ cache' = [cache EXCEPT !.gen = task[t].snap.gen, !.skips = FALSE]
  /\ AskInner(t, "read") /\ Go(t, "reconcile")
  /\ UNCHANGED <<pg, mem, refresh, requests, commits, faults>>

(* Mutant of Reconcile: the refresh ends without releasing its lock.        *)
ReconcileForEver(t) ==
  /\ At(t, "reconcile") /\ Reads(t)
  /\ Go(t, "serve")
  /\ UNCHANGED <<pg, mem, cache, inner, refresh, requests, commits, faults>>

Reconcile(t) ==
  /\ At(t, "reconcile") /\ Reads(t)
  /\ LeaveInner(t, "read") /\ LeaveRefresh /\ Go(t, "enter")
  /\ UNCHANGED <<pg, mem, cache, requests, commits, faults>>

Enter(t) ==
  /\ At(t, "enter")
  /\ AskInner(t, "read") /\ Go(t, "serve")
  /\ UNCHANGED <<pg, mem, cache, refresh, requests, commits, faults>>

-----------------------------------------------------------------------------
(* The answers.                                                             *)

\* search_raw ranks the rows; what it ranked is filtered in memory later.
Rank(t) ==
  /\ At(t, "rank")
  /\ \/ /\ task' = [task EXCEPT ![t].pc = "check",
                                ![t].start = IF task[t].nested THEN @ ELSE pg.rows]
        /\ UNCHANGED <<inner, faults>>
     \/ Fault /\ AskInner(t, "read") /\ Go(t, "rankMemory")
  /\ UNCHANGED <<pg, mem, cache, refresh, requests, commits>>

RankMemory(t) ==
  /\ At(t, "rankMemory") /\ Reads(t)
  /\ LeaveInner(t, "read") /\ Go(t, "check")
  /\ UNCHANGED <<pg, mem, cache, refresh, requests, commits, faults>>

\* Some answers are ready at once, others wait for the provider in between.
Serve(t) ==
  /\ At(t, "serve") /\ Reads(t)
  /\ CASE task[t].nested -> LeaveInner(t, "read") /\ Go(t, "assemble")
       [] ~ task[t].nested /\ task[t].kind \in {"read", "search"} ->
            /\ LeaveInner(t, "read")
            /\ task' = [task EXCEPT ![t].pc = "done", ![t].answer = mem]
       [] OTHER -> Go(t, "provider") /\ UNCHANGED inner
  /\ UNCHANGED <<pg, mem, cache, refresh, requests, commits, faults>>

\* The vector of the query is fetched with the memory locked, and a context
\* with a seed query searches with the memory locked.
Provider(t) ==
  /\ At(t, "provider")
  /\ IF task[t].kind = "context" /\ SeedQueries
     THEN task' = [task EXCEPT ![t].pc = "rank", ![t].nested = TRUE]
     ELSE Go(t, "assemble")
  /\ UNCHANGED <<pg, mem, cache, inner, refresh, requests, commits, faults>>

Assemble(t) ==
  /\ At(t, "assemble") /\ LeaveInner(t, "read")
  /\ task' = [task EXCEPT ![t].pc = "done", ![t].answer = mem]
  /\ UNCHANGED <<pg, mem, cache, refresh, requests, commits, faults>>

-----------------------------------------------------------------------------
(* A write that the source has accepted is projected.                       *)

Lock(t) ==
  /\ At(t, "lock")
  /\ AskRefresh(t) /\ Go(t, "project")
  /\ UNCHANGED <<pg, mem, cache, inner, requests, commits, faults>>

\* apply_content_delta: a transaction without the stamp of the feed.
WithContent(rows) == [pg EXCEPT !.gen = @ + 1, !.rows = rows]

\* Rows first; a failure leaves them behind, and memory goes ahead.
Project(t) ==
  /\ At(t, "project") /\ refresh.holder = t
  /\ \/ /\ pg' = WithContent([pg.rows EXCEPT !.here = @ + 1])
        /\ task' = [task EXCEPT ![t].pc = "publish", ![t].snap = pg']
        /\ UNCHANGED faults
     \/ /\ Fault
        /\ task' = [task EXCEPT ![t].pc = "publish", ![t].snap = pg, ![t].sure = FALSE]
        /\ UNCHANGED pg
  /\ AskInner(t, "write")
  /\ UNCHANGED <<mem, cache, refresh, requests, commits>>

Publish(t) ==
  /\ At(t, "publish") /\ Writes(t)
  /\ mem' = [mem EXCEPT !.here = task[t].snap.rows.here + (IF task[t].sure THEN 0 ELSE 1)]
  /\ LeaveInner(t, "write") /\ Go(t, "published")
  /\ UNCHANGED <<pg, cache, refresh, requests, commits, faults>>

Published(t) ==
  /\ At(t, "published")
  /\ cache' = IF ~ task[t].sure THEN cache
              ELSE [cache EXCEPT !.gen = task[t].snap.gen,
                                 !.skips = @ \/ task[t].snap.gen > cache.gen + 1]
  /\ LeaveRefresh /\ Go(t, "done")
  /\ UNCHANGED <<pg, mem, inner, requests, commits, faults>>

Reply(t) ==
  /\ At(t, "done")
  /\ task' = [task EXCEPT ![t] = Idle]
  /\ UNCHANGED <<pg, mem, cache, inner, refresh, requests, commits, faults>>

-----------------------------------------------------------------------------
Step(t) == \/ Check(t) \/ Recheck(t) \/ Replace(t) \/ Stamp(t) \/ Generation(t) \/ Reconcile(t)
           \/ Enter(t) \/ CannotRefresh(t) \/ Rank(t) \/ RankMemory(t) \/ Serve(t) \/ Provider(t)
           \/ Assemble(t) \/ Lock(t) \/ Project(t) \/ Publish(t) \/ Published(t) \/ Reply(t)

Next == Commit \/ \E t \in Tasks : Step(t) \/ \E kind \in Kinds : Start(t, kind)

Spec == Init /\ [][Next]_vars

\* Every handler goes on as long as it can: the database and the provider
\* answer or time out, and the locks serve in the order of arrival.
FairSpec == Spec /\ \A t \in Tasks : WF_vars(Step(t))

-----------------------------------------------------------------------------
(* Properties.                                                              *)

Rows == [here : Nat, there : Nat, raw : Nat]
Database == [gen : Nat, stamp : Nat, rows : Rows]
Waiting == [t : Tasks, mode : {"read", "write"}]
Places == {"idle", "lock", "rank", "rankMemory", "check", "recheck", "replace", "stamp",
           "generation", "reconcile", "enter", "serve", "provider", "assemble",
           "project", "publish", "published", "done"}
Handler == [pc : Places, kind : AllKinds, nested : BOOLEAN, snap : Database,
            start : Rows, sure : BOOLEAN, answer : Rows]

(* Types, and the exclusion of the locks: the memory has one writer or      *)
(* readers, and only the holder of the refresh lock loads or projects.      *)
TypeOK ==
  /\ pg \in Database /\ mem \in Rows
  /\ cache \in [gen : 0..pg.gen, stamp : 0..pg.stamp, skips : BOOLEAN]
  /\ inner \in [readers : [Tasks -> 0..2], writer : Tasks \cup {None}, queue : Seq(Waiting)]
  /\ refresh \in [holder : Tasks \cup {None}, queue : Seq(Tasks)]
  /\ task \in [Tasks -> Handler]
  /\ requests \in 0..MaxRequests /\ commits \in 0..MaxCommits /\ faults \in 0..MaxFaults
  /\ \A t \in Tasks : /\ (inner.writer # None => inner.readers[t] = 0)
                       /\ (task[t].pc \in {"replace", "stamp", "generation", "reconcile", "publish",
                                           "published"} => refresh.holder = t)

(* A request answers with the memory, but never with older notes than were  *)
(* in the rows when it arrived, or when its search ranked them, unless the  *)
(* database failed (prepare_cached_read, store.rs:930): not even when a     *)
(* refresh, a projection or a commit of the worker is under way.            *)
AnswersAreFresh ==
  \A t \in Tasks : At(t, "done") /\ task[t].sure /\ task[t].kind # "write" =>
    /\ task[t].answer.here >= task[t].start.here
    /\ task[t].answer.there >= task[t].start.there

(* A memory that counts as fresh holds the notes as the rows do, also when  *)
(* a projection has stored the generation of its own transaction after a    *)
(* commit of the worker that the memory does not know (store.rs:917).  Of   *)
(* raw files that holds only until a projection has done so: a replay that  *)
(* recovers one leaves no stamp.                                            *)
FreshIsTrue ==
  faults = 0 /\ ~ Newer /\ refresh.holder = None =>
    /\ mem.here = pg.rows.here /\ mem.there = pg.rows.there
    /\ cache.skips \/ mem.raw = pg.rows.raw

(* Every request is answered, whatever else is asked for or committed.      *)
RequestsEnd == \A t \in Tasks : ~ At(t, "idle") ~> At(t, "idle")

(* A context is assembled from note seeds and semantic queries              *)
(* (README.md:135): a request for one is answered.                          *)
ContextsAreAssembled ==
  \A t \in Tasks : At(t, "check") /\ task[t].kind = "context" ~> At(t, "done")
=============================================================================
