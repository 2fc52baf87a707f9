--------------------------- MODULE FeedSyncProofs ---------------------------
(***************************************************************************)
(* For every set of files, every bound and every size of a sub-batch:      *)
(* FeedSync keeps its types, its durable cursor loses no change, a replay  *)
(* does not move the cursor, memory and PostgreSQL disagree on a file only *)
(* while the feed is about to deliver a change of it, and so does a row    *)
(* that goes back to an older revision.                                    *)
(*                                                                         *)
(* The cursor claim is not inductive: it must know what is in flight.  The *)
(* strengthening says that a change the feed response covers is reflected, *)
(* pending or in the open transaction (Covered), that whatever is in       *)
(* flight is the current document of its file or one the source replaced   *)
(* after the response (Current), and what the open transaction will write  *)
(* (OpenTx).                                                               *)
(***************************************************************************)
EXTENDS FeedSync, TLAPS

InFlight == FileChanges(pending \cup batch)

(* The alias a file change leaves behind. *)
AliasOf(c) == IF c.kind = "live" THEN c.rev ELSE NoRev

OneDocEach ==
  /\ \A c, d \in FileChanges(log) : c.file = d.file => c = d
  /\ \A c, d \in InFlight : c.file = d.file => c = d

BehindHead ==
  /\ \A c \in log : c.seq <= head
  /\ pg.cursor <= head /\ pollSince <= head /\ feedLast <= head

KnownUpTo(n) == \A c \in FileChanges(log) : c.seq <= n => Known(c)

Current ==
  \A d \in InFlight : \A c \in FileChanges(log) :
    c.file = d.file => \/ c.rev = d.rev /\ c.kind = d.kind
                       \/ c.seq > feedLast

Covered ==
  pc = "ingest" \/ (pc = "commit" /\ mode = "feed") =>
    \A c \in FileChanges(log) :
      c.seq <= feedLast => Known(c) \/ c \in pending \cup batch

PendingOK ==
  /\ pc \notin {"ingest", "commit"} => pending = {} /\ batch = {}
  /\ pc = "ingest" => batch = {}
  /\ pc \in {"ingest", "commit"} => pollSince <= feedLast
  /\ \A c \in pending : c.seq > 0 /\ c.seq <= feedLast

OpenTx ==
  pc = "commit" =>
    /\ \A f \in Files :
         \/ \E d \in FileChanges(batch) : d.file = f /\ tx.alias[f] = AliasOf(d)
         \/ /\ \A d \in FileChanges(batch) : d.file # f
            /\ tx.alias[f] = pg.alias[f]
    /\ mode = "feed" => /\ tx.cursor <= feedLast
                        /\ \A c \in pending : c.seq > tx.cursor
    /\ mode = "replay" => tx.cursor = pg.cursor /\ pg.cursor <= feedLast /\ pending = {}

Published ==
  pc \in {"poll", "idle"} => mem.last = pollSince /\ pg.cursor = pollSince

IInv == /\ TypeOK /\ OneDocEach /\ BehindHead
        /\ KnownUpTo(pg.cursor) /\ KnownUpTo(pollSince)
        /\ Current /\ Covered /\ PendingOK /\ OpenTx /\ Published

-----------------------------------------------------------------------------
(* Types.                                                                   *)

LEMMA LiveRevType ==
  ASSUME NEW S \in SUBSET Change, NEW f \in Files, InLive(S, f)
  PROVE  LiveRev(S, f) \in Revs
<1>1. PICK c \in S : c.file = f /\ c.kind = "live"
  BY DEF InLive
<1>2. LET d == CHOOSE d \in S : d.file = f /\ d.kind = "live"
      IN  d \in S
  BY <1>1
<1> QED
  BY <1>2 DEF LiveRev, Change

LEMMA IngestMemType ==
  ASSUME NEW m \in MemType, NEW S \in SUBSET Change, NEW leaves \in SUBSET Leaves,
         NEW last \in Nat
  PROVE  IngestMem(m, S, leaves, last) \in MemType
<1> DEFINE after == IngestMem(m, S, leaves, last)
<1>1. \A f \in Files : Registered(m, S, f) \in OptRev
  <2> SUFFICES ASSUME NEW f \in Files
               PROVE  Registered(m, S, f) \in OptRev
    OBVIOUS
  <2>1. CASE InLive(S, f)
    BY <2>1, LiveRevType DEF Registered, Revs, OptRev
  <2>2. CASE ~ InLive(S, f)
    BY <2>2 DEF Registered, MemType
  <2> QED
    BY <2>1, <2>2
<1>2. NoRev \in OptRev
  BY BoundsAssumption DEF NoRev, OptRev
<1>3. after.alias \in [Files -> OptRev]
  BY <1>1, <1>2 DEF IngestMem, LastSeq
<1>4. after.vault \in [Files -> OptRev]
  BY <1>1, <1>2 DEF IngestMem, LastSeq, MemType
<1>5. after.note \in [Files -> OptRev]
  BY <1>1, <1>2 DEF IngestMem, LastSeq, MemType
<1>6. after.staged \in SUBSET Leaves
  BY DEF IngestMem, LastSeq, MemType, NewlyStaged
<1>7. after.last \in Nat
  BY DEF IngestMem, LastSeq, MemType
<1> QED
  BY <1>3, <1>4, <1>5, <1>6, <1>7 DEF IngestMem, LastSeq, MemType

LEMMA IngestPgType ==
  ASSUME NEW p \in RowsType, NEW m \in MemType, NEW S \in SUBSET Change,
         NEW leaves \in SUBSET Leaves, NEW last \in Nat
  PROVE  IngestPg(p, m, S, leaves, last) \in RowsType
<1> DEFINE after == IngestMem(m, S, leaves, last)
           q == IngestPg(p, m, S, leaves, last)
<1>1. after \in MemType
  BY IngestMemType
<1>2. q.alias \in [Files -> OptRev]
  BY <1>1 DEF IngestPg, MemType, RowsType
<1>3. q.vault \in [Files -> OptRev]
  BY <1>1 DEF IngestPg, MemType, RowsType
<1>4. q.note \in [Files -> OptRev]
  BY <1>1 DEF IngestPg, MemType, RowsType
<1>5. q.staged \in SUBSET Leaves
  BY DEF IngestPg, RowsType, NewlyStaged
<1>6. q.cursor \in Nat
  BY <1>1 DEF IngestPg, MemType, RowsType
<1> QED
  BY <1>2, <1>3, <1>4, <1>5, <1>6 DEF IngestPg, RowsType

LEMMA HydratedType ==
  ASSUME NEW p \in RowsType
  PROVE  /\ Hydrated(p) \in MemType
         /\ HydratedNote(p) \in [Files -> OptRev]
<1>1. HydratedNote(p) \in [Files -> OptRev]
  BY DEF HydratedNote, RowsType
<1> QED
  BY <1>1 DEF Hydrated, RowsType, MemType

LEMMA EmptyRowsType == EmptyRows \in RowsType
  BY BoundsAssumption DEF EmptyRows, RowsType, OptRev, NoRev

LEMMA SourceLeaves ==
  ASSUME log \subseteq Change
  PROVE  /\ \A f \in Files : LiveLeaf(f) \in SUBSET Leaves
         /\ \A S \in SUBSET Change : Children(S) \in SUBSET Leaves /\ LeavesIn(S) \in SUBSET Leaves
         /\ \A f \in Files : Refetched(f) \in SUBSET Change
<1>1. \A f \in Files : LiveLeaf(f) \in SUBSET Leaves
  BY DEF LiveLeaf, FileDoc, FileChanges, Change, Leaves
<1>2. \A S \in SUBSET Change : Children(S) \in SUBSET Leaves
  BY <1>1 DEF Children
<1>3. \A S \in SUBSET Change : LeavesIn(S) \in SUBSET Leaves
  BY DEF LeavesIn, Change, Leaves
<1>4. \A f \in Files : Refetched(f) \in SUBSET Change
  BY DEF Refetched, FileDoc, FileChanges, Change
<1> QED
  BY <1>1, <1>2, <1>3, <1>4

LEMMA TypeInit == Init => TypeOK
<1> SUFFICES ASSUME Init PROVE TypeOK
  OBVIOUS
<1>1. Hydrated(EmptyRows) \in MemType
  BY HydratedType, EmptyRowsType
<1> QED
  BY <1>1, EmptyRowsType DEF Init, TypeOK

LEMMA PublishType ==
  ASSUME TypeOK, NEW c \in Change, Publish(c)
  PROVE  TypeOK'
<1>1. log' \subseteq Change /\ head' \in Nat
  BY DEF Publish, TypeOK
<1> QED
  BY <1>1 DEF Publish, TypeOK, loop

LEMMA NewChanges ==
  ASSUME TypeOK, NEW f \in Files, NextRev(f) \in Revs, NEW kind \in FileKinds \cup {"leaf"}
  PROVE  [file |-> f, rev |-> NextRev(f), kind |-> kind, seq |-> head + 1] \in Change
BY DEF TypeOK, Change

LEMMA TypeStep == TypeOK /\ [Next]_vars => TypeOK'
<1> SUFFICES ASSUME TypeOK, [Next]_vars PROVE TypeOK'
  OBVIOUS
<1> USE DEF TypeOK
<1>1. ASSUME NEW f \in Files, WriteLeaf(f) PROVE TypeOK'
  BY ONLY <1>1, TypeOK, PublishType, NewChanges DEF WriteLeaf
<1>2. ASSUME NEW f \in Files, WriteFile(f) PROVE TypeOK'
  <2>1. "live" \in FileKinds
    BY DEF FileKinds
  <2> QED
    BY ONLY <1>2, <2>1, TypeOK, PublishType, NewChanges DEF WriteFile
<1>3. ASSUME NEW f \in Files, NEW kind \in {"deleted", "tomb"}, DeleteFile(f, kind) PROVE TypeOK'
  <2>1. kind \in FileKinds
    BY DEF FileKinds
  <2> QED
    BY ONLY <1>3, <2>1, TypeOK, PublishType, NewChanges DEF DeleteFile
<1>4. CASE Restart
  <2>1. mem' \in MemType /\ HydratedNote(pg) \in [Files -> OptRev]
    BY <1>4, HydratedType DEF Restart
  <2>2. pg' \in RowsType /\ pollSince' \in Nat
    BY <1>4, <2>1 DEF Restart, RowsType
  <2> QED
    BY <1>4, <2>1, <2>2 DEF Restart, AtHead, source
<1>5. CASE Crash
  <2>1. mem' \in MemType
    BY <1>5, HydratedType, EmptyRowsType DEF Crash
  <2> QED
    BY <1>5, <2>1 DEF Crash, Fault, source
<1>6. CASE Watermark
  <2>1. mem' \in MemType
    BY <1>6 DEF Watermark, MemType
  <2>2. pg' \in RowsType
    BY <1>6 DEF Watermark, RowsType
  <2> QED
    BY <1>6, <2>1, <2>2 DEF Watermark, Fault, NoFault, source
<1>7. CASE Poll
  BY <1>7 DEF Poll, source
<1>8. CASE PollFails
  BY <1>8 DEF PollFails, Fault, AtHead, source
<1>9. ASSUME NEW c \in pending, Ingest(c) PROVE TypeOK'
  <2> DEFINE S == {d \in pending : d.seq <= c.seq}
  <2>1. S \in SUBSET Change /\ c.seq \in Nat
    BY DEF Change
  <2>2. PICK fetched \in {Children(S), {}} :
          /\ mem' = IngestMem(mem, S, LeavesIn(S) \cup fetched, c.seq)
          /\ tx' = IngestPg(pg, mem, S, LeavesIn(S) \cup fetched, c.seq)
    BY <1>9 DEF Ingest
  <2>3. LeavesIn(S) \cup fetched \in SUBSET Leaves
    BY <2>1, SourceLeaves
  <2>4. mem' \in MemType
    BY <2>1, <2>2, <2>3, IngestMemType
  <2>5. tx' \in RowsType
    BY <2>1, <2>2, <2>3, IngestPgType
  <2>6. faults' \in Nat
    BY <1>9 DEF Ingest, Fault, NoFault
  <2> QED
    BY <1>9, <2>1, <2>4, <2>5, <2>6 DEF Ingest, source
<1>10. CASE Commit
  <2>1. pollSince' \in Nat
    BY <1>10 DEF Commit, RowsType
  <2> QED
    BY <1>10, <2>1 DEF Commit, source
<1>11. CASE CommitFails
  BY <1>11 DEF CommitFails, Fault, AtHead, source
<1>12. ASSUME NEW f \in Files, Replay(f) PROVE TypeOK'
  <2>1. CASE Refetched(f) = {}
    BY <1>12, <2>1 DEF Replay, AtHead, source
  <2>2. CASE Refetched(f) # {}
    <3>1. Refetched(f) \in SUBSET Change /\ LiveLeaf(f) \in SUBSET Leaves
      BY SourceLeaves
    <3>2. /\ mem' = IngestMem(mem, Refetched(f), LiveLeaf(f), 0)
          /\ tx' = IngestPg(pg, mem, Refetched(f), LiveLeaf(f), 0)
      BY <1>12, <2>2 DEF Replay
    <3>3. mem' \in MemType
      BY <3>1, <3>2, IngestMemType
    <3>4. tx' \in RowsType
      BY <3>1, <3>2, IngestPgType
    <3> QED
      BY <1>12, <2>2, <3>1, <3>3, <3>4 DEF Replay, source
  <2> QED
    BY <2>1, <2>2
<1>13. CASE Idle
  BY <1>13 DEF Idle, AtHead, source
<1>14. CASE UNCHANGED vars
  BY <1>14 DEF vars
<1> QED
  BY ONLY [Next]_vars, <1>1, <1>2, <1>3, <1>4, <1>5, <1>6, <1>7, <1>8, <1>9, <1>10, <1>11,
     <1>12, <1>13, <1>14 DEF Next, SourceNext, WorkerNext, FaultNext

(* Whatever the source, the worker and the faults do, every variable keeps  *)
(* its type; in particular a batch never puts a revision outside the        *)
(* domain of the rows, in memory or in PostgreSQL.                          *)
THEOREM TypeCorrect == Spec => []TypeOK
<1> QED
  BY TypeInit, TypeStep, PTL DEF Spec

-----------------------------------------------------------------------------
(* The cursor.                                                              *)

(* The alias a batch leaves in the rows is that of its file document, when  *)
(* it has one, and is untouched otherwise.                                  *)
LEMMA IngestAlias ==
  ASSUME NEW p, NEW m, NEW S \in SUBSET Change, NEW leaves, NEW last, NEW f \in Files,
         \A c, d \in FileChanges(S) : c.file = d.file => c = d
  PROVE  \/ \E d \in FileChanges(S) :
              d.file = f /\ IngestPg(p, m, S, leaves, last).alias[f] = AliasOf(d)
         \/ /\ \A d \in FileChanges(S) : d.file # f
            /\ IngestPg(p, m, S, leaves, last).alias[f] = p.alias[f]
<1> DEFINE a == IngestPg(p, m, S, leaves, last).alias[f]
<1>1. a = IF InLive(S, f) \/ InGone(S, f)
          THEN IF InGone(S, f) THEN NoRev ELSE Registered(m, S, f)
          ELSE p.alias[f]
  BY DEF IngestPg, IngestMem, LastSeq
<1>2. CASE InGone(S, f)
  <2>1. PICK d \in S : d.file = f /\ d.kind \in {"deleted", "tomb"}
    BY <1>2 DEF InGone
  <2>2. d \in FileChanges(S) /\ AliasOf(d) = NoRev
    BY <2>1 DEF FileChanges, AliasOf
  <2> QED
    BY <1>1, <1>2, <2>1, <2>2
<1>3. CASE InLive(S, f) /\ ~ InGone(S, f)
  <2>1. PICK d \in S : d.file = f /\ d.kind = "live"
    BY <1>3 DEF InLive
  <2>2. d \in FileChanges(S)
    BY <2>1 DEF FileChanges
  <2>3. \A c \in S : c.file = f /\ c.kind = "live" => c = d
    BY <2>1, <2>2 DEF FileChanges
  <2>4. LiveRev(S, f) = d.rev
    BY <2>1, <2>3 DEF LiveRev
  <2> QED
    BY <1>1, <1>3, <2>1, <2>2, <2>4 DEF Registered, AliasOf
<1>4. CASE ~ InLive(S, f) /\ ~ InGone(S, f)
  <2>1. \A d \in FileChanges(S) : d.file # f
    BY <1>4 DEF FileChanges, InLive, InGone, Change, FileKinds
  <2> QED
    BY <1>1, <1>4, <2>1
<1> QED
  BY <1>2, <1>3, <1>4

LEMMA InvInit == Init => IInv
<1> SUFFICES ASSUME Init PROVE IInv
  OBVIOUS
<1>1. TypeOK
  BY TypeInit
<1>2. FileChanges(log) = {} /\ InFlight = {}
  BY DEF Init, FileChanges, InFlight
<1>3. pg.cursor = 0
  BY DEF Init, EmptyRows
<1> QED
  BY <1>1, <1>2, <1>3
  DEF Init, IInv, OneDocEach, BehindHead, KnownUpTo, Current, Covered, PendingOK, OpenTx, Published

(* A change of the source comes after everything the worker has seen.       *)
LEMMA PublishInv ==
  ASSUME IInv, NEW c \in Change, c.seq = head + 1, Publish(c)
  PROVE  IInv'
<1> USE DEF IInv
<1>1. TypeOK'
  BY PublishType
<1>2. \A d \in FileChanges(log') : d \in FileChanges(log) \/ d = c
  BY DEF Publish, FileChanges
<1>3. \A d \in FileChanges(log') : d \in FileChanges(log) /\ c \in FileChanges(log') => d.file # c.file \/ d = c
  BY DEF Publish, FileChanges
<1>4. UNCHANGED <<pg, mem, pc, mode, pollSince, currentSeq, feedLast, pending, batch, tx>>
  BY DEF Publish, loop
<1>5. InFlight' = InFlight
  BY <1>4 DEF InFlight
<1>6. head \in Nat /\ pg.cursor \in Nat /\ pollSince \in Nat /\ feedLast \in Nat /\ head' = head + 1
  BY DEF TypeOK, RowsType, Publish
<1>7. c.seq > pg.cursor /\ c.seq > pollSince /\ c.seq > feedLast
  BY <1>6 DEF BehindHead
<1>8. OneDocEach'
  BY <1>2, <1>3, <1>5 DEF OneDocEach
<1>9. BehindHead'
  <2>1. \A d \in log' : d \in log \/ d = c
    BY DEF Publish
  <2>2. \A d \in log : d.seq \in Nat
    BY DEF TypeOK, Change
  <2> QED
    BY <1>4, <1>6, <2>1, <2>2 DEF BehindHead
<1>10. KnownUpTo(pg.cursor)' /\ KnownUpTo(pollSince)'
  BY <1>2, <1>4, <1>6, <1>7 DEF KnownUpTo, Known
<1>11. Current'
  BY <1>2, <1>4, <1>5, <1>7 DEF Current
<1>12. Covered'
  <2> SUFFICES ASSUME pc = "ingest" \/ (pc = "commit" /\ mode = "feed"),
                      NEW d \in FileChanges(log'), d.seq <= feedLast
               PROVE  Known(d) \/ d \in pending \cup batch
    BY <1>4 DEF Covered, Known
  <2>1. d \in FileChanges(log)
    BY <1>2, <1>6, <1>7
  <2> QED
    BY <2>1 DEF Covered
<1>13. PendingOK' /\ OpenTx' /\ Published'
  BY <1>4 DEF PendingOK, OpenTx, Published
<1> QED
  BY <1>1, <1>8, <1>9, <1>10, <1>11, <1>12, <1>13

(* Giving up what is in flight costs nothing: the cursor did not move.      *)
LEMMA ResetInv ==
  ASSUME IInv, TypeOK', UNCHANGED <<log, head, feedLast>>,
         pc' \in {"down", "head"}, pending' = {}, batch' = {},
         pg'.alias = pg.alias, pg'.cursor = pg.cursor, pollSince' \in {pollSince, pg.cursor}
  PROVE  IInv'
<1> USE DEF IInv
<1>1. InFlight' = {}
  BY DEF InFlight, FileChanges
<1>2. \A c : Known(c)' = Known(c)
  BY DEF Known
<1>3. OneDocEach' /\ BehindHead' /\ Current'
  BY <1>1 DEF OneDocEach, BehindHead, Current
<1>4. KnownUpTo(pg.cursor)'
  BY <1>2 DEF KnownUpTo
<1>5. KnownUpTo(pollSince)'
  BY <1>2 DEF KnownUpTo
<1>6. Covered' /\ PendingOK' /\ OpenTx' /\ Published'
  BY DEF Covered, PendingOK, OpenTx, Published
<1> QED
  BY <1>3, <1>4, <1>5, <1>6

LEMMA WatermarkInv == ASSUME IInv, Watermark, TypeOK' PROVE IInv'
<1> USE DEF IInv
<1>1. UNCHANGED <<log, head, pollSince, feedLast, pending, batch, tx, mode>>
  BY DEF Watermark, source
<1>2. pending = {} /\ batch = {} /\ pc = "head"
  BY DEF Watermark, PendingOK
<1>3. /\ pg'.alias = pg.alias
      /\ \/ pg'.cursor = pollSince /\ pc' = "poll"
         \/ pg'.cursor = pg.cursor /\ pc' = "head"
      /\ mem'.last = pollSince
  <2>1. \/ pg' = [pg EXCEPT !.cursor = pollSince] /\ pc' = "poll"
        \/ UNCHANGED <<pg, pc>>
    BY DEF Watermark
  <2>2. mem' = [mem EXCEPT !.last = pollSince]
    BY DEF Watermark
  <2> QED
    BY <2>1, <2>2, <1>2 DEF TypeOK, RowsType, MemType
<1>4. InFlight' = {}
  BY <1>1, <1>2 DEF InFlight, FileChanges
<1>5. \A c : Known(c)' = Known(c)
  BY <1>3 DEF Known
<1>6. OneDocEach' /\ BehindHead' /\ Current'
  BY <1>1, <1>3, <1>4 DEF OneDocEach, BehindHead, Current
<1>7. KnownUpTo(pg.cursor)' /\ KnownUpTo(pollSince)'
  BY <1>1, <1>3, <1>5 DEF KnownUpTo
<1>8. Covered' /\ PendingOK' /\ OpenTx' /\ Published'
  BY <1>1, <1>2, <1>3 DEF Covered, PendingOK, OpenTx, Published
<1> QED
  BY <1>6, <1>7, <1>8

(* The response is the current state of what changed since poll_since.      *)
LEMMA PollInv == ASSUME IInv, Poll, TypeOK' PROVE IInv'
<1> USE DEF IInv
<1>1. UNCHANGED <<log, head, pg, mem, pollSince, batch>> /\ feedLast' = head /\ batch = {}
  BY DEF Poll, source, PendingOK
<1>2. pending' = {c \in log : c.seq > pollSince} /\ pc' \in {"idle", "ingest"}
      /\ (pc' = "idle" => pending' = {})
  BY DEF Poll
<1>3. InFlight' \subseteq FileChanges(log)
  BY <1>1, <1>2 DEF InFlight, FileChanges
<1>4. OneDocEach' /\ BehindHead' /\ Current'
  BY <1>1, <1>3 DEF OneDocEach, BehindHead, Current, TypeOK
<1>5. \A c : Known(c)' = Known(c)
  BY <1>1 DEF Known
<1>6. KnownUpTo(pg.cursor)' /\ KnownUpTo(pollSince)'
  BY <1>1, <1>5 DEF KnownUpTo
<1>7. Covered'
  <2> SUFFICES ASSUME NEW c \in FileChanges(log) PROVE Known(c) \/ c \in pending'
    BY <1>1, <1>2, <1>5 DEF Covered
  <2>1. c.seq \in Nat /\ pollSince \in Nat /\ c \in log
    BY DEF TypeOK, FileChanges, Change
  <2> QED
    BY <2>1, <1>2 DEF KnownUpTo
<1>8. PendingOK'
  <2>1. \A c \in pending' : c.seq > 0 /\ c.seq <= head
    BY <1>2 DEF TypeOK, Change, BehindHead
  <2> QED
    BY <1>1, <1>2, <2>1 DEF PendingOK, BehindHead
<1>9. OpenTx' /\ Published'
  BY <1>1, <1>2 DEF OpenTx, Published, Poll
<1> QED
  BY <1>4, <1>6, <1>7, <1>8, <1>9

(* The transaction of a sub-batch moves the cursor to its last change.      *)
LEMMA IngestInv == ASSUME IInv, NEW l \in pending, Ingest(l), TypeOK' PROVE IInv'
<1> USE DEF IInv
<1> DEFINE S == {d \in pending : d.seq <= l.seq}
<1>1. /\ UNCHANGED <<log, head, pg, pollSince, feedLast>>
      /\ batch' = S /\ pending' = pending \ S /\ mode' = "feed" /\ pc' = "commit"
      /\ pc = "ingest" /\ batch = {}
  BY DEF Ingest, source, PendingOK
<1>2. PICK fetched \in {Children(S), {}} :
        tx' = IngestPg(pg, mem, S, LeavesIn(S) \cup fetched, l.seq)
  BY DEF Ingest
<1>3. InFlight' = InFlight /\ pending' \cup batch' = pending \cup batch
  BY <1>1 DEF InFlight
<1>4. S \in SUBSET Change /\ FileChanges(S) \subseteq InFlight
  BY DEF TypeOK, InFlight, FileChanges
<1>5. l.seq # 0 /\ l.seq \in Nat /\ l.seq <= feedLast
  BY DEF PendingOK, TypeOK, Change
<1>6. tx'.cursor = l.seq
  BY <1>2, <1>5 DEF IngestPg, IngestMem, LastSeq
<1>7. OneDocEach' /\ BehindHead' /\ Current'
  BY <1>1, <1>3 DEF OneDocEach, BehindHead, Current
<1>8. \A c : Known(c)' = Known(c)
  BY <1>1 DEF Known
<1>9. KnownUpTo(pg.cursor)' /\ KnownUpTo(pollSince)'
  BY <1>1, <1>8 DEF KnownUpTo
<1>10. Covered'
  BY <1>1, <1>3, <1>8 DEF Covered
<1>11. PendingOK' /\ Published'
  BY <1>1 DEF PendingOK, Published
<1>12. OpenTx'
  <2>1. \A c, d \in FileChanges(S) : c.file = d.file => c = d
    BY <1>4 DEF OneDocEach
  <2>2. \A f \in Files :
          \/ \E d \in FileChanges(S) : d.file = f /\ tx'.alias[f] = AliasOf(d)
          \/ (\A d \in FileChanges(S) : d.file # f) /\ tx'.alias[f] = pg.alias[f]
    <3> SUFFICES ASSUME NEW f \in Files
                 PROVE  \/ \E d \in FileChanges(S) : d.file = f /\ tx'.alias[f] = AliasOf(d)
                        \/ (\A d \in FileChanges(S) : d.file # f) /\ tx'.alias[f] = pg.alias[f]
      OBVIOUS
    <3> DEFINE leaves == LeavesIn(S) \cup fetched
    <3>1. tx'.alias[f] = IngestPg(pg, mem, S, leaves, l.seq).alias[f]
      BY <1>2
    <3> HIDE DEF S, leaves
    <3> QED
      BY <1>4, <2>1, <3>1, IngestAlias
  <2>3. \A c \in pending \ S : c.seq > l.seq
    BY DEF TypeOK, Change
  <2> QED
    BY <1>1, <1>5, <1>6, <2>2, <2>3 DEF OpenTx
<1> QED
  BY <1>7, <1>9, <1>10, <1>11, <1>12

(* A committed batch levels the aliases of its files with the source, or    *)
(* leaves a later change of theirs to the next response.                    *)
LEMMA CommitInv == ASSUME IInv, Commit, TypeOK' PROVE IInv'
<1> USE DEF IInv
<1>1. /\ UNCHANGED <<log, head, feedLast, pending, mode>>
      /\ pc = "commit" /\ batch' = {} /\ pg' = tx
      /\ pollSince' = IF mode = "feed" /\ pending = {} THEN tx.cursor ELSE pollSince
      /\ pc' = IF pending = {} THEN "head" ELSE "ingest"
  BY DEF Commit, source
<1>2. InFlight' \subseteq InFlight
  BY <1>1 DEF InFlight, FileChanges
<1>3. mode \in {"feed", "replay"} /\ \A c \in log : c.seq \in Nat
  BY DEF TypeOK, Change
<1>4. /\ head \in Nat /\ pg.cursor \in Nat /\ tx.cursor \in Nat /\ feedLast \in Nat /\ pollSince \in Nat
      /\ tx.cursor <= feedLast
  BY <1>1, <1>3 DEF TypeOK, RowsType, OpenTx
(* A change that was known stays known, and one in the batch becomes so.    *)
<1>5. ASSUME NEW c \in FileChanges(log), c.seq <= feedLast, Known(c) \/ c \in batch
      PROVE  Known(c)'
  <2>1. c.file \in Files /\ pg'.alias[c.file] = tx.alias[c.file]
    BY <1>1 DEF TypeOK, FileChanges, Change
  <2>2. CASE \E d \in FileChanges(batch) : d.file = c.file /\ tx.alias[c.file] = AliasOf(d)
    <3>1. PICK d \in FileChanges(batch) : d.file = c.file /\ tx.alias[c.file] = AliasOf(d)
      BY <2>2
    <3>2. d \in InFlight
      BY DEF InFlight, FileChanges
    <3>3. c.rev = d.rev /\ c.kind = d.kind
      BY <1>5, <1>3, <1>4, <3>1, <3>2 DEF Current, FileChanges
    <3> QED
      BY <2>1, <3>1, <3>3 DEF Known, AliasOf
  <2>3. CASE /\ \A d \in FileChanges(batch) : d.file # c.file
             /\ tx.alias[c.file] = pg.alias[c.file]
    <3>1. Known(c)
      BY <1>5, <2>3 DEF FileChanges
    <3> QED
      BY <2>1, <2>3, <3>1 DEF Known
  <2> QED
    BY <1>1, <2>1, <2>2, <2>3 DEF OpenTx
<1>6. OneDocEach' /\ Current'
  BY <1>1, <1>2 DEF OneDocEach, Current
<1>7. BehindHead'
  BY <1>1, <1>4 DEF BehindHead
<1>8. KnownUpTo(pg.cursor)' /\ KnownUpTo(pollSince)'
  <2>1. CASE mode = "feed"
    <3>1. \A c \in FileChanges(log) : c.seq <= tx.cursor => Known(c)'
      <4> SUFFICES ASSUME NEW c \in FileChanges(log), c.seq <= tx.cursor PROVE Known(c)'
        OBVIOUS
      <4>1. c.seq \in Nat /\ c.seq <= feedLast
        BY <1>3, <1>4 DEF FileChanges
      <4>2. c \notin pending
        BY <1>1, <1>4, <2>1, <4>1 DEF OpenTx
      <4>3. Known(c) \/ c \in batch
        BY <1>1, <2>1, <4>1, <4>2 DEF Covered
      <4> QED
        BY <1>5, <4>1, <4>3
    <3>2. \A c \in FileChanges(log) : c.seq <= pollSince => Known(c)'
      <4> SUFFICES ASSUME NEW c \in FileChanges(log), c.seq <= pollSince PROVE Known(c)'
        OBVIOUS
      <4>1. Known(c)
        BY DEF KnownUpTo
      <4>2. c.seq \in Nat /\ c.seq <= feedLast
        BY <1>1, <1>3, <1>4 DEF FileChanges, PendingOK
      <4> QED
        BY <1>5, <4>1, <4>2
    <3> QED
      BY <1>1, <3>1, <3>2 DEF KnownUpTo
  <2>2. CASE mode = "replay"
    <3>1. tx.cursor = pg.cursor /\ pg.cursor <= feedLast /\ pollSince <= feedLast
      BY <1>1, <2>2 DEF OpenTx, PendingOK
    <3>2. \A c \in FileChanges(log) : c.seq <= pg.cursor \/ c.seq <= pollSince => Known(c)'
      <4> SUFFICES ASSUME NEW c \in FileChanges(log), c.seq <= pg.cursor \/ c.seq <= pollSince
                   PROVE  Known(c)'
        OBVIOUS
      <4>1. Known(c)
        BY DEF KnownUpTo
      <4>2. c.seq <= feedLast
        BY <1>3, <1>4, <3>1 DEF FileChanges
      <4> QED
        BY <1>5, <4>1, <4>2
    <3> QED
      BY <1>1, <2>2, <3>1, <3>2 DEF KnownUpTo
  <2> QED
    BY <1>3, <2>1, <2>2
<1>9. Covered'
  <2> SUFFICES ASSUME pc' = "ingest", NEW c \in FileChanges(log), c.seq <= feedLast
               PROVE  Known(c)' \/ c \in pending
    BY <1>1 DEF Covered
  <2>1. mode = "feed"
    BY <1>1, <1>3 DEF OpenTx
  <2>2. Known(c) \/ c \in pending \cup batch
    BY <1>1, <2>1 DEF Covered
  <2> QED
    BY <1>5, <2>2
<1>10. PendingOK' /\ OpenTx' /\ Published'
  BY <1>1 DEF PendingOK, OpenTx, Published
<1> QED
  BY <1>6, <1>7, <1>8, <1>9, <1>10

LEMMA ReplayInv == ASSUME IInv, NEW f \in Files, Replay(f), TypeOK' PROVE IInv'
<1> USE DEF IInv
<1> DEFINE S == Refetched(f)
<1>1. UNCHANGED <<log, head, pg, pollSince>> /\ pc = "idle" /\ pending = {} /\ batch = {}
  BY DEF Replay, source, PendingOK
<1>2. CASE S = {}
  BY <1>1, <1>2, ResetInv DEF Replay, AtHead
<1>3. CASE S # {}
  <2>1. /\ batch' = S /\ feedLast' = head /\ mode' = "replay" /\ pc' = "commit"
        /\ pending' = {}
        /\ tx' = IngestPg(pg, mem, S, LiveLeaf(f), 0)
    BY <1>1, <1>3 DEF Replay
  <2>2. S \in SUBSET Change
    BY SourceLeaves DEF TypeOK
  (* What is replayed is the current document of f, under no sequence.      *)
  <2>3. ASSUME NEW d \in S
        PROVE  \E c \in FileDoc(f) : d.file = c.file /\ d.rev = c.rev /\ d.kind = c.kind /\ d.seq = 0
    <3>1. PICK c \in FileDoc(f) : d = [c EXCEPT !.seq = 0]
      BY DEF Refetched
    <3>2. c \in Change
      BY DEF TypeOK, FileDoc, FileChanges
    <3>3. d.file = c.file /\ d.rev = c.rev /\ d.kind = c.kind /\ d.seq = 0
      BY <3>1, <3>2 DEF Change
    <3> QED
      BY <3>3
  <2>4. InFlight' \subseteq S
    BY <2>1 DEF InFlight, FileChanges
  <2>5. \A c, d \in S : c = d
    <3> SUFFICES ASSUME NEW c \in S, NEW d \in S PROVE c = d
      OBVIOUS
    <3>1. c.file = d.file /\ c.rev = d.rev /\ c.kind = d.kind /\ c.seq = d.seq
      BY <2>3 DEF OneDocEach, FileDoc
    <3> QED
      BY <2>2, <3>1 DEF Change
  <2>6. OneDocEach'
    BY <1>1, <2>4, <2>5 DEF OneDocEach
  <2>7. BehindHead'
    BY <1>1, <2>1 DEF BehindHead, TypeOK
  <2>8. Current'
    BY <1>1, <2>3, <2>4 DEF Current, OneDocEach, FileDoc
  <2>9. \A c : Known(c)' = Known(c)
    BY <1>1 DEF Known
  <2>10. KnownUpTo(pg.cursor)' /\ KnownUpTo(pollSince)'
    BY <1>1, <2>9 DEF KnownUpTo
  <2>11. Covered' /\ PendingOK' /\ Published'
    BY <1>1, <2>1 DEF Covered, PendingOK, Published, BehindHead
  <2>12. tx'.cursor = pg.cursor
    BY <1>1, <2>1 DEF IngestPg, IngestMem, LastSeq, Published
  <2>13. \A g \in Files :
           \/ \E d \in FileChanges(S) : d.file = g /\ tx'.alias[g] = AliasOf(d)
           \/ (\A d \in FileChanges(S) : d.file # g) /\ tx'.alias[g] = pg.alias[g]
    <3> SUFFICES ASSUME NEW g \in Files
                 PROVE  \/ \E d \in FileChanges(S) : d.file = g /\ tx'.alias[g] = AliasOf(d)
                        \/ (\A d \in FileChanges(S) : d.file # g) /\ tx'.alias[g] = pg.alias[g]
      OBVIOUS
    <3> DEFINE leaves == LiveLeaf(f)
    <3>1. tx'.alias[g] = IngestPg(pg, mem, S, leaves, 0).alias[g]
      BY <2>1
    <3>2. \A c, d \in FileChanges(S) : c.file = d.file => c = d
      BY <2>5 DEF FileChanges
    <3> HIDE DEF S, leaves
    <3> QED
      BY <2>2, <3>1, <3>2, IngestAlias
  <2>14. OpenTx'
    BY <1>1, <2>1, <2>12, <2>13 DEF OpenTx, BehindHead
  <2> QED
    BY <2>6, <2>7, <2>8, <2>10, <2>11, <2>14
<1> QED
  BY <1>2, <1>3

LEMMA InvStep == IInv /\ [Next]_vars => IInv'
<1> SUFFICES ASSUME IInv, [Next]_vars PROVE IInv'
  OBVIOUS
<1>0. TypeOK /\ TypeOK'
  BY TypeStep DEF IInv
<1>1. ASSUME NEW f \in Files, NEW kind \in FileKinds \cup {"leaf"}, NextRev(f) \in Revs,
             Publish([file |-> f, rev |-> NextRev(f), kind |-> kind, seq |-> head + 1])
      PROVE  IInv'
  <2> DEFINE c == [file |-> f, rev |-> NextRev(f), kind |-> kind, seq |-> head + 1]
  <2>1. c \in Change /\ c.seq = head + 1
    BY <1>0, <1>1, NewChanges
  <2>2. Publish(c)
    BY <1>1
  <2> HIDE DEF c
  <2> QED
    BY <2>1, <2>2, PublishInv
<1>2. ASSUME NEW f \in Files,
             WriteLeaf(f) \/ WriteFile(f) \/ \E kind \in {"deleted", "tomb"} : DeleteFile(f, kind)
      PROVE  IInv'
  BY <1>1, <1>2 DEF WriteLeaf, WriteFile, DeleteFile, FileKinds
<1>3. CASE Restart
  <2>1. pg' = [pg EXCEPT !.note = HydratedNote(pg)] /\ pollSince' = pg.cursor
    BY <1>3 DEF Restart
  <2>2. pg'.alias = pg.alias /\ pg'.cursor = pg.cursor
    BY <1>0, <2>1 DEF TypeOK, RowsType
  <2> QED
    BY <1>0, <1>3, <2>1, <2>2, ResetInv DEF Restart, AtHead, source
<1>4. CASE Crash
  BY <1>0, <1>4, ResetInv DEF Crash, source
<1>5. CASE PollFails
  BY <1>0, <1>5, ResetInv DEF PollFails, AtHead, source
<1>6. CASE CommitFails
  BY <1>0, <1>6, ResetInv DEF CommitFails, AtHead, source
<1>7. CASE Idle
  BY <1>0, <1>7, ResetInv DEF Idle, AtHead, source
<1>8. CASE Watermark
  BY <1>0, <1>8, WatermarkInv
<1>9. CASE Poll
  BY <1>0, <1>9, PollInv
<1>10. ASSUME NEW c \in pending, Ingest(c) PROVE IInv'
  BY <1>0, <1>10, IngestInv
<1>11. CASE Commit
  BY <1>0, <1>11, CommitInv
<1>12. ASSUME NEW f \in Files, Replay(f) PROVE IInv'
  BY <1>0, <1>12, ReplayInv
<1>13. CASE UNCHANGED vars
  BY <1>13 DEF vars, IInv, TypeOK, OneDocEach, InFlight, BehindHead, KnownUpTo, Known, Current,
     Covered, PendingOK, OpenTx, Published
<1> QED
  BY ONLY [Next]_vars, <1>2, <1>3, <1>4, <1>5, <1>6, <1>7, <1>8, <1>9, <1>10, <1>11, <1>12, <1>13
  DEF Next, SourceNext, WorkerNext, FaultNext

(* The strengthened invariant holds in every reachable state.               *)
THEOREM InvCorrect == Spec => []IInv
<1> QED
  BY InvInit, InvStep, PTL DEF Spec

(* A failed or interrupted poll, fetch, batch or transaction loses no       *)
(* change: what the durable cursor has passed is in the durable aliases.    *)
THEOREM CursorCorrect == Spec => []CursorLosesNothing
<1>1. IInv => CursorLosesNothing
  BY DEF IInv, KnownUpTo, CursorLosesNothing
<1> QED
  BY <1>1, InvCorrect, PTL

(* Ingesting recovered documents never moves the durable cursor, whatever   *)
(* failed before: the memory sequence the transaction may write is the one  *)
(* the loop has just published.                                             *)
THEOREM ReplayCorrect == Spec => ReplayKeepsCursor
<1>1. IInv /\ [Next]_vars => [pc = "commit" /\ mode = "replay" => pg'.cursor = pg.cursor]_vars
  <2> SUFFICES ASSUME IInv, Next, pc = "commit", mode = "replay"
               PROVE  pg'.cursor = pg.cursor
    BY DEF vars
  <2>1. CASE Commit
    BY <2>1 DEF Commit, IInv, OpenTx
  <2>2. CASE ~ Commit
    <3>1. UNCHANGED pg
      BY <2>2 DEF Next, SourceNext, WorkerNext, FaultNext, WriteLeaf, WriteFile, DeleteFile,
         Publish, Restart, Watermark, Poll, Idle, Ingest, Replay, Crash, PollFails, CommitFails
    <3> QED
      BY <3>1
  <2> QED
    BY <2>1, <2>2
<1> QED
  BY <1>1, InvCorrect, PTL DEF Spec, ReplayKeepsCursor

-----------------------------------------------------------------------------
(* Memory against PostgreSQL.  A failed transaction leaves them different;  *)
(* the claim that the feed levels them again needs to know that a change    *)
(* the memory has and the rows have not is ahead of poll_since, and, while  *)
(* a response is being ingested, that it is in the rest of that response or *)
(* behind it (StillDue).                                                    *)

Ahead(f, n) == \E c \in FileDoc(f) : c.seq > n
Due(f) == \E c \in FileDoc(f) : c \in pending \/ c.seq > feedLast

Feeding == pc = "ingest" \/ (pc = "commit" /\ mode = "feed")

Redelivered == pc # "down" => \A f \in Files : mem.alias[f] # pg.alias[f] => Ahead(f, pollSince)

StillDue ==
  /\ pc = "ingest" => \A f \in Files : mem.alias[f] # pg.alias[f] => Due(f)
  /\ pc = "commit" /\ mode = "feed" => \A f \in Files : mem.alias[f] # tx.alias[f] => Due(f)
  /\ pc = "commit" /\ mode = "replay" =>
       \A f \in Files : mem.alias[f] # tx.alias[f] => Ahead(f, pollSince)

Delivered ==
  Feeding => /\ \A d \in InFlight : Ahead(d.file, pollSince)
             /\ \A d \in pending : d.seq > pollSince

DInv == Redelivered /\ StillDue /\ Delivered

LEMMA IngestLevels ==
  ASSUME NEW p, NEW m, NEW S \in SUBSET Change, NEW leaves, NEW last, NEW f \in Files,
         \E d \in FileChanges(S) : d.file = f
  PROVE  IngestMem(m, S, leaves, last).alias[f] = IngestPg(p, m, S, leaves, last).alias[f]
<1>1. InLive(S, f) \/ InGone(S, f)
  BY DEF FileChanges, InLive, InGone, Change, FileKinds
<1> QED
  BY <1>1 DEF IngestPg

LEMMA IngestSpares ==
  ASSUME NEW p, NEW m, NEW S \in SUBSET Change, NEW leaves, NEW last, NEW f \in Files,
         ~ \E d \in FileChanges(S) : d.file = f
  PROVE  /\ IngestMem(m, S, leaves, last).alias[f] = m.alias[f]
         /\ IngestPg(p, m, S, leaves, last).alias[f] = p.alias[f]
<1>1. ~ InLive(S, f) /\ ~ InGone(S, f)
  BY DEF FileChanges, InLive, InGone
<1>2. IngestMem(m, S, leaves, last).alias[f] = m.alias[f]
  BY <1>1 DEF IngestMem, LastSeq, Registered
<1>3. IngestPg(p, m, S, leaves, last).alias[f] = p.alias[f]
  BY <1>1 DEF IngestPg
<1> QED
  BY <1>2, <1>3

(* A write of the source replaces the document of its file by one that is   *)
(* further ahead.                                                           *)
LEMMA PublishDInv ==
  ASSUME IInv, DInv, NEW c \in Change, c.seq = head + 1, Publish(c)
  PROVE  DInv'
<1> USE DEF DInv
<1>1. UNCHANGED <<pg, mem, pc, mode, pollSince, feedLast, pending, batch, tx>>
  BY DEF Publish, loop
<1>2. c.seq > pollSince /\ c.seq > feedLast
  BY DEF IInv, TypeOK, BehindHead
<1>3. \A f \in Files : \A d \in FileDoc(f) :
        d \in FileDoc(f)' \/ (c \in FileDoc(f)')
  BY DEF Publish, FileDoc, FileChanges
<1>4. \A f \in Files : Ahead(f, pollSince) => Ahead(f, pollSince)'
  BY <1>1, <1>2, <1>3 DEF Ahead
<1>5. \A f \in Files : Due(f) => Due(f)'
  BY <1>1, <1>2, <1>3 DEF Due
<1>6. InFlight' = InFlight /\ \A d \in InFlight : d.file \in Files
  BY <1>1 DEF InFlight, FileChanges, IInv, TypeOK, Change
<1>7. Redelivered' /\ StillDue'
  BY <1>1, <1>4, <1>5 DEF Redelivered, StillDue
<1>8. Delivered'
  BY <1>1, <1>4, <1>6 DEF Delivered, Feeding
<1> QED
  BY <1>7, <1>8

LEMMA ResetDInv ==
  ASSUME DInv, UNCHANGED log, pc' \in {"down", "head"}, pending' = {}, batch' = {},
         \/ pc' = "down"
         \/ mem'.alias = pg'.alias
         \/ pc # "down" /\ UNCHANGED <<pg, mem, pollSince>>
  PROVE  DInv'
<1>1. \A f, n : Ahead(f, n)' = Ahead(f, n')
  BY DEF Ahead, FileDoc, FileChanges
<1>2. Redelivered'
  BY <1>1 DEF DInv, Redelivered, Ahead, FileDoc, FileChanges
<1>3. StillDue' /\ Delivered'
  BY DEF StillDue, Delivered, Feeding
<1> QED
  BY <1>2, <1>3 DEF DInv

LEMMA WatermarkDInv == ASSUME IInv, DInv, Watermark PROVE DInv'
<1>1. UNCHANGED <<log, pollSince>> /\ pc = "head" /\ pc' \in {"head", "poll"}
  BY DEF Watermark, source
<1>2. pg'.alias = pg.alias /\ mem'.alias = mem.alias
  BY DEF Watermark, IInv, TypeOK, RowsType, MemType
<1>3. Redelivered'
  BY <1>1, <1>2 DEF DInv, Redelivered, Ahead, FileDoc, FileChanges
<1> QED
  BY <1>1, <1>3 DEF DInv, StillDue, Delivered, Feeding

LEMMA PollDInv == ASSUME IInv, DInv, Poll PROVE DInv'
<1>1. /\ UNCHANGED <<log, pg, mem, pollSince, batch>> /\ pc = "poll" /\ batch = {}
      /\ pc' \in {"idle", "ingest"} /\ feedLast' = head
      /\ pending' = {c \in log : c.seq > pollSince}
  BY DEF Poll, source, IInv, PendingOK
<1>2. \A f \in Files : Ahead(f, pollSince)' = Ahead(f, pollSince)
  BY <1>1 DEF Ahead, FileDoc, FileChanges
<1>3. \A f \in Files : Ahead(f, pollSince) => Due(f)'
  BY <1>1 DEF Ahead, Due, FileDoc, FileChanges
<1>4. \A d \in InFlight' : Ahead(d.file, pollSince)'
  <2> SUFFICES ASSUME NEW d \in InFlight' PROVE d \in FileDoc(d.file)' /\ d.seq > pollSince'
    BY DEF Ahead
  <2> QED
    BY <1>1 DEF InFlight, FileDoc, FileChanges
<1>5. Redelivered' /\ StillDue'
  BY <1>1, <1>2, <1>3 DEF DInv, Redelivered, StillDue
<1> QED
  BY <1>1, <1>4, <1>5 DEF DInv, Delivered

LEMMA IngestDInv == ASSUME IInv, DInv, NEW l \in pending, Ingest(l) PROVE DInv'
<1> DEFINE S == {d \in pending : d.seq <= l.seq}
<1>1. /\ UNCHANGED <<log, pg, pollSince, feedLast>>
      /\ batch' = S /\ pending' = pending \ S /\ mode' = "feed" /\ pc' = "commit"
      /\ pc = "ingest" /\ batch = {}
  BY DEF Ingest, source, IInv, PendingOK
<1>2. PICK fetched \in {Children(S), {}} :
        /\ mem' = IngestMem(mem, S, LeavesIn(S) \cup fetched, l.seq)
        /\ tx' = IngestPg(pg, mem, S, LeavesIn(S) \cup fetched, l.seq)
  BY DEF Ingest
<1>3. S \in SUBSET Change /\ FileChanges(S) \subseteq InFlight /\ InFlight' = InFlight
  BY <1>1 DEF IInv, TypeOK, InFlight, FileChanges
<1>4. ASSUME NEW f \in Files
      PROVE  \/ (\E d \in FileChanges(S) : d.file = f) /\ mem'.alias[f] = tx'.alias[f]
             \/ /\ \A d \in FileChanges(S) : d.file # f
                /\ mem'.alias[f] = mem.alias[f] /\ tx'.alias[f] = pg.alias[f]
  <2> DEFINE leaves == LeavesIn(S) \cup fetched
         last == l.seq
  <2>1. mem' = IngestMem(mem, S, leaves, last) /\ tx' = IngestPg(pg, mem, S, leaves, last)
    BY <1>2
  <2> HIDE DEF S, leaves, last
  <2>2. CASE \E d \in FileChanges(S) : d.file = f
    <3>1. mem'.alias[f] = tx'.alias[f]
      BY <1>3, <2>1, <2>2, IngestLevels
    <3> QED
      BY <2>2, <3>1
  <2>3. CASE ~ \E d \in FileChanges(S) : d.file = f
    <3>1. mem'.alias[f] = mem.alias[f] /\ tx'.alias[f] = pg.alias[f]
      BY <1>3, <2>1, <2>3, IngestSpares
    <3> QED
      BY <2>3, <3>1
  <2> QED
    BY <2>2, <2>3
<1>5. \A f \in Files : Ahead(f, pollSince)' = Ahead(f, pollSince)
  BY <1>1 DEF Ahead, FileDoc, FileChanges
<1>6. \A d \in InFlight : d.file \in Files /\ Ahead(d.file, pollSince)
  BY <1>1 DEF DInv, Delivered, Feeding, IInv, TypeOK, InFlight, FileChanges, Change
<1>7. Redelivered'
  <2> SUFFICES ASSUME NEW f \in Files, mem'.alias[f] # pg.alias[f] PROVE Ahead(f, pollSince)
    BY <1>1, <1>5 DEF Redelivered
  <2>1. CASE \E d \in FileChanges(S) : d.file = f
    BY <2>1, <1>3, <1>6
  <2>2. CASE mem'.alias[f] = mem.alias[f]
    BY <2>2, <1>1 DEF DInv, Redelivered
  <2> QED
    BY <1>4, <2>1, <2>2
<1>8. StillDue'
  <2> SUFFICES ASSUME NEW f \in Files, mem'.alias[f] # tx'.alias[f] PROVE Due(f)'
    BY <1>1 DEF StillDue
  <2>1. /\ \A d \in FileChanges(S) : d.file # f
        /\ mem.alias[f] # pg.alias[f]
    BY <1>4
  <2>2. PICK c \in FileDoc(f) : c \in pending \/ c.seq > feedLast
    BY <1>1, <2>1 DEF DInv, StillDue, Due
  <2>3. c \notin S
    BY <2>1 DEF FileDoc, FileChanges
  <2> QED
    BY <1>1, <2>2, <2>3 DEF Due, FileDoc, FileChanges
<1>9. Delivered'
  BY <1>1, <1>3, <1>5, <1>6 DEF DInv, Delivered, Feeding
<1> QED
  BY <1>7, <1>8, <1>9 DEF DInv

LEMMA CommitDInv == ASSUME IInv, DInv, Commit PROVE DInv'
<1>1. /\ UNCHANGED <<log, mem, mode, feedLast, pending>> /\ pg' = tx /\ batch' = {} /\ pc = "commit"
      /\ pc' = (IF pending = {} THEN "head" ELSE "ingest")
      /\ pollSince' = (IF mode = "feed" /\ pending = {} THEN tx.cursor ELSE pollSince)
  BY DEF Commit, source
<1>2. mode \in {"feed", "replay"} /\ pollSince <= feedLast
      /\ (mode = "feed" => tx.cursor <= feedLast) /\ (mode = "replay" => pending = {})
  BY <1>1 DEF IInv, TypeOK, PendingOK, OpenTx
<1>3. \A c \in log : c.seq \in Nat
  BY DEF IInv, TypeOK, Change
<1>4. pollSince \in Nat /\ feedLast \in Nat /\ tx.cursor \in Nat
  BY DEF IInv, TypeOK, RowsType
<1>5. CASE mode = "feed"
  <2>1. ASSUME NEW f \in Files, mem.alias[f] # tx.alias[f]
        PROVE  Due(f) /\ Ahead(f, pollSince)'
    <3>1. PICK c \in FileDoc(f) : c \in pending \/ c.seq > feedLast
      BY <1>1, <1>5, <2>1 DEF DInv, StillDue, Due
    <3>2. c.seq > pollSince'
      BY <3>1, <1>1, <1>2, <1>3, <1>4, <1>5 DEF DInv, Delivered, Feeding, FileDoc, FileChanges
    <3> QED
      BY <3>1, <3>2, <1>1 DEF Due, Ahead, FileDoc, FileChanges
  <2>2. \A f \in Files : Due(f)' = Due(f)
    BY <1>1 DEF Due, FileDoc, FileChanges
  <2>3. Redelivered' /\ StillDue'
    BY <1>1, <2>1, <2>2 DEF Redelivered, StillDue
  <2>4. Delivered'
    <3> SUFFICES ASSUME pending # {}
                 PROVE  (\A d \in InFlight' : Ahead(d.file, pollSince)') /\ \A d \in pending : d.seq > pollSince
      BY <1>1 DEF Delivered, Feeding
    <3>1. InFlight' \subseteq InFlight
      BY <1>1 DEF InFlight, FileChanges
    <3>2. \A f : Ahead(f, pollSince)' = Ahead(f, pollSince)
      BY <1>1 DEF Ahead, FileDoc, FileChanges
    <3> QED
      BY <1>1, <1>5, <3>1, <3>2 DEF DInv, Delivered, Feeding
  <2> QED
    BY <2>3, <2>4 DEF DInv
<1>6. CASE mode = "replay"
  <2>1. pc' = "head" /\ pollSince' = pollSince
    BY <1>1, <1>2, <1>6
  <2>2. \A f \in Files : Ahead(f, pollSince)' = Ahead(f, pollSince)
    BY <1>1, <2>1 DEF Ahead, FileDoc, FileChanges
  <2>3. Redelivered'
    BY <1>1, <1>6, <2>1, <2>2 DEF DInv, StillDue, Redelivered
  <2> QED
    BY <2>1, <2>3 DEF DInv, StillDue, Delivered, Feeding
<1> QED
  BY <1>2, <1>5, <1>6

(* A replay levels its file, and spares the others, which are ahead already. *)
LEMMA ReplayDInv == ASSUME IInv, DInv, NEW f \in Files, Replay(f) PROVE DInv'
<1> DEFINE S == Refetched(f)
<1>1. UNCHANGED <<log, pg, pollSince>> /\ pc = "idle" /\ pending = {} /\ batch = {}
  BY DEF Replay, source, IInv, PendingOK
<1>2. CASE S = {}
  <2>1. UNCHANGED mem /\ pc' = "head" /\ pending' = {} /\ batch' = {}
    BY <1>2 DEF Replay, AtHead
  <2> QED
    BY <1>1, <2>1, ResetDInv
<1>3. CASE S # {}
  <2>1. mode' = "replay" /\ pc' = "commit"
    BY <1>3 DEF Replay
  <2>2. S \in SUBSET Change
    BY SourceLeaves DEF IInv, TypeOK
  <2>3. \A g \in Files : Ahead(g, pollSince)' = Ahead(g, pollSince)
    BY <1>1 DEF Ahead, FileDoc, FileChanges
  <2>4. ASSUME NEW g \in Files
        PROVE  \/ (\E d \in FileChanges(S) : d.file = g) /\ mem'.alias[g] = tx'.alias[g]
               \/ (~ \E d \in FileChanges(S) : d.file = g) /\ mem'.alias[g] = mem.alias[g] /\ tx'.alias[g] = pg.alias[g]
    <3> DEFINE leaves == LiveLeaf(f)
    <3>1. mem' = IngestMem(mem, S, leaves, 0) /\ tx' = IngestPg(pg, mem, S, leaves, 0)
      BY <1>3 DEF Replay
    <3> HIDE DEF S, leaves
    <3>2. CASE \E d \in FileChanges(S) : d.file = g
      <4>1. mem'.alias[g] = tx'.alias[g]
        BY <2>2, <3>1, <3>2, IngestLevels
      <4> QED
        BY <3>2, <4>1
    <3>3. CASE ~ \E d \in FileChanges(S) : d.file = g
      <4>1. mem'.alias[g] = mem.alias[g] /\ tx'.alias[g] = pg.alias[g]
        BY <2>2, <3>1, <3>3, IngestSpares
      <4> QED
        BY <3>3, <4>1
    <3> QED
      BY <3>2, <3>3
  (* What a replay writes is what the rows know already, or ahead of them.  *)
  <2>5. ASSUME NEW g \in Files, NEW d \in FileChanges(S), d.file = g, ~ Ahead(g, pollSince)
        PROVE  tx'.alias[g] = pg.alias[g]
    <3>1. PICK c \in FileDoc(f) : d = [c EXCEPT !.seq = 0]
      BY DEF Refetched, FileChanges
    <3>2. c \in Change /\ c \in FileChanges(log) /\ c.file = f
      BY DEF IInv, TypeOK, FileDoc, FileChanges
    <3>3. d.file = c.file /\ d.rev = c.rev /\ d.kind = c.kind /\ g = f
      BY <2>5, <3>1, <3>2 DEF Change
    <3>4. pollSince \in Nat /\ c.seq \in Nat
      BY <3>2 DEF IInv, TypeOK, Change
    <3>5. Known(c)
      BY <2>5, <3>2, <3>3, <3>4 DEF IInv, KnownUpTo, Ahead
    <3>6. \A e \in FileChanges(S) : e.file = g => AliasOf(e) = AliasOf(d)
      <4> SUFFICES ASSUME NEW e \in FileChanges(S) PROVE AliasOf(e) = AliasOf(d)
        OBVIOUS
      <4>1. PICK b \in FileDoc(f) : e = [b EXCEPT !.seq = 0]
        BY DEF Refetched, FileChanges
      <4>2. b = c
        BY <3>2 DEF IInv, OneDocEach, FileDoc
      <4> QED
        BY <3>1, <4>1, <4>2
    <3>7. pc' = "commit" /\ batch' = S /\ OpenTx'
      <4>1. TypeOK'
        BY TypeStep DEF IInv, Next, WorkerNext
      <4> QED
        BY <1>3, <4>1, ReplayInv DEF Replay, IInv
    <3>8. PICK e \in FileChanges(S) : e.file = g /\ tx'.alias[g] = AliasOf(e)
      BY <2>5, <3>7 DEF OpenTx
    <3> QED
      BY <3>2, <3>3, <3>5, <3>6, <3>8 DEF Known, AliasOf
  <2>6. Redelivered'
    <3> SUFFICES ASSUME NEW g \in Files, mem'.alias[g] # pg.alias[g] PROVE Ahead(g, pollSince)
      BY <1>1, <2>3 DEF Redelivered
    <3> QED
      BY <1>1, <2>4, <2>5 DEF DInv, Redelivered
  <2>7. StillDue'
    <3> SUFFICES ASSUME NEW g \in Files, mem'.alias[g] # tx'.alias[g] PROVE Ahead(g, pollSince)
      BY <2>1, <2>3 DEF StillDue
    <3> QED
      BY <1>1, <2>4 DEF DInv, Redelivered
  <2> QED
    BY <2>1, <2>6, <2>7 DEF DInv, Delivered, Feeding
<1> QED
  BY <1>2, <1>3

LEMMA DInvInit == Init => DInv
BY DEF Init, DInv, Redelivered, StillDue, Delivered, Feeding

LEMMA DInvStep == IInv /\ DInv /\ [Next]_vars => DInv'
<1> SUFFICES ASSUME IInv, DInv, [Next]_vars PROVE DInv'
  OBVIOUS
<1>1. ASSUME NEW f \in Files, NEW kind \in FileKinds \cup {"leaf"}, NextRev(f) \in Revs,
             Publish([file |-> f, rev |-> NextRev(f), kind |-> kind, seq |-> head + 1])
      PROVE  DInv'
  <2> DEFINE c == [file |-> f, rev |-> NextRev(f), kind |-> kind, seq |-> head + 1]
  <2>1. c \in Change /\ c.seq = head + 1
    BY <1>1, NewChanges DEF IInv
  <2>2. Publish(c)
    BY <1>1
  <2> HIDE DEF c
  <2> QED
    BY <2>1, <2>2, PublishDInv
<1>2. ASSUME NEW f \in Files,
             WriteLeaf(f) \/ WriteFile(f) \/ \E kind \in {"deleted", "tomb"} : DeleteFile(f, kind)
      PROVE  DInv'
  BY <1>1, <1>2 DEF WriteLeaf, WriteFile, DeleteFile, FileKinds
<1>3. CASE Restart
  <2>1. mem' = Hydrated(pg) /\ pg' = [pg EXCEPT !.note = HydratedNote(pg)]
    BY <1>3 DEF Restart
  <2>2. mem'.alias = pg'.alias
    BY <2>1 DEF Hydrated, IInv, TypeOK, RowsType
  <2> QED
    BY <1>3, <2>2, ResetDInv DEF Restart, AtHead, source
<1>4. CASE Crash
  BY <1>4, ResetDInv DEF Crash, source
<1>5. CASE PollFails
  BY <1>5, ResetDInv DEF PollFails, AtHead, source
<1>6. CASE CommitFails
  BY <1>6, ResetDInv DEF CommitFails, AtHead, source
<1>7. CASE Idle
  BY <1>7, ResetDInv DEF Idle, AtHead, source
<1>8. CASE Watermark
  BY <1>8, WatermarkDInv
<1>9. CASE Poll
  BY <1>9, PollDInv
<1>10. ASSUME NEW c \in pending, Ingest(c) PROVE DInv'
  BY <1>10, IngestDInv
<1>11. CASE Commit
  BY <1>11, CommitDInv
<1>12. ASSUME NEW f \in Files, Replay(f) PROVE DInv'
  BY <1>12, ReplayDInv
<1>13. CASE UNCHANGED vars
  BY <1>13 DEF vars, DInv, Redelivered, StillDue, Delivered, Feeding, InFlight, Ahead, Due, FileDoc
<1> QED
  BY ONLY [Next]_vars, <1>2, <1>3, <1>4, <1>5, <1>6, <1>7, <1>8, <1>9, <1>10, <1>11, <1>12, <1>13
  DEF Next, SourceNext, WorkerNext, FaultNext

(* What the memory knows and PostgreSQL does not is re-delivered: a failed  *)
(* transaction never leaves the two apart behind the feed's back.           *)
THEOREM DivergenceCorrect == Spec => []DivergenceIsRedelivered
<1>1. DInv => DivergenceIsRedelivered
  BY DEF DInv, Redelivered, Ahead, DivergenceIsRedelivered
<1>2. Spec => []DInv
  BY DInvInit, DInvStep, InvCorrect, PTL DEF Spec
<1> QED
  BY <1>1, <1>2, PTL
-----------------------------------------------------------------------------
(* Revisions.  What memory and rows show of a file is no newer than its     *)
(* document at the source, and what a batch writes of a file is of the      *)
(* revision of its alias in memory.  So a row that goes back goes back to   *)
(* an alias that the feed has not brought forward yet.                      *)

Below(f, n) == n # NoRev => \E c \in FileDoc(f) : n <= c.rev

RowsBelow ==
  \A f \in Files : /\ Below(f, mem.alias[f]) /\ Below(f, pg.alias[f])
                   /\ Below(f, pg.vault[f]) /\ Below(f, pg.note[f])

FlightsBelow ==
  \A d \in InFlight : Below(d.file, d.rev) /\ pg.alias[d.file] <= d.rev

WritesAlias ==
  pc = "commit" =>
    \A f \in Files : /\ tx.vault[f] \in {NoRev, pg.vault[f], mem.alias[f]}
                     /\ tx.note[f] \in {NoRev, pg.note[f], mem.alias[f]}

RInv == RowsBelow /\ FlightsBelow /\ WritesAlias

LEMMA IngestWritesAlias ==
  ASSUME NEW p \in RowsType, NEW m \in MemType, NEW S \in SUBSET Change, NEW leaves, NEW last,
         NEW f \in Files, \A c, d \in FileChanges(S) : c.file = d.file => c = d
  PROVE  /\ IngestPg(p, m, S, leaves, last).vault[f]
              \in {NoRev, p.vault[f], IngestMem(m, S, leaves, last).alias[f]}
         /\ IngestPg(p, m, S, leaves, last).note[f]
              \in {NoRev, p.note[f], IngestMem(m, S, leaves, last).alias[f]}
<1> DEFINE after == IngestMem(m, S, leaves, last)
           q == IngestPg(p, m, S, leaves, last)
<1>1. after.alias[f] = IF InGone(S, f) THEN NoRev ELSE Registered(m, S, f)
  BY DEF IngestMem
<1>2. ~ (InLive(S, f) /\ InGone(S, f))
  BY DEF InLive, InGone, FileChanges
<1>3. f \in Reassembled(m, S, leaves) /\ InGone(S, f) => f \in Erased(m, S)
  BY DEF Reassembled, Erased, Change, Revs, NoRev
<1>4. f \in {l[1] : l \in Rehomed(m, S)} => ~ InGone(S, f)
  BY <1>2 DEF Rehomed
<1>5. q.vault[f] \in {NoRev, p.vault[f], after.alias[f]}
  <2>1. q.vault[f] = IF f \in Erased(m, S) \cup Reassembled(m, S, leaves) THEN after.vault[f]
                     ELSE p.vault[f]
    BY DEF IngestPg
  <2>2. after.vault[f] = IF f \in Erased(m, S) THEN NoRev
                         ELSE IF f \in Reassembled(m, S, leaves) THEN Registered(m, S, f)
                         ELSE m.vault[f]
    BY DEF IngestMem
  <2> HIDE DEF after, q
  <2> QED
    BY <1>1, <1>3, <2>1, <2>2
<1>6. q.note[f] \in {NoRev, p.note[f], after.alias[f]}
  <2>1. q.note[f] = IF f \in DeletedNotes(m, S, leaves) \cup (Indexed(m, S, leaves) \ Erased(m, S))
                    THEN after.note[f] ELSE p.note[f]
    BY DEF IngestPg
  <2>2. after.note[f] = IF f \in Erased(m, S) THEN NoRev
                        ELSE IF f \in Indexed(m, S, leaves) THEN Registered(m, S, f)
                        ELSE m.note[f]
    BY DEF IngestMem
  <2>3. f \in DeletedNotes(m, S, leaves) => f \in Erased(m, S)
    BY DEF DeletedNotes
  <2>4. f \in Indexed(m, S, leaves) => f \in Erased(m, S) \/ ~ InGone(S, f)
    BY <1>3, <1>4 DEF Indexed
  <2> HIDE DEF after, q
  <2> QED
    BY <1>1, <2>1, <2>2, <2>3, <2>4
<1> QED
  BY <1>5, <1>6

(* A file changes only to a newer revision.                                 *)
LEMMA BelowStays ==
  ASSUME IInv, NEW c \in Change, c.rev = NextRev(c.file), Publish(c), NEW f \in Files, NEW n \in Nat,
         Below(f, n)
  PROVE  Below(f, n)'
<1>1. log' = {d \in log : d.kind = "leaf" \/ c.kind = "leaf" \/ d.file # c.file} \cup {c}
  BY DEF Publish
<1>2. CASE n = NoRev
  BY <1>2 DEF Below
<1>3. CASE n # NoRev
  <2>1. PICK d \in FileDoc(f) : n <= d.rev
    BY <1>3 DEF Below
  <2>2. d \in log /\ d.file = f /\ d.kind # "leaf" /\ d.rev \in Nat /\ d \in FileChanges(log)
    BY DEF FileDoc, FileChanges, IInv, TypeOK, Change, Revs
  <2>3. CASE d \in log'
    BY <2>1, <2>2, <2>3 DEF Below, FileDoc, FileChanges
  <2>4. CASE d \notin log'
    <3>1. c.kind # "leaf" /\ c.file = f
      BY <1>1, <2>2, <2>4
    <3>2. FileDoc(f) = {d}
      BY <2>1, <2>2 DEF IInv, OneDocEach, FileDoc
    <3>3. c.rev = d.rev + 1
      BY <3>1, <3>2 DEF NextRev
    <3>4. c \in FileDoc(f)'
      BY <1>1, <3>1 DEF FileDoc, FileChanges
    <3>5. n <= c.rev
      BY <2>1, <2>2, <3>3
    <3> QED
      BY <3>4, <3>5 DEF Below
  <2> QED
    BY <2>3, <2>4
<1> QED
  BY <1>2, <1>3

LEMMA RevsAreNat ==
  ASSUME IInv
  PROVE  /\ \A f \in Files : /\ mem.alias[f] \in Nat /\ pg.alias[f] \in Nat
                             /\ pg.vault[f] \in Nat /\ pg.note[f] \in Nat
         /\ \A d \in InFlight \cup FileChanges(log) : d \in Change /\ d.file \in Files /\ d.rev \in Nat
BY BoundsAssumption DEF IInv, TypeOK, RowsType, MemType, OptRev, InFlight, FileChanges, Change, Revs

LEMMA PublishRInv ==
  ASSUME IInv, RInv, NEW c \in Change, c.rev = NextRev(c.file), Publish(c)
  PROVE  RInv'
<1>1. UNCHANGED <<pg, mem, pc, pending, batch, tx>>
  BY DEF Publish, loop
<1>2. \A f \in Files, n \in Nat : Below(f, n) => Below(f, n)'
  BY BelowStays
<1>3. RowsBelow'
  BY <1>1, <1>2, RevsAreNat DEF RInv, RowsBelow, Below
<1>4. FlightsBelow'
  BY <1>1, <1>2, RevsAreNat DEF RInv, FlightsBelow, InFlight, Below
<1>5. WritesAlias'
  BY <1>1 DEF RInv, WritesAlias
<1> QED
  BY <1>3, <1>4, <1>5 DEF RInv

(* Nothing is in flight, and the rows are as before or as their alias.      *)
LEMMA ResetRInv ==
  ASSUME IInv, RInv, UNCHANGED log, pc' # "commit", pending' = {}, batch' = {},
         \A f \in Files : /\ mem'.alias[f] \in {NoRev, mem.alias[f], pg.alias[f]}
                          /\ pg'.alias[f] = pg.alias[f] /\ pg'.vault[f] = pg.vault[f]
                          /\ pg'.note[f] \in {pg.note[f], pg.alias[f]}
  PROVE  RInv'
<1>1. \A f \in Files : \A n : Below(f, n) => (n # NoRev => \E c \in FileDoc(f)' : n <= c.rev)
  BY DEF Below, FileDoc, FileChanges
<1>2. RowsBelow'
  BY <1>1 DEF RInv, RowsBelow, Below
<1>3. FlightsBelow' /\ WritesAlias'
  BY DEF FlightsBelow, InFlight, FileChanges, WritesAlias
<1> QED
  BY <1>2, <1>3 DEF RInv

LEMMA PollRInv == ASSUME IInv, RInv, Poll PROVE RInv'
<1>1. UNCHANGED <<log, pg, mem, batch, tx>> /\ pc' # "commit" /\ batch = {}
      /\ pending' = {c \in log : c.seq > pollSince}
  BY DEF Poll, source, IInv, PendingOK
<1>2. RowsBelow'
  BY <1>1 DEF RInv, RowsBelow, Below, FileDoc, FileChanges
<1>3. ASSUME NEW d \in InFlight'
      PROVE  Below(d.file, d.rev)' /\ pg'.alias[d.file] <= d.rev
  <2>1. d \in FileChanges(log) /\ d \in FileDoc(d.file) /\ d.rev \in Nat /\ d.file \in Files
    BY <1>1, RevsAreNat DEF InFlight, FileChanges, FileDoc
  <2>2. Below(d.file, d.rev)'
    BY <1>1, <2>1 DEF Below, FileDoc, FileChanges
  <2>3. \A c \in FileDoc(d.file) : c = d
    BY <2>1 DEF IInv, OneDocEach, FileDoc
  <2>4. pg.alias[d.file] <= d.rev
    BY <2>1, <2>3, RevsAreNat DEF RInv, RowsBelow, Below, NoRev
  <2> QED
    BY <1>1, <2>2, <2>4
<1> QED
  BY <1>1, <1>2, <1>3 DEF RInv, FlightsBelow, WritesAlias

(* A batch S is applied to memory and its transaction opened.               *)
LEMMA BatchRInv ==
  ASSUME IInv, RInv, UNCHANGED <<log, pg>>, NEW S \in SUBSET Change, NEW leaves, NEW last,
         \A c, d \in FileChanges(S) : c.file = d.file => c = d,
         \A d \in FileChanges(S) : Below(d.file, d.rev),
         \A d \in InFlight' : Below(d.file, d.rev) /\ pg.alias[d.file] <= d.rev,
         mem' = IngestMem(mem, S, leaves, last), tx' = IngestPg(pg, mem, S, leaves, last)
  PROVE  RInv'
<1>1. \A f, n : Below(f, n) => (n # NoRev => \E c \in FileDoc(f)' : n <= c.rev)
  BY DEF Below, FileDoc, FileChanges
<1>2. ASSUME NEW f \in Files
      PROVE  Below(f, mem'.alias[f])
  <2>1. \/ mem'.alias[f] \in {NoRev, mem.alias[f]}
        \/ \E d \in FileChanges(S) : d.file = f /\ mem'.alias[f] = d.rev
    <3>1. mem'.alias[f] = IF InGone(S, f) THEN NoRev ELSE Registered(mem, S, f)
      BY DEF IngestMem
    <3>2. CASE InLive(S, f)
      <4> DEFINE d == CHOOSE c \in S : c.file = f /\ c.kind = "live"
      <4>1. d \in S /\ d.file = f /\ d.kind = "live" /\ LiveRev(S, f) = d.rev
        BY <3>2 DEF InLive, LiveRev
      <4>2. d \in FileChanges(S)
        BY <4>1 DEF FileChanges
      <4> HIDE DEF d
      <4> QED
        BY <3>1, <3>2, <4>1, <4>2 DEF Registered
    <3> QED
      BY <3>1, <3>2 DEF Registered
  <2>2. CASE mem'.alias[f] = NoRev
    BY <2>2 DEF Below
  <2>3. CASE mem'.alias[f] = mem.alias[f]
    BY <2>3 DEF RInv, RowsBelow
  <2>4. CASE \E d \in FileChanges(S) : d.file = f /\ mem'.alias[f] = d.rev
    BY <2>4
  <2> QED
    BY <2>1, <2>2, <2>3, <2>4
<1>3. RowsBelow'
  <2> SUFFICES ASSUME NEW f \in Files
               PROVE  /\ Below(f, mem.alias[f])' /\ Below(f, pg.alias[f])'
                      /\ Below(f, pg.vault[f])' /\ Below(f, pg.note[f])'
    BY DEF RowsBelow
  <2>1. /\ Below(f, mem'.alias[f]) /\ Below(f, pg.alias[f])
        /\ Below(f, pg.vault[f]) /\ Below(f, pg.note[f])
    BY <1>2 DEF RInv, RowsBelow
  <2>2. ASSUME NEW n, Below(f, n)
        PROVE  n # NoRev => \E c \in FileDoc(f)' : n <= c.rev
    BY <1>1, <2>2
  <2> HIDE DEF NoRev
  <2> QED
    BY <2>1, <2>2 DEF Below
<1>4. FlightsBelow'
  BY <1>1 DEF FlightsBelow, Below
<1>5. WritesAlias'
  <2>1. pg \in RowsType /\ mem \in MemType
    BY DEF IInv, TypeOK
  <2> QED
    BY <2>1, IngestWritesAlias DEF WritesAlias
<1> QED
  BY <1>3, <1>4, <1>5 DEF RInv

LEMMA IngestRInv == ASSUME IInv, RInv, NEW l \in pending, Ingest(l) PROVE RInv'
<1> DEFINE S == {d \in pending : d.seq <= l.seq}
<1>1. UNCHANGED <<log, pg>> /\ batch' = S /\ pending' = pending \ S /\ batch = {}
  BY DEF Ingest, source, IInv, PendingOK
<1>2. PICK fetched \in {Children(S), {}} :
        /\ mem' = IngestMem(mem, S, LeavesIn(S) \cup fetched, l.seq)
        /\ tx' = IngestPg(pg, mem, S, LeavesIn(S) \cup fetched, l.seq)
  BY DEF Ingest
<1>3. S \in SUBSET Change /\ FileChanges(S) \subseteq InFlight /\ InFlight' \subseteq InFlight
  BY <1>1 DEF InFlight, FileChanges, IInv, TypeOK
<1>4. \A c, d \in FileChanges(S) : c.file = d.file => c = d
  BY <1>3 DEF IInv, OneDocEach
<1> DEFINE leaves == LeavesIn(S) \cup fetched
<1> HIDE DEF S, leaves
<1> QED
  BY <1>1, <1>2, <1>3, <1>4, BatchRInv DEF RInv, FlightsBelow, leaves

LEMMA ReplayRInv == ASSUME IInv, RInv, NEW f \in Files, Replay(f) PROVE RInv'
<1> DEFINE S == Refetched(f)
<1>1. UNCHANGED <<log, pg>> /\ pending = {}
  BY DEF Replay, source, IInv, PendingOK
<1>2. CASE S = {}
  BY <1>1, <1>2, ResetRInv DEF Replay, AtHead
<1>3. CASE S # {}
  <2>1. /\ batch' = S /\ pending' = {}
        /\ mem' = IngestMem(mem, S, LiveLeaf(f), 0) /\ tx' = IngestPg(pg, mem, S, LiveLeaf(f), 0)
    BY <1>1, <1>3 DEF Replay
  <2>2. S \in SUBSET Change
    BY SourceLeaves DEF IInv, TypeOK
  <2>3. ASSUME NEW d \in FileChanges(S)
        PROVE  \E c \in FileDoc(f) : d = [c EXCEPT !.seq = 0] /\ d.file = f /\ d.rev = c.rev
    <3>1. PICK c \in FileDoc(f) : d = [c EXCEPT !.seq = 0]
      BY DEF Refetched, FileChanges
    <3>2. c \in Change /\ c.file = f
      BY DEF IInv, TypeOK, FileDoc, FileChanges
    <3> QED
      BY <3>1, <3>2 DEF Change
  <2>4. \A c, d \in FileDoc(f) : c = d
    BY DEF IInv, OneDocEach, FileDoc
  <2>5. \A c, d \in FileChanges(S) : c.file = d.file => c = d
    BY <2>3, <2>4
  <2>6. InFlight' = FileChanges(S)
    BY <2>1 DEF InFlight, FileChanges
  <2>7. \A c \in FileDoc(f) : c \in FileChanges(log) /\ c.rev \in Nat
    BY RevsAreNat DEF FileDoc
  <2>8. ASSUME NEW d \in FileChanges(S)
        PROVE  Below(d.file, d.rev) /\ pg.alias[d.file] <= d.rev
    <3>1. PICK c \in FileDoc(f) : d.file = f /\ d.rev = c.rev
      BY <2>3
    <3>2. Below(f, c.rev)
      BY <2>7 DEF Below
    <3>3. pg.alias[f] <= c.rev
      BY <2>4, <2>7, RevsAreNat DEF RInv, RowsBelow, Below, NoRev
    <3> QED
      BY <3>1, <3>2, <3>3
  <2> HIDE DEF S
  <2> QED
    BY <1>1, <2>1, <2>2, <2>5, <2>6, <2>8, BatchRInv
<1> QED
  BY <1>2, <1>3

LEMMA CommitRInv == ASSUME IInv, RInv, Commit PROVE RInv'
<1>1. /\ UNCHANGED <<log, mem, pending>> /\ pg' = tx /\ batch' = {}
      /\ pc = "commit" /\ pc' # "commit"
  BY DEF Commit, source
<1>2. \A f, n : Below(f, n) => (n # NoRev => \E c \in FileDoc(f)' : n <= c.rev)
  BY <1>1 DEF Below, FileDoc, FileChanges
<1>3. ASSUME NEW f \in Files
      PROVE  \/ tx.alias[f] \in {NoRev, pg.alias[f]}
             \/ \E d \in FileChanges(batch) : d.file = f /\ tx.alias[f] = d.rev
  BY <1>1 DEF IInv, OpenTx, AliasOf
<1>4. FileChanges(batch) \subseteq InFlight /\ InFlight' \subseteq InFlight
  BY <1>1 DEF InFlight, FileChanges
<1>5. \A f \in Files : Below(f, tx.alias[f])
  BY <1>3, <1>4 DEF RInv, RowsBelow, FlightsBelow, Below
<1>6. \A f \in Files : Below(f, tx.vault[f]) /\ Below(f, tx.note[f])
  BY <1>1 DEF RInv, RowsBelow, WritesAlias, Below
<1>7. RowsBelow'
  BY <1>1, <1>2, <1>5, <1>6 DEF RInv, RowsBelow, Below
<1>8. ASSUME NEW d \in InFlight'
      PROVE  tx.alias[d.file] <= d.rev
  <2>1. d \in InFlight /\ d.file \in Files /\ d.rev \in Nat
    BY <1>4, RevsAreNat
  <2>2. CASE tx.alias[d.file] \in {NoRev, pg.alias[d.file]}
    BY <2>1, <2>2 DEF RInv, FlightsBelow, NoRev
  <2>3. CASE \E e \in FileChanges(batch) : e.file = d.file /\ tx.alias[d.file] = e.rev
    <3>1. PICK e \in FileChanges(batch) : e.file = d.file /\ tx.alias[d.file] = e.rev
      BY <2>3
    <3>2. e = d
      BY <1>4, <2>1, <3>1 DEF IInv, OneDocEach
    <3> QED
      BY <2>1, <3>1, <3>2
  <2> QED
    BY <1>3, <2>1, <2>2, <2>3
<1>9. FlightsBelow'
  BY <1>1, <1>2, <1>4, <1>8 DEF RInv, FlightsBelow, Below
<1> QED
  BY <1>1, <1>7, <1>9 DEF RInv, WritesAlias

LEMMA RestartAdopts ==
  ASSUME TypeOK, Restart
  PROVE  \A f \in Files : /\ mem'.alias[f] = pg.alias[f]
                          /\ pg'.alias[f] = pg.alias[f] /\ pg'.vault[f] = pg.vault[f]
                          /\ pg'.note[f] \in {pg.note[f], pg.alias[f]}
<1>1. mem' = Hydrated(pg) /\ pg' = [pg EXCEPT !.note = HydratedNote(pg)]
  BY DEF Restart
<1>2. \A f \in Files : HydratedNote(pg)[f] \in {pg.note[f], pg.alias[f]}
  BY DEF HydratedNote
<1> QED
  BY <1>1, <1>2 DEF TypeOK, RowsType, Hydrated

LEMMA RInvInit == Init => RInv
BY DEF Init, RInv, RowsBelow, FlightsBelow, WritesAlias, InFlight, FileChanges, Below, EmptyRows,
       Hydrated

LEMMA RInvStep == IInv /\ RInv /\ [Next]_vars => RInv'
<1> SUFFICES ASSUME IInv, RInv, [Next]_vars PROVE RInv'
  OBVIOUS
<1>1. ASSUME NEW f \in Files, NEW kind \in FileKinds \cup {"leaf"}, NextRev(f) \in Revs,
             Publish([file |-> f, rev |-> NextRev(f), kind |-> kind, seq |-> head + 1])
      PROVE  RInv'
  <2> DEFINE c == [file |-> f, rev |-> NextRev(f), kind |-> kind, seq |-> head + 1]
  <2>1. c \in Change /\ c.rev = NextRev(c.file)
    BY <1>1, NewChanges DEF IInv
  <2>2. Publish(c)
    BY <1>1
  <2> HIDE DEF c
  <2> QED
    BY <2>1, <2>2, PublishRInv
<1>2. ASSUME NEW f \in Files,
             WriteLeaf(f) \/ WriteFile(f) \/ \E kind \in {"deleted", "tomb"} : DeleteFile(f, kind)
      PROVE  RInv'
  BY <1>1, <1>2 DEF WriteLeaf, WriteFile, DeleteFile, FileKinds
<1>3. CASE Restart
  <2>1. UNCHANGED log /\ pc' # "commit" /\ pending' = {} /\ batch' = {}
    BY <1>3 DEF Restart, AtHead, source
  <2> QED
    BY <1>3, <2>1, RestartAdopts, ResetRInv DEF IInv
<1>4. CASE Crash
  BY <1>4, ResetRInv DEF Crash, source, Hydrated, EmptyRows
<1>5. CASE PollFails
  BY <1>5, ResetRInv DEF PollFails, AtHead, source
<1>6. CASE CommitFails
  BY <1>6, ResetRInv DEF CommitFails, AtHead, source
<1>7. CASE Idle
  BY <1>7, ResetRInv DEF Idle, AtHead, source
<1>8. CASE Watermark
  <2>1. UNCHANGED log /\ pc' # "commit" /\ pending' = {} /\ batch' = {}
    BY <1>8 DEF Watermark, source, IInv, PendingOK
  <2>2. \A f \in Files : /\ mem'.alias[f] = mem.alias[f] /\ pg'.alias[f] = pg.alias[f]
                         /\ pg'.vault[f] = pg.vault[f] /\ pg'.note[f] = pg.note[f]
    BY <1>8 DEF Watermark, IInv, TypeOK, RowsType, MemType
  <2> QED
    BY <2>1, <2>2, ResetRInv
<1>9. CASE Poll
  BY <1>9, PollRInv
<1>10. ASSUME NEW c \in pending, Ingest(c) PROVE RInv'
  BY <1>10, IngestRInv
<1>11. CASE Commit
  BY <1>11, CommitRInv
<1>12. ASSUME NEW f \in Files, Replay(f) PROVE RInv'
  BY <1>12, ReplayRInv
<1>13. CASE UNCHANGED vars
  BY <1>13 DEF vars, RInv, RowsBelow, FlightsBelow, WritesAlias, InFlight, FileChanges, FileDoc, Below
<1> QED
  BY ONLY [Next]_vars, <1>2, <1>3, <1>4, <1>5, <1>6, <1>7, <1>8, <1>9, <1>10, <1>11, <1>12, <1>13
  DEF Next, SourceNext, WorkerNext, FaultNext

(* An alias that is older than a row has not been brought forward yet.      *)
LEMMA OlderAliasIsAhead ==
  ASSUME IInv, RInv, NEW f \in Files, NEW n \in {pg.vault[f], pg.note[f]}, NEW since \in Nat,
         KnownUpTo(since), pg.alias[f] # NoRev, pg.alias[f] < n
  PROVE  Ahead(f, since)
<1>1. pg.alias[f] \in Nat /\ n \in Nat
  BY RevsAreNat
<1>2. n # NoRev
  BY <1>1 DEF NoRev
<1>3. PICK c \in FileDoc(f) : n <= c.rev
  BY <1>2 DEF RInv, RowsBelow, Below
<1>4. c \in FileChanges(log) /\ c.file = f /\ c.rev \in Nat /\ c.seq \in Nat
  BY DEF FileDoc, FileChanges, IInv, TypeOK, Change, Revs
<1>5. ~ Known(c)
  BY <1>1, <1>3, <1>4 DEF Known
<1> QED
  BY <1>3, <1>4, <1>5 DEF KnownUpTo, Ahead

LEMMA RegressionStep ==
  ASSUME IInv, RInv, IInv', DInv', Next, NEW f \in Files
  PROVE  AliasAdvances(f) /\ (Regresses(f) => Ahead(f, pollSince'))
<1>0. /\ pg.alias[f] \in Nat /\ pg.vault[f] \in Nat /\ pg.note[f] \in Nat /\ mem.alias[f] \in Nat
      /\ pollSince' \in Nat
  BY RevsAreNat DEF IInv, TypeOK
<1>1. CASE /\ pg'.alias[f] = pg.alias[f] /\ pg'.vault[f] = pg.vault[f] /\ pg'.note[f] = pg.note[f]
  BY <1>0, <1>1 DEF AliasAdvances, Regresses
<1>2. CASE Restart
  <2>1. /\ pg'.alias[f] = pg.alias[f] /\ pg'.vault[f] = pg.vault[f]
        /\ pg'.note[f] \in {pg.note[f], pg.alias[f]}
    BY <1>2, RestartAdopts DEF IInv
  <2>2. pollSince' = pg.cursor /\ pg.cursor \in Nat
    BY <1>2 DEF Restart, IInv, TypeOK, RowsType
  <2>3. KnownUpTo(pg.cursor)
    BY DEF IInv
  <2>4. Regresses(f) => pg.alias[f] # NoRev /\ pg.alias[f] < pg.note[f]
    BY <1>0, <2>1 DEF Regresses
  <2>5. Regresses(f) => Ahead(f, pg.cursor)
    BY <2>2, <2>3, <2>4, OlderAliasIsAhead
  <2> QED
    BY <1>0, <2>1, <2>2, <2>5 DEF AliasAdvances
<1>3. CASE Commit
  <2>1. /\ pg' = tx /\ UNCHANGED <<log, mem>> /\ pc = "commit" /\ pc' \in {"head", "ingest"}
        /\ FileChanges(batch) \subseteq InFlight
    BY <1>3 DEF Commit, source, InFlight, FileChanges
  <2>2. AliasAdvances(f)
    <3>1. \/ tx.alias[f] \in {NoRev, pg.alias[f]}
          \/ \E d \in FileChanges(batch) : d.file = f /\ tx.alias[f] = d.rev
      BY <2>1 DEF IInv, OpenTx, AliasOf
    <3> QED
      BY <1>0, <2>1, <3>1 DEF AliasAdvances, RInv, FlightsBelow
  <2>3. ASSUME Regresses(f)
        PROVE  Ahead(f, pollSince')
    <3>1. PICK n \in {pg.vault[f], pg.note[f]} : mem.alias[f] # NoRev /\ mem.alias[f] < n
      BY <1>0, <2>1, <2>3 DEF Regresses, RInv, WritesAlias
    <3>2. CASE mem.alias[f] # tx.alias[f]
      <4>1. mem'.alias[f] # pg'.alias[f] /\ pc' # "down"
        BY <2>1, <3>2
      <4>2. \E c \in FileDoc(f)' : c.seq > pollSince'
        BY <4>1 DEF DInv, Redelivered, Ahead
      <4> QED
        BY <2>1, <4>2 DEF Ahead, FileDoc, FileChanges
    <3>3. CASE mem.alias[f] = tx.alias[f]
      <4>1. n # NoRev /\ n \in Nat
        BY <1>0, <3>1 DEF NoRev
      <4>2. PICK c \in FileDoc(f) : n <= c.rev
        BY <4>1 DEF RInv, RowsBelow, Below
      <4>3. c \in FileChanges(log) /\ c.file = f /\ c.rev \in Nat /\ c.seq \in Nat
        BY DEF FileDoc, FileChanges, IInv, TypeOK, Change, Revs
      <4>4. c \in FileChanges(log')
        BY <2>1, <4>3
      <4>5. ~ (pg'.alias[c.file] = IF c.kind = "live" THEN c.rev ELSE NoRev)
        BY <1>0, <2>1, <3>1, <3>3, <4>1, <4>2, <4>3
      <4>6. \A d \in FileChanges(log') : d.seq <= pollSince' =>
              pg'.alias[d.file] = IF d.kind = "live" THEN d.rev ELSE NoRev
        BY DEF IInv, KnownUpTo, Known
      <4> QED
        BY <1>0, <4>2, <4>3, <4>4, <4>5, <4>6 DEF Ahead
    <3> QED
      BY <3>2, <3>3
  <2> QED
    BY <2>2, <2>3
<1>4. CASE Watermark
  BY <1>1, <1>4 DEF Watermark, IInv, TypeOK, RowsType
<1>5. CASE ~ (Restart \/ Commit \/ Watermark)
  <2>1. UNCHANGED pg
    BY <1>5 DEF Next, SourceNext, WorkerNext, FaultNext, WriteLeaf, WriteFile, DeleteFile,
       Publish, Poll, Idle, Ingest, Replay, Crash, PollFails, CommitFails
  <2> QED
    BY <1>1, <2>1
<1> QED
  BY <1>2, <1>3, <1>4, <1>5

(* Aliases only advance, and a row that goes back to an older revision is   *)
(* that of a file the feed is still to deliver (store.rs:1037, 1537).       *)
THEOREM RegressionCorrect == Spec => RegressionIsRedelivered
<1>1. IInv /\ RInv /\ IInv' /\ DInv' /\ [Next]_vars =>
        [\A f \in Files : /\ AliasAdvances(f)
                          /\ Regresses(f) => \E c \in FileDoc(f) : c.seq > pollSince']_vars
  BY RegressionStep DEF Ahead
<1>2. Spec => []DInv
  BY DInvInit, DInvStep, InvCorrect, PTL DEF Spec
<1>3. Spec => []RInv
  BY RInvInit, RInvStep, InvCorrect, PTL DEF Spec
<1> QED
  BY <1>1, <1>2, <1>3, InvCorrect, PTL DEF Spec, RegressionIsRedelivered
=============================================================================
