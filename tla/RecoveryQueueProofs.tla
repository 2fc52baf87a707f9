------------------------ MODULE RecoveryQueueProofs ------------------------
(***************************************************************************)
(* For every set of files and leaves, every limit and every bound:         *)
(* RecoveryQueue keeps its types, bounds the replays of a target, drops a  *)
(* target only when its file has recovered, and keeps its backoff.         *)
(*                                                                         *)
(* None of these is inductive.  The invariant adds how the rows in the     *)
(* hands of a pass relate to the queue (HeldOK: they are due and carry the *)
(* failure count of their row) and how replays, recorded failures and      *)
(* faults add up (CountsOK).                                               *)
(***************************************************************************)
EXTENDS RecoveryQueue, FiniteSetTheorems, TLAPS

(* A replay whose outcome is not recorded yet. *)
Open(k) == IF pc = "settle" /\ current.key = k THEN 1 ELSE 0

CountsOK ==
  \A k \in DOMAIN queue :
    /\ ~ queue[k].quarantined => queue[k].failures < MaxFailures
    /\ queue[k].quarantined => queue[k].tries >= MaxFailures
    /\ queue[k].failures + Open(k) <= queue[k].tries
    /\ queue[k].tries <= queue[k].failures + faults + Open(k)

HeldOK ==
  /\ pc \in {"down", "feed", "due"} => DOMAIN targets = {}
  /\ \A k \in DOMAIN targets :
       /\ ~ queue[k].quarantined /\ queue[k].wait <= 0
       /\ targets[k] = queue[k].failures
  /\ pc = "settle" /\ current.resolved => ~ Unresolved(mem, current.key)

IInv == TypeOK /\ CountsOK /\ HeldOK

-----------------------------------------------------------------------------
(* The arithmetic of the backoff.                                           *)

LEMMA PowerIsPositive ==
  ASSUME NEW n \in Nat
  PROVE  2 ^ n \in Nat \ {0}
<1>1. IsFiniteSet(1..n) /\ Cardinality(1..n) = n
  BY FS_Interval
<1>2. IsFiniteSet(SUBSET (1..n)) /\ Cardinality(SUBSET (1..n)) = 2 ^ n
  BY <1>1, FS_SUBSET
<1>3. Cardinality(SUBSET (1..n)) \in Nat
  BY <1>2, FS_CardinalityType
<1>4. SUBSET (1..n) # {}
  OBVIOUS
<1>5. Cardinality(SUBSET (1..n)) # 0
  BY <1>2, <1>4, FS_EmptySet
<1> QED
  BY <1>2, <1>3, <1>5

LEMMA BackoffIsBounded ==
  ASSUME NEW n \in Nat
  PROVE  Backoff(n) \in BaseBackoff..MaxBackoff
<1> DEFINE e == IF n < 20 THEN n ELSE 20
           p == 2 ^ e
<1>1. p \in Nat \ {0}
  <2>1. e \in Nat
    OBVIOUS
  <2> QED
    BY <2>1, PowerIsPositive
<1>2. BaseBackoff * p \in Nat /\ BaseBackoff * p >= BaseBackoff
  <2> HIDE DEF p
  <2>1. ASSUME NEW b \in Nat, NEW c \in Nat \ {0}
        PROVE  b * c \in Nat /\ b * c >= b
    BY Z3
  <2> QED
    BY <2>1, <1>1, LimitsAssumption
<1>3. Backoff(n) = IF BaseBackoff * p < MaxBackoff THEN BaseBackoff * p ELSE MaxBackoff
  BY DEF Backoff
<1> HIDE DEF p
<1> QED
  BY <1>2, <1>3, LimitsAssumption

LEMMA FailuresAreCounted ==
  ASSUME NEW failed \in SUBSET {"purge", "chunks", "enqueue", "clear", "drift",
                                "repair", "fetch", "commit"}
  PROVE  Cardinality(failed) \in Nat
<1> DEFINE D == ((({"purge"} \cup {"chunks"}) \cup {"enqueue"}) \cup {"clear"}) \cup {"drift"}
           R == ({"repair"} \cup {"fetch"}) \cup {"commit"}
<1>1. IsFiniteSet(D)
  BY FS_Singleton, FS_Union
<1>2. IsFiniteSet(R)
  BY FS_Singleton, FS_Union
<1>3. IsFiniteSet(D \cup R) /\ failed \subseteq D \cup R
  <2> HIDE DEF D, R
  <2>1. IsFiniteSet(D \cup R)
    BY <1>1, <1>2, FS_Union
  <2>2. failed \subseteq D \cup R
    BY DEF D, R
  <2> QED
    BY <2>1, <2>2
<1> QED
  BY <1>3, FS_Subset, FS_CardinalityType

-----------------------------------------------------------------------------
(* Types of what an ingestion leaves.                                       *)

Docs == {"live", "gone", "none"}
DocType == [rev : OptRev, live : BOOLEAN, leaves : SUBSET Leaves, lost : SUBSET Leaves]

LEMMA IngestedType ==
  ASSUME NEW m \in FileType, NEW doc \in Docs, NEW rev \in OptRev, NEW got \in SUBSET Leaves
  PROVE  Ingested(m, doc, rev, got) \in FileType
<1>1. Registered(m, doc, rev) \in OptRev
  BY BoundsAssumption DEF Registered, Docs, FileType, OptRev, NoRev
<1>2. {Registered(m, doc, rev)} \X Staged(m, Registered(m, doc, rev), got) \subseteq OptRev \X Leaves
  BY <1>1 DEF Staged
<1> QED
  BY <1>1, <1>2 DEF Ingested, FileType

LEMMA PersistedType ==
  ASSUME NEW p \in FileType, NEW m \in FileType, NEW doc \in Docs, NEW rev \in OptRev,
         NEW got \in SUBSET Leaves
  PROVE  Persisted(p, m, doc, rev, got) \in FileType
<1>1. Ingested(m, doc, rev, got) \in FileType
  BY IngestedType
<1>2. {Ingested(m, doc, rev, got).alias} \X got \subseteq OptRev \X Leaves
  BY <1>1 DEF FileType
<1> QED
  BY <1>1, <1>2 DEF Persisted, FileType

LEMMA PurgeType ==
  ASSUME NEW s \in [Files -> FileType], NEW S
  PROVE  Purge(s, S) \in [Files -> FileType]
BY DEF Purge, FileType

-----------------------------------------------------------------------------
(* Rows.                                                                    *)

LEMMA NewRowType ==
  /\ NewRow \in Row
  /\ NewRow.failures = 0 /\ NewRow.tries = 0 /\ NewRow.wait = 0 /\ ~ NewRow.quarantined
BY BoundsAssumption, LimitsAssumption DEF NewRow, Row, OptRev, NoRev

(* Every row of r is one of q or new. *)
RowsFrom(q, r) ==
  /\ DOMAIN r \subseteq DOMAIN q \cup Keys
  /\ \A k \in DOMAIN r \cap DOMAIN q : r[k] = q[k]
  /\ \A k \in DOMAIN r \ DOMAIN q : r[k] = NewRow

LEMMA EnqueueKeepsRows ==
  ASSUME NEW q, NEW keys \in SUBSET Keys
  PROVE  RowsFrom(q, Enqueue(q, keys)) /\ DOMAIN q \subseteq DOMAIN Enqueue(q, keys)
BY DEF Enqueue, RowsFrom

LEMMA RowFields ==
  ASSUME NEW row \in Row
  PROVE  /\ row.failures \in Nat /\ row.tries \in Nat /\ row.wait \in Int
         /\ row.failures <= MaxFailures /\ row.quarantined \in BOOLEAN
BY BoundsAssumption, LimitsAssumption DEF Row

LEMMA FailedRow ==
  ASSUME NEW row \in Row, row.failures < MaxFailures
  PROVE  LET r == Failed(row, row.failures) IN
         /\ r \in Row
         /\ r.failures = row.failures + 1 /\ r.tries = row.tries
         /\ r.quarantined <=> r.failures >= MaxFailures
         /\ r.wait >= BaseBackoff
<1>1. row.failures \in Nat
  BY LimitsAssumption DEF Row
<1>2. Backoff(row.failures) \in BaseBackoff..MaxBackoff
  BY <1>1, BackoffIsBounded
<1>3. Backoff(row.failures) \in -Horizon..MaxBackoff
  BY <1>2, BoundsAssumption, LimitsAssumption
<1>4. row.failures + 1 \in 0..MaxFailures
  BY <1>1, LimitsAssumption
<1> DEFINE r(q) == [row EXCEPT !.failures = row.failures + 1,
                             !.wait = Backoff(row.failures), !.quarantined = q]
<1>5. ASSUME NEW q \in BOOLEAN
      PROVE  /\ r(q) \in Row
             /\ r(q).failures = row.failures + 1 /\ r(q).tries = row.tries
             /\ r(q).wait >= BaseBackoff
             /\ r(q).quarantined = q
  <2>1. r(q).wait = Backoff(row.failures) /\ Backoff(row.failures) >= BaseBackoff
    BY <1>2, LimitsAssumption DEF Row
  <2> QED
    BY <1>3, <1>4, <2>1 DEF Row
<1>6. (row.failures + 1 >= MaxFailures) \in BOOLEAN
  BY <1>1, LimitsAssumption
<1>7. Failed(row, row.failures) = r(row.failures + 1 >= MaxFailures)
  BY DEF Failed
<1>8. /\ r(row.failures + 1 >= MaxFailures) \in Row
      /\ r(row.failures + 1 >= MaxFailures).failures = row.failures + 1
      /\ r(row.failures + 1 >= MaxFailures).tries = row.tries
      /\ r(row.failures + 1 >= MaxFailures).wait >= BaseBackoff
      /\ r(row.failures + 1 >= MaxFailures).quarantined = (row.failures + 1 >= MaxFailures)
  <2> HIDE DEF r
  <2> QED
    BY <1>5, <1>6, Zenon
<1> HIDE DEF r
<1> QED
  BY <1>7, <1>8, Zenon

-----------------------------------------------------------------------------
(* What the actions share.                                                  *)

LEMMA ApplyType ==
  ASSUME TypeOK, NEW f \in Files, NEW doc \in Docs, NEW got \in SUBSET Leaves,
         NEW failed, NEW q, Apply(f, doc, got, failed, q)
  PROVE  /\ mem' \in [Files -> FileType] /\ pg' \in [Files -> FileType] /\ old' \subseteq Files
         /\ RowsFrom(q, queue') /\ DOMAIN q \subseteq DOMAIN queue'
<1> DEFINE purged == IF got = {} THEN old ELSE old \ {f}
<1>1. src[f].rev \in OptRev /\ mem[f] \in FileType /\ pg[f] \in FileType
  BY DEF TypeOK
<1>2. [mem EXCEPT ![f] = Ingested(mem[f], doc, src[f].rev, got)] \in [Files -> FileType]
  BY <1>1, IngestedType DEF TypeOK
<1>3. [pg EXCEPT ![f] = Persisted(pg[f], mem[f], doc, src[f].rev, got)] \in [Files -> FileType]
  BY <1>1, PersistedType DEF TypeOK
<1>4. mem' \in [Files -> FileType]
  BY <1>2, PurgeType DEF Apply
<1>5. pg' \in [Files -> FileType]
  <2>1. CASE "commit" \in failed
    BY <2>1 DEF Apply, TypeOK
  <2>2. CASE "commit" \notin failed
    BY <2>2, <1>3, PurgeType DEF Apply
  <2> QED
    BY <2>1, <2>2
<1>6. RowsFrom(q, queue') /\ DOMAIN q \subseteq DOMAIN queue'
  <2>1. {"chunk_parent"} \X purged \in SUBSET Keys
    BY DEF TypeOK, Keys, Kinds
  <2>2. queue' = q \/ queue' = Enqueue(q, {"chunk_parent"} \X purged)
    BY DEF Apply
  <2>3. RowsFrom(q, q)
    BY DEF RowsFrom
  <2> QED
    BY <2>1, <2>2, <2>3, EnqueueKeepsRows
<1> QED
  BY <1>4, <1>5, <1>6 DEF Apply

QueueType(q) == DOMAIN q \subseteq Keys /\ \A k \in DOMAIN q : q[k] \in Row

(* A step that only adds and drops rows, outside the settling of a replay. *)
LEMMA RowsAreFrom ==
  ASSUME TypeOK, CountsOK, RowsFrom(queue, queue'), pc # "settle", pc' # "settle",
         faults' \in Nat, faults' >= faults
  PROVE  QueueType(queue') /\ CountsOK'
<1>1. QueueType(queue')
  BY NewRowType DEF TypeOK, RowsFrom, QueueType
<1>2. \A k : Open(k) = 0 /\ Open(k)' = 0
  BY DEF Open
<1>3. CountsOK'
  <2> SUFFICES ASSUME NEW k \in DOMAIN queue'
               PROVE  /\ ~ queue'[k].quarantined => queue'[k].failures < MaxFailures
                      /\ queue'[k].quarantined => queue'[k].tries >= MaxFailures
                      /\ queue'[k].failures + 0 <= queue'[k].tries
                      /\ queue'[k].tries <= queue'[k].failures + faults' + 0
    BY <1>2 DEF CountsOK
  <2>1. CASE k \in DOMAIN queue
    <3>1. queue'[k] = queue[k] /\ queue[k] \in Row
      BY <2>1 DEF RowsFrom, TypeOK
    <3>2. /\ ~ queue[k].quarantined => queue[k].failures < MaxFailures
          /\ queue[k].quarantined => queue[k].tries >= MaxFailures
          /\ queue[k].failures + 0 <= queue[k].tries
          /\ queue[k].tries <= queue[k].failures + faults + 0
      BY <1>2, <2>1 DEF CountsOK
    <3>3. faults \in Nat
      BY DEF TypeOK
    <3> QED
      BY <3>1, <3>2, <3>3, RowFields
  <2>2. CASE k \notin DOMAIN queue
    <3>1. queue'[k] = NewRow
      BY <2>2 DEF RowsFrom
    <3>2. /\ queue'[k].failures = 0 /\ queue'[k].tries = 0 /\ ~ queue'[k].quarantined
      BY <3>1, NewRowType
    <3>3. queue'[k].failures < MaxFailures
      BY <3>2, LimitsAssumption
    <3>4. queue'[k].failures + 0 <= queue'[k].tries
      BY <3>2
    <3>5. queue'[k].tries <= queue'[k].failures + faults' + 0
      <4>1. \A n \in Nat : 0 <= 0 + n + 0
        OBVIOUS
      <4> QED
        BY <3>2, <4>1, Zenon
    <3> QED
      BY <3>2, <3>3, <3>4, <3>5
  <2> QED
    BY <2>1, <2>2
<1> QED
  BY <1>1, <1>3

(* A step that leaves the queue and the pass alone, and their memory too.   *)
LEMMA QueueUntouched ==
  ASSUME IInv, UNCHANGED <<queue, pass>>, UNCHANGED mem, faults' \in Nat, faults' >= faults
  PROVE  QueueType(queue') /\ CountsOK' /\ HeldOK'
<1>1. QueueType(queue')
  BY DEF IInv, TypeOK, QueueType
<1>2. \A k : Open(k)' = Open(k) /\ Open(k) \in {0, 1}
  BY DEF Open, pass
<1>3. CountsOK'
  <2> SUFFICES ASSUME NEW k \in DOMAIN queue
               PROVE  /\ ~ queue[k].quarantined => queue[k].failures < MaxFailures
                      /\ queue[k].quarantined => queue[k].tries >= MaxFailures
                      /\ queue[k].failures + Open(k) <= queue[k].tries
                      /\ queue[k].tries <= queue[k].failures + faults' + Open(k)
    BY <1>2 DEF CountsOK
  <2>1. /\ ~ queue[k].quarantined => queue[k].failures < MaxFailures
        /\ queue[k].quarantined => queue[k].tries >= MaxFailures
        /\ queue[k].failures + Open(k) <= queue[k].tries
        /\ queue[k].tries <= queue[k].failures + faults + Open(k)
    BY DEF IInv, CountsOK
  <2>2. /\ queue[k].failures \in Nat /\ queue[k].tries \in Nat
        /\ Open(k) \in Nat /\ faults \in Nat
    BY <1>2, RowFields DEF IInv, TypeOK
  <2> QED
    BY <2>1, <2>2
<1>4. HeldOK'
  BY DEF IInv, HeldOK, Unresolved, pass
<1> QED
  BY <1>1, <1>3, <1>4

-----------------------------------------------------------------------------
(* What both action properties ask of a step.                               *)
GoodStep ==
  /\ \A k \in DOMAIN queue \ DOMAIN queue' : ~ Unresolved(mem, k)
  /\ \A k \in DOMAIN queue \cap DOMAIN queue' :
       ~ queue[k].quarantined =>
         /\ queue'[k].failures >= queue[k].failures
         /\ queue'[k].wait < queue[k].wait => UNCHANGED <<source, mem, pg, pc, requests>>

LEMMA RowsStand ==
  ASSUME TypeOK, RowsFrom(queue, queue'),
         \A k \in DOMAIN queue \ DOMAIN queue' : ~ Unresolved(mem, k)
  PROVE  GoodStep
<1>1. \A k \in DOMAIN queue \cap DOMAIN queue' :
        /\ queue'[k] = queue[k]
        /\ queue[k].failures \in Nat /\ queue[k].wait \in Int
  BY RowFields DEF RowsFrom, TypeOK
<1>2. \A n \in Int : n >= n /\ ~ (n < n)
  OBVIOUS
<1> QED
  BY <1>1, <1>2 DEF GoodStep

-----------------------------------------------------------------------------
(* The invariant holds at first, every action keeps it and is a good step.  *)

LEMMA InitIInv == Init => IInv
<1> SUFFICES ASSUME Init PROVE IInv
  OBVIOUS
<1>1. NoRev \in OptRev
  BY BoundsAssumption DEF OptRev, NoRev
<1>2. DOMAIN queue = {} /\ DOMAIN targets = {} /\ pc = "down"
  BY DEF Init
<1>3. mem \in [Files -> FileType] /\ pg \in [Files -> FileType] /\ old \subseteq Files
  BY <1>1 DEF Init, NoFile, FileType
<1>4. /\ src \in [Files -> [rev : OptRev, live : BOOLEAN,
                            leaves : SUBSET Leaves, lost : SUBSET Leaves]]
      /\ news \in [Files -> [doc : BOOLEAN, leaves : SUBSET Leaves]]
  BY <1>1 DEF Init, NoNews
<1>5. TypeOK
  BY <1>2, <1>3, <1>4 DEF Init, TypeOK
<1> QED
  BY <1>2, <1>5 DEF IInv, CountsOK, HeldOK

LEMMA SourceKeepsIInv ==
  ASSUME IInv, SourceNext
  PROVE  IInv' /\ GoodStep
<1>1. /\ UNCHANGED <<store, queue, pass, requests, faults>> /\ changes' = changes + 1
  BY DEF SourceNext, WriteFile, UploadLeaf, TombstoneLeaf, DeleteFile, Change
<1>2. /\ src' \in [Files -> [rev : OptRev, live : BOOLEAN,
                             leaves : SUBSET Leaves, lost : SUBSET Leaves]]
      /\ news' \in [Files -> [doc : BOOLEAN, leaves : SUBSET Leaves]]
  <2>1. \A f \in Files : /\ src[f].rev \in OptRev /\ src[f].leaves \subseteq Leaves
                         /\ src[f].rev < MaxRev => src[f].rev + 1 \in OptRev
    BY BoundsAssumption DEF IInv, TypeOK, OptRev, NoRev
  <2>2. ASSUME NEW f \in Files, NEW leaves \in SUBSET Leaves, WriteFile(f, leaves)
        PROVE  <1>2!1 /\ <1>2!2
    <3> DEFINE d == [rev |-> src[f].rev + 1, live |-> TRUE, leaves |-> leaves, lost |-> {}]
    <3>1. d \in DocType
      BY <2>1, <2>2 DEF WriteFile, DocType
    <3>2. src' = [src EXCEPT ![f] = d] /\ news' = [news EXCEPT ![f] = [doc |-> TRUE, leaves |-> {}]]
      BY <2>2 DEF WriteFile
    <3> HIDE DEF d
    <3> QED
      BY <3>1, <3>2 DEF IInv, TypeOK, DocType
  <2>3. ASSUME NEW f \in Files, NEW l \in Leaves, UploadLeaf(f, l)
        PROVE  <1>2!1 /\ <1>2!2
    <3> DEFINE d == [src[f] EXCEPT !.leaves = @ \cup {l}, !.lost = @ \ {l}]
    <3>1. src[f] \in DocType
      BY DEF IInv, TypeOK, DocType
    <3>2. d \in DocType
      BY <3>1 DEF DocType
    <3>3. src' = [src EXCEPT ![f] = d]
      BY <2>3, <3>1 DEF UploadLeaf, IInv, TypeOK, DocType
    <3>4. news' = [news EXCEPT ![f].leaves = @ \cup {l}]
      BY <2>3 DEF UploadLeaf
    <3> HIDE DEF d
    <3> QED
      BY <3>2, <3>3, <3>4 DEF IInv, TypeOK, DocType
  <2>4. ASSUME NEW f \in Files, NEW l \in Leaves, TombstoneLeaf(f, l)
        PROVE  <1>2!1 /\ <1>2!2
    <3> DEFINE d == [src[f] EXCEPT !.leaves = @ \ {l}, !.lost = @ \cup {l}]
    <3>1. src[f] \in DocType
      BY DEF IInv, TypeOK, DocType
    <3>2. d \in DocType
      BY <3>1 DEF DocType
    <3>3. src' = [src EXCEPT ![f] = d]
      BY <2>4, <3>1 DEF TombstoneLeaf, IInv, TypeOK, DocType
    <3>4. UNCHANGED news
      BY <2>4 DEF TombstoneLeaf
    <3> HIDE DEF d
    <3> QED
      BY <3>2, <3>3, <3>4 DEF IInv, TypeOK, DocType
  <2>5. ASSUME NEW f \in Files, DeleteFile(f)
        PROVE  <1>2!1 /\ <1>2!2
    <3> DEFINE d == [rev |-> src[f].rev + 1, live |-> FALSE, leaves |-> {}, lost |-> {}]
    <3>1. d \in DocType
      BY <2>1, <2>5 DEF DeleteFile, DocType
    <3>2. src' = [src EXCEPT ![f] = d] /\ news' = [news EXCEPT ![f] = [doc |-> TRUE, leaves |-> {}]]
      BY <2>5 DEF DeleteFile
    <3> HIDE DEF d
    <3> QED
      BY <3>1, <3>2 DEF IInv, TypeOK, DocType
  <2> QED
    BY <2>2, <2>3, <2>4, <2>5 DEF SourceNext
<1>3. QueueType(queue') /\ CountsOK' /\ HeldOK'
  BY <1>1, QueueUntouched DEF IInv, TypeOK, store
<1>4. TypeOK'
  BY <1>1, <1>2, <1>3 DEF IInv, TypeOK, QueueType, store, pass
<1>5. GoodStep
  BY <1>1, RowsStand DEF IInv, RowsFrom
<1> QED
  BY <1>3, <1>4, <1>5 DEF IInv

LEMMA DeliverKeepsIInv ==
  ASSUME IInv, NEW f \in Files, Deliver(f)
  PROVE  IInv' /\ GoodStep
<1> DEFINE doc == IF ~ news[f].doc THEN "none" ELSE IF src[f].live THEN "live" ELSE "gone"
           got(failed) == src[f].leaves \cap
             (news[f].leaves \cup IF doc = "live" /\ "fetch" \notin failed THEN Leaves ELSE {})
<1>1. PICK failed \in SUBSET {"fetch", "commit", "enqueue"} :
        /\ Faults(Cardinality(failed))
        /\ Apply(f, doc, got(failed), failed, queue)
        /\ news' = IF "commit" \in failed THEN news ELSE [news EXCEPT ![f] = NoNews]
  BY DEF Deliver
<1>2. pc = "feed" /\ UNCHANGED <<src, changes, pass, requests>>
  BY DEF Deliver
<1>3. faults \in Nat /\ faults' \in Nat /\ faults' >= faults
  <2>1. Cardinality(failed) \in Nat /\ faults \in Nat
    BY FailuresAreCounted DEF IInv, TypeOK
  <2>2. faults' = faults + Cardinality(failed)
    BY <1>1 DEF Faults
  <2> QED
    BY <2>1, <2>2
<1>4. news' \in [Files -> [doc : BOOLEAN, leaves : SUBSET Leaves]]
  BY <1>1 DEF NoNews, IInv, TypeOK
<1>5. /\ mem' \in [Files -> FileType] /\ pg' \in [Files -> FileType] /\ old' \subseteq Files
      /\ RowsFrom(queue, queue') /\ DOMAIN queue \subseteq DOMAIN queue'
  <2>1. doc \in Docs
    BY DEF Docs
  <2>2. got(failed) \in SUBSET Leaves
    BY DEF IInv, TypeOK
  <2> HIDE DEF doc, got
  <2> QED
    BY <1>1, <2>1, <2>2, ApplyType DEF IInv
<1>6. QueueType(queue') /\ CountsOK'
  BY <1>2, <1>3, <1>5, RowsAreFrom DEF IInv, pass
<1>7. TypeOK'
  BY <1>2, <1>3, <1>4, <1>5, <1>6 DEF IInv, TypeOK, QueueType, pass, HeldOK
<1>8. HeldOK'
  BY <1>2 DEF IInv, HeldOK, pass
<1>9. GoodStep
  BY <1>5, RowsStand DEF IInv
<1> QED
  BY <1>6, <1>7, <1>8, <1>9 DEF IInv

LEMMA DiscoverKeepsIInv ==
  ASSUME IInv, Discover
  PROVE  IInv' /\ GoodStep
<1> DEFINE stale  == {f \in Files : Stale(mem[f])}
           chunks(failed) ==
             IF {"purge", "chunks"} \subseteq failed THEN {} ELSE {"chunk_parent"} \X old
           alias(failed) == IF "enqueue" \in failed THEN {} ELSE {"file_alias"} \X stale
           moved(failed, drift) ==
             IF drift /\ "drift" \notin failed THEN {"remote_drift"} \X Drifted ELSE {}
           over(failed) ==
             IF "clear" \in failed THEN {} ELSE {"file_alias"} \X (Files \ stale)
           keys(failed, drift) == chunks(failed) \cup alias(failed) \cup moved(failed, drift)
           q(failed, drift) == Enqueue(queue, keys(failed, drift))
<1>1. PICK failed \in SUBSET {"purge", "chunks", "enqueue", "clear", "drift"}, drift \in BOOLEAN :
        /\ Faults(Cardinality(failed))
        /\ mem' = Purge(mem, old)
        /\ pg' = IF "purge" \in failed THEN pg ELSE Purge(pg, old)
        /\ queue' = [k \in DOMAIN q(failed, drift) \ over(failed) |-> q(failed, drift)[k]]
  BY DEF Discover
<1>2. /\ pc = "feed" /\ pc' = "due" /\ old' = {} /\ checked' = TRUE
      /\ UNCHANGED <<source, targets, current, requests>>
  BY DEF Discover, QuietFeed
<1>3. faults \in Nat /\ faults' \in Nat /\ faults' >= faults
  <2>1. Cardinality(failed) \in Nat /\ faults \in Nat
    BY FailuresAreCounted DEF IInv, TypeOK
  <2>2. faults' = faults + Cardinality(failed)
    BY <1>1 DEF Faults
  <2> QED
    BY <2>1, <2>2
<1>4. RowsFrom(queue, queue')
  <2>1. keys(failed, drift) \in SUBSET Keys
    BY DEF Keys, Kinds, Drifted, IInv, TypeOK
  <2>2. RowsFrom(queue, q(failed, drift))
    <3> HIDE DEF keys
    <3> QED
      BY <2>1, EnqueueKeepsRows
  <2> HIDE DEF q, over
  <2> QED
    BY <1>1, <2>2 DEF RowsFrom
<1>5. QueueType(queue') /\ CountsOK'
  BY <1>2, <1>3, <1>4, RowsAreFrom DEF IInv
<1>6. mem' \in [Files -> FileType] /\ pg' \in [Files -> FileType]
  BY <1>1, PurgeType DEF IInv, TypeOK
<1>7. DOMAIN targets = {}
  BY <1>2 DEF IInv, HeldOK
<1>8. TypeOK'
  BY <1>2, <1>3, <1>5, <1>6, <1>7 DEF IInv, TypeOK, QueueType, source
<1>9. HeldOK'
  BY <1>2, <1>7 DEF HeldOK
<1>10. GoodStep
  <2>1. ASSUME NEW k \in DOMAIN queue \ DOMAIN queue'
        PROVE  ~ Unresolved(mem, k)
    <3>1. k \in over(failed)
      BY <1>1 DEF Enqueue
    <3> QED
      BY <3>1 DEF Unresolved
  <2> QED
    BY <1>4, <2>1, RowsStand DEF IInv
<1> QED
  BY <1>5, <1>8, <1>9, <1>10 DEF IInv

(* Between passes, at their start and at their end.                         *)
LEMMA LoopKeepsIInv ==
  ASSUME IInv, Undiscovered \/ LoadDue \/ LoadFails \/ EndPass \/ Restart
  PROVE  IInv' /\ GoodStep
<1>1. /\ queue' = queue /\ pc # "settle" /\ pc' # "settle"
      /\ UNCHANGED <<source, pg, requests>>
  BY DEF Undiscovered, LoadDue, LoadFails, EndPass, Restart, QuietFeed, store, source
<1>2. faults \in Nat /\ faults' \in Nat /\ faults' >= faults
  BY DEF Undiscovered, LoadDue, LoadFails, EndPass, Restart, Faults, IInv, TypeOK
<1>3. QueueType(queue') /\ CountsOK'
  <2>1. RowsFrom(queue, queue')
    BY <1>1 DEF RowsFrom
  <2> QED
    BY <1>1, <1>2, <2>1, RowsAreFrom DEF IInv
<1>4. mem' \in [Files -> FileType] /\ old' \subseteq Files /\ checked' \in BOOLEAN
  BY DEF Undiscovered, LoadDue, LoadFails, EndPass, Restart, store, IInv, TypeOK
<1>5. \/ DOMAIN targets' = {} /\ pc' \in {"down", "feed", "due"}
      \/ /\ pc' = "replay"
         /\ \E S \in SUBSET Due : targets' = [k \in S |-> queue[k].failures]
  BY DEF Undiscovered, LoadDue, LoadFails, EndPass, Restart, QuietFeed, IInv, HeldOK
<1>6. DOMAIN targets' \subseteq DOMAIN queue
  BY <1>5 DEF Due
<1>7. \A k \in DOMAIN targets' : /\ ~ queue[k].quarantined /\ queue[k].wait <= 0
                                /\ targets'[k] = queue[k].failures /\ targets'[k] \in Nat
  BY <1>5, RowFields DEF Due, IInv, TypeOK
<1>8. TypeOK'
  BY <1>1, <1>2, <1>3, <1>4, <1>5, <1>6, <1>7 DEF IInv, TypeOK, QueueType, source
<1>9. HeldOK'
  BY <1>1, <1>5, <1>7 DEF HeldOK
<1>10. GoodStep
  BY <1>1, RowsStand DEF IInv, RowsFrom
<1> QED
  BY <1>3, <1>8, <1>9, <1>10 DEF IInv

LEMMA PruneKeepsIInv ==
  ASSUME IInv, NEW k \in DOMAIN targets, Prune(k)
  PROVE  IInv' /\ GoodStep
<1>1. /\ pc = "replay" /\ pc' = "replay" /\ targets' = Without(targets, k)
      /\ UNCHANGED <<source, store, current, checked, requests>>
  BY DEF Prune
<1>2. /\ queue' = queue \/ queue' = Without(queue, k)
      /\ faults \in Nat /\ faults' \in Nat /\ faults' >= faults
  BY DEF Prune, Write, Faults, IInv, TypeOK
<1>3. QueueType(queue') /\ CountsOK'
  <2>1. RowsFrom(queue, queue')
    BY <1>2 DEF RowsFrom, Without
  <2> QED
    BY <1>1, <1>2, <2>1, RowsAreFrom DEF IInv
<1>4. /\ DOMAIN targets' = DOMAIN targets \ {k}
      /\ \A j \in DOMAIN targets' : targets'[j] = targets[j]
  BY <1>1 DEF Without
<1>5. \A j \in DOMAIN targets' : j \in DOMAIN queue' /\ queue'[j] = queue[j]
  BY <1>2, <1>4 DEF Without, IInv, TypeOK
<1>6. TypeOK'
  BY <1>1, <1>2, <1>3, <1>4, <1>5 DEF IInv, TypeOK, QueueType, source, store
<1>7. HeldOK'
  BY <1>1, <1>4, <1>5 DEF IInv, HeldOK
<1>8. GoodStep
  <2>1. RowsFrom(queue, queue')
    BY <1>2 DEF RowsFrom, Without
  <2>2. \A j \in DOMAIN queue \ DOMAIN queue' : ~ Unresolved(mem, j)
    BY <1>2 DEF Prune, Without
  <2> QED
    BY <2>1, <2>2, RowsStand DEF IInv
<1> QED
  BY <1>3, <1>6, <1>7, <1>8 DEF IInv

LEMMA CrashKeepsIInv ==
  ASSUME IInv, Crash
  PROVE  IInv' /\ GoodStep
<1>1. /\ pc' = "down" /\ targets' = <<>> /\ faults' = faults + 1
      /\ UNCHANGED <<source, store, queue, checked, requests>>
  BY DEF Crash, Faults
<1>2. DOMAIN targets' = {}
  BY <1>1
<1>3. TypeOK'
  BY <1>1, <1>2 DEF IInv, TypeOK, source, store
<1>4. CountsOK'
  <2> SUFFICES ASSUME NEW k \in DOMAIN queue
               PROVE  /\ ~ queue[k].quarantined => queue[k].failures < MaxFailures
                      /\ queue[k].quarantined => queue[k].tries >= MaxFailures
                      /\ queue[k].failures + 0 <= queue[k].tries
                      /\ queue[k].tries <= queue[k].failures + (faults + 1) + 0
    BY <1>1 DEF CountsOK, Open
  <2>1. /\ ~ queue[k].quarantined => queue[k].failures < MaxFailures
        /\ queue[k].quarantined => queue[k].tries >= MaxFailures
        /\ queue[k].failures + Open(k) <= queue[k].tries
        /\ queue[k].tries <= queue[k].failures + faults + Open(k)
    BY DEF IInv, CountsOK
  <2>2. Open(k) \in {0, 1} /\ faults \in Nat
    BY DEF Open, IInv, TypeOK
  <2>3. queue[k].failures \in Nat /\ queue[k].tries \in Nat
    BY RowFields DEF IInv, TypeOK
  <2> QED
    BY <2>1, <2>2, <2>3
<1>5. HeldOK'
  BY <1>1, <1>2 DEF HeldOK
<1>6. GoodStep
  BY <1>1, RowsStand DEF IInv, RowsFrom
<1> QED
  BY <1>3, <1>4, <1>5, <1>6 DEF IInv

LEMMA ReplayKeepsIInv ==
  ASSUME IInv, NEW k \in DOMAIN targets, Replay(k)
  PROVE  IInv' /\ GoodStep
<1> DEFINE f == k[2]
           tried == [queue EXCEPT ![k].tries = @ + 1]
           repairs(failed) == k[1] = "file_alias" /\ Repairable(f) /\ "repair" \notin failed
           found(failed, body) ==
             "fetch" \notin failed /\ (src[f].live \/ (body /\ src[f].rev # NoRev))
           doc == IF src[f].live THEN "live" ELSE "gone"
<1>1. PICK failed \in SUBSET {"repair", "fetch", "commit", "enqueue"}, body \in BOOLEAN :
        /\ Faults(Cardinality(failed))
        /\ src' = IF repairs(failed) THEN [src EXCEPT ![f].leaves = Leaves, ![f].lost = {}] ELSE src
        /\ news' = IF repairs(failed) THEN [news EXCEPT ![f].leaves = @ \cup src[f].lost] ELSE news
        /\ IF found(failed, body)
           THEN Apply(f, doc, src'[f].leaves, failed, tried)
           ELSE queue' = tried /\ UNCHANGED store
        /\ current' = [key |-> k, resolved |-> found(failed, body) /\ Recovered(k, mem', failed)]
  BY DEF Replay
<1>2. /\ pc = "replay" /\ pc' = "settle" /\ targets' = targets
      /\ UNCHANGED <<changes, checked, requests>>
  BY DEF Replay
<1>3. faults \in Nat /\ faults' \in Nat /\ faults' >= faults
  <2>1. Cardinality(failed) \in Nat /\ faults \in Nat
    BY FailuresAreCounted DEF IInv, TypeOK
  <2>2. faults' = faults + Cardinality(failed)
    BY <1>1 DEF Faults
  <2> QED
    BY <2>1, <2>2
<1>4. k \in DOMAIN queue /\ k \in Keys /\ f \in Files /\ queue[k] \in Row
  BY DEF IInv, TypeOK, Keys
<1>5. /\ src' \in [Files -> DocType]
      /\ news' \in [Files -> [doc : BOOLEAN, leaves : SUBSET Leaves]]
  <2>1. src \in [Files -> DocType] /\ src[f] \in DocType
    BY <1>4 DEF IInv, TypeOK, DocType
  <2>2. [src EXCEPT ![f].leaves = Leaves, ![f].lost = {}] \in [Files -> DocType]
    <3> DEFINE d == [src[f] EXCEPT !.leaves = Leaves, !.lost = {}]
    <3>1. d \in DocType
      BY <2>1 DEF DocType
    <3>2. [src EXCEPT ![f].leaves = Leaves, ![f].lost = {}] = [src EXCEPT ![f] = d]
      BY <1>4, <2>1 DEF DocType
    <3> HIDE DEF d
    <3> QED
      BY <2>1, <3>1, <3>2
  <2>3. src[f].lost \subseteq Leaves
    BY <2>1 DEF DocType
  <2>4. [news EXCEPT ![f].leaves = @ \cup src[f].lost]
          \in [Files -> [doc : BOOLEAN, leaves : SUBSET Leaves]]
    BY <2>3 DEF IInv, TypeOK
  <2> QED
    BY <1>1, <2>1, <2>2, <2>4 DEF IInv, TypeOK
<1>6. /\ mem' \in [Files -> FileType] /\ pg' \in [Files -> FileType] /\ old' \subseteq Files
      /\ RowsFrom(tried, queue') /\ DOMAIN tried \subseteq DOMAIN queue'
  <2>1. CASE found(failed, body)
    <3>1. doc \in Docs
      BY DEF Docs
    <3>2. src'[f].leaves \in SUBSET Leaves
      BY <1>4, <1>5 DEF DocType
    <3>3. Apply(f, doc, src'[f].leaves, failed, tried)
      BY <1>1, <2>1
    <3> HIDE DEF doc, tried, f
    <3> QED
      BY <1>4, <3>1, <3>2, <3>3, ApplyType DEF IInv
  <2>2. CASE ~ found(failed, body)
    <3>1. queue' = tried /\ UNCHANGED store
      BY <1>1, <2>2
    <3> HIDE DEF tried
    <3> QED
      BY <3>1 DEF RowsFrom, store, IInv, TypeOK
  <2> QED
    BY <2>1, <2>2
<1>7. /\ tried[k] \in Row /\ tried[k].tries = queue[k].tries + 1
      /\ tried[k].failures = queue[k].failures /\ tried[k].wait = queue[k].wait
      /\ tried[k].quarantined = queue[k].quarantined
  BY <1>4 DEF Row
<1>8. DOMAIN tried = DOMAIN queue /\ \A j \in DOMAIN queue \ {k} : tried[j] = queue[j]
  OBVIOUS
<1> HIDE DEF tried
<1>9. DOMAIN queue' \subseteq Keys /\ \A j \in DOMAIN queue' : queue'[j] \in Row
  BY <1>6, <1>7, <1>8, NewRowType DEF RowsFrom, IInv, TypeOK
<1>10. /\ current'.key = k
       /\ current'.resolved => Recovered(k, mem', failed)
  BY <1>1
<1>11. CountsOK'
  <2> SUFFICES ASSUME NEW j \in DOMAIN queue'
               PROVE  /\ ~ queue'[j].quarantined => queue'[j].failures < MaxFailures
                      /\ queue'[j].quarantined => queue'[j].tries >= MaxFailures
                      /\ queue'[j].failures + Open(j)' <= queue'[j].tries
                      /\ queue'[j].tries <= queue'[j].failures + faults' + Open(j)'
    BY DEF CountsOK
  <2>1. Open(j) = 0 /\ Open(j)' = IF j = k THEN 1 ELSE 0
    BY <1>2, <1>10 DEF Open
  <2>2. CASE j \in DOMAIN queue
    <3>1. /\ queue[j].failures \in Nat /\ queue[j].tries \in Nat
      BY <2>2, RowFields DEF IInv, TypeOK
    <3>2. /\ ~ queue[j].quarantined => queue[j].failures < MaxFailures
          /\ queue[j].quarantined => queue[j].tries >= MaxFailures
          /\ queue[j].failures <= queue[j].tries
          /\ queue[j].tries <= queue[j].failures + faults
      <4>1. /\ ~ queue[j].quarantined => queue[j].failures < MaxFailures
            /\ queue[j].quarantined => queue[j].tries >= MaxFailures
            /\ queue[j].failures + 0 <= queue[j].tries
            /\ queue[j].tries <= queue[j].failures + faults + 0
        BY <2>1, <2>2 DEF IInv, CountsOK
      <4> QED
        BY <1>3, <3>1, <4>1
    <3>3. queue'[j] = tried[j]
      BY <1>6, <1>8, <2>2 DEF RowsFrom
    <3>4. CASE j = k
      BY <1>3, <1>7, <2>1, <3>1, <3>2, <3>3, <3>4, LimitsAssumption
    <3>5. CASE j # k
      <4>1. queue'[j] = queue[j]
        BY <1>8, <2>2, <3>3, <3>5
      <4> QED
        BY <1>3, <2>1, <3>1, <3>2, <3>5, <4>1
    <3> QED
      BY <3>4, <3>5
  <2>3. CASE j \notin DOMAIN queue
    <3>1. queue'[j] = NewRow
      BY <1>6, <1>8, <2>3 DEF RowsFrom
    <3>2. /\ queue'[j].failures = 0 /\ queue'[j].tries = 0 /\ ~ queue'[j].quarantined
      BY <3>1, NewRowType
    <3>3. Open(j)' = 0
      BY <1>4, <2>1, <2>3
    <3> QED
      BY <1>3, <3>2, <3>3, LimitsAssumption
  <2> QED
    BY <2>2, <2>3
<1>12. TypeOK'
  BY <1>2, <1>3, <1>5, <1>6, <1>8, <1>9, <1>10 DEF IInv, TypeOK, DocType
<1>13. HeldOK'
  <2>1. \A j \in DOMAIN targets : j \in DOMAIN queue /\ queue'[j] = tried[j]
    BY <1>6, <1>8 DEF RowsFrom, IInv, TypeOK
  <2>2. \A j \in DOMAIN targets :
          /\ ~ queue'[j].quarantined /\ queue'[j].wait <= 0
          /\ targets[j] = queue'[j].failures
    BY <1>7, <1>8, <2>1 DEF IInv, HeldOK
  <2>3. current'.resolved => ~ Unresolved(mem', k)
    BY <1>10 DEF Recovered
  <2> QED
    BY <1>2, <1>10, <2>2, <2>3 DEF HeldOK
<1>14. GoodStep
  <2>1. ASSUME NEW j \in DOMAIN queue
        PROVE  /\ j \in DOMAIN queue'
               /\ queue'[j].failures >= queue[j].failures /\ ~ (queue'[j].wait < queue[j].wait)
    <3>1. queue'[j] = tried[j] /\ j \in DOMAIN queue'
      BY <1>6, <1>8 DEF RowsFrom
    <3>2. queue'[j].failures = queue[j].failures /\ queue'[j].wait = queue[j].wait
      BY <1>7, <1>8, <3>1
    <3>3. queue[j].failures \in Nat /\ queue[j].wait \in Int
      BY RowFields DEF IInv, TypeOK
    <3> QED
      BY <3>1, <3>2, <3>3
  <2> QED
    BY <2>1 DEF GoodStep
<1> QED
  BY <1>11, <1>12, <1>13, <1>14 DEF IInv

LEMMA SettleKeepsIInv ==
  ASSUME IInv, Settle
  PROVE  IInv' /\ GoodStep
<1> DEFINE k == current.key
<1>1. /\ pc = "settle" /\ pc' = "replay" /\ current' = NoTarget
      /\ targets' = Without(targets, k)
      /\ UNCHANGED <<source, store, checked, requests>>
      /\ Write(IF current.resolved THEN Without(queue, k)
               ELSE [queue EXCEPT ![k] = Failed(@, targets[k])])
  BY DEF Settle
<1>2. k \in DOMAIN targets /\ k \in DOMAIN queue /\ queue[k] \in Row /\ faults \in Nat
  BY <1>1 DEF IInv, TypeOK
<1>3. /\ ~ queue[k].quarantined /\ targets[k] = queue[k].failures
      /\ queue[k].failures < MaxFailures
      /\ queue[k].failures + 1 <= queue[k].tries
      /\ queue[k].tries <= queue[k].failures + faults + 1
  <2>1. Open(k) = 1
    BY <1>1 DEF Open
  <2> QED
    BY <1>2, <2>1 DEF IInv, HeldOK, CountsOK
<1>4. /\ Failed(queue[k], targets[k]) \in Row
      /\ Failed(queue[k], targets[k]).failures = queue[k].failures + 1
      /\ Failed(queue[k], targets[k]).tries = queue[k].tries
      /\ Failed(queue[k], targets[k]).quarantined <=> queue[k].failures + 1 >= MaxFailures
  BY <1>2, <1>3, FailedRow
<1>5. \/ queue' = Without(queue, k) /\ faults' = faults
      \/ queue' = [queue EXCEPT ![k] = Failed(queue[k], targets[k])] /\ faults' = faults
      \/ queue' = queue /\ faults' = faults + 1
  BY <1>1, <1>2 DEF Write, Faults
<1>6. /\ DOMAIN queue' \subseteq DOMAIN queue /\ DOMAIN queue \ {k} \subseteq DOMAIN queue'
      /\ \A j \in DOMAIN queue' \ {k} : queue'[j] = queue[j]
      /\ k \in DOMAIN queue' => \/ queue'[k] = queue[k] /\ faults' = faults + 1
                                \/ queue'[k] = Failed(queue[k], targets[k]) /\ faults' = faults
      /\ faults' \in Nat /\ faults' >= faults
  <2>1. CASE queue' = Without(queue, k) /\ faults' = faults
    BY <1>2, <2>1 DEF Without
  <2>2. CASE queue' = [queue EXCEPT ![k] = Failed(queue[k], targets[k])] /\ faults' = faults
    BY <1>2, <2>2
  <2>3. CASE queue' = queue /\ faults' = faults + 1
    BY <1>2, <2>3
  <2> QED
    BY <1>5, <2>1, <2>2, <2>3
<1>7. QueueType(queue')
  BY <1>4, <1>6 DEF QueueType, IInv, TypeOK
<1>8. CountsOK'
  <2> SUFFICES ASSUME NEW j \in DOMAIN queue'
               PROVE  /\ ~ queue'[j].quarantined => queue'[j].failures < MaxFailures
                      /\ queue'[j].quarantined => queue'[j].tries >= MaxFailures
                      /\ queue'[j].failures + 0 <= queue'[j].tries
                      /\ queue'[j].tries <= queue'[j].failures + faults' + 0
    BY <1>1 DEF CountsOK, Open
  <2>1. /\ j \in DOMAIN queue /\ queue[j] \in Row
        /\ queue[j].failures \in Nat /\ queue[j].tries \in Nat
    BY <1>6, RowFields DEF IInv, TypeOK
  <2>2. CASE j # k
    <3>1. Open(j) = 0 /\ queue'[j] = queue[j]
      BY <1>6, <2>2 DEF Open
    <3>2. /\ ~ queue[j].quarantined => queue[j].failures < MaxFailures
          /\ queue[j].quarantined => queue[j].tries >= MaxFailures
          /\ queue[j].failures + 0 <= queue[j].tries
          /\ queue[j].tries <= queue[j].failures + faults + 0
      BY <2>1, <3>1 DEF IInv, CountsOK
    <3> QED
      BY <1>2, <1>6, <2>1, <3>1, <3>2
  <2>3. CASE j = k /\ queue'[k] = queue[k] /\ faults' = faults + 1
    BY <1>2, <1>3, <2>1, <2>3
  <2>4. CASE j = k /\ queue'[k] = Failed(queue[k], targets[k]) /\ faults' = faults
    BY <1>2, <1>3, <1>4, <2>1, <2>4, LimitsAssumption
  <2> QED
    BY <1>6, <2>2, <2>3, <2>4
<1>9. /\ DOMAIN targets' = DOMAIN targets \ {k}
      /\ \A j \in DOMAIN targets' : targets'[j] = targets[j]
  BY <1>1 DEF Without
<1>10. \A j \in DOMAIN targets' : j \in DOMAIN queue' /\ queue'[j] = queue[j]
  BY <1>6, <1>9 DEF IInv, TypeOK
<1>11. TypeOK'
  BY <1>1, <1>6, <1>7, <1>9, <1>10 DEF IInv, TypeOK, QueueType, source, store
<1>12. HeldOK'
  BY <1>1, <1>9, <1>10 DEF IInv, HeldOK
<1>13. GoodStep
  <2>1. \A j \in DOMAIN queue \ DOMAIN queue' : ~ Unresolved(mem, j)
    <3> SUFFICES ASSUME NEW j \in DOMAIN queue \ DOMAIN queue' PROVE ~ Unresolved(mem, j)
      OBVIOUS
    <3>1. j = k
      BY <1>6
    <3>2. current.resolved
      BY <1>1, <1>2, <3>1 DEF Write
    <3> QED
      BY <1>1, <3>1, <3>2 DEF IInv, HeldOK
  <2>2. ASSUME NEW j \in DOMAIN queue \cap DOMAIN queue'
        PROVE  queue'[j].failures >= queue[j].failures /\ ~ (queue'[j].wait < queue[j].wait)
    <3>1. queue[j].failures \in Nat /\ queue[j].wait \in Int
      BY RowFields DEF IInv, TypeOK
    <3>2. CASE queue'[j] = queue[j]
      BY <3>1, <3>2
    <3>3. CASE j = k /\ queue'[k] = Failed(queue[k], targets[k])
      <4>1. /\ queue'[j].failures = queue[j].failures + 1
            /\ queue'[j].wait >= BaseBackoff /\ queue'[j].wait \in Int
        BY <1>2, <1>3, <1>4, <3>3, FailedRow, RowFields
      <4>2. queue[j].wait <= 0
        BY <1>2, <3>3 DEF IInv, HeldOK
      <4> QED
        BY <3>1, <4>1, <4>2, LimitsAssumption
    <3> QED
      BY <1>6, <3>2, <3>3
  <2> QED
    BY <2>1, <2>2 DEF GoodStep
<1> QED
  BY <1>8, <1>11, <1>12, <1>13 DEF IInv

LEMMA ReactivateKeepsIInv ==
  ASSUME IInv, NEW f \in Files, Reactivate(f)
  PROVE  IInv' /\ GoodStep
<1> DEFINE k == <<"file_alias", f>>
           added == k \notin DOMAIN queue \/ Reactivable(queue[k], src[f].rev)
<1>1. /\ UNCHANGED <<source, store, pass>>
      /\ requests' = requests + 1
      /\ queue' = IF added THEN [j \in DOMAIN queue \cup {k} |->
                                  IF j = k THEN Reactivated(src[f].rev) ELSE queue[j]]
                  ELSE queue
  BY DEF Reactivate
<1>2. faults \in Nat /\ faults' \in Nat /\ faults' >= faults
  BY DEF Reactivate, Faults, IInv, TypeOK
<1>3. CASE ~ added
  <2>1. UNCHANGED <<queue, pass>> /\ UNCHANGED mem
    BY <1>1, <1>3 DEF store
  <2>2. QueueType(queue') /\ CountsOK' /\ HeldOK'
    BY <1>2, <2>1, QueueUntouched
  <2>3. TypeOK'
    BY SMTT(30), <1>1, <1>2, <2>1, <2>2 DEF IInv, TypeOK, QueueType, source, store, pass
  <2>4. GoodStep
    BY <2>1, RowsStand DEF IInv, RowsFrom
  <2> QED
    BY <2>2, <2>3, <2>4 DEF IInv
<1>4. CASE added
  <2> HIDE DEF k
  <2>1. /\ DOMAIN queue' = DOMAIN queue \cup {k} /\ queue'[k] = Reactivated(src[f].rev)
        /\ \A j \in DOMAIN queue \ {k} : queue'[j] = queue[j]
    BY <1>1, <1>4
  <2>2. /\ queue'[k] \in Row /\ queue'[k].failures = 0 /\ queue'[k].tries = 0
        /\ ~ queue'[k].quarantined
    <3>1. src[f].rev \in OptRev
      BY DEF IInv, TypeOK
    <3> DEFINE row == [failures |-> 0, wait |-> 0, quarantined |-> FALSE,
                       rev |-> src[f].rev, age |-> 0, tries |-> 0]
    <3>2. queue'[k] = row
      BY <2>1 DEF Reactivated, NewRow
    <3>3. row \in Row
      BY <3>1, BoundsAssumption, LimitsAssumption DEF Row
    <3> QED
      BY <3>2, <3>3
  <2>3. k \notin DOMAIN targets
    BY <1>4 DEF Reactivable, IInv, TypeOK, HeldOK
  <2>4. k \in Keys
    BY DEF k, Keys, Kinds
  <2>5. QueueType(queue')
    BY <2>1, <2>2, <2>4 DEF QueueType, IInv, TypeOK
  <2>6. CountsOK'
    <3> SUFFICES ASSUME NEW j \in DOMAIN queue'
                 PROVE  /\ ~ queue'[j].quarantined => queue'[j].failures < MaxFailures
                        /\ queue'[j].quarantined => queue'[j].tries >= MaxFailures
                        /\ queue'[j].failures + Open(j) <= queue'[j].tries
                        /\ queue'[j].tries <= queue'[j].failures + faults' + Open(j)
      BY <1>1 DEF CountsOK, Open, pass
    <3>1. CASE j = k
      <4>1. Open(j) = 0
        BY <2>3, <3>1 DEF Open, IInv, TypeOK
      <4> QED
        BY <1>2, <2>2, <3>1, <4>1, LimitsAssumption
    <3>2. CASE j # k
      <4>1. queue'[j] = queue[j] /\ j \in DOMAIN queue /\ queue[j] \in Row
        BY <2>1, <3>2 DEF IInv, TypeOK
      <4>2. /\ ~ queue[j].quarantined => queue[j].failures < MaxFailures
            /\ queue[j].quarantined => queue[j].tries >= MaxFailures
            /\ queue[j].failures + Open(j) <= queue[j].tries
            /\ queue[j].tries <= queue[j].failures + faults + Open(j)
        BY <4>1 DEF IInv, CountsOK
      <4>3. Open(j) \in Nat
        BY DEF Open
      <4> QED
        BY <1>2, <4>1, <4>2, <4>3, RowFields
    <3> QED
      BY <3>1, <3>2
  <2>7. TypeOK'
    <3>1. DOMAIN targets' \subseteq DOMAIN queue' /\ requests' \in Nat
      BY <1>1, <2>1 DEF IInv, TypeOK, pass
    <3> QED
      BY <1>1, <1>2, <2>5, <3>1 DEF IInv, TypeOK, QueueType, source, store, pass
  <2>8. HeldOK'
    <3>1. \A j \in DOMAIN targets : queue'[j] = queue[j]
      BY <2>1, <2>3 DEF IInv, TypeOK
    <3> QED
      BY <1>1, <3>1 DEF IInv, HeldOK, Unresolved, store, pass
  <2>9. GoodStep
    <3>1. ASSUME NEW j \in DOMAIN queue
          PROVE  /\ j \in DOMAIN queue'
                 /\ ~ queue[j].quarantined => queue'[j] = queue[j]
                 /\ queue[j].failures >= queue[j].failures /\ ~ (queue[j].wait < queue[j].wait)
      <4>1. queue[j].failures \in Nat /\ queue[j].wait \in Int
        BY RowFields DEF IInv, TypeOK
      <4> QED
        BY <1>4, <2>1, <4>1 DEF Reactivable
    <3> QED
      BY <3>1 DEF GoodStep
  <2> QED
    BY <2>6, <2>7, <2>8, <2>9 DEF IInv
<1> QED
  BY <1>3, <1>4

LEMMA TickKeepsIInv ==
  ASSUME IInv, Tick
  PROVE  IInv' /\ GoodStep
<1>1. /\ old' = {f \in Files : mem[f].staged # {}} /\ checked' = FALSE
      /\ UNCHANGED <<source, mem, pg, pc, targets, current, requests, faults>>
  BY DEF Tick
<1>2. /\ DOMAIN queue' = DOMAIN queue
      /\ \A k \in DOMAIN queue :
           queue'[k] = [queue[k] EXCEPT !.wait = IF @ > -Horizon THEN @ - 1 ELSE @,
                                        !.age = IF @ < Cooldown THEN @ + 1 ELSE @]
  BY DEF Tick
<1>3. ASSUME NEW k \in DOMAIN queue
      PROVE  /\ queue'[k] \in Row
             /\ queue'[k].failures = queue[k].failures /\ queue'[k].tries = queue[k].tries
             /\ queue'[k].quarantined = queue[k].quarantined
             /\ queue'[k].wait <= queue[k].wait
  <2>1. queue[k] \in Row
    BY DEF IInv, TypeOK
  <2> DEFINE w == IF queue[k].wait > -Horizon THEN queue[k].wait - 1 ELSE queue[k].wait
             a == IF queue[k].age < Cooldown THEN queue[k].age + 1 ELSE queue[k].age
  <2>2. w \in -Horizon..MaxBackoff /\ a \in 0..Cooldown /\ w <= queue[k].wait
    BY <2>1, BoundsAssumption, LimitsAssumption DEF Row
  <2>3. queue'[k] = [queue[k] EXCEPT !.wait = w, !.age = a]
    BY <1>2, <2>1 DEF Row
  <2> HIDE DEF w, a
  <2> QED
    BY <2>1, <2>2, <2>3 DEF Row
<1>4. TypeOK'
  BY <1>1, <1>2, <1>3 DEF IInv, TypeOK, source
<1>5. CountsOK'
  BY <1>1, <1>2, <1>3 DEF IInv, CountsOK, Open
<1>6. HeldOK'
  <2>1. \A k \in DOMAIN targets :
          /\ ~ queue'[k].quarantined /\ queue'[k].wait <= 0
          /\ targets[k] = queue'[k].failures
    <3> SUFFICES ASSUME NEW k \in DOMAIN targets
                 PROVE  queue'[k].wait <= 0 /\ ~ queue'[k].quarantined
                        /\ targets[k] = queue'[k].failures
      OBVIOUS
    <3>1. k \in DOMAIN queue
      BY DEF IInv, TypeOK
    <3>2. queue[k] \in Row /\ queue'[k] \in Row
      BY <1>3, <3>1 DEF IInv, TypeOK
    <3> QED
      BY <1>3, <3>1, <3>2, RowFields DEF IInv, HeldOK
  <2> QED
    BY <1>1, <2>1 DEF IInv, HeldOK, Unresolved
<1>7. GoodStep
  <2>1. \A k \in DOMAIN queue : queue'[k].failures = queue[k].failures /\ queue[k].failures \in Nat
    BY <1>3, RowFields DEF IInv, TypeOK
  <2>2. \A n \in Nat : n >= n
    OBVIOUS
  <2> QED
    BY <1>1, <1>2, <2>1, <2>2 DEF GoodStep
<1> QED
  BY <1>4, <1>5, <1>6, <1>7 DEF IInv

LEMMA StepKeepsIInv ==
  ASSUME IInv, [Next]_vars
  PROVE  IInv' /\ [GoodStep]_vars
<1>1. CASE SourceNext
  BY <1>1, SourceKeepsIInv
<1>2. CASE WorkerNext
  BY <1>2, DeliverKeepsIInv, DiscoverKeepsIInv, LoopKeepsIInv, PruneKeepsIInv,
     ReplayKeepsIInv, SettleKeepsIInv DEF WorkerNext
<1>3. CASE Crash
  BY <1>3, CrashKeepsIInv
<1>4. CASE Tick
  BY <1>4, TickKeepsIInv
<1>5. CASE \E f \in Files : Reactivate(f)
  BY <1>5, ReactivateKeepsIInv
<1>6. CASE UNCHANGED vars
  <2>1. UNCHANGED <<queue, pass>> /\ UNCHANGED mem /\ faults \in Nat /\ faults' = faults
    BY <1>6 DEF vars, pass, IInv, TypeOK
  <2>2. CountsOK' /\ HeldOK'
    BY <2>1, QueueUntouched
  <2>3. TypeOK'
    BY <1>6 DEF vars, IInv, TypeOK
  <2> QED
    BY <1>6, <2>2, <2>3 DEF IInv
<1> QED
  BY <1>1, <1>2, <1>3, <1>4, <1>5, <1>6 DEF Next

-----------------------------------------------------------------------------
LEMMA Invariance == Spec => []IInv
<1>1. IInv /\ [Next]_vars => IInv'
  BY StepKeepsIInv
<1> QED
  BY InitIInv, <1>1, PTL DEF Spec

LEMMA GoodSteps == Spec => [][GoodStep]_vars
<1>1. IInv /\ [Next]_vars => [GoodStep]_vars
  BY StepKeepsIInv
<1> QED
  BY Invariance, <1>1, PTL DEF Spec

(* Every variable of the recovery queue keeps its type, through crashes and *)
(* failed transactions, in particular every row in the hands of a pass is   *)
(* still in the queue.                                                      *)
THEOREM TypeCorrect == Spec => []TypeOK
BY Invariance, PTL DEF IInv

(* However often the worker crashes or loses a transaction, a target is     *)
(* replayed at most once more for every fault than the configured number of *)
(* times (fail_sync_recovery), and never quarantined before it was replayed *)
(* that often.                                                              *)
THEOREM AttemptsBounded == Spec => []AttemptsAreBounded
<1>1. IInv => AttemptsAreBounded
  <2> SUFFICES ASSUME IInv, NEW k \in DOMAIN queue
               PROVE  /\ queue[k].tries <= MaxFailures + faults
                      /\ queue[k].quarantined => queue[k].tries >= MaxFailures
    BY DEF AttemptsAreBounded
  <2>1. /\ queue[k].quarantined => queue[k].tries >= MaxFailures
        /\ queue[k].tries <= queue[k].failures + faults + Open(k)
        /\ ~ queue[k].quarantined => queue[k].failures < MaxFailures
    BY DEF IInv, CountsOK
  <2>2. /\ queue[k].failures \in Nat /\ queue[k].tries \in Nat /\ faults \in Nat
        /\ queue[k].failures <= MaxFailures
    BY RowFields DEF IInv, TypeOK
  <2>3. CASE pc = "settle" /\ current.key = k
    <3>1. ~ queue[k].quarantined /\ Open(k) = 1
      BY <2>3 DEF Open, IInv, TypeOK, HeldOK
    <3> QED
      BY <2>1, <2>2, <3>1, LimitsAssumption
  <2>4. CASE ~ (pc = "settle" /\ current.key = k)
    <3>1. Open(k) = 0
      BY <2>4 DEF Open
    <3> QED
      BY <2>1, <2>2, <3>1, LimitsAssumption
  <2> QED
    BY <2>3, <2>4
<1> QED
  BY Invariance, <1>1, PTL

(* A row of the queue is deleted only while the memory of the worker shows  *)
(* its file recovered: what a replay found to be resolved is still so when  *)
(* the deletion is written.                                                 *)
THEOREM PrunedWhenRecovered == Spec => PrunedOnlyWhenRecovered
<1>1. [GoodStep]_vars =>
        [\A k \in DOMAIN queue \ DOMAIN queue' : ~ Unresolved(mem, k)]_vars
  BY DEF GoodStep
<1> QED
  BY GoodSteps, <1>1, PTL DEF PrunedOnlyWhenRecovered

(* Nothing but time brings a retry nearer, and nothing takes back a failure *)
(* of a target that is not quarantined.                                     *)
THEOREM BackoffKept == Spec => BackoffIsKept
<1>1. [GoodStep]_vars =>
        [\A k \in DOMAIN queue \cap DOMAIN queue' :
           ~ queue[k].quarantined =>
             /\ queue'[k].failures >= queue[k].failures
             /\ queue'[k].wait < queue[k].wait => UNCHANGED <<source, mem, pg, pc, requests>>]_vars
  BY DEF GoodStep
<1> QED
  BY GoodSteps, <1>1, PTL DEF BackoffIsKept
=============================================================================
