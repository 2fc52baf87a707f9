------------------------- MODULE WriteThroughProofs -------------------------
(***************************************************************************)
(* For every set of requests, deployment, kind of failure and bound:       *)
(* WriteThrough keeps its types, shows no revision the source did not      *)
(* accept, loses no update, a cache that believes it is fresh is, and a    *)
(* failed projection is reported as long as requests do not overlap.       *)
(***************************************************************************)
EXTENDS WriteThrough, TLAPS

LEMMA ProcFacts == ASSUME TypeOK PROVE WorkerProc \in Procs /\ "api" \in Procs
BY DEF TypeOK, WorkerProc, Procs

LEMMA NoneIsRev == None \in OptRev
BY BoundsAssumption DEF None, OptRev

LEMMA IdleTypes == IdleReq \in ReqType /\ IdleWorker \in WorkerType
BY NoneIsRev DEF IdleReq, IdleWorker, ReqType, WorkerType, SourceKinds

(* What prepare_cached_read does to the caches of p. *)
LEMMA CachedReadType ==
  ASSUME TypeOK, NEW p \in Procs, CachedRead(p)
  PROVE  /\ mem' \in [Procs -> MemType]
         /\ genFresh' \in [Procs -> BOOLEAN]
         /\ stamp' \in [Procs -> {"behind", "level", "ahead"}]
         /\ pending' \in OptRev
         /\ faults' \in Nat
<1> USE DEF TypeOK
<1>1. CASE UNCHANGED <<caches, pending, faults>>
  BY <1>1 DEF caches
<1>2. CASE Fault("rows") /\ UNCHANGED <<caches, pending>>
  BY <1>2 DEF caches, Fault
<1>3. CASE /\ mem' = [mem EXCEPT ![p].rev = pg.rev, ![p].alias = pg.alias]
           /\ genFresh' = [genFresh EXCEPT ![p] = TRUE]
           /\ stamp' = [stamp EXCEPT ![p] = "level"]
           /\ pending' = IF p = "api" /\ pending = pg.rev THEN None ELSE pending
           /\ NoFault
  <2>1. mem' \in [Procs -> MemType]
    BY ZenonT(60), <1>3 DEF MemType, RowType
  <2>2. pending' \in OptRev /\ faults' \in Nat
    BY <1>3, NoneIsRev DEF NoFault
  <2> QED
    BY <1>3, <2>1, <2>2
<1> QED
  BY <1>1, <1>2, <1>3 DEF CachedRead

(* A request keeps its type when its fields do. *)
ReqPCs == {"idle", "fetch", "rows", "memory", "health", "erase", "forget",
           "prepare", "commit", "put"}

LEMMA ReqFields ==
  ASSUME NEW r \in ReqType, NEW b1 \in BOOLEAN, NEW b2 \in BOOLEAN, NEW pc \in ReqPCs
  PROVE  /\ [r EXCEPT !.latest = b1, !.failed = b2, !.pc = pc] \in ReqType
         /\ [r EXCEPT !.latest = b1, !.known = b2, !.pc = pc] \in ReqType
         /\ r.pc \in ReqPCs /\ r.failed \in BOOLEAN /\ r.known \in BOOLEAN
<1>1. [r EXCEPT !.latest = b1, !.failed = b2, !.pc = pc] \in ReqType
  BY DEF ReqType, ReqPCs
<1>2. [r EXCEPT !.latest = b1, !.known = b2, !.pc = pc] \in ReqType
  BY DEF ReqType, ReqPCs
<1> QED
  BY <1>1, <1>2 DEF ReqType, ReqPCs

(* The request c moves on. *)
LEMMA GoesType ==
  ASSUME TypeOK, NEW c \in Clients, NEW r \in ReqType, Goes(c, r)
  PROVE  req' \in [Clients -> ReqType]
BY DEF TypeOK, Goes

LEMMA AnswersType ==
  ASSUME TypeOK, NEW c \in Clients, Answers(c)
  PROVE  req' \in [Clients -> ReqType] /\ lock' \subseteq Clients
BY GoesType, IdleTypes DEF TypeOK, Answers

LEMMA StepType ==
  ASSUME TypeOK, NEW c \in Clients,
         NEW pc \in ReqPCs, Step(c, pc)
  PROVE  req' \in [Clients -> ReqType] /\ lock' \subseteq Clients
<1>1. [req[c] EXCEPT !.pc = pc] \in ReqType
  BY DEF TypeOK, ReqType, ReqPCs
<1> QED
  BY <1>1, GoesType DEF Step, TypeOK

LEMMA SourceType ==
  ASSUME TypeOK, NEW kind \in SourceKinds, SourceBecomes(kind)
  PROVE  src' \in [rev : OptRev, kind : SourceKinds] /\ src.rev + 1 \in OptRev
BY BoundsAssumption DEF TypeOK, SourceBecomes, AtBound, OptRev

LEMMA TypeInit == ASSUME Init PROVE TypeOK
BY DeploymentsAssumption, NoneIsRev, IdleTypes, BoundsAssumption
   DEF Init, TypeOK, RowType, MemType, SourceKinds, OptRev, Procs

LEMMA FaultType == ASSUME TypeOK, NEW kind, Fault(kind) PROVE faults' \in Nat
BY DEF TypeOK, Fault

(* The steps of a request. *)
LEMMA TypeRequest ==
  ASSUME TypeOK, NEW c \in Clients, Begin(c) \/ Request(c)
  PROVE  TypeOK'
<1> USE DEF TypeOK
<1>0. "api" \in Procs /\ req[c] \in ReqType
  BY DEF Procs
<1>1. CASE BeginUpdate(c)
  <2>1. [IdleReq EXCEPT !.pc = "fetch", !.op = "update"] \in ReqType
    BY IdleTypes DEF ReqType
  <2> QED
    BY <1>0, <1>1, <2>1, CachedReadType, GoesType DEF BeginUpdate
<1>2. CASE BeginCreate(c)
  <2>1. [IdleReq EXCEPT !.pc = "put", !.op = "create"] \in ReqType
    BY IdleTypes DEF ReqType
  <2>2. faults' \in Nat
    BY <1>2, FaultType DEF BeginCreate, NoFault
  <2> QED
    BY <1>2, <2>1, <2>2, GoesType DEF BeginCreate, caches
<1>3. CASE FetchSource(c)
  <2>1. CASE /\ Goes(c, [req[c] EXCEPT !.pc = "rows", !.rev = src.rev, !.next = "prepare"])
             /\ NoFault /\ UNCHANGED <<caches, lock, pending>>
    <3>1. [req[c] EXCEPT !.pc = "rows", !.rev = src.rev, !.next = "prepare"] \in ReqType
      BY <1>0 DEF ReqType
    <3> QED
      BY <1>3, <2>1, <3>1, GoesType DEF FetchSource, caches, NoFault
  <2>2. CASE CachedRead("api") /\ Step(c, "erase")
    BY <1>0, <1>3, <2>2, CachedReadType, StepType DEF FetchSource, ReqPCs
  <2>3. CASE Fault("source") /\ Answers(c) /\ UNCHANGED <<caches, pending>>
    BY <1>3, <2>3, FaultType, AnswersType DEF FetchSource, caches
  <2> QED
    BY <1>3, <2>1, <2>2, <2>3 DEF FetchSource
<1>4. CASE WriteRows(c)
  <2>1. /\ deployment' = deployment /\ src' = src /\ mem' = mem /\ stamp' = stamp
        /\ fed' = fed /\ wk' = wk /\ lock' = lock /\ pending' = pending
    BY <1>4 DEF WriteRows
  <2>2. CASE /\ pg' = [pg EXCEPT !.rev = req[c].rev]
             /\ genFresh' = [p \in Procs |-> FALSE]
             /\ req' = [d \in Clients |-> [req[d] EXCEPT
                          !.latest = (d = c), !.failed = IF d = c THEN FALSE ELSE @,
                          !.pc = IF d = c THEN "memory" ELSE @]]
             /\ NoFault
    <3>1. pg' \in RowType
      BY <1>0, <2>2 DEF RowType, ReqType
    <3>2. \A d \in Clients :
            [req[d] EXCEPT !.latest = (d = c), !.failed = IF d = c THEN FALSE ELSE @,
                           !.pc = IF d = c THEN "memory" ELSE @] \in ReqType
      <4> TAKE d \in Clients
      <4>2. (d = c) \in BOOLEAN /\ req[d] \in ReqType
        OBVIOUS
      <4>p. "memory" \in ReqPCs
        BY DEF ReqPCs
      <4> HIDE DEF TypeOK
      <4>3. CASE d = c
        BY <4>2, <4>3, <4>p, ReqFields
      <4>4. CASE d # c
        BY <4>2, <4>4, <4>p, ReqFields
      <4> QED
        BY <4>3, <4>4
    <3>3. req' \in [Clients -> ReqType]
      BY <2>2, <3>2
    <3> QED
      BY <2>1, <2>2, <3>1, <3>3 DEF NoFault
  <2>3. CASE /\ Fault("rows")
             /\ Goes(c, [req[c] EXCEPT !.pc = "memory", !.failed = TRUE])
             /\ UNCHANGED <<pg, genFresh>>
    <3>1. [req[c] EXCEPT !.pc = "memory", !.failed = TRUE] \in ReqType
      BY <1>0 DEF ReqType
    <3> QED
      BY <2>1, <2>3, <3>1, GoesType, FaultType
  <2> QED
    BY <1>4, <2>2, <2>3 DEF WriteRows
<1>5. CASE WriteMemory(c)
  <2>1. mem' \in [Procs -> MemType]
    <3>1. \A r \in OptRev, b \in BOOLEAN :
            [mem EXCEPT !["api"].rev = r, !["api"].made = b] \in [Procs -> MemType]
      BY <1>0 DEF MemType
    <3>2. req[c].rev \in OptRev /\ (mem["api"].made \/ req[c].op = "create") \in BOOLEAN
      BY <1>0 DEF ReqType
    <3> QED
      BY <1>5, <3>1, <3>2 DEF WriteMemory
  <2>2. genFresh' \in [Procs -> BOOLEAN]
    BY <1>0, <1>5 DEF WriteMemory, ReqType
  <2> QED
    BY <1>5, <2>1, <2>2, StepType DEF WriteMemory, ReqPCs
<1>6. CASE RecordHealth(c)
  <2>1. pending' \in OptRev
    BY <1>0, <1>6, NoneIsRev DEF RecordHealth, ReqType
  <2>2. req[c].next \in {"idle", "prepare"}
    BY <1>0 DEF ReqType
  <2> QED
    BY <1>6, <2>1, <2>2, StepType, AnswersType DEF RecordHealth, caches, ReqPCs
<1>7. CASE EraseRows(c)
  <2>1. /\ deployment' = deployment /\ src' = src /\ mem' = mem /\ stamp' = stamp
        /\ fed' = fed /\ wk' = wk /\ pending' = pending
    BY <1>7 DEF EraseRows
  <2>2. CASE /\ pg' = [rev |-> None, alias |-> None]
             /\ genFresh' = [p \in Procs |-> FALSE]
             /\ req' = [d \in Clients |-> [req[d] EXCEPT
                          !.latest = (d = c),
                          !.known = IF d = c THEN mem["api"].alias # None ELSE @,
                          !.pc = IF d = c THEN "forget" ELSE @]]
             /\ NoFault /\ UNCHANGED lock
    <3>1. pg' \in RowType
      BY <2>2, NoneIsRev DEF RowType
    <3>2. \A d \in Clients :
            [req[d] EXCEPT
               !.latest = (d = c), !.known = IF d = c THEN mem["api"].alias # None ELSE @,
               !.pc = IF d = c THEN "forget" ELSE @] \in ReqType
      <4> TAKE d \in Clients
      <4>2. /\ (d = c) \in BOOLEAN /\ (mem["api"].alias # None) \in BOOLEAN
            /\ req[d] \in ReqType
        OBVIOUS
      <4>p. "forget" \in ReqPCs
        BY DEF ReqPCs
      <4> HIDE DEF TypeOK
      <4>3. CASE d = c
        BY <4>2, <4>3, <4>p, ReqFields
      <4>4. CASE d # c
        BY <4>2, <4>4, <4>p, ReqFields
      <4> QED
        BY <4>3, <4>4
    <3>3. req' \in [Clients -> ReqType]
      BY <2>2, <3>2
    <3> QED
      BY <2>1, <2>2, <3>1, <3>3 DEF NoFault
  <2>3. CASE Fault("rows") /\ Answers(c) /\ UNCHANGED <<pg, genFresh>>
    BY <2>1, <2>3, FaultType, AnswersType
  <2> QED
    BY <1>7, <2>2, <2>3 DEF EraseRows
<1>8. CASE EraseMemory(c)
  <2>1. mem' \in [Procs -> MemType]
    <3>1. mem["api"].alias \in OptRev
      BY <1>0 DEF MemType
    <3> QED
      BY <1>8, <3>1, NoneIsRev DEF EraseMemory, MemType
  <2>2. genFresh' \in [Procs -> BOOLEAN]
    BY <1>0, <1>8 DEF EraseMemory, ReqType
  <2> QED
    BY <1>8, <2>1, <2>2, AnswersType DEF EraseMemory
<1>9. CASE Prepare(c)
  <2>1. mem'["api"].rev \in OptRev
    BY <1>0, <1>9, CachedReadType DEF Prepare, MemType
  <2>2. [req[c] EXCEPT !.pc = "commit", !.base = mem'["api"].rev] \in ReqType
    BY <1>0, <2>1 DEF ReqType
  <2>3. req' \in [Clients -> ReqType] /\ lock' \subseteq Clients
    BY <1>9, <2>2, GoesType, StepType, AnswersType DEF Prepare, ReqPCs
  <2> QED
    BY <1>0, <1>9, <2>3, CachedReadType DEF Prepare
<1>10. CASE CommitUpdate(c)
  <2>1. /\ deployment' = deployment /\ pg' = pg /\ mem' = mem /\ genFresh' = genFresh
        /\ stamp' = stamp /\ fed' = fed /\ wk' = wk /\ pending' = pending
    BY <1>10 DEF CommitUpdate, caches
  <2>2. src' \in [rev : OptRev, kind : SourceKinds]
    BY <1>10, SourceType DEF CommitUpdate, SourceKinds
  <2>3. faults' \in Nat
    BY <1>10, FaultType DEF CommitUpdate, NoFault
  <2>4. req' \in [Clients -> ReqType] /\ lock' \subseteq Clients
    <3>1. CASE Answers(c)
      BY <3>1, AnswersType
    <3>2. CASE /\ SourceBecomes("live")
               /\ Goes(c, [req[c] EXCEPT !.pc = "rows", !.rev = src.rev + 1, !.next = "idle"])
               /\ UNCHANGED lock
      <4>1. src.rev + 1 \in OptRev
        BY <3>2, SourceType DEF SourceKinds
      <4>2. [req[c] EXCEPT !.pc = "rows", !.rev = src.rev + 1, !.next = "idle"] \in ReqType
        BY <1>0, <4>1 DEF ReqType
      <4> QED
        BY <3>2, <4>2, GoesType
    <3> QED
      BY <1>10, <3>1, <3>2 DEF CommitUpdate
  <2> QED
    BY <2>1, <2>2, <2>3, <2>4
<1>11. CASE CommitCreate(c)
  <2>1. /\ deployment' = deployment /\ pg' = pg /\ mem' = mem /\ genFresh' = genFresh
        /\ stamp' = stamp /\ fed' = fed /\ wk' = wk /\ pending' = pending
    BY <1>11 DEF CommitCreate, caches
  <2>2. src' \in [rev : OptRev, kind : SourceKinds]
    BY <1>11, SourceType DEF CommitCreate, SourceKinds
  <2>3. faults' \in Nat
    BY <1>11, FaultType DEF CommitCreate, NoFault
  <2>4. req' \in [Clients -> ReqType] /\ lock' \subseteq Clients
    <3>1. CASE Answers(c)
      BY <3>1, AnswersType
    <3>2. CASE /\ SourceBecomes("live")
               /\ Goes(c, [req[c] EXCEPT !.pc = "rows", !.rev = src.rev + 1])
               /\ UNCHANGED lock
      <4>1. src.rev + 1 \in OptRev
        BY <3>2, SourceType DEF SourceKinds
      <4>2. [req[c] EXCEPT !.pc = "rows", !.rev = src.rev + 1] \in ReqType
        BY <1>0, <4>1 DEF ReqType
      <4> QED
        BY <3>2, <4>2, GoesType
    <3> QED
      BY <1>11, <3>1, <3>2 DEF CommitCreate
  <2> QED
    BY <2>1, <2>2, <2>3, <2>4
<1> QED
  BY <1>1, <1>2, <1>3, <1>4, <1>5, <1>6, <1>7, <1>8, <1>9, <1>10, <1>11 DEF Begin, Request

(* The steps of the worker, of the source and of the faults. *)
LEMMA TypeStep == ASSUME TypeOK, [Next]_vars PROVE TypeOK'
<1> USE DEF TypeOK
<1>0. WorkerProc \in Procs /\ "api" \in Procs
  BY ProcFacts
<1>1. CASE ExternalWrite
  <2>1. src' \in [rev : OptRev, kind : SourceKinds]
    BY <1>1, SourceType DEF ExternalWrite, SourceKinds
  <2> QED
    BY <1>1, <2>1 DEF ExternalWrite, caches
<1>2. CASE Read
  BY <1>0, <1>2, CachedReadType DEF Read
<1>3. CASE Poll
  <2>1. wk' \in WorkerType
    BY <1>3 DEF Poll, WorkerType
  <2>2. stamp' \in [Procs -> {"behind", "level", "ahead"}]
    BY <1>3 DEF Poll
  <2> QED
    BY <1>3, <2>1, <2>2 DEF Poll
<1>4. CASE Apply
  <2>1. mem' \in [Procs -> MemType]
    <3>1. \A a, r \in OptRev :
            [mem EXCEPT ![WorkerProc].alias = a, ![WorkerProc].rev = r] \in [Procs -> MemType]
      BY <1>0 DEF MemType
    <3>2. wk.rev \in OptRev /\ mem[WorkerProc].rev \in OptRev
      BY <1>0 DEF MemType, WorkerType
    <3> QED
      BY <1>4, <3>1, <3>2, NoneIsRev DEF Apply
  <2>2. wk' \in WorkerType
    BY <1>4 DEF Apply, WorkerType
  <2> QED
    BY <1>4, <2>1, <2>2 DEF Apply
<1>5. CASE Persist
  <2>1. pg' \in RowType /\ fed' \in OptRev
    BY <1>5, NoneIsRev DEF Persist, RowType, WorkerType
  <2>2. req' \in [Clients -> ReqType]
    <3>1. \A c \in Clients : [req[c] EXCEPT !.latest = FALSE] \in ReqType
      BY ZenonT(60) DEF ReqType
    <3> QED
      BY <1>5, <3>1 DEF Persist
  <2>3. genFresh' \in [Procs -> BOOLEAN]
    BY <1>5 DEF Persist, Bump
  <2>4. stamp' \in [Procs -> {"behind", "level", "ahead"}]
    BY <1>5 DEF Persist
  <2> QED
    BY <1>5, <2>1, <2>2, <2>3, <2>4, IdleTypes DEF Persist
<1>6. CASE Recover
  <2>1. wk' \in WorkerType
    BY <1>6, IdleTypes DEF Recover, WorkerType
  <2> QED
    BY <1>0, <1>6, <2>1, CachedReadType DEF Recover
<1>7. CASE PersistFails
  BY <1>7, IdleTypes, FaultType DEF PersistFails, caches
<1>8. ASSUME NEW p \in Procs, Crash(p) PROVE TypeOK'
  <2>1. mem' \in [Procs -> MemType]
    BY <1>8 DEF Crash, MemType, RowType
  <2>2. wk' \in WorkerType /\ pending' \in OptRev
    BY <1>8, IdleTypes, NoneIsRev DEF Crash
  <2>3. req' \in [Clients -> ReqType] /\ lock' \subseteq Clients
    BY <1>8, IdleTypes DEF Crash
  <2> QED
    BY <1>8, <2>1, <2>2, <2>3, FaultType DEF Crash
<1>9. ASSUME NEW c \in Clients, Begin(c) \/ Request(c) PROVE TypeOK'
  BY <1>9, TypeRequest
<1>10. CASE UNCHANGED vars
  BY <1>10 DEF vars, caches
<1> QED
  BY <1>1, <1>2, <1>3, <1>4, <1>5, <1>6, <1>7, <1>8, <1>9, <1>10 DEF Next, Worker

(* Every variable keeps its type. *)
THEOREM TypeCorrect == Spec => []TypeOK
BY TypeInit, TypeStep, PTL DEF Spec

-----------------------------------------------------------------------------
(* The source is the commit point.  What makes it inductive: the revisions  *)
(* requests and the worker carry are revisions the source has accepted.     *)
RowsKnown == pg.rev <= src.rev /\ pg.alias <= src.rev
MemoryKnown == \A p \in Procs : mem[p].rev <= src.rev /\ mem[p].alias <= src.rev
CarriedKnown == wk.rev <= src.rev /\ \A c \in Clients : req[c].rev <= src.rev
Committed == RowsKnown /\ MemoryKnown /\ CarriedKnown

LEMMA Numbers ==
  ASSUME TypeOK
  PROVE  /\ src.rev \in Nat /\ pg.rev \in Nat /\ pg.alias \in Nat /\ wk.rev \in Nat
         /\ \A p \in Procs : mem[p].rev \in Nat /\ mem[p].alias \in Nat
         /\ \A c \in Clients : req[c].rev \in Nat
<1>1. \A n \in OptRev : n \in Nat
  BY BoundsAssumption DEF OptRev
<1> QED
  BY <1>1 DEF TypeOK, RowType, MemType, WorkerType, ReqType

LEMMA CachedReadKnown ==
  ASSUME TypeOK, Committed, NEW p \in Procs, CachedRead(p), src' = src
  PROVE  MemoryKnown'
<1>1. CASE mem' = mem
  BY <1>1 DEF Committed, MemoryKnown
<1>2. CASE mem' = [mem EXCEPT ![p].rev = pg.rev, ![p].alias = pg.alias]
  BY <1>2 DEF Committed, MemoryKnown, RowsKnown, TypeOK, MemType
<1> QED
  BY <1>1, <1>2 DEF CachedRead, caches

LEMMA GoesKnown ==
  ASSUME TypeOK, Committed, NEW c \in Clients, NEW r, Goes(c, r),
         src.rev <= src'.rev, src'.rev \in Nat, r.rev <= src'.rev
  PROVE  \A d \in Clients : req'[d].rev <= src'.rev
BY Numbers DEF Committed, CarriedKnown, Goes, TypeOK

LEMMA AnswersKnown ==
  ASSUME TypeOK, Committed, NEW c \in Clients, Answers(c), src.rev <= src'.rev, src'.rev \in Nat
  PROVE  \A d \in Clients : req'[d].rev <= src'.rev
<1>1. IdleReq.rev <= src'.rev
  BY DEF IdleReq, None
<1> QED
  BY <1>1, GoesKnown DEF Answers

LEMMA StepKnown ==
  ASSUME TypeOK, Committed, NEW c \in Clients, NEW pc, Step(c, pc), src' = src
  PROVE  \A d \in Clients : req'[d].rev <= src'.rev
<1>1. [req[c] EXCEPT !.pc = pc].rev <= src'.rev
  BY DEF Committed, CarriedKnown, TypeOK, ReqType
<1>2. src'.rev \in Nat /\ src.rev <= src'.rev
  BY Numbers
<1> QED
  BY <1>1, <1>2, GoesKnown DEF Step

LEMMA CommittedInit == ASSUME Init PROVE Committed
BY DEF Init, Committed, RowsKnown, MemoryKnown, CarriedKnown, None, IdleReq, IdleWorker

(* A step that leaves rows, memory and what is carried alone.               *)
LEMMA CommittedGrows ==
  ASSUME TypeOK, Committed, src'.rev \in Nat, src.rev <= src'.rev
  PROVE  /\ pg' = pg => RowsKnown'
         /\ mem' = mem => MemoryKnown'
         /\ wk' = wk => wk'.rev <= src'.rev
         /\ req' = req => \A c \in Clients : req'[c].rev <= src'.rev
BY Numbers DEF Committed, RowsKnown, MemoryKnown, CarriedKnown

LEMMA CommittedRequest ==
  ASSUME TypeOK, Committed, NEW c \in Clients, Begin(c) \/ Request(c)
  PROVE  Committed'
<1>0. "api" \in Procs /\ req[c] \in ReqType /\ src.rev \in Nat /\ src.rev <= src.rev
  BY Numbers DEF TypeOK, Procs
<1>a. req[c].rev <= src.rev
  BY DEF Committed, CarriedKnown
<1>1. CASE BeginUpdate(c)
  <2>1. [IdleReq EXCEPT !.pc = "fetch", !.op = "update"].rev <= src.rev
    BY <1>0 DEF IdleReq, None
  <2> QED
    BY <1>0, <1>1, <2>1, CachedReadKnown, GoesKnown, CommittedGrows
       DEF BeginUpdate, Committed, CarriedKnown
<1>2. CASE BeginCreate(c)
  <2>1. [IdleReq EXCEPT !.pc = "put", !.op = "create"].rev <= src.rev
    BY <1>0 DEF IdleReq, None
  <2> QED
    BY <1>0, <1>2, <2>1, GoesKnown, CommittedGrows
       DEF BeginCreate, caches, Committed, CarriedKnown
<1>3. CASE FetchSource(c)
  <2>1. src' = src /\ pg' = pg /\ wk' = wk
    BY <1>3 DEF FetchSource
  <2>2. CASE Goes(c, [req[c] EXCEPT !.pc = "rows", !.rev = src.rev, !.next = "prepare"])
             /\ UNCHANGED caches
    <3>1. [req[c] EXCEPT !.pc = "rows", !.rev = src.rev, !.next = "prepare"].rev <= src.rev
      BY <1>0 DEF ReqType
    <3> QED
      BY <1>0, <2>1, <2>2, <3>1, GoesKnown, CommittedGrows DEF caches, Committed, CarriedKnown
  <2>3. CASE CachedRead("api") /\ Step(c, "erase")
    BY <1>0, <2>1, <2>3, CachedReadKnown, StepKnown, CommittedGrows DEF Committed, CarriedKnown
  <2>4. CASE Answers(c) /\ UNCHANGED caches
    BY <1>0, <2>1, <2>4, AnswersKnown, CommittedGrows DEF caches, Committed, CarriedKnown
  <2> QED
    BY <1>3, <2>2, <2>3, <2>4 DEF FetchSource
<1>4. CASE WriteRows(c)
  <2>1. src' = src /\ mem' = mem /\ wk' = wk
    BY <1>4 DEF WriteRows
  <2>2. CASE /\ pg' = [pg EXCEPT !.rev = req[c].rev]
             /\ req' = [d \in Clients |-> [req[d] EXCEPT
                          !.latest = (d = c), !.failed = IF d = c THEN FALSE ELSE @,
                          !.pc = IF d = c THEN "memory" ELSE @]]
    <3>1. RowsKnown'
      BY <1>a, <2>1, <2>2 DEF Committed, RowsKnown, TypeOK, RowType
    <3>2. \A d \in Clients : req'[d].rev = req[d].rev
      BY <2>2 DEF TypeOK, ReqType
    <3> QED
      BY <1>0, <2>1, <3>1, <3>2, CommittedGrows DEF Committed, CarriedKnown
  <2>3. CASE Goes(c, [req[c] EXCEPT !.pc = "memory", !.failed = TRUE]) /\ UNCHANGED pg
    <3>1. [req[c] EXCEPT !.pc = "memory", !.failed = TRUE].rev <= src.rev
      BY <1>0, <1>a DEF ReqType
    <3> QED
      BY <1>0, <2>1, <2>3, <3>1, GoesKnown, CommittedGrows DEF Committed, CarriedKnown
  <2> QED
    BY <1>4, <2>2, <2>3 DEF WriteRows
<1>5. CASE WriteMemory(c)
  <2>1. src' = src /\ pg' = pg /\ wk' = wk /\ Step(c, "health")
    BY <1>5 DEF WriteMemory
  <2>2. MemoryKnown'
    <3>1. \A p \in Procs : /\ mem'[p].rev \in {mem[p].rev, req[c].rev}
                           /\ mem'[p].alias = mem[p].alias
      BY <1>5 DEF WriteMemory, TypeOK, MemType
    <3> QED
      BY <1>a, <2>1, <3>1 DEF Committed, MemoryKnown
  <2> QED
    BY <1>0, <2>1, <2>2, StepKnown, CommittedGrows DEF Committed, CarriedKnown
<1>6. CASE RecordHealth(c)
  BY <1>0, <1>6, StepKnown, AnswersKnown, CommittedGrows
     DEF RecordHealth, caches, Committed, CarriedKnown
<1>7. CASE EraseRows(c)
  <2>1. src' = src /\ mem' = mem /\ wk' = wk
    BY <1>7 DEF EraseRows
  <2>2. CASE /\ pg' = [rev |-> None, alias |-> None]
             /\ req' = [d \in Clients |-> [req[d] EXCEPT
                          !.latest = (d = c),
                          !.known = IF d = c THEN mem["api"].alias # None ELSE @,
                          !.pc = IF d = c THEN "forget" ELSE @]]
    <3>1. RowsKnown'
      <4>1. pg'.rev = 0 /\ pg'.alias = 0
        BY <2>2 DEF None
      <4> QED
        BY <1>0, <2>1, <4>1 DEF RowsKnown
    <3>2. \A d \in Clients : req'[d].rev = req[d].rev
      BY ZenonT(60), <2>2 DEF TypeOK, ReqType
    <3> QED
      BY <1>0, <2>1, <3>1, <3>2, CommittedGrows DEF Committed, CarriedKnown
  <2>3. CASE Answers(c) /\ UNCHANGED pg
    BY <1>0, <2>1, <2>3, AnswersKnown, CommittedGrows DEF Committed, CarriedKnown
  <2> QED
    BY <1>7, <2>2, <2>3 DEF EraseRows
<1>8. CASE EraseMemory(c)
  <2>1. src' = src /\ pg' = pg /\ wk' = wk /\ Answers(c)
    BY <1>8 DEF EraseMemory
  <2>2. MemoryKnown'
    <3>1. \A p \in Procs : /\ mem'[p].rev \in {mem[p].rev, 0}
                           /\ mem'[p].alias \in {mem[p].alias, 0}
      BY <1>8 DEF EraseMemory, TypeOK, MemType, None
    <3> QED
      BY <1>0, <2>1, <3>1 DEF Committed, MemoryKnown
  <2> QED
    BY <1>0, <2>1, <2>2, AnswersKnown, CommittedGrows DEF Committed, CarriedKnown
<1>9. CASE Prepare(c)
  <2>1. src' = src /\ pg' = pg /\ wk' = wk /\ CachedRead("api")
    BY <1>9 DEF Prepare
  <2>2. [req[c] EXCEPT !.pc = "commit", !.base = mem'["api"].rev].rev <= src.rev
    BY <1>0, <1>a DEF ReqType
  <2>3. \A d \in Clients : req'[d].rev <= src'.rev
    BY <1>0, <1>9, <2>1, <2>2, GoesKnown, StepKnown, AnswersKnown DEF Prepare
  <2> QED
    BY <1>0, <2>1, <2>3, CachedReadKnown, CommittedGrows DEF Committed, CarriedKnown
<1>10. CASE CommitUpdate(c) \/ CommitCreate(c)
  <2>1. pg' = pg /\ mem' = mem /\ wk' = wk
    BY <1>10 DEF CommitUpdate, CommitCreate, caches
  <2>2. src'.rev \in Nat /\ src.rev <= src'.rev
    BY <1>0, <1>10 DEF CommitUpdate, CommitCreate, SourceBecomes
  <2>3. CASE Answers(c)
    BY <2>1, <2>2, <2>3, AnswersKnown, CommittedGrows DEF Committed, CarriedKnown
  <2>4. ASSUME SourceBecomes("live"), NEW r, r.rev = src.rev + 1, Goes(c, r)
        PROVE  Committed'
    <3>1. r.rev <= src'.rev
      BY <1>0, <2>4 DEF SourceBecomes
    <3> QED
      BY <2>1, <2>2, <2>4, <3>1, GoesKnown, CommittedGrows DEF Committed, CarriedKnown
  <2>5. /\ [req[c] EXCEPT !.pc = "rows", !.rev = src.rev + 1, !.next = "idle"].rev = src.rev + 1
        /\ [req[c] EXCEPT !.pc = "rows", !.rev = src.rev + 1].rev = src.rev + 1
    BY <1>0 DEF ReqType
  <2> QED
    BY <1>10, <2>3, <2>4, <2>5 DEF CommitUpdate, CommitCreate
<1> QED
  BY <1>1, <1>2, <1>3, <1>4, <1>5, <1>6, <1>7, <1>8, <1>9, <1>10 DEF Begin, Request

LEMMA CommittedStep == ASSUME TypeOK, Committed, [Next]_vars PROVE Committed'
<1>0. WorkerProc \in Procs /\ "api" \in Procs /\ src.rev \in Nat /\ src.rev <= src.rev
  BY ProcFacts, Numbers
<1>1. CASE ExternalWrite
  <2>1. src'.rev \in Nat /\ src.rev <= src'.rev
    BY <1>0, <1>1 DEF ExternalWrite, SourceBecomes
  <2> QED
    BY <1>1, <2>1, CommittedGrows DEF ExternalWrite, caches, Committed, CarriedKnown
<1>2. CASE Read
  BY <1>0, <1>2, CachedReadKnown, CommittedGrows DEF Read, Committed, CarriedKnown
<1>3. CASE Poll
  <2>1. wk'.rev <= src.rev
    BY <1>0, <1>3 DEF Poll, Committed, CarriedKnown, TypeOK, WorkerType
  <2> QED
    BY <1>0, <1>3, <2>1, CommittedGrows DEF Poll, Committed, CarriedKnown
<1>4. CASE Apply
  <2>1. MemoryKnown'
    <3>1. \A p \in Procs : /\ mem'[p].rev \in {mem[p].rev, wk.rev, 0}
                           /\ mem'[p].alias \in {mem[p].alias, wk.rev, 0}
      BY <1>0, <1>4 DEF Apply, TypeOK, MemType, None
    <3> QED
      <4>1. src' = src
        BY <1>4 DEF Apply
      <4>2. \A n \in {0, wk.rev} : n <= src.rev
        BY <1>0 DEF Committed, CarriedKnown
      <4> QED
        BY <3>1, <4>1, <4>2 DEF Committed, MemoryKnown
  <2>2. wk'.rev = wk.rev
    BY <1>4 DEF Apply, TypeOK, WorkerType
  <2> QED
    BY <1>0, <1>4, <2>1, <2>2, CommittedGrows DEF Apply, Committed, CarriedKnown
<1>5. CASE Persist
  <2>1. RowsKnown'
    BY <1>0, <1>5 DEF Persist, Committed, RowsKnown, CarriedKnown, None
  <2>2. \A c \in Clients : req'[c].rev = req[c].rev
    BY <1>5 DEF Persist, TypeOK, ReqType
  <2>3. wk'.rev <= src.rev
    BY <1>0, <1>5 DEF Persist, IdleWorker, None
  <2> QED
    BY <1>0, <1>5, <2>1, <2>2, <2>3, CommittedGrows DEF Persist, Committed, CarriedKnown
<1>6. CASE Recover
  <2>1. wk'.rev <= src.rev
    BY <1>0, <1>6 DEF Recover, IdleWorker, None, TypeOK, WorkerType
  <2> QED
    BY <1>0, <1>6, <2>1, CachedReadKnown, CommittedGrows DEF Recover, Committed, CarriedKnown
<1>7. CASE PersistFails
  <2>1. wk'.rev <= src.rev
    BY <1>0, <1>7 DEF PersistFails, IdleWorker, None
  <2> QED
    BY <1>0, <1>7, <2>1, CommittedGrows DEF PersistFails, caches, Committed, CarriedKnown
<1>8. ASSUME NEW p \in Procs, Crash(p) PROVE Committed'
  <2>1. MemoryKnown'
    BY <1>8 DEF Crash, TypeOK, Committed, MemoryKnown, RowsKnown
  <2>2. wk'.rev <= src.rev /\ \A c \in Clients : req'[c].rev <= src.rev
    BY <1>0, <1>8 DEF Crash, IdleWorker, IdleReq, None, Committed, CarriedKnown
  <2> QED
    BY <1>0, <1>8, <2>1, <2>2, CommittedGrows DEF Crash, Committed, CarriedKnown
<1>9. ASSUME NEW c \in Clients, Begin(c) \/ Request(c) PROVE Committed'
  BY <1>9, CommittedRequest
<1>10. CASE UNCHANGED vars
  BY <1>0, <1>10, CommittedGrows DEF vars, caches, Committed, CarriedKnown
<1> QED
  BY <1>1, <1>2, <1>3, <1>4, <1>5, <1>6, <1>7, <1>8, <1>9, <1>10 DEF Next, Worker

(* Rows and memory show only revisions the source has accepted.             *)
THEOREM CommitPointCorrect == Spec => []VisibleIsCommitted
<1>1. Committed => VisibleIsCommitted
  BY DEF Committed, RowsKnown, MemoryKnown, VisibleIsCommitted
<1> QED
  BY <1>1, TypeInit, TypeStep, CommittedInit, CommittedStep, PTL DEF Spec

-----------------------------------------------------------------------------
(* Only the commit of c itself moves c past its commit and the source along.*)
LEMMA NoLostUpdateStep ==
  ASSUME TypeOK, [Next]_vars, NEW c \in Clients,
         req[c].pc = "commit", req'[c].pc # "commit", src' # src
  PROVE  req[c].base = src.rev
<1>1. \E d \in Clients : CommitUpdate(d) \/ CommitCreate(d)
  <2>1. ~ ExternalWrite
    BY DEF ExternalWrite
  <2>2. ~ Read /\ ~ Worker /\ ~ PersistFails /\ \A p \in Procs : ~ Crash(p)
    BY DEF Read, Worker, Poll, Apply, Persist, Recover, PersistFails, Crash
  <2>3. \A d \in Clients : ~ Begin(d) /\ (Request(d) => CommitUpdate(d) \/ CommitCreate(d))
    BY DEF Begin, BeginUpdate, BeginCreate, Request, FetchSource, WriteRows, WriteMemory,
           RecordHealth, EraseRows, EraseMemory, Prepare
  <2> QED
    BY <2>1, <2>2, <2>3 DEF Next, vars
<1>2. PICK d \in Clients : CommitUpdate(d) \/ CommitCreate(d)
  BY <1>1
<1>3. \E r : req' = [req EXCEPT ![d] = r]
  BY <1>2 DEF CommitUpdate, CommitCreate, Answers, Goes
<1>4. d = c
  BY <1>3 DEF TypeOK
<1>5. CommitUpdate(c)
  BY <1>2, <1>4 DEF CommitCreate
<1> QED
  BY <1>5 DEF CommitUpdate, Expected

(* An update reaches the source only on top of the revision it read.        *)
THEOREM NoLostUpdateCorrect == Spec => NoLostUpdate
<1>1. TypeOK /\ [Next]_vars =>
        [\A c \in Clients :
           req[c].pc = "commit" /\ req'[c].pc # "commit" /\ src' # src
             => req[c].base = src.rev]_vars
  BY NoLostUpdateStep
<1> QED
  BY <1>1, TypeCorrect, PTL DEF Spec, NoLostUpdate

-----------------------------------------------------------------------------
(* With the workers in a process of their own and no fault, a cache of the  *)
(* API that counts as fresh holds the rows.  The claim is about the moments *)
(* at which no request is between its rows and its memory; what makes it    *)
(* inductive is what holds in between: only one request is there, the cache *)
(* is not fresh meanwhile, and the request is the latest transaction only   *)
(* as long as the rows are as it left them.                                 *)
Open(c) == req[c].pc \in {"memory", "forget"}

OneOpen == \A c, d \in Clients : Open(c) /\ Open(d) => c = d
OpenIsStale == \A c \in Clients : Open(c) => ~ genFresh["api"]
RowsWritten ==
  \A c \in Clients : req[c].pc = "memory" =>
    ~ req[c].failed /\ (req[c].latest => pg.rev = req[c].rev)
RowsErased ==
  \A c \in Clients : req[c].pc = "forget" =>
    /\ req[c].latest => pg.rev = None
    /\ stamp["api"] # "behind" => pg.alias = None
    /\ ~ req[c].known => mem["api"].alias = None
RevFresh == genFresh["api"] => mem["api"].rev = pg.rev
AliasFresh ==
  stamp["api"] # "behind" /\ (\A c \in Clients : req[c].pc # "forget")
    => mem["api"].alias = pg.alias

CacheInv == /\ OneOpen /\ OpenIsStale /\ RowsWritten /\ RowsErased
            /\ RevFresh /\ AliasFresh
SplitInv == deployment = "split" /\ faults = 0 => CacheInv

(* Steps that move no request into or out of the gap between rows and memory. *)
Apart ==
  \A d \in Clients : req'[d] = req[d] \/ (req[d].pc \notin {"memory", "forget"}
                                          /\ req'[d].pc \notin {"memory", "forget"})

LEMMA GoesApart ==
  ASSUME TypeOK, NEW c \in Clients, NEW r, Goes(c, r),
         req[c].pc \notin {"memory", "forget"}, r.pc \notin {"memory", "forget"}
  PROVE  Apart
BY DEF TypeOK, Goes, Apart

LEMMA AnswersApart ==
  ASSUME TypeOK, NEW c \in Clients, Answers(c), req[c].pc \notin {"memory", "forget"}
  PROVE  Apart
<1>1. IdleReq.pc \notin {"memory", "forget"}
  BY DEF IdleReq
<1> QED
  BY <1>1, GoesApart DEF Answers

LEMMA StepApart ==
  ASSUME TypeOK, NEW c \in Clients, NEW pc, Step(c, pc),
         req[c].pc \notin {"memory", "forget"}, pc \notin {"memory", "forget"}
  PROVE  Apart
<1>1. [req[c] EXCEPT !.pc = pc].pc \notin {"memory", "forget"}
  BY DEF TypeOK, ReqType
<1> QED
  BY <1>1, GoesApart DEF Step

(* The rows and the API's cache stay as they are. *)
LEMMA CacheStays ==
  ASSUME CacheInv, Apart, pg' = pg, genFresh'["api"] = genFresh["api"],
         stamp'["api"] = stamp["api"], mem'["api"] = mem["api"]
  PROVE  CacheInv'
<1> USE DEF Apart, CacheInv
<1>1. OneOpen' /\ OpenIsStale'
  BY DEF OneOpen, OpenIsStale, Open
<1>2. RowsWritten' /\ RowsErased'
  BY DEF RowsWritten, RowsErased
<1>3. RevFresh' /\ AliasFresh'
  BY DEF RevFresh, AliasFresh
<1> QED
  BY <1>1, <1>2, <1>3

(* The API loads the rows, or has no reason to. *)
LEMMA CacheLoads ==
  ASSUME TypeOK, CacheInv, CachedRead("api"), Apart, pg' = pg, faults = 0, faults' = 0
  PROVE  CacheInv'
<1>0. "api" \in Procs
  BY DEF Procs
<1>1. CASE UNCHANGED caches
  BY <1>1, CacheStays DEF caches
<1>2. CASE /\ RefreshLockFree
           /\ mem' = [mem EXCEPT !["api"].rev = pg.rev, !["api"].alias = pg.alias]
           /\ genFresh' = [genFresh EXCEPT !["api"] = TRUE]
           /\ stamp' = [stamp EXCEPT !["api"] = "level"]
  <2>1. \A d \in Clients : req'[d].pc \notin {"memory", "forget"}
    BY <1>2 DEF Apart, RefreshLockFree
  <2>2. mem'["api"].rev = pg'.rev /\ mem'["api"].alias = pg'.alias
    BY <1>0, <1>2 DEF TypeOK, MemType
  <2> QED
    BY <2>1, <2>2
       DEF CacheInv, OneOpen, Open, OpenIsStale, RowsWritten, RowsErased, RevFresh, AliasFresh
<1> QED
  BY <1>1, <1>2 DEF CachedRead, Fault

LEMMA CacheRequest ==
  ASSUME TypeOK, CacheInv, deployment = "split", faults = 0, faults' = 0,
         NEW c \in Clients, Begin(c) \/ Request(c)
  PROVE  CacheInv'
<1>0. /\ "api" \in Procs /\ req[c] \in ReqType
      /\ \A kind : ~ Fault(kind)
  BY DEF TypeOK, Procs, Fault
<1>1. CASE BeginUpdate(c)
  <2>1. [IdleReq EXCEPT !.pc = "fetch", !.op = "update"].pc \notin {"memory", "forget"}
    BY DEF IdleReq
  <2>2. Apart
    BY <1>1, <2>1, GoesApart DEF BeginUpdate
  <2> QED
    BY <1>1, <2>2, CacheLoads DEF BeginUpdate
<1>2. CASE BeginCreate(c)
  <2>1. [IdleReq EXCEPT !.pc = "put", !.op = "create"].pc \notin {"memory", "forget"}
    BY DEF IdleReq
  <2>2. Apart
    BY <1>2, <2>1, GoesApart DEF BeginCreate
  <2> QED
    BY <1>2, <2>2, CacheStays DEF BeginCreate, caches
<1>3. CASE FetchSource(c)
  <2>1. [req[c] EXCEPT !.pc = "rows", !.rev = src.rev, !.next = "prepare"].pc
          \notin {"memory", "forget"}
    BY <1>0 DEF ReqType
  <2>2. Apart
    BY <1>0, <1>3, <2>1, GoesApart, StepApart DEF FetchSource
  <2>3. CASE UNCHANGED caches
    BY <1>3, <2>2, <2>3, CacheStays DEF FetchSource, caches
  <2>4. CASE CachedRead("api")
    BY <1>3, <2>2, <2>4, CacheLoads DEF FetchSource
  <2> QED
    BY <1>0, <1>3, <2>3, <2>4 DEF FetchSource
<1>4. CASE WriteRows(c)
  <2>1. /\ \A d \in Clients : req[d].pc \notin {"memory", "forget"}
        /\ pg' = [pg EXCEPT !.rev = req[c].rev]
        /\ genFresh' = [p \in Procs |-> FALSE]
        /\ req' = [d \in Clients |-> [req[d] EXCEPT
                     !.latest = (d = c), !.failed = IF d = c THEN FALSE ELSE @,
                     !.pc = IF d = c THEN "memory" ELSE @]]
        /\ UNCHANGED <<mem, stamp>>
    BY <1>0, <1>4 DEF WriteRows, RefreshLockFree
  <2>2. /\ \A d \in Clients : d # c => req'[d].pc = req[d].pc
        /\ req'[c].pc = "memory" /\ ~ req'[c].failed /\ req'[c].rev = req[c].rev
    <3>1. \A d \in Clients :
            /\ req'[d].pc = IF d = c THEN "memory" ELSE req[d].pc
            /\ req'[d].rev = req[d].rev
      BY ZenonT(60), <2>1 DEF TypeOK, ReqType
    <3>2. ~ req'[c].failed
      BY <2>1 DEF TypeOK, ReqType
    <3> QED
      BY <3>1, <3>2
  <2>3. pg'.rev = req[c].rev /\ pg'.alias = pg.alias /\ ~ genFresh'["api"]
    BY <1>0, <2>1 DEF TypeOK, RowType
  <2>4. \A d \in Clients : req'[d].pc # "forget" /\ (req'[d].pc = "memory" => d = c)
    BY <2>1, <2>2
  <2>5. OneOpen' /\ OpenIsStale' /\ RowsWritten' /\ RowsErased' /\ RevFresh'
    BY <2>2, <2>3, <2>4 DEF OneOpen, Open, OpenIsStale, RowsWritten, RowsErased, RevFresh
  <2>6. AliasFresh'
    BY <2>1, <2>3 DEF CacheInv, AliasFresh
  <2> QED
    BY <2>5, <2>6 DEF CacheInv
<1>5. CASE WriteMemory(c)
  <2>1. /\ req[c].pc = "memory" /\ UNCHANGED <<pg, stamp>> /\ Step(c, "health")
        /\ genFresh' = IF req[c].failed THEN genFresh
                       ELSE [genFresh EXCEPT !["api"] = req[c].latest]
    BY <1>5 DEF WriteMemory
  <2>2. mem'["api"].rev = req[c].rev /\ mem'["api"].alias = mem["api"].alias
    BY <1>0, <1>5 DEF WriteMemory, TypeOK, MemType
  <2>3. \A d \in Clients : d # c => req'[d] = req[d]
    BY <2>1 DEF Step, Goes, TypeOK
  <2>4. req'[c].pc = "health"
    BY <1>0, <2>1 DEF Step, Goes, TypeOK, ReqType
  <2>5. \A d \in Clients : d # c => req[d].pc \notin {"memory", "forget"}
    BY <2>1 DEF CacheInv, OneOpen, Open
  <2>6. \A d \in Clients : req'[d].pc \notin {"memory", "forget"}
    BY <2>3, <2>4, <2>5
  <2>7. ~ req[c].failed /\ (req[c].latest => pg.rev = req[c].rev)
    BY <2>1 DEF CacheInv, RowsWritten
  <2>8. genFresh'["api"] = req[c].latest
    BY <1>0, <2>1, <2>7 DEF TypeOK
  <2>9. RevFresh'
    BY <2>1, <2>2, <2>7, <2>8 DEF RevFresh
  <2>10. AliasFresh'
    BY <2>1, <2>2, <2>5 DEF CacheInv, AliasFresh
  <2> QED
    BY <2>6, <2>9, <2>10 DEF CacheInv, OneOpen, Open, OpenIsStale, RowsWritten, RowsErased
<1>6. CASE RecordHealth(c)
  <2>1. req[c].next \notin {"memory", "forget"}
    BY <1>0 DEF ReqType
  <2>2. Apart
    BY <1>6, <2>1, StepApart, AnswersApart DEF RecordHealth
  <2> QED
    BY <1>6, <2>2, CacheStays DEF RecordHealth, caches
<1>7. CASE EraseRows(c)
  <2>1. /\ \A d \in Clients : req[d].pc \notin {"memory", "forget"}
        /\ pg' = [rev |-> None, alias |-> None]
        /\ genFresh' = [p \in Procs |-> FALSE]
        /\ req' = [d \in Clients |-> [req[d] EXCEPT
                     !.latest = (d = c), !.known = IF d = c THEN mem["api"].alias # None ELSE @,
                     !.pc = IF d = c THEN "forget" ELSE @]]
        /\ UNCHANGED <<mem, stamp>>
    BY <1>0, <1>7 DEF EraseRows, RefreshLockFree
  <2>2. /\ \A d \in Clients : d # c => req'[d].pc = req[d].pc
        /\ req'[c].pc = "forget"
    <3>1. \A d \in Clients : req'[d].pc = IF d = c THEN "forget" ELSE req[d].pc
      BY <2>1 DEF TypeOK, ReqType
    <3> QED
      BY <3>1
  <2>3. ~ req'[c].known => mem["api"].alias = None
    BY ZenonT(60), <2>1 DEF TypeOK, ReqType
  <2>4. pg'.rev = None /\ pg'.alias = None /\ ~ genFresh'["api"]
    BY <1>0, <2>1
  <2>5. \A d \in Clients : req'[d].pc # "memory" /\ (req'[d].pc = "forget" => d = c)
    BY <2>1, <2>2
  <2>6. RowsErased'
    BY <2>1, <2>3, <2>4, <2>5 DEF RowsErased
  <2> QED
    BY <2>2, <2>4, <2>5, <2>6
       DEF CacheInv, OneOpen, Open, OpenIsStale, RowsWritten, RevFresh, AliasFresh
<1>8. CASE EraseMemory(c)
  <2>1. /\ req[c].pc = "forget" /\ UNCHANGED <<pg, stamp>> /\ Answers(c)
        /\ genFresh' = [genFresh EXCEPT !["api"] = req[c].latest]
    BY <1>8 DEF EraseMemory
  <2>2. /\ mem'["api"].rev = None
        /\ mem'["api"].alias = IF req[c].known THEN None ELSE mem["api"].alias
    BY <1>0, <1>8 DEF EraseMemory, TypeOK
  <2>3. \A d \in Clients : d # c => req'[d] = req[d]
    BY <2>1 DEF Answers, Goes, TypeOK
  <2>4. req'[c].pc = "idle"
    BY <2>1 DEF Answers, Goes, TypeOK, IdleReq
  <2>5. \A d \in Clients : d # c => req[d].pc \notin {"memory", "forget"}
    BY <2>1 DEF CacheInv, OneOpen, Open
  <2>6. \A d \in Clients : req'[d].pc \notin {"memory", "forget"}
    BY <2>3, <2>4, <2>5
  <2>7. /\ req[c].latest => pg.rev = None
        /\ stamp["api"] # "behind" => pg.alias = None
        /\ ~ req[c].known => mem["api"].alias = None
    BY <2>1 DEF CacheInv, RowsErased
  <2>8. genFresh'["api"] = req[c].latest
    BY <1>0, <2>1 DEF TypeOK
  <2>9. RevFresh' /\ AliasFresh'
    BY <2>1, <2>2, <2>7, <2>8 DEF RevFresh, AliasFresh
  <2> QED
    BY <2>6, <2>9 DEF CacheInv, OneOpen, Open, OpenIsStale, RowsWritten, RowsErased
<1>9. CASE Prepare(c)
  <2>1. [req[c] EXCEPT !.pc = "commit", !.base = mem'["api"].rev].pc \notin {"memory", "forget"}
    BY <1>0 DEF ReqType
  <2>2. Apart
    BY <1>9, <2>1, GoesApart, StepApart, AnswersApart DEF Prepare
  <2> QED
    BY <1>9, <2>2, CacheLoads DEF Prepare
<1>10. CASE CommitUpdate(c) \/ CommitCreate(c)
  <2>1. /\ [req[c] EXCEPT !.pc = "rows", !.rev = src.rev + 1, !.next = "idle"].pc
             \notin {"memory", "forget"}
        /\ [req[c] EXCEPT !.pc = "rows", !.rev = src.rev + 1].pc \notin {"memory", "forget"}
    BY <1>0 DEF ReqType
  <2>2. Apart
    BY <1>10, <2>1, GoesApart, AnswersApart DEF CommitUpdate, CommitCreate
  <2> QED
    BY <1>10, <2>2, CacheStays DEF CommitUpdate, CommitCreate, caches
<1> QED
  BY <1>1, <1>2, <1>3, <1>4, <1>5, <1>6, <1>7, <1>8, <1>9, <1>10 DEF Begin, Request

LEMMA CacheStep ==
  ASSUME TypeOK, CacheInv, [Next]_vars, deployment = "split", faults = 0, faults' = 0
  PROVE  CacheInv'
<1>0. /\ WorkerProc = "workers" /\ "api" \in Procs /\ "workers" \in Procs
      /\ \A kind : ~ Fault(kind)
  BY DEF WorkerProc, Procs, Fault
<1>1. CASE ExternalWrite \/ UNCHANGED vars
  BY <1>1, CacheStays DEF ExternalWrite, caches, vars, Apart
<1>2. CASE Read
  BY <1>2, CacheLoads DEF Read, Apart
<1>3. CASE Poll
  <2>1. /\ UNCHANGED <<pg, mem, genFresh, req>> /\ stamp'["api"] = "behind"
    BY <1>0, <1>3 DEF Poll
  <2> QED
    BY <2>1 DEF CacheInv, OneOpen, Open, OpenIsStale, RowsWritten, RowsErased, RevFresh, AliasFresh
<1>4. CASE Apply
  <2>1. mem'["api"] = mem["api"] /\ stamp'["api"] = stamp["api"] /\ UNCHANGED <<pg, genFresh, req>>
    BY <1>0, <1>4 DEF Apply, TypeOK
  <2> QED
    BY <2>1, CacheStays DEF Apart
<1>5. CASE Persist
  <2>1. /\ stamp'["api"] = "behind" /\ ~ genFresh'["api"] /\ mem' = mem
    BY <1>0, <1>5 DEF Persist, Bump
  <2>2. \A d \in Clients : /\ req'[d].pc = req[d].pc /\ req'[d].failed = req[d].failed
                           /\ req'[d].known = req[d].known /\ ~ req'[d].latest
    BY <1>5 DEF Persist, TypeOK, ReqType
  <2> QED
    BY <2>1, <2>2
       DEF CacheInv, OneOpen, Open, OpenIsStale, RowsWritten, RowsErased, RevFresh, AliasFresh
<1>6. CASE Recover
  <2>1. mem'["api"] = mem["api"] /\ stamp'["api"] = stamp["api"]
        /\ genFresh'["api"] = genFresh["api"] /\ UNCHANGED <<pg, req>>
    BY <1>0, <1>6 DEF Recover, CachedRead, caches, TypeOK
  <2> QED
    BY <2>1, CacheStays DEF Apart
<1>7. CASE PersistFails \/ \E p \in Procs : Crash(p)
  BY <1>0, <1>7 DEF PersistFails, Crash
<1>8. CASE \E c \in Clients : Begin(c) \/ Request(c)
  BY <1>8, CacheRequest
<1> QED
  BY <1>1, <1>2, <1>3, <1>4, <1>5, <1>6, <1>7, <1>8 DEF Next, Worker

LEMMA SplitInit == ASSUME Init PROVE SplitInv
BY DEF Init, SplitInv, CacheInv, OneOpen, Open, OpenIsStale, RowsWritten, RowsErased,
       RevFresh, AliasFresh, IdleReq, Procs

(* Faults are counted and the deployment is given: if there is none yet and *)
(* the processes are apart after a step, it was so before.                  *)
LEMMA NoFaultBefore ==
  ASSUME TypeOK, [Next]_vars, faults' = 0, deployment' = "split"
  PROVE  faults = 0 /\ deployment = "split"
<1> USE DEF NoFault
<1>1. \A p \in Procs : CachedRead(p) => faults' \in {faults, faults + 1}
  BY DEF CachedRead, Fault
<1>2. "api" \in Procs /\ WorkerProc \in Procs
  BY ProcFacts
<1>3. ASSUME NEW c \in Clients, Begin(c) \/ Request(c)
      PROVE  faults' \in {faults, faults + 1} /\ deployment' = deployment
  <2>1. CASE BeginUpdate(c) \/ FetchSource(c) \/ Prepare(c)
    BY <1>1, <1>2, <2>1 DEF BeginUpdate, FetchSource, Prepare, Fault
  <2>2. CASE BeginCreate(c) \/ WriteRows(c) \/ WriteMemory(c) \/ RecordHealth(c)
    BY <2>2 DEF BeginCreate, WriteRows, WriteMemory, RecordHealth, Fault
  <2>3. CASE EraseRows(c) \/ EraseMemory(c) \/ CommitUpdate(c) \/ CommitCreate(c)
    BY <2>3 DEF EraseRows, EraseMemory, CommitUpdate, CommitCreate, Fault
  <2> QED
    BY <1>3, <2>1, <2>2, <2>3 DEF Begin, Request
<1>4. CASE ExternalWrite \/ Read \/ Worker \/ PersistFails \/ \E p \in Procs : Crash(p)
  <2>1. faults' \in {faults, faults + 1} /\ deployment' = deployment
    BY <1>1, <1>2, <1>4
       DEF ExternalWrite, Read, Worker, Poll, Apply, Persist, Recover, PersistFails, Crash, Fault
  <2> QED
    BY <2>1 DEF TypeOK
<1>5. CASE UNCHANGED vars
  BY <1>5 DEF vars
<1> QED
  BY <1>3, <1>4, <1>5 DEF Next, TypeOK

(* A cache of the API that believes it is fresh holds the rows.             *)
THEOREM FreshCacheCorrect == Spec => []FreshMeansEqual
<1>1. TypeOK /\ SplitInv /\ [Next]_vars => SplitInv'
  BY CacheStep, NoFaultBefore DEF SplitInv
<1>2. SplitInv => FreshMeansEqual
  BY DEF SplitInv, CacheInv, RevFresh, AliasFresh, FreshMeansEqual, Newer, NoOpenProjection
<1> QED
  BY <1>1, <1>2, SplitInit, TypeCorrect, PTL DEF Spec
-----------------------------------------------------------------------------
(* Health.  With one request at a time and the workers in a process of      *)
(* their own, a projection that failed is on the list of pending ones while *)
(* the memory shows its revision.  With two, the success of an older        *)
(* projection may take the entry of a newer one off the list: creations     *)
(* hold no lock.                                                            *)

Alone == \A c, d \in Clients : c = d

Shown == src.kind = "live" /\ mem["api"].rev = src.rev

Projecting(c) == req[c].pc \in {"memory", "health", "forget"}

Named ==
  /\ src.kind = "live" => src.rev # None
  /\ \A c \in Clients : req[c].pc \in {"rows", "memory", "health"} => req[c].rev # None

LatestIsLast ==
  \A c \in Clients : req[c].pc = "memory" /\ ~ req[c].failed /\ req[c].latest
                       => pg.rev = req[c].rev

Between ==
  \A c \in Clients : req[c].pc = "forget" \/ (req[c].pc = "memory" /\ ~ req[c].failed)
                       => ~ genFresh["api"]

Recorded ==
  genFresh["api"] /\ Shown /\ pg.rev # src.rev =>
    /\ \A c \in Clients : req[c].pc = "health" => req[c].failed
    /\ (\A c \in Clients : req[c].pc # "health") => pending # None

HealthInv == Named /\ LatestIsLast /\ (deployment = "split" => Between /\ Recorded)

LEMMA HealthInit == Init => HealthInv
BY DEF Init, HealthInv, Named, LatestIsLast, Between, Recorded, Shown, IdleReq, None

(* No request enters or leaves a projection.                                *)
Aside ==
  \A d \in Clients :
    \/ req'[d] = req[d]
    \/ /\ ~ Projecting(d) /\ ~ Projecting(d)'
       /\ req'[d].pc = "rows" => req'[d].rev # None

LEMMA GoesAside ==
  ASSUME TypeOK, NEW c \in Clients, NEW r, Goes(c, r), ~ Projecting(c),
         r.pc \notin {"memory", "health", "forget"}, r.pc = "rows" => r.rev # None
  PROVE  Aside
BY DEF TypeOK, Goes, Aside, Projecting

LEMMA AnswersAside ==
  ASSUME TypeOK, NEW c \in Clients, Answers(c), ~ Projecting(c)
  PROVE  Aside
<1>1. IdleReq.pc \notin {"memory", "health", "forget", "rows"}
  BY DEF IdleReq
<1> QED
  BY <1>1, GoesAside DEF Answers

LEMMA StepAside ==
  ASSUME TypeOK, NEW c \in Clients, NEW pc, Step(c, pc), ~ Projecting(c),
         pc \notin {"memory", "health", "forget", "rows"}
  PROVE  Aside
<1>1. [req[c] EXCEPT !.pc = pc].pc = pc
  BY DEF TypeOK, ReqType
<1> QED
  BY <1>1, GoesAside DEF Step

LEMMA HealthStays ==
  ASSUME TypeOK, VisibleIsCommitted, HealthInv, Aside,
         UNCHANGED <<deployment, pg, pending>>,
         genFresh'["api"] = genFresh["api"], mem'["api"].rev = mem["api"].rev,
         src' = src \/ src'.rev = src.rev + 1
  PROVE  HealthInv'
<1>1. src.rev \in Nat /\ mem["api"].rev \in Nat /\ mem["api"].rev <= src.rev
  BY BoundsAssumption DEF TypeOK, OptRev, MemType, VisibleIsCommitted, Procs
<1>2. Shown' => src' = src /\ Shown
  BY <1>1 DEF Shown
<1>3. Named'
  BY <1>1 DEF HealthInv, Named, Aside, Projecting, None
<1>4. LatestIsLast'
  BY DEF HealthInv, LatestIsLast, Aside, Projecting
<1>5. CASE deployment = "split"
  <2>1. Between'
    BY <1>5 DEF HealthInv, Between, Aside, Projecting
  <2>2. Recorded'
    BY <1>2, <1>5 DEF HealthInv, Recorded, Aside, Projecting
  <2> QED
    BY <1>3, <1>4, <2>1, <2>2 DEF HealthInv
<1> QED
  BY <1>3, <1>4, <1>5 DEF HealthInv

LEMMA HealthLoads ==
  ASSUME TypeOK, VisibleIsCommitted, HealthInv, CachedRead("api"), Aside,
         UNCHANGED <<deployment, pg, src>>
  PROVE  HealthInv'
<1>1. CASE UNCHANGED <<caches, pending>>
  BY <1>1, HealthStays DEF caches
<1>2. CASE /\ RefreshLockFree
           /\ mem' = [mem EXCEPT !["api"].rev = pg.rev, !["api"].alias = pg.alias]
  <2>1. mem'["api"].rev = pg.rev
    BY <1>2 DEF TypeOK, MemType, Procs
  <2>2. Recorded'
    BY <2>1 DEF Recorded, Shown
  <2>3. Between'
    BY <1>2 DEF Between, RefreshLockFree, Aside, Projecting
  <2>4. Named' /\ LatestIsLast'
    BY DEF HealthInv, Named, LatestIsLast, Aside, Projecting
  <2> QED
    BY <2>2, <2>3, <2>4 DEF HealthInv
<1> QED
  BY <1>1, <1>2 DEF CachedRead

(* The steps that touch rows, memory or the list.                           *)
LEMMA HealthProjection ==
  ASSUME TypeOK, VisibleIsCommitted, HealthInv, Alone, NEW c \in Clients,
         WriteRows(c) \/ WriteMemory(c) \/ RecordHealth(c) \/ EraseRows(c) \/ EraseMemory(c)
  PROVE  HealthInv'
<1>0. /\ "api" \in Procs /\ req[c] \in ReqType /\ mem["api"] \in MemType
      /\ \A d \in Clients : d = c
  BY DEF Procs, TypeOK, Alone
<1>1. CASE WriteRows(c)
  <2>1. req[c].pc = "rows" /\ req[c].rev # None /\ UNCHANGED <<deployment, src, mem, pending>>
    BY <1>1 DEF WriteRows, HealthInv, Named
  <2>2. CASE /\ pg' = [pg EXCEPT !.rev = req[c].rev]
             /\ genFresh' = [p \in Procs |-> FALSE]
             /\ req' = [d \in Clients |-> [req[d] EXCEPT
                          !.latest = (d = c), !.failed = IF d = c THEN FALSE ELSE @,
                          !.pc = IF d = c THEN "memory" ELSE @]]
    <3>1. pg'.rev = req[c].rev /\ ~ genFresh'["api"]
      BY <1>0, <2>2 DEF TypeOK, RowType
    <3>2. \A d \in Clients : req'[d].rev = req[d].rev
      BY ZenonT(60), <2>2 DEF TypeOK, ReqType
    <3> QED
      BY <1>0, <2>1, <3>1, <3>2
         DEF HealthInv, Named, LatestIsLast, Between, Recorded
  <2>3. CASE /\ Goes(c, [req[c] EXCEPT !.pc = "memory", !.failed = TRUE])
             /\ UNCHANGED <<pg, genFresh>>
    <3>1. req'[c].pc = "memory" /\ req'[c].failed /\ req'[c].rev = req[c].rev
      BY <2>3 DEF Goes, TypeOK, ReqType
    <3> QED
      BY <1>0, <2>1, <2>3, <3>1
         DEF HealthInv, Named, LatestIsLast, Between, Recorded, Shown
  <2> QED
    BY <1>1, <2>2, <2>3 DEF WriteRows
<1>2. CASE WriteMemory(c)
  <2>1. /\ req[c].pc = "memory" /\ req[c].rev # None
        /\ UNCHANGED <<deployment, src, pg, pending>> /\ Step(c, "health")
    BY <1>2 DEF WriteMemory, HealthInv, Named
  <2>2. mem'["api"].rev = req[c].rev
    BY <1>0, <1>2 DEF WriteMemory, TypeOK, MemType
  <2>3. /\ req[c].failed => genFresh'["api"] = genFresh["api"]
        /\ ~ req[c].failed => genFresh'["api"] = req[c].latest
    BY <1>0, <1>2 DEF WriteMemory, TypeOK
  <2>4. req'[c].pc = "health" /\ req'[c].failed = req[c].failed /\ req'[c].rev = req[c].rev
    BY <2>1 DEF Step, Goes, TypeOK, ReqType
  <2>5. Recorded'
    <3>1. CASE req[c].failed
      BY <1>0, <2>4, <3>1 DEF Recorded
    <3>2. CASE ~ req[c].failed
      <4>1. genFresh'["api"] => pg.rev = req[c].rev
        BY <2>1, <2>3, <3>2 DEF HealthInv, LatestIsLast
      <4> QED
        BY <2>1, <2>2, <4>1 DEF Recorded, Shown
    <3> QED
      BY <3>1, <3>2
  <2> QED
    BY <1>0, <2>1, <2>4, <2>5 DEF HealthInv, Named, LatestIsLast, Between
<1>3. CASE RecordHealth(c)
  <2>1. /\ req[c].pc = "health" /\ req[c].rev # None
        /\ UNCHANGED <<deployment, src, pg, mem, genFresh>>
        /\ pending' = IF req[c].failed THEN req[c].rev ELSE None
    BY <1>3 DEF RecordHealth, HealthInv, Named, caches
  <2>2. req'[c].pc \in {"idle", "prepare"}
    BY <1>3 DEF RecordHealth, Answers, Step, Goes, IdleReq, TypeOK, ReqType
  <2>3. deployment = "split" => Recorded'
    <3>1. CASE req[c].failed
      BY <1>0, <2>1, <2>2, <3>1 DEF Recorded
    <3>2. CASE ~ req[c].failed
      BY <1>0, <2>1, <3>2 DEF HealthInv, Recorded, Shown
    <3> QED
      BY <3>1, <3>2
  <2> QED
    BY <1>0, <2>1, <2>2, <2>3 DEF HealthInv, Named, LatestIsLast, Between
<1>4. CASE EraseRows(c)
  <2>1. req[c].pc = "erase" /\ UNCHANGED <<deployment, src, mem, pending>>
    BY <1>4 DEF EraseRows
  <2>2. CASE /\ genFresh' = [p \in Procs |-> FALSE]
             /\ req' = [d \in Clients |-> [req[d] EXCEPT
                          !.latest = (d = c),
                          !.known = IF d = c THEN mem["api"].alias # None ELSE @,
                          !.pc = IF d = c THEN "forget" ELSE @]]
    <3>1. ~ genFresh'["api"]
      BY <1>0, <2>2
    <3>2. req'[c].pc = "forget"
      <4>1. \A d \in Clients : req'[d].pc = IF d = c THEN "forget" ELSE req[d].pc
        BY <2>2 DEF TypeOK, ReqType
      <4> QED
        BY <4>1
    <3> QED
      BY <1>0, <2>1, <3>1, <3>2
         DEF HealthInv, Named, LatestIsLast, Between, Recorded
  <2>3. CASE Answers(c) /\ UNCHANGED <<pg, genFresh>>
    <3>1. Aside
      BY <2>1, <2>3, AnswersAside DEF Projecting
    <3> QED
      BY <2>1, <2>3, <3>1, HealthStays
  <2> QED
    BY <1>4, <2>2, <2>3 DEF EraseRows
<1>5. CASE EraseMemory(c)
  <2>1. UNCHANGED <<deployment, src, pg, pending>> /\ Answers(c)
    BY <1>5 DEF EraseMemory
  <2>2. mem'["api"].rev = None
    BY <1>0, <1>5 DEF EraseMemory, TypeOK
  <2>3. req'[c].pc = "idle"
    BY <2>1 DEF Answers, Goes, TypeOK, IdleReq
  <2>4. ~ Shown'
    BY <2>1, <2>2 DEF Shown, HealthInv, Named
  <2> QED
    BY <1>0, <2>1, <2>3, <2>4
       DEF HealthInv, Named, LatestIsLast, Between, Recorded
<1> QED
  BY <1>1, <1>2, <1>3, <1>4, <1>5

LEMMA HealthRequest ==
  ASSUME TypeOK, VisibleIsCommitted, HealthInv, Alone, NEW c \in Clients,
         Begin(c) \/ Request(c)
  PROVE  HealthInv'
<1>0. req[c] \in ReqType /\ src.rev \in Nat
  BY BoundsAssumption DEF TypeOK, OptRev
<1>1. CASE BeginUpdate(c)
  <2>1. Goes(c, [IdleReq EXCEPT !.pc = "fetch", !.op = "update"]) /\ req[c].pc = "idle"
    BY <1>1 DEF BeginUpdate
  <2>2. Aside
    BY <2>1, GoesAside DEF IdleReq, Projecting
  <2> QED
    BY <1>1, <2>2, HealthLoads DEF BeginUpdate
<1>2. CASE BeginCreate(c)
  <2>1. Goes(c, [IdleReq EXCEPT !.pc = "put", !.op = "create"]) /\ req[c].pc = "idle"
    BY <1>2 DEF BeginCreate
  <2>2. Aside
    BY <2>1, GoesAside DEF IdleReq, Projecting
  <2> QED
    BY <1>2, <2>2, HealthStays DEF BeginCreate, caches
<1>3. CASE FetchSource(c)
  <2>0. ~ Projecting(c) /\ UNCHANGED <<deployment, src, pg>>
    BY <1>3 DEF FetchSource, Projecting
  <2>1. CASE /\ src.kind = "live"
             /\ Goes(c, [req[c] EXCEPT !.pc = "rows", !.rev = src.rev, !.next = "prepare"])
             /\ UNCHANGED <<caches, lock, pending>>
    <3>1. [req[c] EXCEPT !.pc = "rows", !.rev = src.rev, !.next = "prepare"].rev = src.rev
          /\ [req[c] EXCEPT !.pc = "rows", !.rev = src.rev, !.next = "prepare"].pc = "rows"
      BY <1>0 DEF ReqType
    <3>2. Aside
      BY <2>0, <2>1, <3>1, GoesAside DEF HealthInv, Named
    <3> QED
      BY <2>0, <2>1, <3>2, HealthStays DEF caches
  <2>2. CASE CachedRead("api") /\ Step(c, "erase")
    BY <2>0, <2>2, StepAside, HealthLoads
  <2>3. CASE Answers(c) /\ UNCHANGED <<caches, pending>>
    BY <2>0, <2>3, AnswersAside, HealthStays DEF caches
  <2> QED
    BY <1>3, <2>1, <2>2, <2>3 DEF FetchSource
<1>4. CASE Prepare(c)
  <2>0. ~ Projecting(c)
    BY <1>4 DEF Prepare, Projecting
  <2>1. [req[c] EXCEPT !.pc = "commit", !.base = mem'["api"].rev].pc = "commit"
    BY <1>0 DEF ReqType
  <2>2. Aside
    BY <1>4, <2>0, <2>1, GoesAside, StepAside, AnswersAside DEF Prepare
  <2> QED
    BY <1>4, <2>2, HealthLoads DEF Prepare
<1>5. CASE CommitUpdate(c) \/ CommitCreate(c)
  <2>0. ~ Projecting(c) /\ UNCHANGED <<deployment, pg, caches, pending>>
    BY <1>5 DEF CommitUpdate, CommitCreate, Projecting
  <2>1. /\ [req[c] EXCEPT !.pc = "rows", !.rev = src.rev + 1, !.next = "idle"].rev # None
        /\ [req[c] EXCEPT !.pc = "rows", !.rev = src.rev + 1, !.next = "idle"].pc = "rows"
        /\ [req[c] EXCEPT !.pc = "rows", !.rev = src.rev + 1].rev # None
        /\ [req[c] EXCEPT !.pc = "rows", !.rev = src.rev + 1].pc = "rows"
    BY <1>0 DEF ReqType, None
  <2>2. Aside
    BY <1>5, <2>0, <2>1, GoesAside, AnswersAside DEF CommitUpdate, CommitCreate
  <2>3. src' = src \/ src'.rev = src.rev + 1
    BY <1>5 DEF CommitUpdate, CommitCreate, SourceBecomes
  <2> QED
    BY <2>0, <2>2, <2>3, HealthStays DEF caches
<1> QED
  BY <1>1, <1>2, <1>3, <1>4, <1>5, HealthProjection DEF Begin, Request

LEMMA HealthStep ==
  ASSUME TypeOK, VisibleIsCommitted, HealthInv, Alone, [Next]_vars
  PROVE  HealthInv'
<1>0. "api" \in Procs /\ (deployment = "split" => WorkerProc = "workers")
  BY DEF WorkerProc, Procs
<1>1. CASE ExternalWrite \/ UNCHANGED vars
  <2>1. Aside /\ (src' = src \/ src'.rev = src.rev + 1)
        /\ UNCHANGED <<deployment, pg, pending, mem, genFresh>>
    BY <1>1 DEF ExternalWrite, SourceBecomes, caches, vars, Aside
  <2> QED
    BY <2>1, HealthStays
<1>2. CASE Read
  BY <1>2, HealthLoads DEF Read, Aside
<1>3. CASE Poll \/ PersistFails
  BY <1>3, HealthStays DEF Poll, PersistFails, caches, Aside
<1>4. ASSUME UNCHANGED <<deployment, src, pg, req>>,
             deployment = "split" => /\ mem'["api"].rev = mem["api"].rev
                                     /\ genFresh'["api"] = genFresh["api"]
                                     /\ pending' = pending
      PROVE  HealthInv'
  BY <1>4 DEF HealthInv, Named, LatestIsLast, Between, Recorded, Shown
<1>5. CASE Apply
  BY <1>0, <1>4, <1>5 DEF Apply, TypeOK
<1>6. CASE Recover
  BY <1>0, <1>4, <1>6 DEF Recover, CachedRead, caches, TypeOK
<1>7. CASE Persist
  <2>1. deployment = "split" => ~ genFresh'["api"]
    BY <1>0, <1>7 DEF Persist, Bump
  <2>2. \A d \in Clients : /\ req'[d].pc = req[d].pc /\ req'[d].rev = req[d].rev
                           /\ ~ req'[d].latest
    BY <1>7 DEF Persist, TypeOK, ReqType
  <2>3. UNCHANGED <<deployment, src>>
    BY <1>7 DEF Persist
  <2> QED
    BY <2>1, <2>2, <2>3 DEF HealthInv, Named, LatestIsLast, Between, Recorded
<1>8. ASSUME NEW p \in Procs, Crash(p) PROVE HealthInv'
  <2>0. UNCHANGED <<deployment, src, pg>>
    BY <1>8 DEF Crash
  <2>1. CASE p = "api"
    <3>1. mem'["api"].rev = pg.rev /\ req' = [c \in Clients |-> IdleReq]
      BY <1>0, <1>8, <2>1 DEF Crash, TypeOK
    <3> QED
      BY <2>0, <3>1
         DEF HealthInv, Named, LatestIsLast, Between, Recorded, Shown, IdleReq
  <2>2. CASE p # "api"
    <3>1. mem'["api"] = mem["api"] /\ genFresh'["api"] = genFresh["api"]
          /\ UNCHANGED <<req, pending>>
      BY <1>0, <1>8, <2>2 DEF Crash, TypeOK
    <3> QED
      BY <1>4, <2>0, <3>1
  <2> QED
    BY <2>1, <2>2
<1>9. CASE \E c \in Clients : Begin(c) \/ Request(c)
  BY <1>9, HealthRequest
<1> QED
  BY <1>1, <1>2, <1>3, <1>5, <1>6, <1>7, <1>8, <1>9 DEF Next, Worker

(* When requests do not overlap, readiness tells of every committed         *)
(* revision that the memory shows and the rows do not hold.                 *)
THEOREM HealthCorrect == Alone => (Spec => []UnprojectedIsPending)
<1> SUFFICES ASSUME Alone PROVE Spec => []UnprojectedIsPending
  OBVIOUS
<1>1. TypeOK /\ VisibleIsCommitted /\ HealthInv /\ [Next]_vars => HealthInv'
  BY HealthStep
<1>2. HealthInv => UnprojectedIsPending
  BY DEF HealthInv, Recorded, Shown, UnprojectedIsPending, Newer
<1> QED
  BY <1>1, <1>2, HealthInit, TypeCorrect, CommitPointCorrect, PTL DEF Spec
=============================================================================
