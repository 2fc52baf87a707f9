--------------------------- MODULE RequestsProofs ---------------------------
(***************************************************************************)
(* For every set of handlers, kind of request and bound: Requests keeps    *)
(* its types, its locks exclude what they should, an answer is no older    *)
(* than the rows were when the request arrived, and a memory that counts   *)
(* as fresh holds the rows.                                                *)
(*                                                                         *)
(* The locks come first: what a handler holds, and what it waits for, is a *)
(* function of where it is (LocksOK).  The data then rest on three facts:  *)
(* every snapshot of the rows is a point of their history, told by its     *)
(* generation (Point); memory and cache never fall behind what a handler   *)
(* that passed the check has seen (StartOK); and, while nothing failed,    *)
(* the stored generation counts the changes the memory holds, unless a     *)
(* projection has skipped some (Counted).                                  *)
(***************************************************************************)
EXTENDS Requests, WellFoundedInduction, TLAPS

LEMMA LeastNat ==
  ASSUME NEW S \in SUBSET Nat, S # {}
  PROVE  \E m \in S : \A n \in S : m <= n
<1> DEFINE R == OpToRel(<, Nat)
<1>1. IsWellFoundedOn(R, Nat)
  BY NatLessThanWellFounded
<1>2. \A m, n \in S : <<n, m>> \in R <=> n < m
  BY DEF OpToRel
<1> HIDE DEF R
<1>3. PICK m \in S : \A n \in S : ~ (<<n, m>> \in R)
  BY <1>1, WFMin
<1>4. \A n \in S : ~ (n < m)
  BY <1>2, <1>3
<1> QED
  BY <1>4

-----------------------------------------------------------------------------
(* The lock of the memory: what a task holds of it, and what it asks for.   *)

InnerType == [readers : [Tasks -> Nat], writer : Tasks \cup {None}, queue : Seq(Waiting)]

Queued(q, t, mode) == \E k \in 1..Len(q) : q[k].t = t /\ q[k].mode = mode
Once(q) == \A k, l \in 1..Len(q) : q[k].t = q[l].t => k = l
Exclusive(i) == i.writer # None => \A t \in Tasks : i.readers[t] = 0

Claimed(i, t, held, want) ==
  /\ i.readers[t] = held + (IF want = "read" /\ ~ Queued(i.queue, t, "read") THEN 1 ELSE 0)
  /\ i.writer = t <=> want = "write" /\ ~ Queued(i.queue, t, "write")
  /\ \A m \in {"read", "write"} : Queued(i.queue, t, m) => want = m

(* s is what is left of q when its first n are served.                      *)
IsRest(s, q, n) ==
  s \in Seq(Waiting) /\ Len(s) = Len(q) - n /\ \A k \in 1..Len(s) : s[k] = q[k + n]

Gone(q, n, t) == \E k \in 1..n : q[k].t = t

LEMMA Rest ==
  ASSUME NEW q \in Seq(Waiting), NEW n \in 0..Len(q), Once(q), NEW s, IsRest(s, q, n)
  PROVE  /\ Once(s)
         /\ \A t, m : Queued(s, t, m) <=> Queued(q, t, m) /\ ~ Gone(q, n, t)
<1> USE DEF IsRest, Gone
<1>1. Len(q) \in Nat /\ Len(s) \in Nat
  OBVIOUS
<1>2. \A k \in 1..Len(s) : k + n \in 1..Len(q)
  BY <1>1
<1>3. Once(s)
  BY SMTT(30), <1>1, <1>2 DEF Once
<1>4. ASSUME NEW t, NEW m, Queued(s, t, m)
      PROVE  Queued(q, t, m) /\ ~ Gone(q, n, t)
  <2>1. PICK k \in 1..Len(s) : s[k].t = t /\ s[k].mode = m
    BY <1>4 DEF Queued
  <2>2. k + n \in 1..Len(q) /\ q[k + n].t = t /\ q[k + n].mode = m
    BY <1>2, <2>1
  <2>3. \A l \in 1..n : l \in 1..Len(q) /\ l # k + n
    BY <1>1, <2>1
  <2> QED
    BY <2>2, <2>3 DEF Queued, Once
<1>5. ASSUME NEW t, NEW m, Queued(q, t, m)
      PROVE  Queued(s, t, m) \/ Gone(q, n, t)
  <2>1. PICK k \in 1..Len(q) : q[k].t = t /\ q[k].mode = m
    BY <1>5 DEF Queued
  <2>2. CASE k <= n
    BY <2>1, <2>2
  <2>3. CASE k > n
    <3>1. k - n \in 1..Len(s) /\ s[k - n] = q[k]
      BY <1>1, <2>3
    <3> QED
      BY <2>1, <3>1 DEF Queued
  <2> QED
    BY <2>2, <2>3
<1> QED
  BY <1>3, <1>4, <1>5

(* The lock that serves keeps its type, its exclusion and every claim.      *)
LEMMA ServedKeeps ==
  ASSUME NEW i \in InnerType, Once(i.queue), Exclusive(i)
  PROVE  /\ Served(i) \in InnerType /\ Once(Served(i).queue) /\ Exclusive(Served(i))
         /\ \A t \in Tasks, held \in Nat : \A want :
              Claimed(i, t, held, want) => Claimed(Served(i), t, held, want)
<1> DEFINE q == i.queue
<1>0. q \in Seq(Waiting) /\ Len(q) \in Nat /\ Once(q) /\ i.readers \in [Tasks -> Nat]
  BY DEF InnerType
<1>1. CASE Served(i) = i
  BY <1>1
<1>2. CASE q # <<>> /\ Head(q).mode = "write" /\ Free(i)
  <2> DEFINE w == Head(q).t
             s == Tail(q)
  <2>1. Served(i) = [i EXCEPT !.writer = w, !.queue = s]
    BY <1>2 DEF Served
  <2>2. IsRest(s, q, 1) /\ 1 \in 0..Len(q) /\ q[1] = Head(q) /\ q[1] \in Waiting
    BY <1>0, <1>2 DEF IsRest
  <2>3. /\ Once(s)
        /\ \A t, m : Queued(s, t, m) <=> Queued(q, t, m) /\ ~ Gone(q, 1, t)
    <3> HIDE DEF q, s
    <3> QED
      BY <1>0, <2>2, Rest
  <2>4. w \in Tasks /\ Queued(q, w, "write")
    BY <1>0, <1>2, <2>2 DEF Waiting, Queued
  <2>5. Free(i)
    BY <1>2
  <2> HIDE DEF s, w
  <2>6. Served(i) \in InnerType
    BY <2>1, <2>2, <2>4 DEF InnerType, IsRest
  <2>7. /\ Served(i).writer = w /\ Served(i).queue = s /\ Served(i).readers = i.readers
    BY <2>1 DEF InnerType
  <2>8. ASSUME NEW t \in Tasks, NEW held \in Nat, NEW want, Claimed(i, t, held, want)
        PROVE  Claimed(Served(i), t, held, want)
    <3>1. \A m \in {"read", "write"} : Queued(s, t, m) => Queued(q, t, m)
      BY <2>3
    <3>2. CASE t = w
      <4>1. want = "write"
        BY <2>4, <2>8, <3>2 DEF Claimed
      <4>2. ~ Queued(s, t, "write")
        BY <2>2, <2>3, <3>2 DEF w, Gone
      <4> QED
        BY <2>7, <2>8, <3>1, <3>2, <4>1, <4>2 DEF Claimed
    <3>3. CASE t # w
      <4>1. ~ Gone(q, 1, t)
        BY <2>2, <3>3 DEF w, Gone
      <4>2. \A m \in {"read", "write"} : Queued(q, t, m) <=> Queued(s, t, m)
        BY <2>3, <4>1
      <4>3. i.writer # t
        BY <2>5, TasksAssumption DEF Free
      <4> QED
        BY <2>7, <2>8, <3>3, <4>2, <4>3 DEF Claimed
    <3> QED
      BY <3>2, <3>3
  <2> QED
    BY <2>3, <2>5, <2>6, <2>7, <2>8 DEF Exclusive, Free
<1>3. CASE q # <<>> /\ Head(q).mode # "write" /\ i.writer = None
  <2> DEFINE writers == {k \in DOMAIN q : q[k].mode = "write"}
             n == IF writers = {} THEN Len(q)
                  ELSE (CHOOSE k \in writers : \A l \in writers : k <= l) - 1
             next == {q[k].t : k \in 1..n}
             s == SubSeq(q, n + 1, Len(q))
  <2>1. Served(i) = [i EXCEPT !.readers = [t \in Tasks |-> IF t \in next THEN @[t] + 1 ELSE @[t]],
                              !.queue = s]
    BY <1>3 DEF Served
  <2>2. n \in 0..Len(q) /\ \A k \in 1..n : q[k].mode # "write"
    <3>1. CASE writers = {}
      BY <1>0, <3>1
    <3>2. CASE writers # {}
      <4>1. writers \in SUBSET Nat /\ writers \subseteq 1..Len(q)
        BY <1>0
      <4> DEFINE first == CHOOSE k \in writers : \A l \in writers : k <= l
      <4>2. first \in writers /\ \A l \in writers : first <= l
        <5> HIDE DEF writers
        <5> QED
          BY <3>2, <4>1, LeastNat
      <4>3. n = first - 1
        BY <3>2
      <4> HIDE DEF first
      <4>4. first \in 1..Len(q) /\ n \in 0..Len(q)
        BY <1>0, <4>1, <4>2, <4>3
      <4>5. ASSUME NEW k \in 1..n, q[k].mode = "write" PROVE FALSE
        <5>1. k \in writers /\ k < first
          <6>1. k \in 1..Len(q) /\ k < first
            BY <1>0, <4>3, <4>4
          <6>2. DOMAIN q = 1..Len(q)
            BY <1>0
          <6> QED
            BY <4>5, <6>1, <6>2
        <5> HIDE DEF writers
        <5> QED
          BY <1>0, <4>2, <4>4, <5>1
      <4> QED
        BY <4>4, <4>5
    <3> QED
      BY <3>1, <3>2
  <2>3. IsRest(s, q, n)
    <3> HIDE DEF n
    <3> QED
      BY <1>0, <2>2 DEF IsRest
  <2>4. \A k \in 1..n : q[k] \in Waiting /\ q[k].mode = "read" /\ k \in 1..Len(q)
    <3>1. \A k \in 1..n : q[k] \in Waiting /\ k \in 1..Len(q)
      <4> HIDE DEF n
      <4> QED
        BY <1>0, <2>2
    <3> HIDE DEF n
    <3> QED
      BY <2>2, <3>1 DEF Waiting
  <2>5. /\ Once(s)
        /\ \A t, m : Queued(s, t, m) <=> Queued(q, t, m) /\ ~ Gone(q, n, t)
    <3> HIDE DEF q, n, s
    <3> QED
      BY <1>0, <2>2, <2>3, Rest
  <2> HIDE DEF n, s
  <2>6. \A t \in Tasks : t \in next => Queued(q, t, "read") /\ \A m : ~ Queued(s, t, m)
    <3>1. ASSUME NEW k \in 1..n PROVE Queued(q, q[k].t, "read") /\ Gone(q, n, q[k].t)
      BY <2>4 DEF Queued, Gone
    <3> QED
      BY <2>5, <3>1
  <2>7. \A t \in Tasks : \A m : t \notin next => (Queued(s, t, m) <=> Queued(q, t, m))
    BY <2>5 DEF Gone
  <2> HIDE DEF next
  <2> DEFINE readers == [t \in Tasks |-> IF t \in next THEN i.readers[t] + 1 ELSE i.readers[t]]
  <2>8. Served(i) = [i EXCEPT !.readers = readers, !.queue = s] /\ readers \in [Tasks -> Nat]
    BY <1>0, <2>1
  <2>9. \A t \in Tasks : readers[t] = IF t \in next THEN i.readers[t] + 1 ELSE i.readers[t]
    OBVIOUS
  <2> HIDE DEF readers
  <2>10. Served(i) \in InnerType
    BY <2>3, <2>8 DEF InnerType, IsRest
  <2>11. Served(i).writer = i.writer /\ Served(i).queue = s /\ Served(i).readers = readers
    BY <2>8 DEF InnerType
  <2>12. ASSUME NEW t \in Tasks, NEW held \in Nat, NEW want, Claimed(i, t, held, want)
         PROVE  Claimed(Served(i), t, held, want)
    <3>1. CASE t \in next
      <4>1. want = "read" /\ i.readers[t] = held
        BY <2>6, <2>12, <3>1 DEF Claimed
      <4> QED
        BY <2>6, <2>9, <2>11, <2>12, <3>1, <4>1 DEF Claimed
    <3>2. CASE t \notin next
      BY <2>7, <2>9, <2>11, <2>12, <3>2 DEF Claimed
    <3> QED
      BY <3>1, <3>2
  <2> QED
    BY <1>3, <2>5, <2>10, <2>11, <2>12 DEF Exclusive
<1> QED
  BY <1>1, <1>2, <1>3 DEF Served
InnerSound(i) == i \in InnerType /\ Once(i.queue) /\ Exclusive(i)

LEMMA AskKeeps ==
  ASSUME InnerSound(inner), NEW t \in Tasks, NEW mode \in {"read", "write"}, AskInner(t, mode),
         NEW held \in Nat, Claimed(inner, t, held, "nothing")
  PROVE  /\ InnerSound(inner') /\ Claimed(inner', t, held, mode)
         /\ \A u \in Tasks \ {t}, h \in Nat : \A w : Claimed(inner, u, h, w) => Claimed(inner', u, h, w)
<1> DEFINE q == inner.queue
           s == Append(q, [t |-> t, mode |-> mode])
           i == [inner EXCEPT !.queue = s]
<1>1. q \in Seq(Waiting) /\ Len(q) \in Nat /\ Once(q) /\ Exclusive(inner) /\ inner \in InnerType
  BY DEF InnerSound, InnerType
<1>2. /\ s \in Seq(Waiting) /\ Len(s) = Len(q) + 1 /\ \A k \in 1..Len(q) : s[k] = q[k]
      /\ s[Len(q) + 1] = [t |-> t, mode |-> mode]
  BY <1>1 DEF Waiting
<1>3. i \in InnerType /\ i.queue = s /\ i.writer = inner.writer /\ i.readers = inner.readers
  <2> HIDE DEF s
  <2> QED
    BY <1>1, <1>2 DEF InnerType
<1>4. inner' = Served(i)
  BY DEF AskInner
<1> HIDE DEF q, s, i
<1>5. \A k \in 1..Len(q) : q[k].t # t
  <2>1. \A k \in 1..Len(q) : q[k].mode \in {"read", "write"}
    <3>1. \A k \in 1..Len(q) : q[k] \in Waiting
      BY <1>1
    <3> QED
      BY <3>1 DEF Waiting
  <2> QED
    BY <2>1 DEF Claimed, Queued, q
<1>6. Once(s)
  <2> SUFFICES ASSUME NEW k \in 1..Len(s), NEW l \in 1..Len(s), s[k].t = s[l].t
               PROVE  k = l
    BY DEF Once
  <2>1. k \in 1..Len(q) \/ k = Len(q) + 1
    BY <1>1, <1>2
  <2>2. l \in 1..Len(q) \/ l = Len(q) + 1
    BY <1>1, <1>2
  <2>3. s[Len(q) + 1].t = t
    BY <1>2
  <2> QED
    BY <1>1, <1>2, <1>5, <2>1, <2>2, <2>3 DEF Once
<1>7. \A u, m : Queued(s, u, m) <=> Queued(q, u, m) \/ (u = t /\ m = mode)
  <2>1. Len(q) + 1 \in 1..Len(s) /\ s[Len(q) + 1].t = t /\ s[Len(q) + 1].mode = mode
    BY <1>1, <1>2
  <2>2. \A k \in 1..Len(s) : k \in 1..Len(q) \/ k = Len(q) + 1
    BY <1>1, <1>2
  <2>3. \A k \in 1..Len(q) : k \in 1..Len(s)
    BY <1>1, <1>2
  <2> QED
    BY <1>2, <2>1, <2>2, <2>3 DEF Queued
<1>8. Claimed(i, t, held, mode)
  <2>1. \A m : ~ Queued(q, t, m)
    BY <1>5 DEF Queued
  <2>2. inner.readers[t] = held /\ inner.writer # t
    BY DEF Claimed
  <2> QED
    BY <1>3, <1>7, <2>1, <2>2 DEF Claimed
<1>9. \A u \in Tasks \ {t}, h \in Nat : \A w : Claimed(inner, u, h, w) => Claimed(i, u, h, w)
  <2>1. \A u \in Tasks \ {t} : \A m : Queued(i.queue, u, m) <=> Queued(inner.queue, u, m)
    BY <1>3, <1>7 DEF q
  <2> QED
    BY <1>3, <2>1 DEF Claimed
<1>10. Exclusive(i)
  BY <1>1, <1>3 DEF Exclusive
<1>11. /\ Served(i) \in InnerType /\ Once(Served(i).queue) /\ Exclusive(Served(i))
       /\ \A u \in Tasks, h \in Nat : \A w : Claimed(i, u, h, w) => Claimed(Served(i), u, h, w)
  BY <1>3, <1>6, <1>10, ServedKeeps
<1> QED
  BY <1>4, <1>8, <1>9, <1>11 DEF InnerSound

LEMMA LeaveWriteKeeps ==
  ASSUME InnerSound(inner), NEW t \in Tasks, Writes(t), LeaveInner(t, "write"),
         NEW held \in Nat, Claimed(inner, t, held, "write")
  PROVE  /\ InnerSound(inner') /\ Claimed(inner', t, held, "nothing")
         /\ \A u \in Tasks \ {t}, h \in Nat : \A w : Claimed(inner, u, h, w) => Claimed(inner', u, h, w)
<1> DEFINE i == [inner EXCEPT !.writer = None]
<1>1. /\ i \in InnerType /\ i.queue = inner.queue /\ i.writer = None /\ i.readers = inner.readers
      /\ Once(inner.queue)
  BY DEF InnerSound, InnerType
<1>2. inner' = Served(i)
  BY DEF LeaveInner
<1> HIDE DEF i
<1>3. inner.writer = t /\ None \notin Tasks
  BY TasksAssumption DEF Writes
<1>4. Claimed(i, t, held, "nothing")
  BY <1>1, <1>3 DEF Claimed
<1>5. \A u \in Tasks \ {t}, h \in Nat : \A w : Claimed(inner, u, h, w) => Claimed(i, u, h, w)
  BY <1>1, <1>3 DEF Claimed
<1>6. /\ Served(i) \in InnerType /\ Once(Served(i).queue) /\ Exclusive(Served(i))
      /\ \A u \in Tasks, h \in Nat : \A w : Claimed(i, u, h, w) => Claimed(Served(i), u, h, w)
  BY <1>1, ServedKeeps DEF Exclusive
<1> QED
  BY <1>2, <1>4, <1>5, <1>6 DEF InnerSound

LEMMA LeaveReadKeeps ==
  ASSUME InnerSound(inner), NEW t \in Tasks, LeaveInner(t, "read"),
         NEW held \in Nat, Claimed(inner, t, held + 1, "nothing")
  PROVE  /\ InnerSound(inner') /\ Claimed(inner', t, held, "nothing")
         /\ \A u \in Tasks \ {t}, h \in Nat : \A w : Claimed(inner, u, h, w) => Claimed(inner', u, h, w)
<1> DEFINE i == [inner EXCEPT !.readers[t] = @ - 1]
<1>0. inner.readers \in [Tasks -> Nat] /\ inner.readers[t] = held + 1
  BY DEF InnerSound, InnerType, Claimed
<1>1. /\ i \in InnerType /\ i.queue = inner.queue /\ i.writer = inner.writer
      /\ i.readers = [inner.readers EXCEPT ![t] = held] /\ Once(inner.queue) /\ Exclusive(inner)
  <2> DEFINE readers == [inner.readers EXCEPT ![t] = held]
  <2>1. inner.readers[t] - 1 = held /\ readers \in [Tasks -> Nat]
    BY <1>0
  <2>2. i = [inner EXCEPT !.readers = readers]
    <3>1. i = [inner EXCEPT !.readers = [inner.readers EXCEPT ![t] = inner.readers[t] - 1]]
      BY DEF InnerSound, InnerType
    <3> QED
      BY <2>1, <3>1
  <2> HIDE DEF readers, i
  <2>3. /\ i \in InnerType /\ i.queue = inner.queue /\ i.writer = inner.writer
        /\ i.readers = readers
    BY <2>1, <2>2 DEF InnerSound, InnerType
  <2> QED
    BY <2>3 DEF readers, InnerSound
<1>2. inner' = Served(i)
  BY DEF LeaveInner
<1> HIDE DEF i
<1>3. i.readers[t] = held /\ \A u \in Tasks \ {t} : i.readers[u] = inner.readers[u]
  BY <1>0, <1>1
<1>4. Claimed(i, t, held, "nothing")
  BY <1>1, <1>3 DEF Claimed
<1>5. \A u \in Tasks \ {t}, h \in Nat : \A w : Claimed(inner, u, h, w) => Claimed(i, u, h, w)
  BY <1>1, <1>3 DEF Claimed
<1>6. Exclusive(i)
  <2>1. inner.writer = None
    BY <1>0, <1>1 DEF Exclusive
  <2> QED
    BY <1>1, <2>1 DEF Exclusive
<1>7. /\ Served(i) \in InnerType /\ Once(Served(i).queue) /\ Exclusive(Served(i))
      /\ \A u \in Tasks, h \in Nat : \A w : Claimed(i, u, h, w) => Claimed(Served(i), u, h, w)
  BY <1>1, <1>6, ServedKeeps
<1> QED
  BY <1>2, <1>4, <1>5, <1>7 DEF InnerSound

(* Whoever reads, or writes, has been served.                               *)
LEMMA ReadsIsServed ==
  ASSUME InnerSound(inner), NEW t \in Tasks, Reads(t), NEW held \in Nat,
         Claimed(inner, t, held, "read")
  PROVE  Claimed(inner, t, held + 1, "nothing")
<1>1. \A m : ~ Queued(inner.queue, t, m)
  BY DEF InnerSound, InnerType, Reads, Waits, Queued
<1> QED
  BY <1>1 DEF Claimed
-----------------------------------------------------------------------------
(* Types.                                                                   *)

Types ==
  /\ pg \in Database /\ mem \in Rows
  /\ cache \in [gen : Nat, stamp : Nat, skips : BOOLEAN]
  /\ task \in [Tasks -> Handler]
  /\ requests \in 0..MaxRequests /\ commits \in 0..MaxCommits /\ faults \in 0..MaxFaults

(* t is at p, and all else of it as given; nobody else moves.               *)
Moved(t, p, nested, snap, start, sure, answer) ==
  /\ task' \in [Tasks -> Handler]
  /\ \A u \in Tasks \ {t} : task'[u] = task[u]
  /\ task'[t].pc = p /\ task'[t].kind = task[t].kind
  /\ task'[t].nested = nested /\ task'[t].snap = snap /\ task'[t].start = start
  /\ task'[t].sure = sure /\ task'[t].answer = answer

Goes(t, p) ==
  Moved(t, p, task[t].nested, task[t].snap, task[t].start, task[t].sure, task[t].answer)

LEMMA GoMoves ==
  ASSUME Types, NEW t \in Tasks, NEW p \in Places, Go(t, p)
  PROVE  Goes(t, p)
<1>1. [task[t] EXCEPT !.pc = p] \in Handler
  BY DEF Types, Handler
<1>2. task' = [task EXCEPT ![t] = [task[t] EXCEPT !.pc = p]]
  BY DEF Go, Types, Handler
<1> QED
  BY <1>1, <1>2 DEF Types, Goes, Moved, Handler

LEMMA SnapMoves ==
  ASSUME Types, NEW t \in Tasks, NEW p \in Places, NEW d \in Database,
         task' = [task EXCEPT ![t].pc = p, ![t].snap = d]
  PROVE  Moved(t, p, task[t].nested, d, task[t].start, task[t].sure, task[t].answer)
<1>1. [task[t] EXCEPT !.pc = p, !.snap = d] \in Handler
  BY DEF Types, Handler
<1>2. task' = [task EXCEPT ![t] = [task[t] EXCEPT !.pc = p, !.snap = d]]
  BY DEF Types, Handler
<1> QED
  BY <1>1, <1>2 DEF Types, Moved, Handler

LEMMA UnsureSnapMoves ==
  ASSUME Types, NEW t \in Tasks, NEW p \in Places, NEW d \in Database,
         task' = [task EXCEPT ![t].pc = p, ![t].snap = d, ![t].sure = FALSE]
  PROVE  Moved(t, p, task[t].nested, d, task[t].start, FALSE, task[t].answer)
<1>1. [task[t] EXCEPT !.pc = p, !.snap = d, !.sure = FALSE] \in Handler
  BY DEF Types, Handler
<1>2. task' = [task EXCEPT ![t] = [task[t] EXCEPT !.pc = p, !.snap = d, !.sure = FALSE]]
  BY DEF Types, Handler
<1> QED
  BY <1>1, <1>2 DEF Types, Moved, Handler

LEMMA UnsureMoves ==
  ASSUME Types, NEW t \in Tasks, NEW p \in Places,
         task' = [task EXCEPT ![t].pc = p, ![t].sure = FALSE]
  PROVE  Moved(t, p, task[t].nested, task[t].snap, task[t].start, FALSE, task[t].answer)
<1>1. [task[t] EXCEPT !.pc = p, !.sure = FALSE] \in Handler
  BY DEF Types, Handler
<1>2. task' = [task EXCEPT ![t] = [task[t] EXCEPT !.pc = p, !.sure = FALSE]]
  BY DEF Types, Handler
<1> QED
  BY <1>1, <1>2 DEF Types, Moved, Handler

LEMMA StartMoves ==
  ASSUME Types, NEW t \in Tasks, NEW p \in Places, NEW r \in Rows,
         task' = [task EXCEPT ![t].pc = p, ![t].start = r]
  PROVE  Moved(t, p, task[t].nested, task[t].snap, r, task[t].sure, task[t].answer)
<1>1. [task[t] EXCEPT !.pc = p, !.start = r] \in Handler
  BY DEF Types, Handler
<1>2. task' = [task EXCEPT ![t] = [task[t] EXCEPT !.pc = p, !.start = r]]
  BY DEF Types, Handler
<1> QED
  BY <1>1, <1>2 DEF Types, Moved, Handler

LEMMA AnswerMoves ==
  ASSUME Types, NEW t \in Tasks, NEW p \in Places, NEW r \in Rows,
         task' = [task EXCEPT ![t].pc = p, ![t].answer = r]
  PROVE  Moved(t, p, task[t].nested, task[t].snap, task[t].start, task[t].sure, r)
<1>1. [task[t] EXCEPT !.pc = p, !.answer = r] \in Handler
  BY DEF Types, Handler
<1>2. task' = [task EXCEPT ![t] = [task[t] EXCEPT !.pc = p, !.answer = r]]
  BY DEF Types, Handler
<1> QED
  BY <1>1, <1>2 DEF Types, Moved, Handler

LEMMA NestedMoves ==
  ASSUME Types, NEW t \in Tasks, NEW p \in Places,
         task' = [task EXCEPT ![t].pc = p, ![t].nested = TRUE]
  PROVE  Moved(t, p, TRUE, task[t].snap, task[t].start, task[t].sure, task[t].answer)
<1>1. [task[t] EXCEPT !.pc = p, !.nested = TRUE] \in Handler
  BY DEF Types, Handler
<1>2. task' = [task EXCEPT ![t] = [task[t] EXCEPT !.pc = p, !.nested = TRUE]]
  BY DEF Types, Handler
<1> QED
  BY <1>1, <1>2 DEF Types, Moved, Handler

LEMMA IdleType == Idle \in Handler
BY DEF Idle, Handler, NoPg, NoRows, Database, Rows, Places, AllKinds

(* The steps that only move a handler.                                      *)
LEMMA Moves ==
  ASSUME Types, NEW t \in Tasks
  PROVE  /\ Check(t) => Goes(t, IF Newer THEN "recheck" ELSE "enter")
         /\ Recheck(t) => IF Newer
              THEN Moved(t, "replace", task[t].nested, pg, task[t].start, task[t].sure, task[t].answer)
              ELSE Goes(t, "enter")
         /\ CannotRefresh(t) =>
              Moved(t, "enter", task[t].nested, task[t].snap, task[t].start, FALSE, task[t].answer)
         /\ Replace(t) => Goes(t, "stamp")
         /\ Stamp(t) => Goes(t, "generation")
         /\ Generation(t) => Goes(t, "reconcile")
         /\ Reconcile(t) => Goes(t, "enter")
         /\ Enter(t) => Goes(t, "serve")
         /\ RankMemory(t) => Goes(t, "check")
         /\ Assemble(t) =>
              Moved(t, "done", task[t].nested, task[t].snap, task[t].start, task[t].sure, mem)
         /\ Lock(t) => Goes(t, "project")
         /\ Publish(t) => Goes(t, "published")
         /\ Published(t) => Goes(t, "done")
<1>0. {"recheck", "enter", "replace", "stamp", "generation", "reconcile", "serve", "check", "done",
       "project", "published"} \subseteq Places /\ pg \in Database /\ mem \in Rows
  BY DEF Places, Types
<1>1. Check(t) => Goes(t, IF Newer THEN "recheck" ELSE "enter")
  BY <1>0, GoMoves DEF Check
<1>2. Recheck(t) => IF Newer
        THEN Moved(t, "replace", task[t].nested, pg, task[t].start, task[t].sure, task[t].answer)
        ELSE Goes(t, "enter")
  BY <1>0, GoMoves, SnapMoves DEF Recheck, Snapshot
<1>3. CannotRefresh(t) =>
        Moved(t, "enter", task[t].nested, task[t].snap, task[t].start, FALSE, task[t].answer)
  BY <1>0, UnsureMoves DEF CannotRefresh
<1>4. /\ Replace(t) => Goes(t, "stamp")
      /\ Stamp(t) => Goes(t, "generation")
      /\ Generation(t) => Goes(t, "reconcile")
      /\ Reconcile(t) => Goes(t, "enter")
      /\ Enter(t) => Goes(t, "serve")
      /\ RankMemory(t) => Goes(t, "check")
  BY <1>0, GoMoves DEF Replace, Stamp, Generation, Reconcile, Enter, RankMemory
<1>5. Assemble(t) =>
        Moved(t, "done", task[t].nested, task[t].snap, task[t].start, task[t].sure, mem)
  BY <1>0, AnswerMoves DEF Assemble
<1>6. /\ Lock(t) => Goes(t, "project")
      /\ Publish(t) => Goes(t, "published")
      /\ Published(t) => Goes(t, "done")
  BY <1>0, GoMoves DEF Lock, Publish, Published
<1> QED
  BY <1>1, <1>2, <1>3, <1>4, <1>5, <1>6
Entered(t, kind) ==
  /\ task' \in [Tasks -> Handler]
  /\ \A u \in Tasks \ {t} : task'[u] = task[u]
  /\ task'[t].kind = kind /\ ~ task'[t].nested /\ task'[t].start = pg.rows /\ task'[t].sure
  /\ task'[t].pc = IF kind = "write" THEN "lock" ELSE IF kind = "search" THEN "rank" ELSE "check"

LEMMA StartMovesIn == ASSUME Types, NEW t \in Tasks, NEW kind \in Kinds, Start(t, kind)
                      PROVE  Entered(t, kind)
<1> DEFINE p == CASE kind = "write" -> "lock" [] kind = "search" -> "rank" [] OTHER -> "check"
           h == [Idle EXCEPT !.kind = kind, !.start = pg.rows, !.pc = p]
<1>1. p = IF kind = "write" THEN "lock" ELSE IF kind = "search" THEN "rank" ELSE "check"
  OBVIOUS
<1>2. p \in Places /\ kind \in AllKinds /\ pg.rows \in Rows
  BY <1>1, KindsAssumption DEF Places, Types, Database
<1>3. task' = [task EXCEPT ![t] = h]
  BY DEF Start
<1> HIDE DEF p
<1>4. h \in Handler /\ h.kind = kind /\ ~ h.nested /\ h.start = pg.rows /\ h.sure /\ h.pc = p
  BY <1>2, IdleType DEF Handler, Idle
<1> HIDE DEF h
<1> QED
  BY <1>1, <1>3, <1>4 DEF Entered, Types

(* What a projection leaves in the rows.                                    *)
LEMMA ContentFacts ==
  ASSUME Types, NEW d, d = WithContent([pg.rows EXCEPT !.here = @ + 1])
  PROVE  /\ d \in Database /\ d.gen = pg.gen + 1 /\ d.stamp = pg.stamp
         /\ d.rows.here = pg.rows.here + 1 /\ d.rows.there = pg.rows.there
         /\ d.rows.raw = pg.rows.raw
<1> DEFINE r == [pg.rows EXCEPT !.here = @ + 1]
<1>1. pg \in Database /\ pg.rows \in Rows
  BY DEF Types, Database
<1>2. /\ r \in Rows /\ r.here = pg.rows.here + 1 /\ r.there = pg.rows.there
      /\ r.raw = pg.rows.raw
  BY <1>1 DEF Rows
<1>3. d = [pg EXCEPT !.gen = @ + 1, !.rows = r]
  BY DEF WithContent
<1> HIDE DEF r
<1>4. d \in Database /\ d.gen = pg.gen + 1 /\ d.stamp = pg.stamp /\ d.rows = r
  <2>1. pg.gen \in Nat /\ pg.stamp \in Nat /\ pg.gen + 1 \in Nat
    BY <1>1 DEF Database
  <2>2. d = [gen |-> pg.gen + 1, stamp |-> pg.stamp, rows |-> r]
    BY <1>1, <1>3 DEF Database
  <2> QED
    BY <1>2, <2>1, <2>2 DEF Database
<1> QED
  BY <1>2, <1>4

LEMMA Branches ==
  ASSUME Types, NEW t \in Tasks
  PROVE  /\ Rank(t) =>
              \/ /\ UNCHANGED inner
                 /\ Moved(t, "check", task[t].nested, task[t].snap,
                          IF task[t].nested THEN task[t].start ELSE pg.rows,
                          task[t].sure, task[t].answer)
              \/ AskInner(t, "read") /\ Goes(t, "rankMemory")
         /\ Serve(t) =>
              \/ task[t].nested /\ LeaveInner(t, "read") /\ Goes(t, "assemble")
              \/ /\ ~ task[t].nested /\ LeaveInner(t, "read")
                 /\ Moved(t, "done", task[t].nested, task[t].snap, task[t].start, task[t].sure, mem)
              \/ ~ task[t].nested /\ UNCHANGED inner /\ Goes(t, "provider")
         /\ Provider(t) =>
              \/ Moved(t, "rank", TRUE, task[t].snap, task[t].start, task[t].sure, task[t].answer)
              \/ Goes(t, "assemble")
         /\ Project(t) =>
              \/ /\ pg' = WithContent([pg.rows EXCEPT !.here = @ + 1]) /\ UNCHANGED faults
                 /\ Moved(t, "publish", task[t].nested, pg', task[t].start, task[t].sure,
                          task[t].answer)
              \/ /\ UNCHANGED pg /\ Fault
                 /\ Moved(t, "publish", task[t].nested, pg, task[t].start, FALSE, task[t].answer)
<1>0. {"check", "rankMemory", "assemble", "done", "provider", "rank", "publish"} \subseteq Places
      /\ pg \in Database /\ mem \in Rows /\ pg.rows \in Rows
  BY DEF Places, Types, Database
<1>1. ASSUME Rank(t)
      PROVE  \/ /\ UNCHANGED inner
                /\ Moved(t, "check", task[t].nested, task[t].snap,
                         IF task[t].nested THEN task[t].start ELSE pg.rows,
                         task[t].sure, task[t].answer)
             \/ AskInner(t, "read") /\ Goes(t, "rankMemory")
  <2> DEFINE r == IF task[t].nested THEN task[t].start ELSE pg.rows
  <2>1. r \in Rows
    BY <1>0 DEF Types, Handler
  <2>2. CASE task' = [task EXCEPT ![t].pc = "check",
                                  ![t].start = IF task[t].nested THEN @ ELSE pg.rows]
             /\ UNCHANGED inner
    <3>1. task' = [task EXCEPT ![t].pc = "check", ![t].start = r]
      BY <2>2 DEF Types, Handler
    <3> HIDE DEF r
    <3>2. Moved(t, "check", task[t].nested, task[t].snap, r, task[t].sure, task[t].answer)
      BY <1>0, <2>1, <3>1, StartMoves
    <3> QED
      BY <2>2, <3>2 DEF r
  <2>3. CASE AskInner(t, "read") /\ Go(t, "rankMemory")
    BY <1>0, <2>3, GoMoves
  <2> QED
    BY <1>1, <2>2, <2>3 DEF Rank
<1>2. ASSUME Serve(t)
      PROVE  \/ task[t].nested /\ LeaveInner(t, "read") /\ Goes(t, "assemble")
             \/ /\ ~ task[t].nested /\ LeaveInner(t, "read")
                /\ Moved(t, "done", task[t].nested, task[t].snap, task[t].start, task[t].sure, mem)
             \/ ~ task[t].nested /\ UNCHANGED inner /\ Goes(t, "provider")
  <2>1. CASE task[t].nested
    BY <1>0, <1>2, <2>1, GoMoves DEF Serve
  <2>2. CASE ~ task[t].nested /\ task[t].kind \in {"read", "search"}
    <3>1. /\ LeaveInner(t, "read")
          /\ task' = [task EXCEPT ![t].pc = "done", ![t].answer = mem]
      BY <1>2, <2>2 DEF Serve
    <3> QED
      BY <1>0, <2>2, <3>1, AnswerMoves
  <2>3. CASE ~ task[t].nested /\ task[t].kind \notin {"read", "search"}
    BY <1>0, <1>2, <2>3, GoMoves DEF Serve
  <2> QED
    BY <2>1, <2>2, <2>3
<1>3. ASSUME Provider(t)
      PROVE  \/ Moved(t, "rank", TRUE, task[t].snap, task[t].start, task[t].sure, task[t].answer)
             \/ Goes(t, "assemble")
  BY <1>0, <1>3, GoMoves, NestedMoves DEF Provider
<1>4. ASSUME Project(t)
      PROVE  \/ /\ pg' = WithContent([pg.rows EXCEPT !.here = @ + 1]) /\ UNCHANGED faults
                /\ Moved(t, "publish", task[t].nested, pg', task[t].start, task[t].sure,
                         task[t].answer)
             \/ /\ UNCHANGED pg /\ Fault
                /\ Moved(t, "publish", task[t].nested, pg, task[t].start, FALSE, task[t].answer)
  <2>1. CASE /\ pg' = WithContent([pg.rows EXCEPT !.here = @ + 1]) /\ UNCHANGED faults
             /\ task' = [task EXCEPT ![t].pc = "publish", ![t].snap = pg']
    <3>1. pg' \in Database
      BY <2>1, ContentFacts
    <3> QED
      BY <1>0, <2>1, <3>1, SnapMoves
  <2>2. CASE /\ UNCHANGED pg /\ Fault
             /\ task' = [task EXCEPT ![t].pc = "publish", ![t].snap = pg, ![t].sure = FALSE]
    BY <1>0, <2>2, UnsureSnapMoves
  <2> QED
    BY <1>4, <2>1, <2>2 DEF Project
<1> QED
  BY <1>1, <1>2, <1>3, <1>4

LEMMA ReplyMoves == ASSUME Types, NEW t \in Tasks, Reply(t)
                    PROVE  /\ task' \in [Tasks -> Handler] /\ task'[t] = Idle
                           /\ \A u \in Tasks \ {t} : task'[u] = task[u]
BY IdleType DEF Types, Reply

LEMMA TypesInit == Init => Types
BY IdleType, BoundsAssumption DEF Init, Types, NoPg, NoRows, Database, Rows

LEMMA TypesStep == ASSUME Types, [Next]_vars PROVE Types'
<1>0. /\ task \in [Tasks -> Handler] /\ pg \in Database /\ mem \in Rows
      /\ \A t \in Tasks : task[t].snap \in Database /\ task[t].snap.rows \in Rows
      /\ Fault => faults' \in 0..MaxFaults
  BY BoundsAssumption DEF Types, Handler, Database, Fault
<1>1. CASE UNCHANGED vars
  BY <1>1 DEF Types, vars
<1>2. CASE Commit
  <2>1. pg' \in Database
    BY <1>0, <1>2 DEF Commit, Database, Rows
  <2> QED
    BY <1>2, <2>1, BoundsAssumption DEF Types, Commit
<1>3. ASSUME NEW t \in Tasks, NEW kind \in Kinds, Start(t, kind) PROVE Types'
  <2>1. task' \in [Tasks -> Handler]
    BY <1>3, StartMovesIn DEF Entered
  <2> QED
    BY <1>3, <2>1, BoundsAssumption DEF Types, Start
<1>4. ASSUME NEW t \in Tasks, Step(t) PROVE task' \in [Tasks -> Handler]
  <2>1. CASE Check(t) \/ Recheck(t) \/ CannotRefresh(t) \/ Replace(t) \/ Stamp(t)
             \/ Generation(t) \/ Reconcile(t) \/ Enter(t) \/ RankMemory(t) \/ Assemble(t)
             \/ Lock(t) \/ Publish(t) \/ Published(t)
    BY <2>1, Moves DEF Goes, Moved
  <2>2. CASE Rank(t) \/ Serve(t) \/ Provider(t) \/ Project(t)
    BY <2>2, Branches DEF Goes, Moved
  <2> QED
    BY <1>4, <2>1, <2>2, ReplyMoves DEF Step
<1>5. ASSUME NEW t \in Tasks, Step(t) PROVE pg' \in Database
  <2>1. CASE Project(t)
    BY <1>0, <2>1, ContentFacts DEF Project
  <2> QED
    BY <1>0, <1>5, <2>1 DEF Step, Check, Recheck, CannotRefresh, Replace, Stamp, Generation,
       Reconcile, Enter, Rank, RankMemory, Serve, Provider, Assemble, Lock, Publish, Published, Reply
<1>6. ASSUME NEW t \in Tasks, Step(t) PROVE mem' \in Rows
  <2>1. CASE Publish(t)
    <3>1. task[t].snap.rows.here + (IF task[t].sure THEN 0 ELSE 1) \in Nat
      BY <1>0 DEF Rows
    <3> QED
      BY <1>0, <2>1, <3>1 DEF Publish, Rows
  <2>2. CASE Replace(t)
    BY <1>0, <2>2 DEF Replace
  <2> QED
    BY <1>0, <1>6, <2>1, <2>2 DEF Step, Check, Recheck, CannotRefresh, Stamp, Generation,
       Reconcile, Enter, Rank, RankMemory, Serve, Provider, Assemble, Lock, Project, Published, Reply
<1>7. ASSUME NEW t \in Tasks, Step(t) PROVE cache' \in [gen : Nat, stamp : Nat, skips : BOOLEAN]
  <2>0. cache \in [gen : Nat, stamp : Nat, skips : BOOLEAN]
        /\ task[t].snap.gen \in Nat /\ task[t].snap.stamp \in Nat
    BY <1>0 DEF Types, Database
  <2>1. CASE Stamp(t)
    BY <2>0, <2>1 DEF Stamp
  <2>2. CASE Generation(t)
    BY <2>0, <2>2 DEF Generation
  <2>3. CASE Published(t)
    BY <2>0, <2>3 DEF Published
  <2> QED
    BY <1>7, <2>0, <2>1, <2>2, <2>3 DEF Step, Check, Recheck, CannotRefresh, Replace,
       Reconcile, Enter, Rank, RankMemory, Serve, Provider, Assemble, Lock, Project, Publish, Reply
<1>8. ASSUME NEW t \in Tasks, Step(t)
      PROVE  UNCHANGED <<requests, commits>> /\ faults' \in 0..MaxFaults
  BY <1>0, <1>8 DEF Types, Step, Check, Recheck, CannotRefresh, Replace, Stamp, Generation,
     Reconcile, Enter, Rank, RankMemory, Serve, Provider, Assemble, Lock, Project, Publish,
     Published, Reply
<1>9. ASSUME NEW t \in Tasks, Step(t) PROVE Types'
  BY <1>4, <1>5, <1>6, <1>7, <1>8, <1>9 DEF Types
<1> QED
  BY <1>1, <1>2, <1>3, <1>9 DEF Next
-----------------------------------------------------------------------------
(* The locks: where a handler is tells what it holds and what it waits for. *)

Held(t) ==
  IF task[t].pc \in {"provider", "assemble"} \/ (task[t].nested /\ task[t].pc # "done")
  THEN 1 ELSE 0
Want(t) ==
  IF task[t].pc \in {"rankMemory", "serve", "reconcile"} THEN "read"
  ELSE IF task[t].pc \in {"replace", "publish"} THEN "write" ELSE "nothing"

InnerOK == InnerSound(inner) /\ \A t \in Tasks : Claimed(inner, t, Held(t), Want(t))

Holding(t) ==
  task[t].pc \in {"replace", "stamp", "generation", "reconcile", "publish", "published"}
Refreshes(t) == Holding(t) \/ task[t].pc \in {"recheck", "project"}

InLine(t) == \E k \in 1..Len(refresh.queue) : refresh.queue[k] = t
RefreshSound ==
  /\ refresh \in [holder : Tasks \cup {None}, queue : Seq(Tasks)]
  /\ refresh.holder = None => refresh.queue = <<>>
  /\ \A k, l \in 1..Len(refresh.queue) : refresh.queue[k] = refresh.queue[l] => k = l
  /\ ~ InLine(refresh.holder)
RefreshOK ==
  /\ RefreshSound
  /\ \A t \in Tasks : (refresh.holder = t \/ InLine(t)) <=> Refreshes(t)
  /\ \A t \in Tasks : Holding(t) => refresh.holder = t

WritesAreFlat ==
  \A t \in Tasks : /\ task[t].pc \in {"lock", "project", "publish", "published"}
                         => task[t].kind = "write" /\ ~ task[t].nested
                   /\ task[t].pc \in {"lock", "project"} => task[t].sure
                   /\ task[t].pc = "idle" => ~ task[t].nested

LocksOK == InnerOK /\ RefreshOK /\ WritesAreFlat

Alone(t) == task' \in [Tasks -> Handler] /\ \A u \in Tasks \ {t} : task'[u] = task[u]

LEMMA HeldIsNat == \A t \in Tasks : Held(t) \in {0, 1} /\ Held(t) \in Nat
BY DEF Held

LEMMA InnerStays ==
  ASSUME InnerOK, NEW t \in Tasks, Alone(t), UNCHANGED inner,
         Held(t)' = Held(t), Want(t)' = Want(t)
  PROVE  InnerOK'
BY DEF InnerOK, Alone, Held, Want

(* t claims what it asks for, and the others what they did.                 *)
LEMMA InnerMoves ==
  ASSUME InnerOK, NEW t \in Tasks, Alone(t), InnerSound(inner'),
         Claimed(inner', t, Held(t)', Want(t)'),
         \A u \in Tasks \ {t}, h \in Nat : \A w : Claimed(inner, u, h, w) => Claimed(inner', u, h, w)
  PROVE  InnerOK'
<1>1. ASSUME NEW u \in Tasks \ {t} PROVE Claimed(inner', u, Held(u)', Want(u)')
  <2>1. Held(u)' = Held(u) /\ Want(u)' = Want(u)
    BY DEF Alone, Held, Want
  <2>2. Claimed(inner, u, Held(u), Want(u)) /\ Held(u) \in Nat
    BY HeldIsNat DEF InnerOK
  <2> QED
    BY <2>1, <2>2
<1>2. \A u \in Tasks : Claimed(inner', u, Held(u)', Want(u)')
  BY <1>1
<1> QED
  BY <1>2 DEF InnerOK, InnerSound, InnerType, Claimed

LEMMA InnerAsks ==
  ASSUME InnerOK, NEW t \in Tasks, Alone(t), NEW mode \in {"read", "write"}, AskInner(t, mode),
         Want(t) = "nothing", Want(t)' = mode, Held(t)' = Held(t)
  PROVE  InnerOK'
<1>1. Held(t) \in Nat /\ Claimed(inner, t, Held(t), "nothing") /\ InnerSound(inner)
  BY HeldIsNat DEF InnerOK
<1>2. /\ InnerSound(inner') /\ Claimed(inner', t, Held(t), mode)
      /\ \A u \in Tasks \ {t}, h \in Nat : \A w : Claimed(inner, u, h, w) => Claimed(inner', u, h, w)
  BY <1>1, AskKeeps
<1> QED
  BY <1>2, InnerMoves

LEMMA InnerLeavesWrite ==
  ASSUME InnerOK, NEW t \in Tasks, Alone(t), Writes(t), LeaveInner(t, "write"),
         Want(t) = "write", Want(t)' = "nothing", Held(t)' = Held(t)
  PROVE  InnerOK'
<1>1. Held(t) \in Nat /\ Claimed(inner, t, Held(t), "write") /\ InnerSound(inner)
  BY HeldIsNat DEF InnerOK
<1>2. /\ InnerSound(inner') /\ Claimed(inner', t, Held(t), "nothing")
      /\ \A u \in Tasks \ {t}, h \in Nat : \A w : Claimed(inner, u, h, w) => Claimed(inner', u, h, w)
  BY <1>1, LeaveWriteKeeps
<1> QED
  BY <1>2, InnerMoves

LEMMA InnerLeavesRead ==
  ASSUME InnerOK, NEW t \in Tasks, Alone(t), Reads(t), LeaveInner(t, "read"),
         Want(t) = "read", Want(t)' = "nothing", Held(t)' = Held(t)
  PROVE  InnerOK'
<1>1. Held(t) \in Nat /\ Claimed(inner, t, Held(t), "read") /\ InnerSound(inner)
  BY HeldIsNat DEF InnerOK
<1>2. Claimed(inner, t, Held(t) + 1, "nothing")
  BY <1>1, ReadsIsServed
<1>3. /\ InnerSound(inner') /\ Claimed(inner', t, Held(t), "nothing")
      /\ \A u \in Tasks \ {t}, h \in Nat : \A w : Claimed(inner, u, h, w) => Claimed(inner', u, h, w)
  BY <1>1, <1>2, LeaveReadKeeps
<1> QED
  BY <1>3, InnerMoves

(* The answer waits for the provider with the lock held ...                 *)
LEMMA InnerHolds ==
  ASSUME InnerOK, NEW t \in Tasks, Alone(t), Reads(t), UNCHANGED inner,
         Want(t) = "read", Want(t)' = "nothing", Held(t) = 0, Held(t)' = 1
  PROVE  InnerOK'
<1>1. Claimed(inner, t, 0, "read") /\ InnerSound(inner)
  BY DEF InnerOK
<1>2. Claimed(inner, t, 1, "nothing")
  BY <1>1, ReadsIsServed
<1> QED
  BY <1>1, <1>2, InnerMoves

(* ... and releases it when it is assembled.                                *)
LEMMA InnerReleases ==
  ASSUME InnerOK, NEW t \in Tasks, Alone(t), LeaveInner(t, "read"),
         Want(t) = "nothing", Want(t)' = "nothing", Held(t) = 1, Held(t)' = 0
  PROVE  InnerOK'
<1>1. Claimed(inner, t, 0 + 1, "nothing") /\ InnerSound(inner)
  BY DEF InnerOK
<1>2. /\ InnerSound(inner') /\ Claimed(inner', t, 0, "nothing")
      /\ \A u \in Tasks \ {t}, h \in Nat : \A w : Claimed(inner, u, h, w) => Claimed(inner', u, h, w)
  BY <1>1, LeaveReadKeeps
<1> QED
  BY <1>2, InnerMoves

LEMMA RefreshStays ==
  ASSUME RefreshOK, NEW t \in Tasks, Alone(t), UNCHANGED refresh, Refreshes(t)' <=> Refreshes(t),
         Holding(t)' => Holding(t) \/ refresh.holder = t
  PROVE  RefreshOK'
<1>1. \A u \in Tasks : InLine(u)' <=> InLine(u)
  BY DEF InLine
<1>2. \A u \in Tasks \ {t} : (Refreshes(u)' <=> Refreshes(u)) /\ (Holding(u)' <=> Holding(u))
  BY DEF Refreshes, Holding, Alone
<1>3. RefreshSound'
  BY DEF RefreshOK, RefreshSound, InLine
<1> QED
  BY <1>1, <1>2, <1>3 DEF RefreshOK

LEMMA RefreshAsks ==
  ASSUME RefreshOK, NEW t \in Tasks, Alone(t), ~ Refreshes(t), AskRefresh(t),
         Refreshes(t)', ~ Holding(t)'
  PROVE  RefreshOK'
<1> DEFINE q == refresh.queue
<1>0. q \in Seq(Tasks) /\ Len(q) \in Nat /\ refresh.holder # t /\ ~ InLine(t) /\ RefreshSound
  BY DEF RefreshOK, RefreshSound
<1>2. \A u \in Tasks \ {t} : (Refreshes(u)' <=> Refreshes(u)) /\ (Holding(u)' <=> Holding(u))
  BY DEF Refreshes, Holding, Alone
<1>3. CASE refresh.holder = None
  <2>1. refresh' = [refresh EXCEPT !.holder = t] /\ q = <<>>
    BY <1>0, <1>3 DEF AskRefresh, RefreshSound
  <2>2. refresh'.holder = t /\ refresh'.queue = <<>>
        /\ refresh' \in [holder : Tasks \cup {None}, queue : Seq(Tasks)]
    BY <1>0, <2>1 DEF RefreshSound
  <2>3. \A u : ~ InLine(u) /\ ~ InLine(u)'
    BY <2>1, <2>2 DEF InLine
  <2>4. RefreshSound'
    BY <2>2, <2>3, TasksAssumption DEF RefreshSound, InLine
  <2> QED
    BY <1>2, <1>3, <2>2, <2>3, <2>4, TasksAssumption DEF RefreshOK
<1>4. CASE refresh.holder # None
  <2> DEFINE s == Append(q, t)
  <2>1. refresh' = [refresh EXCEPT !.queue = s]
    BY <1>4 DEF AskRefresh
  <2>2. /\ s \in Seq(Tasks) /\ Len(s) = Len(q) + 1 /\ \A k \in 1..Len(q) : s[k] = q[k]
        /\ s[Len(q) + 1] = t
    BY <1>0
  <2> HIDE DEF s
  <2>3. refresh'.holder = refresh.holder /\ refresh'.queue = s
        /\ refresh' \in [holder : Tasks \cup {None}, queue : Seq(Tasks)]
    BY <1>0, <2>1, <2>2 DEF RefreshSound
  <2>4. \A u : InLine(u)' <=> InLine(u) \/ u = t
    <3>1. \A k \in 1..Len(s) : k \in 1..Len(q) \/ k = Len(q) + 1
      BY <1>0, <2>2
    <3>2. Len(q) + 1 \in 1..Len(s) /\ \A k \in 1..Len(q) : k \in 1..Len(s)
      BY <1>0, <2>2
    <3>3. \A u : (\E k \in 1..Len(s) : s[k] = u) <=> (\E k \in 1..Len(q) : q[k] = u) \/ u = t
      BY <2>2, <3>1, <3>2
    <3> QED
      BY <2>3, <3>3 DEF InLine
  <2>5. \A k, l \in 1..Len(s) : s[k] = s[l] => k = l
    <3> SUFFICES ASSUME NEW k \in 1..Len(s), NEW l \in 1..Len(s), s[k] = s[l]
                 PROVE  k = l
      OBVIOUS
    <3>1. k \in 1..Len(q) \/ k = Len(q) + 1
      BY <1>0, <2>2
    <3>2. l \in 1..Len(q) \/ l = Len(q) + 1
      BY <1>0, <2>2
    <3>3. \A j \in 1..Len(q) : q[j] # t
      BY <1>0 DEF InLine
    <3> QED
      BY <1>0, <2>2, <3>1, <3>2, <3>3 DEF RefreshSound
  <2>6. RefreshSound'
    BY <1>0, <1>4, <2>3, <2>4, <2>5 DEF RefreshSound
  <2> QED
    BY <1>0, <1>2, <2>3, <2>4, <2>6 DEF RefreshOK
<1> QED
  BY <1>3, <1>4

LEMMA RefreshLeaves ==
  ASSUME RefreshOK, NEW t \in Tasks, Alone(t), refresh.holder = t, LeaveRefresh, ~ Refreshes(t)'
  PROVE  RefreshOK'
<1> DEFINE q == refresh.queue
<1>0. q \in Seq(Tasks) /\ Len(q) \in Nat /\ ~ InLine(t) /\ RefreshSound
  BY DEF RefreshOK, RefreshSound
<1>1. \A u \in Tasks \ {t} : ~ Holding(u)
  BY DEF RefreshOK
<1>2. \A u \in Tasks \ {t} : (Refreshes(u)' <=> Refreshes(u)) /\ (Holding(u)' <=> Holding(u))
  BY DEF Refreshes, Holding, Alone
<1>3. ~ Holding(t)'
  BY DEF Refreshes
<1>4. CASE q = <<>>
  <2>1. refresh'.holder = None /\ refresh'.queue = <<>>
        /\ refresh' \in [holder : Tasks \cup {None}, queue : Seq(Tasks)]
    BY <1>0, <1>4 DEF LeaveRefresh, RefreshSound
  <2>2. \A u : ~ InLine(u) /\ ~ InLine(u)'
    BY <1>4, <2>1 DEF InLine
  <2>3. RefreshSound'
    BY <2>1, <2>2 DEF RefreshSound, InLine
  <2> QED
    BY <1>1, <1>2, <1>3, <2>1, <2>2, <2>3, TasksAssumption DEF RefreshOK
<1>5. CASE q # <<>>
  <2> DEFINE s == Tail(q)
             next == Head(q)
  <2>1. refresh' = [holder |-> next, queue |-> s]
    BY <1>5 DEF LeaveRefresh
  <2>2. /\ s \in Seq(Tasks) /\ Len(s) = Len(q) - 1 /\ \A k \in 1..Len(s) : s[k] = q[k + 1]
        /\ next = q[1] /\ 1 \in 1..Len(q) /\ next \in Tasks
    BY <1>0, <1>5
  <2> HIDE DEF s, next
  <2>3. refresh'.holder = next /\ refresh'.queue = s
        /\ refresh' \in [holder : Tasks \cup {None}, queue : Seq(Tasks)]
    BY <2>1, <2>2
  <2>4. \A k, l \in 1..Len(q) : q[k] = q[l] => k = l
    BY <1>0 DEF RefreshSound
  <2>5. \A k \in 1..Len(s) : k + 1 \in 1..Len(q) /\ k + 1 # 1
    BY <1>0, <2>2
  <2>6. \A k, l \in 1..Len(s) : s[k] = s[l] => k = l
    BY <1>0, <2>2, <2>4, <2>5
  <2>7. \A u : InLine(u) <=> InLine(u)' \/ u = next
    <3>1. \A k \in 1..Len(q) : k = 1 \/ (k - 1 \in 1..Len(s) /\ (k - 1) + 1 = k)
      BY <1>0, <2>2
    <3>2. \A u : (\E k \in 1..Len(q) : q[k] = u) => (\E k \in 1..Len(s) : s[k] = u) \/ u = next
      <4> SUFFICES ASSUME NEW k \in 1..Len(q), q[k] # next
                   PROVE  \E j \in 1..Len(s) : s[j] = q[k]
        OBVIOUS
      <4>1. k - 1 \in 1..Len(s) /\ (k - 1) + 1 = k
        BY <2>2, <3>1
      <4> QED
        BY <2>2, <4>1
    <3>3. \A u : (\E k \in 1..Len(s) : s[k] = u) \/ u = next => \E k \in 1..Len(q) : q[k] = u
      BY <2>2, <2>5
    <3> QED
      BY <2>3, <3>2, <3>3 DEF InLine
  <2>8. ~ InLine(refresh.holder)'
    <3>1. \A k \in 1..Len(s) : s[k] # next
      BY <2>2, <2>4, <2>5
    <3> QED
      BY <2>3, <3>1 DEF InLine
  <2>9. next # t
    BY <1>0, <2>2 DEF InLine
  <2>10. RefreshSound'
    BY <2>2, <2>3, <2>6, <2>8, TasksAssumption DEF RefreshSound
  <2> QED
    BY <1>0, <1>1, <1>2, <1>3, <2>3, <2>7, <2>9, <2>10 DEF RefreshOK
<1> QED
  BY <1>4, <1>5
LEMMA FlatMoves ==
  ASSUME WritesAreFlat, NEW t \in Tasks, Alone(t),
         task'[t].pc \in {"lock", "project", "publish", "published"}
           => task'[t].kind = "write" /\ ~ task'[t].nested,
         task'[t].pc \in {"lock", "project"} => task'[t].sure,
         task'[t].pc = "idle" => ~ task'[t].nested
  PROVE  WritesAreFlat'
BY DEF WritesAreFlat, Alone

LEMMA LocksInit == Init => LocksOK
<1> SUFFICES ASSUME Init PROVE LocksOK
  OBVIOUS
<1>1. /\ inner = [readers |-> [t \in Tasks |-> 0], writer |-> None, queue |-> <<>>]
      /\ refresh = [holder |-> None, queue |-> <<>>] /\ \A t \in Tasks : task[t] = Idle
  BY DEF Init
<1>2. \A t \in Tasks : task[t].pc = "idle" /\ ~ task[t].nested
  <2>1. Idle.pc = "idle" /\ ~ Idle.nested
    BY DEF Idle
  <2> QED
    BY <1>1, <2>1
<1>3. inner.queue = <<>> /\ inner.writer = None /\ \A t \in Tasks : inner.readers[t] = 0
  BY <1>1
<1>4. InnerSound(inner)
  BY <1>1, <1>3 DEF InnerSound, InnerType, Once, Exclusive
<1>5. \A t \in Tasks : Claimed(inner, t, 0, "nothing")
  <2>1. \A t, m : ~ Queued(inner.queue, t, m)
    BY <1>3 DEF Queued
  <2>2. 0 + 0 = 0 /\ \A t \in Tasks : inner.readers[t] = 0
    BY ONLY <1>3
  <2>3. \A t \in Tasks : inner.writer # t
    BY <1>3, TasksAssumption
  <2> QED
    BY ONLY <2>1, <2>2, <2>3 DEF Claimed
<1>6. \A t \in Tasks : Held(t) = 0 /\ Want(t) = "nothing"
  BY <1>2 DEF Held, Want
<1>7. RefreshOK
  BY <1>1, <1>2, TasksAssumption DEF RefreshOK, RefreshSound, InLine, Refreshes, Holding
<1>8. WritesAreFlat
  BY <1>2 DEF WritesAreFlat
<1> QED
  BY <1>4, <1>5, <1>6, <1>7, <1>8 DEF LocksOK, InnerOK


(* prepare_cached_read. *)
LEMMA LocksRefresh ==
  ASSUME Types, LocksOK, NEW t \in Tasks,
         \/ Check(t) \/ Recheck(t) \/ CannotRefresh(t) \/ Replace(t) \/ Stamp(t) \/ Generation(t)
         \/ Reconcile(t) \/ Enter(t)
  PROVE  LocksOK'
<1>0. InnerOK /\ RefreshOK /\ WritesAreFlat
  BY DEF LocksOK
<1>1. CASE Check(t)
  <2>1. Goes(t, IF Newer THEN "recheck" ELSE "enter") /\ task[t].pc = "check"
    BY <1>1, Moves DEF Check, At
  <2>2. /\ Alone(t) /\ task'[t].nested = task[t].nested
        /\ task'[t].pc = IF Newer THEN "recheck" ELSE "enter"
    BY <2>1 DEF Goes, Moved, Alone
  <2>3. InnerOK'
    BY <1>0, <1>1, <2>1, <2>2, InnerStays DEF Check, Held, Want
  <2>4. ASSUME Newer PROVE RefreshOK'
    BY <1>0, <1>1, <2>1, <2>2, <2>4, RefreshAsks DEF Check, Refreshes, Holding
  <2>5. ASSUME ~ Newer PROVE RefreshOK'
    BY <1>0, <1>1, <2>1, <2>2, <2>5, RefreshStays DEF Check, Refreshes, Holding
  <2>6. WritesAreFlat'
    BY <1>0, <2>2, FlatMoves
  <2> QED
    BY <2>3, <2>4, <2>5, <2>6 DEF LocksOK
<1>2. CASE Recheck(t)
  <2>0. task[t].pc = "recheck" /\ refresh.holder = t
    BY <1>2 DEF Recheck, At
  <2>1. CASE Newer
    <3>1. /\ Alone(t) /\ task'[t].nested = task[t].nested /\ task'[t].pc = "replace"
          /\ AskInner(t, "write") /\ UNCHANGED refresh
      BY <1>2, <2>1, Moves DEF Recheck, Moved, Alone
    <3>2. InnerOK'
      BY <1>0, <2>0, <3>1, InnerAsks DEF Held, Want
    <3>3. RefreshOK'
      BY <1>0, <2>0, <3>1, RefreshStays DEF Refreshes, Holding
    <3> QED
      BY <1>0, <3>1, <3>2, <3>3, FlatMoves DEF LocksOK
  <2>2. CASE ~ Newer
    <3>1. /\ Alone(t) /\ task'[t].nested = task[t].nested /\ task'[t].pc = "enter"
          /\ UNCHANGED inner /\ LeaveRefresh
      BY <1>2, <2>2, Moves DEF Recheck, Goes, Moved, Alone
    <3>2. InnerOK'
      BY <1>0, <2>0, <3>1, InnerStays DEF Held, Want
    <3>3. RefreshOK'
      BY <1>0, <2>0, <3>1, RefreshLeaves DEF Refreshes, Holding
    <3> QED
      BY <1>0, <3>1, <3>2, <3>3, FlatMoves DEF LocksOK
  <2> QED
    BY <2>1, <2>2
<1>3. CASE CannotRefresh(t)
  <2>1. /\ Alone(t) /\ task'[t].nested = task[t].nested /\ task'[t].pc = "enter"
        /\ UNCHANGED inner /\ task[t].pc \in {"check", "recheck"}
    BY <1>3, Moves DEF CannotRefresh, At, Moved, Alone
  <2>2. InnerOK'
    BY <1>0, <2>1, InnerStays DEF Held, Want
  <2>3. ASSUME task[t].pc = "recheck" PROVE RefreshOK'
    <3>1. refresh.holder = t /\ LeaveRefresh
      BY <1>3, <2>3 DEF CannotRefresh, At
    <3> QED
      BY <1>0, <2>1, <2>3, <3>1, RefreshLeaves DEF Refreshes, Holding
  <2>4. ASSUME task[t].pc = "check" PROVE RefreshOK'
    <3>1. UNCHANGED refresh
      BY <1>3, <2>4 DEF CannotRefresh, At
    <3> QED
      BY <1>0, <2>1, <2>4, <3>1, RefreshStays DEF Refreshes, Holding
  <2>5. WritesAreFlat'
    BY <1>0, <2>1, FlatMoves
  <2> QED
    BY <2>1, <2>2, <2>3, <2>4, <2>5 DEF LocksOK
<1>4. CASE Replace(t)
  <2>1. Goes(t, "stamp")
    BY <1>4, Moves DEF Replace
  <2>2. task[t].pc = "replace" /\ task'[t].pc = "stamp"
    BY <1>4, <2>1 DEF Replace, At, Goes, Moved
  <2>3. Alone(t) /\ task'[t].nested = task[t].nested /\ task'[t].kind = task[t].kind
    BY <2>1 DEF Goes, Moved, Alone
  <2>4. InnerOK'
    BY <1>0, <1>4, <2>2, <2>3, InnerLeavesWrite DEF Replace, Held, Want
  <2>5. RefreshOK'
    BY <1>0, <1>4, <2>2, <2>3, RefreshStays DEF Replace, Refreshes, Holding
  <2>6. WritesAreFlat'
    BY <1>0, <2>2, <2>3, FlatMoves DEF WritesAreFlat
  <2> QED
    BY <2>4, <2>5, <2>6 DEF LocksOK
<1>5. CASE Stamp(t)
  <2>1. Goes(t, "generation")
    BY <1>5, Moves DEF Stamp
  <2>2. task[t].pc = "stamp" /\ task'[t].pc = "generation"
    BY <1>5, <2>1 DEF Stamp, At, Goes, Moved
  <2>3. Alone(t) /\ task'[t].nested = task[t].nested /\ task'[t].kind = task[t].kind
    BY <2>1 DEF Goes, Moved, Alone
  <2>4. InnerOK'
    BY <1>0, <1>5, <2>2, <2>3, InnerStays DEF Stamp, Held, Want
  <2>5. RefreshOK'
    BY <1>0, <1>5, <2>2, <2>3, RefreshStays DEF Stamp, Refreshes, Holding
  <2>6. WritesAreFlat'
    BY <1>0, <2>2, <2>3, FlatMoves DEF WritesAreFlat
  <2> QED
    BY <2>4, <2>5, <2>6 DEF LocksOK
<1>6. CASE Generation(t)
  <2>1. Goes(t, "reconcile")
    BY <1>6, Moves DEF Generation
  <2>2. task[t].pc = "generation" /\ task'[t].pc = "reconcile"
    BY <1>6, <2>1 DEF Generation, At, Goes, Moved
  <2>3. Alone(t) /\ task'[t].nested = task[t].nested /\ task'[t].kind = task[t].kind
    BY <2>1 DEF Goes, Moved, Alone
  <2>4. InnerOK'
    BY <1>0, <1>6, <2>2, <2>3, InnerAsks DEF Generation, Held, Want
  <2>5. RefreshOK'
    BY <1>0, <1>6, <2>2, <2>3, RefreshStays DEF Generation, Refreshes, Holding
  <2>6. WritesAreFlat'
    BY <1>0, <2>2, <2>3, FlatMoves DEF WritesAreFlat
  <2> QED
    BY <2>4, <2>5, <2>6 DEF LocksOK
<1>7. CASE Reconcile(t)
  <2>1. Goes(t, "enter")
    BY <1>7, Moves
  <2>2. task[t].pc = "reconcile" /\ task'[t].pc = "enter"
    BY <1>7, <2>1 DEF Reconcile, At, Goes, Moved
  <2>3. Alone(t) /\ task'[t].nested = task[t].nested /\ task'[t].kind = task[t].kind
    BY <2>1 DEF Goes, Moved, Alone
  <2>4. InnerOK'
    BY <1>0, <1>7, <2>2, <2>3, InnerLeavesRead DEF Reconcile, Held, Want
  <2>5. refresh.holder = t
    BY <1>0, <2>2 DEF RefreshOK, Holding
  <2>6. RefreshOK'
    BY <1>0, <1>7, <2>2, <2>3, <2>5, RefreshLeaves DEF Reconcile, Refreshes, Holding
  <2>7. WritesAreFlat'
    BY <1>0, <2>2, <2>3, FlatMoves
  <2> QED
    BY <2>4, <2>6, <2>7 DEF LocksOK
<1>8. CASE Enter(t)
  <2>1. Goes(t, "serve")
    BY <1>8, Moves DEF Enter
  <2>2. task[t].pc = "enter" /\ task'[t].pc = "serve"
    BY <1>8, <2>1 DEF Enter, At, Goes, Moved
  <2>3. Alone(t) /\ task'[t].nested = task[t].nested /\ task'[t].kind = task[t].kind
    BY <2>1 DEF Goes, Moved, Alone
  <2>4. InnerOK'
    BY <1>0, <1>8, <2>2, <2>3, InnerAsks DEF Enter, Held, Want
  <2>5. RefreshOK'
    BY <1>0, <1>8, <2>2, <2>3, RefreshStays DEF Enter, Refreshes, Holding
  <2>6. WritesAreFlat'
    BY <1>0, <2>2, <2>3, FlatMoves DEF WritesAreFlat
  <2> QED
    BY <2>4, <2>5, <2>6 DEF LocksOK
<1> QED
  BY <1>1, <1>2, <1>3, <1>4, <1>5, <1>6, <1>7, <1>8

(* The answers. *)
LEMMA LocksAnswer ==
  ASSUME Types, LocksOK, NEW t \in Tasks,
         Rank(t) \/ RankMemory(t) \/ Serve(t) \/ Provider(t) \/ Assemble(t) \/ Reply(t)
  PROVE  LocksOK'
<1>0. InnerOK /\ RefreshOK /\ WritesAreFlat
  BY DEF LocksOK
<1>1. CASE Rank(t)
  <2>1. task[t].pc = "rank" /\ UNCHANGED refresh
    BY <1>1 DEF Rank, At
  <2>2. \/ UNCHANGED inner /\ task'[t].pc = "check"
        \/ AskInner(t, "read") /\ task'[t].pc = "rankMemory"
    BY <1>1, Branches DEF Goes, Moved
  <2>3. Alone(t) /\ task'[t].nested = task[t].nested
    BY <1>1, Branches DEF Goes, Moved, Alone
  <2>4. ASSUME UNCHANGED inner, task'[t].pc = "check" PROVE InnerOK'
    BY <1>0, <2>1, <2>3, <2>4, InnerStays DEF Held, Want
  <2>5. ASSUME AskInner(t, "read"), task'[t].pc = "rankMemory" PROVE InnerOK'
    BY <1>0, <2>1, <2>3, <2>5, InnerAsks DEF Held, Want
  <2>6. RefreshOK' /\ WritesAreFlat'
    BY <1>0, <2>1, <2>2, <2>3, RefreshStays, FlatMoves DEF Refreshes, Holding
  <2> QED
    BY <2>2, <2>4, <2>5, <2>6 DEF LocksOK
<1>2. CASE RankMemory(t)
  <2>1. Goes(t, "check")
    BY <1>2, Moves DEF RankMemory
  <2>2. task[t].pc = "rankMemory" /\ task'[t].pc = "check"
    BY <1>2, <2>1 DEF RankMemory, At, Goes, Moved
  <2>3. Alone(t) /\ task'[t].nested = task[t].nested /\ task'[t].kind = task[t].kind
    BY <2>1 DEF Goes, Moved, Alone
  <2>4. InnerOK'
    BY <1>0, <1>2, <2>2, <2>3, InnerLeavesRead DEF RankMemory, Held, Want
  <2>5. RefreshOK'
    BY <1>0, <1>2, <2>2, <2>3, RefreshStays DEF RankMemory, Refreshes, Holding
  <2>6. WritesAreFlat'
    BY <1>0, <2>2, <2>3, FlatMoves DEF WritesAreFlat
  <2> QED
    BY <2>4, <2>5, <2>6 DEF LocksOK
<1>3. CASE Serve(t)
  <2>1. task[t].pc = "serve" /\ Reads(t) /\ UNCHANGED refresh
    BY <1>3 DEF Serve, At
  <2>2. \/ task[t].nested /\ LeaveInner(t, "read") /\ task'[t].pc = "assemble"
        \/ ~ task[t].nested /\ LeaveInner(t, "read") /\ task'[t].pc = "done"
        \/ ~ task[t].nested /\ UNCHANGED inner /\ task'[t].pc = "provider"
    BY <1>3, Branches DEF Goes, Moved
  <2>3. Alone(t) /\ task'[t].nested = task[t].nested
    BY <1>3, Branches DEF Goes, Moved, Alone
  <2>4. ASSUME task[t].nested, LeaveInner(t, "read"), task'[t].pc = "assemble" PROVE InnerOK'
    BY <1>0, <2>1, <2>3, <2>4, InnerLeavesRead DEF Held, Want
  <2>5. ASSUME ~ task[t].nested, LeaveInner(t, "read"), task'[t].pc = "done" PROVE InnerOK'
    BY <1>0, <2>1, <2>3, <2>5, InnerLeavesRead DEF Held, Want
  <2>6. ASSUME ~ task[t].nested, UNCHANGED inner, task'[t].pc = "provider" PROVE InnerOK'
    BY <1>0, <2>1, <2>3, <2>6, InnerHolds DEF Held, Want
  <2>7. RefreshOK' /\ WritesAreFlat'
    BY <1>0, <2>1, <2>2, <2>3, RefreshStays, FlatMoves DEF Refreshes, Holding
  <2> QED
    BY <2>2, <2>4, <2>5, <2>6, <2>7 DEF LocksOK
<1>4. CASE Provider(t)
  <2>1. task[t].pc = "provider" /\ UNCHANGED <<inner, refresh>>
    BY <1>4 DEF Provider, At
  <2>2. /\ Alone(t)
        /\ \/ task'[t].nested /\ task'[t].pc = "rank"
           \/ task'[t].pc = "assemble"
    BY <1>4, Branches DEF Goes, Moved, Alone
  <2>3. InnerOK'
    BY <1>0, <2>1, <2>2, InnerStays DEF Held, Want
  <2>4. RefreshOK' /\ WritesAreFlat'
    BY <1>0, <2>1, <2>2, RefreshStays, FlatMoves DEF Refreshes, Holding
  <2> QED
    BY <2>3, <2>4 DEF LocksOK
<1>5. CASE Assemble(t)
  <2>1. task[t].pc = "assemble" /\ UNCHANGED refresh /\ LeaveInner(t, "read")
    BY <1>5 DEF Assemble, At
  <2>2. Alone(t) /\ task'[t].pc = "done"
    BY <1>5, Moves DEF Moved, Alone
  <2>3. InnerOK'
    BY <1>0, <2>1, <2>2, InnerReleases DEF Held, Want
  <2>4. RefreshOK' /\ WritesAreFlat'
    BY <1>0, <2>1, <2>2, RefreshStays, FlatMoves DEF Refreshes, Holding
  <2> QED
    BY <2>3, <2>4 DEF LocksOK
<1>6. CASE Reply(t)
  <2>1. task[t].pc = "done" /\ UNCHANGED <<inner, refresh>>
    BY <1>6 DEF Reply, At
  <2>2. Alone(t) /\ task'[t].pc = "idle" /\ ~ task'[t].nested
    BY <1>6, ReplyMoves DEF Alone, Idle
  <2>3. InnerOK'
    BY <1>0, <2>1, <2>2, InnerStays DEF Held, Want
  <2>4. RefreshOK' /\ WritesAreFlat'
    BY <1>0, <2>1, <2>2, RefreshStays, FlatMoves DEF Refreshes, Holding
  <2> QED
    BY <2>3, <2>4 DEF LocksOK
<1> QED
  BY <1>1, <1>2, <1>3, <1>4, <1>5, <1>6

(* The writes. *)
LEMMA LocksWrite ==
  ASSUME Types, LocksOK, NEW t \in Tasks, Lock(t) \/ Project(t) \/ Publish(t) \/ Published(t)
  PROVE  LocksOK'
<1>0. InnerOK /\ RefreshOK /\ WritesAreFlat
  BY DEF LocksOK
<1>1. CASE Lock(t)
  <2>1. Goes(t, "project")
    BY <1>1, Moves DEF Lock
  <2>2. task[t].pc = "lock" /\ task'[t].pc = "project"
    BY <1>1, <2>1 DEF Lock, At, Goes, Moved
  <2>3. Alone(t) /\ task'[t].nested = task[t].nested /\ task'[t].kind = task[t].kind
        /\ task'[t].sure = task[t].sure
    BY <2>1 DEF Goes, Moved, Alone
  <2>4. InnerOK'
    BY <1>0, <1>1, <2>2, <2>3, InnerStays DEF Lock, Held, Want
  <2>5. RefreshOK'
    BY <1>0, <1>1, <2>2, <2>3, RefreshAsks DEF Lock, Refreshes, Holding
  <2>6. WritesAreFlat'
    BY <1>0, <2>2, <2>3, FlatMoves DEF WritesAreFlat
  <2> QED
    BY <2>4, <2>5, <2>6 DEF LocksOK
<1>2. CASE Project(t)
  <2>1. task[t].pc = "project" /\ refresh.holder = t /\ AskInner(t, "write") /\ UNCHANGED refresh
    BY <1>2 DEF Project, At
  <2>2. /\ Alone(t) /\ task'[t].pc = "publish" /\ task'[t].nested = task[t].nested
        /\ task'[t].kind = task[t].kind
    BY <1>2, Branches DEF Goes, Moved, Alone
  <2>3. InnerOK'
    BY <1>0, <2>1, <2>2, InnerAsks DEF Held, Want
  <2>4. RefreshOK'
    BY <1>0, <2>1, <2>2, RefreshStays DEF Refreshes, Holding
  <2>5. WritesAreFlat'
    BY <1>0, <2>1, <2>2, FlatMoves DEF WritesAreFlat
  <2> QED
    BY <2>3, <2>4, <2>5 DEF LocksOK
<1>3. CASE Publish(t)
  <2>1. Goes(t, "published")
    BY <1>3, Moves DEF Publish
  <2>2. task[t].pc = "publish" /\ task'[t].pc = "published"
    BY <1>3, <2>1 DEF Publish, At, Goes, Moved
  <2>3. Alone(t) /\ task'[t].nested = task[t].nested /\ task'[t].kind = task[t].kind
    BY <2>1 DEF Goes, Moved, Alone
  <2>4. InnerOK'
    BY <1>0, <1>3, <2>2, <2>3, InnerLeavesWrite DEF Publish, Held, Want
  <2>5. RefreshOK'
    BY <1>0, <1>3, <2>2, <2>3, RefreshStays DEF Publish, Refreshes, Holding
  <2>6. WritesAreFlat'
    BY <1>0, <2>2, <2>3, FlatMoves DEF WritesAreFlat
  <2> QED
    BY <2>4, <2>5, <2>6 DEF LocksOK
<1>4. CASE Published(t)
  <2>1. Goes(t, "done")
    BY <1>4, Moves
  <2>2. task[t].pc = "published" /\ task'[t].pc = "done"
    BY <1>4, <2>1 DEF Published, At, Goes, Moved
  <2>3. Alone(t) /\ task'[t].nested = task[t].nested /\ task'[t].kind = task[t].kind
    BY <2>1 DEF Goes, Moved, Alone
  <2>0. ~ task[t].nested /\ UNCHANGED inner
    BY <1>0, <1>4, <2>2 DEF Published, WritesAreFlat
  <2>4. InnerOK'
    BY <1>0, <2>0, <2>2, <2>3, InnerStays DEF Held, Want
  <2>5. refresh.holder = t
    BY <1>0, <2>2 DEF RefreshOK, Holding
  <2>6. RefreshOK'
    BY <1>0, <1>4, <2>2, <2>3, <2>5, RefreshLeaves DEF Published, Refreshes, Holding
  <2>7. WritesAreFlat'
    BY <1>0, <2>2, <2>3, FlatMoves
  <2> QED
    BY <2>4, <2>6, <2>7 DEF LocksOK
<1> QED
  BY <1>1, <1>2, <1>3, <1>4

LEMMA LocksStep == ASSUME Types, LocksOK, [Next]_vars PROVE LocksOK'
<1>0. InnerOK /\ RefreshOK /\ WritesAreFlat
  BY DEF LocksOK
<1>1. CASE UNCHANGED vars \/ Commit
  <2>1. UNCHANGED <<inner, refresh, task>>
    BY <1>1 DEF vars, Commit
  <2> QED
    BY <2>1 DEF LocksOK, InnerOK, Held, Want, RefreshOK, RefreshSound, InLine, Refreshes,
                Holding, WritesAreFlat
<1>2. ASSUME NEW t \in Tasks, NEW kind \in Kinds, Start(t, kind) PROVE LocksOK'
  <2>1. task[t].pc = "idle" /\ UNCHANGED <<inner, refresh>>
    BY <1>2 DEF Start, At
  <2>2. Entered(t, kind)
    BY <1>2, StartMovesIn
  <2>3. Alone(t) /\ ~ task'[t].nested /\ task'[t].pc \in {"lock", "rank", "check"}
        /\ (task'[t].pc = "lock" => task'[t].kind = "write") /\ task'[t].sure
    BY <2>2 DEF Entered, Alone
  <2>4. ~ task[t].nested
    BY <1>0, <2>1 DEF WritesAreFlat
  <2>5. InnerOK'
    BY <1>0, <2>1, <2>3, <2>4, InnerStays DEF Held, Want
  <2>6. RefreshOK' /\ WritesAreFlat'
    BY <1>0, <2>1, <2>3, RefreshStays, FlatMoves DEF Refreshes, Holding
  <2> QED
    BY <2>5, <2>6 DEF LocksOK
<1>3. ASSUME NEW t \in Tasks, Step(t) PROVE LocksOK'
  BY <1>3, LocksRefresh, LocksAnswer, LocksWrite DEF Step
<1> QED
  BY <1>1, <1>2, <1>3 DEF Next
-----------------------------------------------------------------------------
(* The data.  Every change of the rows counts one generation, and every     *)
(* stamp is a change of what the worker indexes.                            *)

Sum(rows) == rows.here + rows.there + rows.raw
Point(d) == d.gen = Sum(d.rows) /\ d.rows.there = d.stamp

Publishing(t) == task[t].pc = "publish" /\ task[t].sure

MemOK ==
  /\ Point(pg) /\ cache.gen <= pg.gen
  /\ cache.stamp <= mem.there /\ mem.there <= pg.rows.there /\ mem.raw <= pg.rows.raw
  /\ (\A t \in Tasks : ~ Publishing(t)) => pg.rows.here <= mem.here

(* What a handler under the refresh lock has loaded or written.             *)
SnapOK(t) ==
  task[t].pc \in {"replace", "stamp", "generation", "publish", "published"} =>
    /\ Point(task[t].snap) /\ task[t].snap.stamp <= pg.stamp
    /\ task[t].snap.rows.raw <= pg.rows.raw /\ task[t].snap.rows.here = pg.rows.here
    /\ cache.gen <= task[t].snap.gen /\ cache.stamp <= task[t].snap.stamp
    /\ task[t].pc \in {"publish", "published"} /\ task[t].sure => cache.gen < task[t].snap.gen
    /\ task[t].pc \in {"stamp", "generation"} => mem = task[t].snap.rows
    /\ task[t].pc = "generation" => cache.stamp = task[t].snap.stamp

(* What a handler that has passed the check may rely on.                    *)
Seen(t) == task[t].start.there <= cache.stamp /\ task[t].start.here <= mem.here

StartOK(t) ==
  /\ task[t].start.here <= pg.rows.here /\ task[t].start.there <= pg.rows.there
  /\ task[t].pc \in {"replace", "stamp"} => task[t].start.there <= task[t].snap.stamp
  /\ task[t].pc \in {"generation", "reconcile"} => task[t].start.there <= cache.stamp
  /\ task[t].pc \in {"enter", "serve", "provider", "assemble"} /\ task[t].sure => Seen(t)

DoneOK(t) ==
  task[t].pc = "done" /\ task[t].sure /\ task[t].kind # "write" =>
    task[t].start.here <= task[t].answer.here /\ task[t].start.there <= task[t].answer.there

TaskOK(t) == SnapOK(t) /\ StartOK(t) /\ DoneOK(t)

(* Without a failure the stored generation counts what the memory holds.    *)
Loading(t) == task[t].pc \in {"stamp", "generation"}
Storing(t) == task[t].pc = "published"

Counted ==
  faults = 0 =>
    /\ \A t \in Tasks : task[t].sure
    /\ mem.here <= pg.rows.here
    /\ \A t \in Tasks : task[t].pc = "publish" => mem.here + 1 = pg.rows.here
    /\ ~ cache.skips => \/ \E t \in Tasks : Loading(t)
                        \/ (\E t \in Tasks : Storing(t)) /\ Sum(mem) = cache.gen + 1
                        \/ (\A t \in Tasks : ~ Storing(t)) /\ Sum(mem) = cache.gen

DataOK == MemOK /\ (\A t \in Tasks : TaskOK(t)) /\ Counted

IInv == Types /\ LocksOK /\ DataOK

LEMMA Numbers ==
  ASSUME Types
  PROVE  /\ pg.gen \in Nat /\ pg.stamp \in Nat
         /\ pg.rows.here \in Nat /\ pg.rows.there \in Nat /\ pg.rows.raw \in Nat
         /\ mem.here \in Nat /\ mem.there \in Nat /\ mem.raw \in Nat
         /\ cache.gen \in Nat /\ cache.stamp \in Nat /\ faults \in Nat
BY BoundsAssumption DEF Types, Database, Rows

LEMMA TaskNumbers ==
  ASSUME Types, NEW t \in Tasks
  PROVE  /\ task[t].snap.gen \in Nat /\ task[t].snap.stamp \in Nat
         /\ task[t].snap.rows.here \in Nat /\ task[t].snap.rows.there \in Nat
         /\ task[t].snap.rows.raw \in Nat
         /\ task[t].start.here \in Nat /\ task[t].start.there \in Nat
         /\ task[t].answer.here \in Nat /\ task[t].answer.there \in Nat
BY DEF Types, Handler, Database, Rows

LEMMA OneHolder ==
  ASSUME LocksOK, NEW t \in Tasks, refresh.holder = t
  PROVE  \A u \in Tasks \ {t} : ~ Holding(u)
BY DEF LocksOK, RefreshOK

(* A step that leaves rows, memory and cache alone.                         *)
LEMMA Quiet ==
  ASSUME DataOK, NEW t \in Tasks, Alone(t), UNCHANGED <<pg, mem, cache>>,
         faults' = 0 => faults = 0 /\ task'[t].sure,
         task[t].pc \notin {"publish", "stamp", "generation", "published"},
         task'[t].pc \notin {"publish", "stamp", "generation", "published"},
         TaskOK(t)'
  PROVE  DataOK'
<1>1. ASSUME NEW u \in Tasks \ {t} PROVE TaskOK(u)'
  <2>1. task'[u] = task[u] /\ TaskOK(u)
    BY DEF Alone, DataOK
  <2> QED
    BY <2>1 DEF TaskOK, SnapOK, StartOK, DoneOK, Seen
<1>2. \A u \in Tasks : TaskOK(u)'
  BY <1>1
<1>3. ASSUME NEW u \in Tasks
      PROVE  /\ Publishing(u)' <=> Publishing(u)
             /\ Loading(u)' <=> Loading(u)
             /\ Storing(u)' <=> Storing(u)
             /\ task'[u].pc = "publish" <=> task[u].pc = "publish"
  <2>1. CASE u = t
    BY <2>1 DEF Publishing, Loading, Storing
  <2>2. CASE u # t
    <3>1. task'[u] = task[u]
      BY <2>2 DEF Alone
    <3> QED
      BY <3>1 DEF Publishing, Loading, Storing
  <2> QED
    BY <2>1, <2>2
<1>4. MemOK'
  BY <1>3 DEF DataOK, MemOK, Point, Sum
<1>5. Counted'
  <2> SUFFICES ASSUME faults' = 0 PROVE Counted'
    BY DEF Counted
  <2>1. faults = 0 /\ \A u \in Tasks : task'[u].sure
    BY DEF DataOK, Counted, Alone
  <2>2. /\ mem'.here <= pg'.rows.here
        /\ \A u \in Tasks : task'[u].pc = "publish" => mem'.here + 1 = pg'.rows.here
    BY <1>3, <2>1 DEF DataOK, Counted
  <2>3. Sum(mem)' = Sum(mem)
    BY DEF Sum
  <2>4. ~ cache'.skips => \/ \E u \in Tasks : Loading(u)'
                          \/ (\E u \in Tasks : Storing(u)') /\ Sum(mem)' = cache'.gen + 1
                          \/ (\A u \in Tasks : ~ Storing(u)') /\ Sum(mem)' = cache'.gen
    BY <1>3, <2>1, <2>3 DEF DataOK, Counted
  <2> QED
    BY <2>1, <2>2, <2>4 DEF Counted
<1> QED
  BY <1>2, <1>4, <1>5 DEF DataOK

(* What passes the check has seen the rows as they are.                     *)
LEMMA FreshIsSeen ==
  ASSUME IInv, NEW t \in Tasks, ~ Newer
  PROVE  Seen(t)
<1>1. ASSUME NEW u \in Tasks, Publishing(u) PROVE FALSE
  <2>1. /\ cache.gen < task[u].snap.gen /\ Point(task[u].snap) /\ Point(pg)
        /\ task[u].snap.stamp <= pg.stamp
        /\ task[u].snap.rows.raw <= pg.rows.raw /\ task[u].snap.rows.here = pg.rows.here
    BY <1>1 DEF IInv, DataOK, TaskOK, SnapOK, Publishing, MemOK
  <2>2. task[u].snap.gen <= pg.gen
    BY <2>1, Numbers, TaskNumbers DEF IInv, Point, Sum
  <2> QED
    BY <2>1, <2>2, Numbers, TaskNumbers DEF IInv, Newer
<1>2. pg.rows.here <= mem.here /\ pg.rows.there = pg.stamp /\ pg.stamp <= cache.stamp
  BY <1>1, Numbers DEF IInv, DataOK, MemOK, Point, Newer
<1>3. task[t].start.here <= pg.rows.here /\ task[t].start.there <= pg.rows.there
  BY DEF IInv, DataOK, TaskOK, StartOK
<1> QED
  BY <1>2, <1>3, Numbers, TaskNumbers DEF IInv, Seen

LEMMA DataCheck == ASSUME IInv, NEW t \in Tasks, Check(t) PROVE DataOK'
<1>0. /\ Types /\ DataOK /\ UNCHANGED <<pg, mem, cache, faults>> /\ task[t].pc = "check"
      /\ Goes(t, IF Newer THEN "recheck" ELSE "enter")
  BY Moves DEF Check, At, IInv
<1>1. /\ Alone(t) /\ task'[t].pc = IF Newer THEN "recheck" ELSE "enter"
      /\ task'[t].start = task[t].start /\ task'[t].sure = task[t].sure
  BY <1>0 DEF Goes, Moved, Alone
<1>2. ~ Newer => Seen(t)
  BY FreshIsSeen
<1>3. TaskOK(t)'
  BY <1>0, <1>1, <1>2 DEF DataOK, TaskOK, SnapOK, StartOK, DoneOK, Seen
<1>4. faults = 0 => task[t].sure
  BY <1>0 DEF DataOK, Counted
<1> QED
  BY <1>0, <1>1, <1>3, <1>4, Quiet

LEMMA DataRecheck == ASSUME IInv, NEW t \in Tasks, Recheck(t) PROVE DataOK'
<1>0. /\ Types /\ DataOK /\ UNCHANGED <<pg, mem, cache, faults>> /\ task[t].pc = "recheck"
  BY DEF Recheck, At, IInv
<1>4. faults = 0 => task[t].sure
  BY <1>0 DEF DataOK, Counted
<1>1. CASE Newer
  <2>1. Moved(t, "replace", task[t].nested, pg, task[t].start, task[t].sure, task[t].answer)
    BY <1>0, <1>1, Moves
  <2>2. /\ Alone(t) /\ task'[t].pc = "replace" /\ task'[t].snap = pg
        /\ task'[t].start = task[t].start /\ task'[t].sure = task[t].sure
    BY <2>1 DEF Moved, Alone
  <2>3. cache.gen <= pg.gen /\ cache.stamp <= pg.stamp /\ Point(pg) /\ task[t].start.there <= pg.stamp
    BY <1>0, Numbers, TaskNumbers DEF DataOK, MemOK, Point, TaskOK, StartOK
  <2>4. TaskOK(t)'
    <3>1. SnapOK(t)'
      BY <1>0, <2>2, <2>3, Numbers DEF SnapOK, Point, Sum
    <3>2. StartOK(t)'
      BY <1>0, <2>2, <2>3 DEF DataOK, TaskOK, StartOK
    <3> QED
      BY <2>2, <3>1, <3>2 DEF TaskOK, DoneOK
  <2> QED
    BY <1>0, <1>4, <2>2, <2>4, Quiet
<1>2. CASE ~ Newer
  <2>1. Goes(t, "enter")
    BY <1>0, <1>2, Moves
  <2>2. /\ Alone(t) /\ task'[t].pc = "enter"
        /\ task'[t].start = task[t].start /\ task'[t].sure = task[t].sure
    BY <2>1 DEF Goes, Moved, Alone
  <2>3. Seen(t)
    BY <1>2, FreshIsSeen
  <2>4. TaskOK(t)'
    BY <1>0, <2>2, <2>3 DEF DataOK, TaskOK, SnapOK, StartOK, DoneOK, Seen
  <2> QED
    BY <1>0, <1>4, <2>2, <2>4, Quiet
<1> QED
  BY <1>1, <1>2

LEMMA DataCannotRefresh == ASSUME IInv, NEW t \in Tasks, CannotRefresh(t) PROVE DataOK'
<1>0. /\ Types /\ DataOK /\ UNCHANGED <<pg, mem, cache>> /\ task[t].pc \in {"check", "recheck"}
      /\ faults' = faults + 1 /\ faults \in Nat
  BY Numbers DEF CannotRefresh, Fault, At, IInv
<1>1. /\ Alone(t) /\ task'[t].pc = "enter" /\ task'[t].start = task[t].start /\ ~ task'[t].sure
  BY <1>0, Moves DEF Moved, Alone
<1>3. TaskOK(t)'
  BY <1>0, <1>1 DEF DataOK, TaskOK, SnapOK, StartOK, DoneOK
<1> QED
  BY <1>0, <1>1, <1>3, Quiet

LEMMA DataReconcile == ASSUME IInv, NEW t \in Tasks, Reconcile(t) PROVE DataOK'
<1>0. /\ Types /\ DataOK /\ UNCHANGED <<pg, mem, cache, faults>> /\ task[t].pc = "reconcile"
      /\ Goes(t, "enter")
  BY Moves DEF Reconcile, At, IInv
<1>1. /\ Alone(t) /\ task'[t].pc = "enter"
      /\ task'[t].start = task[t].start /\ task'[t].sure = task[t].sure
  BY <1>0 DEF Goes, Moved, Alone
<1>2. \A u \in Tasks : ~ Publishing(u)
  <2>1. refresh.holder = t
    BY <1>0 DEF IInv, LocksOK, RefreshOK, Holding
  <2>2. \A u \in Tasks \ {t} : ~ Holding(u)
    BY <2>1, OneHolder DEF IInv
  <2> QED
    BY <1>0, <2>2 DEF Publishing, Holding
<1>3. Seen(t)
  BY <1>0, <1>2, Numbers, TaskNumbers DEF DataOK, MemOK, TaskOK, StartOK, Seen
<1>4. TaskOK(t)'
  BY <1>0, <1>1, <1>3 DEF DataOK, TaskOK, SnapOK, StartOK, DoneOK, Seen
<1>5. faults = 0 => task[t].sure
  BY <1>0 DEF DataOK, Counted
<1> QED
  BY <1>0, <1>1, <1>4, <1>5, Quiet

(* The answers.                                                             *)
LEMMA DataAnswer ==
  ASSUME IInv, NEW t \in Tasks,
         \/ Enter(t) \/ Rank(t) \/ RankMemory(t) \/ Serve(t) \/ Provider(t) \/ Assemble(t)
         \/ Lock(t) \/ Reply(t)
  PROVE  DataOK'
<1>0. /\ Types /\ DataOK /\ TaskOK(t) /\ UNCHANGED <<pg, mem, cache>>
      /\ (faults = 0 => task[t].sure) /\ faults \in Nat
  BY Numbers DEF IInv, DataOK, Counted, Enter, Rank, RankMemory, Serve, Provider, Assemble, Lock,
     Reply
<1>1. ASSUME Seen(t) PROVE task[t].start.here <= mem.here /\ task[t].start.there <= mem.there
  BY <1>0, <1>1, Numbers, TaskNumbers DEF Seen, DataOK, MemOK
<1>2. CASE Enter(t)
  <2>1. task[t].pc = "enter" /\ task'[t].pc = "serve" /\ UNCHANGED faults /\ Goes(t, "serve")
    BY <1>0, <1>2, Moves DEF Enter, At, Goes, Moved
  <2>2. Alone(t) /\ TaskOK(t)' /\ task'[t].sure = task[t].sure
    BY <1>0, <2>1 DEF Goes, Moved, Alone, TaskOK, SnapOK, StartOK, DoneOK, Seen
  <2> QED
    BY <1>0, <2>1, <2>2, Quiet
<1>3. CASE Rank(t)
  <2>1. task[t].pc = "rank" /\ (UNCHANGED faults \/ faults' = faults + 1)
    BY <1>3 DEF Rank, At, Fault
  <2>2. /\ Alone(t) /\ task'[t].pc \in {"check", "rankMemory"} /\ task'[t].sure = task[t].sure
        /\ task'[t].start \in {task[t].start, pg.rows}
    BY <1>0, <1>3, Branches DEF Goes, Moved, Alone
  <2>3. TaskOK(t)'
    BY <1>0, <2>2, Numbers DEF TaskOK, SnapOK, StartOK, DoneOK
  <2> QED
    BY <1>0, <2>1, <2>2, <2>3, Quiet
<1>4. CASE RankMemory(t)
  <2>1. task[t].pc = "rankMemory" /\ UNCHANGED faults /\ Goes(t, "check")
    BY <1>0, <1>4, Moves DEF RankMemory, At
  <2>2. /\ Alone(t) /\ TaskOK(t)' /\ task'[t].sure = task[t].sure /\ task'[t].pc = "check"
    BY <1>0, <2>1 DEF Goes, Moved, Alone, TaskOK, SnapOK, StartOK, DoneOK
  <2> QED
    BY <1>0, <2>1, <2>2, Quiet
<1>5. CASE Serve(t)
  <2>1. task[t].pc = "serve" /\ UNCHANGED faults
    BY <1>5 DEF Serve, At
  <2>2. /\ Alone(t) /\ task'[t].sure = task[t].sure /\ task'[t].start = task[t].start
        /\ \/ task'[t].pc \in {"assemble", "provider"}
           \/ task'[t].pc = "done" /\ task'[t].answer = mem
    BY <1>0, <1>5, Branches DEF Goes, Moved, Alone
  <2>3. task[t].sure => Seen(t)
    BY <1>0, <2>1 DEF TaskOK, StartOK
  <2>4. TaskOK(t)'
    BY <1>0, <1>1, <2>1, <2>2, <2>3 DEF TaskOK, SnapOK, StartOK, DoneOK, Seen
  <2> QED
    BY <1>0, <2>1, <2>2, <2>4, Quiet
<1>6. CASE Provider(t)
  <2>1. task[t].pc = "provider" /\ UNCHANGED faults
    BY <1>6 DEF Provider, At
  <2>2. /\ Alone(t) /\ task'[t].sure = task[t].sure /\ task'[t].start = task[t].start
        /\ task'[t].pc \in {"assemble", "rank"}
    BY <1>0, <1>6, Branches DEF Goes, Moved, Alone
  <2>3. TaskOK(t)'
    BY <1>0, <2>1, <2>2 DEF TaskOK, SnapOK, StartOK, DoneOK, Seen
  <2> QED
    BY <1>0, <2>1, <2>2, <2>3, Quiet
<1>7. CASE Assemble(t)
  <2>1. task[t].pc = "assemble" /\ UNCHANGED faults
    BY <1>7 DEF Assemble, At
  <2>2. /\ Alone(t) /\ task'[t].sure = task[t].sure /\ task'[t].start = task[t].start
        /\ task'[t].pc = "done" /\ task'[t].answer = mem
    BY <1>0, <1>7, Moves DEF Moved, Alone
  <2>3. task[t].sure => Seen(t)
    BY <1>0, <2>1 DEF TaskOK, StartOK
  <2>4. TaskOK(t)'
    BY <1>0, <1>1, <2>1, <2>2, <2>3 DEF TaskOK, SnapOK, StartOK, DoneOK
  <2> QED
    BY <1>0, <2>1, <2>2, <2>4, Quiet
<1>8. CASE Lock(t)
  <2>1. task[t].pc = "lock" /\ UNCHANGED faults /\ Goes(t, "project")
    BY <1>0, <1>8, Moves DEF Lock, At
  <2>2. Alone(t) /\ TaskOK(t)' /\ task'[t].sure = task[t].sure /\ task'[t].pc = "project"
    BY <1>0, <2>1 DEF Goes, Moved, Alone, TaskOK, SnapOK, StartOK, DoneOK
  <2> QED
    BY <1>0, <2>1, <2>2, Quiet
<1>9. CASE Reply(t)
  <2>1. task[t].pc = "done" /\ UNCHANGED faults
    BY <1>9 DEF Reply, At
  <2>2. /\ Alone(t) /\ task'[t] = Idle
    BY <1>0, <1>9, ReplyMoves DEF Alone
  <2>3. /\ Idle.pc = "idle" /\ Idle.sure /\ Idle.start.here = 0 /\ Idle.start.there = 0
    BY DEF Idle, NoRows
  <2>4. TaskOK(t)'
    BY <1>0, <2>2, <2>3, Numbers DEF TaskOK, SnapOK, StartOK, DoneOK
  <2> QED
    BY <1>0, <2>1, <2>2, <2>3, <2>4, Quiet
<1> QED
  BY <1>2, <1>3, <1>4, <1>5, <1>6, <1>7, <1>8, <1>9
LEMMA DataInit == Init => DataOK
<1> SUFFICES ASSUME Init PROVE DataOK
  OBVIOUS
<1>1. /\ pg.gen = 0 /\ pg.stamp = 0 /\ pg.rows.here = 0 /\ pg.rows.there = 0 /\ pg.rows.raw = 0
      /\ mem.here = 0 /\ mem.there = 0 /\ mem.raw = 0 /\ cache.gen = 0 /\ cache.stamp = 0
  BY DEF Init, NoPg, NoRows
<1>2. ASSUME NEW t \in Tasks
      PROVE  task[t].pc = "idle" /\ task[t].sure /\ task[t].start.here = 0 /\ task[t].start.there = 0
  BY DEF Init, Idle, NoRows
<1>3. MemOK
  BY <1>1 DEF MemOK, Point, Sum
<1>4. ASSUME NEW t \in Tasks PROVE TaskOK(t)
  <2>1. SnapOK(t) /\ DoneOK(t)
    BY <1>2 DEF SnapOK, DoneOK
  <2>2. StartOK(t)
    BY <1>1, <1>2 DEF StartOK
  <2> QED
    BY <2>1, <2>2 DEF TaskOK
<1>5. Counted
  BY <1>1, <1>2 DEF Counted, Sum, Loading, Storing
<1> QED
  BY <1>3, <1>4, <1>5 DEF DataOK

(* The worker commits, and a request arrives.                               *)
LEMMA DataCommit == ASSUME IInv, Commit PROVE DataOK'
<1>0. Types /\ DataOK /\ UNCHANGED <<mem, cache, task, faults>>
  BY DEF IInv, Commit
<1>1. /\ pg'.gen = pg.gen + 1 /\ pg'.rows.here = pg.rows.here
      /\ \/ /\ pg'.stamp = pg.stamp + 1 /\ pg'.rows.there = pg.rows.there + 1
            /\ pg'.rows.raw = pg.rows.raw
         \/ /\ pg'.stamp = pg.stamp /\ pg'.rows.there = pg.rows.there
            /\ pg'.rows.raw = pg.rows.raw + 1
  BY <1>0 DEF Commit, Types, Database, Rows
<1>2. MemOK'
  <2>1. \A u \in Tasks : Publishing(u)' <=> Publishing(u)
    BY <1>0 DEF Publishing
  <2> QED
    BY <1>0, <1>1, <2>1, Numbers DEF DataOK, MemOK, Point, Sum
<1>3. ASSUME NEW u \in Tasks PROVE TaskOK(u)'
  <2>1. SnapOK(u)'
    BY <1>0, <1>1, Numbers, TaskNumbers DEF DataOK, TaskOK, SnapOK, Point, Sum
  <2>2. StartOK(u)'
    BY <1>0, <1>1, Numbers, TaskNumbers DEF DataOK, TaskOK, StartOK, Seen
  <2>3. DoneOK(u)'
    BY <1>0 DEF DataOK, TaskOK, DoneOK
  <2> QED
    BY <2>1, <2>2, <2>3 DEF TaskOK
<1>4. Counted'
  BY <1>0, <1>1 DEF DataOK, Counted, Loading, Storing, Sum
<1> QED
  BY <1>2, <1>3, <1>4 DEF DataOK

LEMMA DataStart ==
  ASSUME IInv, NEW t \in Tasks, NEW kind \in Kinds, Start(t, kind)
  PROVE  DataOK'
<1>0. Types /\ DataOK /\ UNCHANGED <<pg, mem, cache, faults>> /\ task[t].pc = "idle"
  BY DEF IInv, Start, At
<1>1. /\ Alone(t) /\ task'[t].pc \in {"lock", "rank", "check"} /\ task'[t].sure
      /\ task'[t].start = pg.rows
  BY <1>0, StartMovesIn DEF Entered, Alone
<1>2. TaskOK(t)'
  BY <1>0, <1>1, Numbers DEF TaskOK, SnapOK, StartOK, DoneOK
<1> QED
  BY <1>0, <1>1, <1>2, Quiet

-----------------------------------------------------------------------------
(* The holder of the refresh lock is the only one that changes the memory.  *)

LEMMA OthersWait ==
  ASSUME LocksOK, NEW t \in Tasks, refresh.holder = t, Alone(t), NEW u \in Tasks, u # t
  PROVE  /\ ~ Holding(u) /\ task'[u] = task[u]
         /\ ~ Publishing(u) /\ ~ Publishing(u)' /\ ~ Loading(u) /\ ~ Loading(u)'
         /\ ~ Storing(u) /\ ~ Storing(u)' /\ task[u].pc # "publish" /\ task'[u].pc # "publish"
<1>1. ~ Holding(u) /\ task'[u] = task[u]
  BY OneHolder DEF Alone
<1> QED
  BY <1>1 DEF Holding, Publishing, Loading, Storing

LEMMA OthersKeep ==
  ASSUME IInv, NEW t \in Tasks, refresh.holder = t, Alone(t),
         Types', pg.rows.here <= pg'.rows.here, pg.rows.there <= pg'.rows.there,
         mem.here <= mem'.here \/ pg.rows.here <= mem'.here, cache.stamp <= cache'.stamp
  PROVE  \A u \in Tasks \ {t} : TaskOK(u)'
<1> SUFFICES ASSUME NEW u \in Tasks \ {t} PROVE TaskOK(u)'
  OBVIOUS
<1>0. Types /\ LocksOK /\ TaskOK(u)
  BY DEF IInv, DataOK
<1>1. ~ Holding(u) /\ task'[u] = task[u]
  BY <1>0, OthersWait
<1>2. /\ mem'.here \in Nat /\ cache'.stamp \in Nat /\ pg'.rows.here \in Nat
      /\ pg'.rows.there \in Nat
  BY DEF Types, Database, Rows
<1>3. SnapOK(u)'
  BY <1>1 DEF SnapOK, Holding
<1>4. StartOK(u)'
  BY <1>0, <1>1, <1>2, Numbers, TaskNumbers DEF TaskOK, StartOK, Seen, Holding
<1>5. DoneOK(u)'
  BY <1>0, <1>1 DEF TaskOK, DoneOK
<1> QED
  BY <1>3, <1>4, <1>5 DEF TaskOK

(* What the holder's own step has to show.                                  *)
LEMMA HolderKeeps ==
  ASSUME IInv, NEW t \in Tasks, refresh.holder = t, Alone(t),
         Types', pg.rows.here <= pg'.rows.here, pg.rows.there <= pg'.rows.there,
         mem.here <= mem'.here \/ pg.rows.here <= mem'.here, cache.stamp <= cache'.stamp,
         TaskOK(t)',
         Point(pg)', cache'.gen <= pg'.gen, cache'.stamp <= mem'.there,
         mem'.there <= pg'.rows.there, mem'.raw <= pg'.rows.raw,
         Publishing(t)' \/ pg'.rows.here <= mem'.here,
         faults' = 0 =>
           /\ faults = 0 /\ task'[t].sure
           /\ mem'.here <= pg'.rows.here
           /\ task'[t].pc = "publish" => mem'.here + 1 = pg'.rows.here
           /\ ~ cache'.skips => \/ Loading(t)'
                                \/ Storing(t)' /\ Sum(mem)' = cache'.gen + 1
                                \/ ~ Storing(t)' /\ Sum(mem)' = cache'.gen
  PROVE  DataOK'
<1>1. \A u \in Tasks \ {t} : TaskOK(u)'
  BY OthersKeep
<1>2. \A u \in Tasks : TaskOK(u)'
  BY <1>1
<1>3. LocksOK /\ Counted
  BY DEF IInv, DataOK
<1>4. \A u \in Tasks \ {t} : ~ Publishing(u)' /\ ~ Loading(u)' /\ ~ Storing(u)'
                             /\ task'[u].pc # "publish" /\ task'[u] = task[u]
  BY <1>3, OthersWait
<1>5. MemOK'
  BY DEF MemOK
<1>6. Counted'
  <2> SUFFICES ASSUME faults' = 0 PROVE Counted'
    BY DEF Counted
  <2>1. \A u \in Tasks : task'[u].sure
    BY <1>3, <1>4 DEF Counted
  <2>2. \A u \in Tasks : task'[u].pc = "publish" => mem'.here + 1 = pg'.rows.here
    BY <1>4
  <2>3. ~ cache'.skips => \/ \E u \in Tasks : Loading(u)'
                          \/ (\E u \in Tasks : Storing(u)') /\ Sum(mem)' = cache'.gen + 1
                          \/ (\A u \in Tasks : ~ Storing(u)') /\ Sum(mem)' = cache'.gen
    BY <1>4
  <2> QED
    BY <2>1, <2>2, <2>3 DEF Counted
<1> QED
  BY <1>2, <1>5, <1>6 DEF DataOK
(* What the holder may rely on before its step.                             *)
LEMMA HolderHas ==
  ASSUME IInv, NEW t \in Tasks, Refreshes(t), refresh.holder = t
  PROVE  /\ Types /\ TaskOK(t) /\ MemOK
         /\ ~ Publishing(t) => pg.rows.here <= mem.here
         /\ faults = 0 =>
              /\ task[t].sure /\ mem.here <= pg.rows.here
              /\ task[t].pc = "publish" => mem.here + 1 = pg.rows.here
              /\ ~ cache.skips => \/ Loading(t)
                                  \/ Storing(t) /\ Sum(mem) = cache.gen + 1
                                  \/ ~ Storing(t) /\ Sum(mem) = cache.gen
<1>0. Types /\ LocksOK /\ TaskOK(t) /\ MemOK /\ Counted
  BY DEF IInv, DataOK
<1>1. \A u \in Tasks \ {t} : ~ Holding(u)
  BY <1>0, OneHolder
<1>2. \A u \in Tasks \ {t} : ~ Publishing(u) /\ ~ Loading(u) /\ ~ Storing(u)
  BY <1>1 DEF Holding, Publishing, Loading, Storing
<1>3. ~ Publishing(t) => pg.rows.here <= mem.here
  BY <1>0, <1>2 DEF MemOK
<1>4. ASSUME faults = 0
      PROVE  /\ task[t].sure /\ mem.here <= pg.rows.here
             /\ task[t].pc = "publish" => mem.here + 1 = pg.rows.here
  BY <1>0, <1>4 DEF Counted
<1>5. ASSUME faults = 0, ~ cache.skips
      PROVE  \/ Loading(t)
             \/ Storing(t) /\ Sum(mem) = cache.gen + 1
             \/ ~ Storing(t) /\ Sum(mem) = cache.gen
  BY <1>0, <1>2, <1>5 DEF Counted
<1> QED
  BY <1>0, <1>3, <1>4, <1>5

(* A snapshot of the same or older rows is no later than they are.          *)
LEMMA SnapIsPast ==
  ASSUME Types, Point(pg), NEW t \in Tasks, SnapOK(t),
         task[t].pc \in {"replace", "stamp", "generation", "publish", "published"}
  PROVE  task[t].snap.gen <= pg.gen /\ task[t].snap.rows.there <= pg.rows.there
<1>1. /\ Point(task[t].snap) /\ task[t].snap.stamp <= pg.stamp
      /\ task[t].snap.rows.raw <= pg.rows.raw /\ task[t].snap.rows.here = pg.rows.here
  BY DEF SnapOK
<1> QED
  BY <1>1, Numbers, TaskNumbers DEF Point, Sum

LEMMA DataReplace == ASSUME IInv, Types', NEW t \in Tasks, Replace(t) PROVE DataOK'
<1>0. /\ Types /\ task[t].pc = "replace" /\ UNCHANGED <<pg, cache, faults>>
      /\ mem' = task[t].snap.rows /\ Goes(t, "stamp")
  BY Moves DEF Replace, At, IInv
<1>1. /\ Alone(t) /\ task'[t].pc = "stamp" /\ task'[t].snap = task[t].snap
      /\ task'[t].start = task[t].start /\ task'[t].sure = task[t].sure
  BY <1>0 DEF Goes, Moved, Alone
<1>2. refresh.holder = t /\ Refreshes(t)
  BY <1>0 DEF IInv, LocksOK, RefreshOK, Holding, Refreshes
<1>3. TaskOK(t) /\ MemOK /\ (faults = 0 => task[t].sure)
  BY <1>2, HolderHas
<1>4. /\ Point(pg) /\ Point(task[t].snap) /\ task[t].snap.rows.here = pg.rows.here
      /\ task[t].snap.rows.raw <= pg.rows.raw /\ cache.stamp <= task[t].snap.stamp
      /\ cache.gen <= pg.gen
  BY <1>0, <1>3 DEF TaskOK, SnapOK, MemOK
<1>5. task[t].snap.rows.there <= pg.rows.there
  BY <1>0, <1>3, <1>4, SnapIsPast DEF TaskOK
<1>6. TaskOK(t)'
  <2>1. SnapOK(t)'
    BY <1>0, <1>1, <1>3 DEF TaskOK, SnapOK, Point, Sum
  <2>2. StartOK(t)'
    BY <1>0, <1>1, <1>3 DEF TaskOK, StartOK
  <2> QED
    BY <1>1, <2>1, <2>2 DEF TaskOK, DoneOK
<1>7. cache'.stamp <= mem'.there /\ Point(pg)'
  BY <1>0, <1>4 DEF Point, Sum
<1>8. pg.rows.here <= mem'.here /\ mem'.here <= pg'.rows.here /\ cache.stamp <= cache'.stamp
      /\ pg.rows.here <= pg'.rows.here /\ pg.rows.there <= pg'.rows.there
  BY <1>0, <1>4, Numbers
<1>9. Loading(t)' /\ task'[t].pc # "publish"
  BY <1>1 DEF Loading
<1> QED
  BY <1>0, <1>1, <1>2, <1>3, <1>4, <1>5, <1>6, <1>7, <1>8, <1>9, HolderKeeps

LEMMA DataStamp == ASSUME IInv, Types', NEW t \in Tasks, Stamp(t) PROVE DataOK'
<1>0. /\ Types /\ task[t].pc = "stamp" /\ UNCHANGED <<pg, mem, faults>> /\ Goes(t, "generation")
      /\ cache' = [cache EXCEPT !.stamp = task[t].snap.stamp]
  BY Moves DEF Stamp, At, IInv
<1>1. /\ Alone(t) /\ task'[t].pc = "generation" /\ task'[t].snap = task[t].snap
      /\ task'[t].start = task[t].start /\ task'[t].sure = task[t].sure
  BY <1>0 DEF Goes, Moved, Alone
<1>2. refresh.holder = t /\ Refreshes(t)
  BY <1>0 DEF IInv, LocksOK, RefreshOK, Holding, Refreshes
<1>3. TaskOK(t) /\ MemOK /\ (faults = 0 => task[t].sure)
  BY <1>2, HolderHas
<1>4. /\ Point(pg) /\ Point(task[t].snap) /\ mem = task[t].snap.rows
      /\ task[t].snap.rows.here = pg.rows.here /\ cache.stamp <= task[t].snap.stamp
      /\ cache.gen <= pg.gen /\ mem.there <= pg.rows.there /\ mem.raw <= pg.rows.raw
  BY <1>0, <1>3 DEF TaskOK, SnapOK, MemOK
<1>5. cache'.gen = cache.gen /\ cache'.stamp = task[t].snap.stamp
  BY <1>0 DEF Types
<1>6. TaskOK(t)'
  <2>1. SnapOK(t)'
    BY <1>0, <1>1, <1>3, <1>5, TaskNumbers DEF TaskOK, SnapOK, Point, Sum
  <2>2. StartOK(t)'
    BY <1>0, <1>1, <1>3, <1>5 DEF TaskOK, StartOK
  <2> QED
    BY <1>1, <2>1, <2>2 DEF TaskOK, DoneOK
<1>7. cache'.stamp <= mem'.there /\ Point(pg)'
  BY <1>0, <1>4, <1>5, TaskNumbers DEF Point, Sum
<1>8. mem.here <= mem'.here /\ mem'.here <= pg'.rows.here /\ pg'.rows.here <= mem'.here
      /\ cache.stamp <= cache'.stamp /\ cache'.gen <= pg'.gen
      /\ pg.rows.here <= pg'.rows.here /\ pg.rows.there <= pg'.rows.there
      /\ mem'.there <= pg'.rows.there /\ mem'.raw <= pg'.rows.raw
  BY <1>0, <1>4, <1>5, Numbers
<1>9. Loading(t)' /\ task'[t].pc # "publish"
  BY <1>1 DEF Loading
<1> QED
  BY <1>0, <1>1, <1>2, <1>3, <1>6, <1>7, <1>8, <1>9, HolderKeeps

LEMMA DataGeneration == ASSUME IInv, Types', NEW t \in Tasks, Generation(t) PROVE DataOK'
<1>0. /\ Types /\ task[t].pc = "generation" /\ UNCHANGED <<pg, mem, faults>>
      /\ Goes(t, "reconcile")
      /\ cache' = [cache EXCEPT !.gen = task[t].snap.gen, !.skips = FALSE]
  BY Moves DEF Generation, At, IInv
<1>1. /\ Alone(t) /\ task'[t].pc = "reconcile" /\ task'[t].start = task[t].start
      /\ task'[t].sure = task[t].sure
  BY <1>0 DEF Goes, Moved, Alone
<1>2. refresh.holder = t /\ Refreshes(t)
  BY <1>0 DEF IInv, LocksOK, RefreshOK, Holding, Refreshes
<1>3. TaskOK(t) /\ MemOK /\ (faults = 0 => task[t].sure)
  BY <1>2, HolderHas
<1>4. /\ Point(pg) /\ Point(task[t].snap) /\ mem = task[t].snap.rows
      /\ task[t].snap.rows.here = pg.rows.here /\ cache.stamp <= mem.there
      /\ mem.there <= pg.rows.there /\ mem.raw <= pg.rows.raw
  BY <1>0, <1>3 DEF TaskOK, SnapOK, MemOK
<1>5. cache'.gen = task[t].snap.gen /\ cache'.stamp = cache.stamp
  BY <1>0 DEF Types
<1>10. task[t].snap.gen <= pg.gen
  BY <1>0, <1>3, <1>4, SnapIsPast DEF TaskOK
<1>6. TaskOK(t)'
  <2>1. SnapOK(t)'
    BY <1>1 DEF SnapOK
  <2>2. StartOK(t)'
    BY <1>0, <1>1, <1>3, <1>5 DEF TaskOK, StartOK
  <2> QED
    BY <1>1, <2>1, <2>2 DEF TaskOK, DoneOK
<1>7. Point(pg)' /\ Sum(mem)' = cache'.gen
  BY <1>0, <1>4, <1>5 DEF Point, Sum
<1>8. mem.here <= mem'.here /\ mem'.here <= pg'.rows.here /\ pg'.rows.here <= mem'.here
      /\ cache.stamp <= cache'.stamp /\ cache'.gen <= pg'.gen /\ cache'.stamp <= mem'.there
      /\ pg.rows.here <= pg'.rows.here /\ pg.rows.there <= pg'.rows.there
      /\ mem'.there <= pg'.rows.there /\ mem'.raw <= pg'.rows.raw
  BY <1>0, <1>4, <1>5, <1>10, Numbers
<1>9. ~ Storing(t)' /\ task'[t].pc # "publish"
  BY <1>1 DEF Storing
<1> QED
  BY <1>0, <1>1, <1>2, <1>3, <1>6, <1>7, <1>8, <1>9, HolderKeeps
LEMMA DataProject == ASSUME IInv, Types', NEW t \in Tasks, Project(t) PROVE DataOK'
<1>0. /\ Types /\ task[t].pc = "project" /\ refresh.holder = t /\ UNCHANGED <<mem, cache>>
      /\ faults \in Nat /\ task[t].sure /\ Refreshes(t)
  BY Numbers DEF Project, At, IInv, LocksOK, WritesAreFlat, Refreshes
<1>1. /\ TaskOK(t) /\ MemOK /\ pg.rows.here <= mem.here
      /\ faults = 0 => mem.here <= pg.rows.here /\ (~ cache.skips => Sum(mem) = cache.gen)
  BY <1>0, HolderHas DEF Publishing, Loading, Storing
<1>2. /\ Point(pg) /\ cache.gen <= pg.gen /\ cache.stamp <= mem.there
      /\ mem.there <= pg.rows.there /\ mem.raw <= pg.rows.raw /\ cache.stamp <= pg.stamp
  BY <1>0, <1>1, Numbers DEF MemOK, Point
<1>3. CASE /\ pg' = WithContent([pg.rows EXCEPT !.here = @ + 1]) /\ UNCHANGED faults
           /\ Moved(t, "publish", task[t].nested, pg', task[t].start, task[t].sure, task[t].answer)
  <2>1. /\ pg'.gen = pg.gen + 1 /\ pg'.stamp = pg.stamp
        /\ pg'.rows.here = pg.rows.here + 1 /\ pg'.rows.there = pg.rows.there
        /\ pg'.rows.raw = pg.rows.raw
    BY <1>0, <1>3, ContentFacts
  <2>2. /\ Alone(t) /\ task'[t].pc = "publish" /\ task'[t].snap = pg'
        /\ task'[t].start = task[t].start /\ task'[t].sure
    BY <1>0, <1>3 DEF Moved, Alone
  <2>3. Point(pg)'
    BY <1>0, <1>2, <2>1, Numbers DEF Point, Sum
  <2>4. TaskOK(t)'
    <3>1. SnapOK(t)'
      <4>1. /\ Point(pg)' /\ pg'.stamp <= pg'.stamp /\ pg'.rows.raw <= pg'.rows.raw
            /\ cache'.gen < pg'.gen /\ cache'.stamp <= pg'.stamp
        BY <1>0, <1>2, <2>1, <2>3, Numbers
      <4>2. Point(pg') /\ cache'.gen <= pg'.gen
        BY <1>0, <4>1, <2>1, <1>2, Numbers DEF Point, Sum
      <4> QED
        BY <2>2, <4>1, <4>2 DEF SnapOK, Point, Sum
    <3>2. StartOK(t)'
      BY <1>0, <1>1, <2>1, <2>2, Numbers, TaskNumbers DEF TaskOK, StartOK
    <3> QED
      BY <2>2, <3>1, <3>2 DEF TaskOK, DoneOK
  <2>5. Publishing(t)' /\ ~ Storing(t)'
    BY <2>2 DEF Publishing, Storing
  <2>6. /\ pg.rows.here <= pg'.rows.here /\ pg.rows.there <= pg'.rows.there
        /\ mem.here <= mem'.here /\ cache.stamp <= cache'.stamp
        /\ cache'.gen <= pg'.gen /\ cache'.stamp <= mem'.there
        /\ mem'.there <= pg'.rows.there /\ mem'.raw <= pg'.rows.raw
    BY <1>0, <1>2, <2>1, Numbers
  <2>7. ASSUME faults' = 0
        PROVE  /\ faults = 0 /\ mem'.here <= pg'.rows.here /\ mem'.here + 1 = pg'.rows.here
               /\ ~ cache'.skips => Sum(mem)' = cache'.gen
    BY <1>0, <1>1, <1>3, <2>1, <2>7, Numbers DEF Sum
  <2> QED
    BY <1>0, <2>2, <2>3, <2>4, <2>5, <2>6, <2>7, HolderKeeps
<1>4. CASE /\ UNCHANGED pg /\ Fault
           /\ Moved(t, "publish", task[t].nested, pg, task[t].start, FALSE, task[t].answer)
  <2>1. faults' # 0
    BY <1>0, <1>4 DEF Fault
  <2>2. /\ Alone(t) /\ task'[t].pc = "publish" /\ task'[t].snap = pg
        /\ task'[t].start = task[t].start /\ ~ task'[t].sure
    BY <1>0, <1>4 DEF Moved, Alone
  <2>3. TaskOK(t)'
    <3>1. SnapOK(t)'
      BY <1>0, <1>2, <1>4, <2>2, Numbers DEF SnapOK, Point, Sum
    <3>2. StartOK(t)'
      BY <1>0, <1>1, <1>4, <2>2 DEF TaskOK, StartOK
    <3> QED
      BY <2>2, <3>1, <3>2 DEF TaskOK, DoneOK
  <2>4. /\ pg.rows.here <= pg'.rows.here /\ pg.rows.there <= pg'.rows.there
        /\ mem.here <= mem'.here /\ cache.stamp <= cache'.stamp /\ pg'.rows.here <= mem'.here
        /\ cache'.gen <= pg'.gen /\ cache'.stamp <= mem'.there
        /\ mem'.there <= pg'.rows.there /\ mem'.raw <= pg'.rows.raw /\ Point(pg)'
    BY <1>0, <1>1, <1>2, <1>4, Numbers DEF Point, Sum
  <2> QED
    BY <1>0, <2>1, <2>2, <2>3, <2>4, HolderKeeps
<1> QED
  BY <1>0, <1>3, <1>4, Branches

LEMMA DataPublish == ASSUME IInv, Types', NEW t \in Tasks, Publish(t) PROVE DataOK'
<1>0. /\ Types /\ task[t].pc = "publish" /\ UNCHANGED <<pg, cache, faults>>
      /\ Goes(t, "published")
      /\ mem' = [mem EXCEPT !.here = task[t].snap.rows.here + (IF task[t].sure THEN 0 ELSE 1)]
  BY Moves DEF Publish, At, IInv
<1>1. /\ Alone(t) /\ task'[t].pc = "published" /\ task'[t].snap = task[t].snap
      /\ task'[t].start = task[t].start /\ task'[t].sure = task[t].sure
      /\ task'[t].kind = task[t].kind
  BY <1>0 DEF Goes, Moved, Alone
<1>2. refresh.holder = t /\ Refreshes(t)
  BY <1>0 DEF IInv, LocksOK, RefreshOK, Holding, Refreshes
<1>3. /\ TaskOK(t) /\ MemOK
      /\ faults = 0 => /\ task[t].sure /\ mem.here + 1 = pg.rows.here
                       /\ ~ cache.skips => Sum(mem) = cache.gen
  BY <1>0, <1>2, HolderHas DEF Loading, Storing
<1>4. /\ Point(pg) /\ task[t].snap.rows.here = pg.rows.here /\ cache.stamp <= mem.there
      /\ mem.there <= pg.rows.there /\ mem.raw <= pg.rows.raw /\ cache.gen <= pg.gen
  BY <1>0, <1>3 DEF TaskOK, SnapOK, MemOK
<1>5. /\ mem'.here = pg.rows.here + (IF task[t].sure THEN 0 ELSE 1)
      /\ mem'.there = mem.there /\ mem'.raw = mem.raw
  BY <1>0, <1>4 DEF Types, Rows
<1>6. TaskOK(t)'
  <2>1. SnapOK(t)'
    BY <1>0, <1>1, <1>3 DEF TaskOK, SnapOK, Point, Sum
  <2>2. StartOK(t)'
    BY <1>0, <1>1, <1>3 DEF TaskOK, StartOK
  <2> QED
    BY <1>1, <2>1, <2>2 DEF TaskOK, DoneOK
<1>7. /\ pg.rows.here <= pg'.rows.here /\ pg.rows.there <= pg'.rows.there
      /\ pg.rows.here <= mem'.here /\ pg'.rows.here <= mem'.here /\ cache.stamp <= cache'.stamp
      /\ cache'.gen <= pg'.gen /\ cache'.stamp <= mem'.there
      /\ mem'.there <= pg'.rows.there /\ mem'.raw <= pg'.rows.raw /\ Point(pg)'
  BY <1>0, <1>4, <1>5, Numbers DEF Point, Sum
<1>8. ASSUME faults' = 0
      PROVE  /\ faults = 0 /\ task'[t].sure /\ mem'.here <= pg'.rows.here
             /\ ~ cache'.skips => Sum(mem)' = cache'.gen + 1
  <2>1. faults = 0 /\ task[t].sure /\ mem'.here = mem.here + 1
    BY <1>0, <1>3, <1>5, <1>8, Numbers
  <2>2. Sum(mem)' = Sum(mem) + 1
    BY <1>0, <1>5, <2>1, Numbers DEF Sum
  <2>3. mem'.here <= pg'.rows.here
    BY <1>0, <1>3, <2>1, Numbers
  <2> QED
    BY <1>0, <1>1, <1>3, <2>1, <2>2, <2>3
<1>9. Storing(t)' /\ task'[t].pc # "publish"
  BY <1>1 DEF Storing
<1> QED
  BY <1>1, <1>2, <1>6, <1>7, <1>8, <1>9, HolderKeeps

LEMMA DataPublished == ASSUME IInv, Types', NEW t \in Tasks, Published(t) PROVE DataOK'
<1>0. /\ Types /\ task[t].pc = "published" /\ UNCHANGED <<pg, mem, faults>> /\ Goes(t, "done")
      /\ cache' = IF ~ task[t].sure THEN cache
                  ELSE [cache EXCEPT !.gen = task[t].snap.gen,
                                     !.skips = @ \/ task[t].snap.gen > cache.gen + 1]
  BY Moves DEF Published, At, IInv
<1>1. /\ Alone(t) /\ task'[t].pc = "done" /\ task'[t].start = task[t].start
      /\ task'[t].sure = task[t].sure /\ task'[t].kind = task[t].kind
  BY <1>0 DEF Goes, Moved, Alone
<1>2. refresh.holder = t /\ Refreshes(t) /\ task[t].kind = "write"
  BY <1>0 DEF IInv, LocksOK, RefreshOK, Holding, Refreshes, WritesAreFlat
<1>3. /\ TaskOK(t) /\ MemOK /\ pg.rows.here <= mem.here
      /\ faults = 0 => /\ task[t].sure /\ mem.here <= pg.rows.here
                       /\ ~ cache.skips => Sum(mem) = cache.gen + 1
  BY <1>0, <1>2, HolderHas DEF Publishing, Loading, Storing
<1>4. /\ Point(pg) /\ cache.stamp <= mem.there /\ mem.there <= pg.rows.there
      /\ mem.raw <= pg.rows.raw /\ cache.gen <= pg.gen
      /\ task[t].sure => cache.gen < task[t].snap.gen
  BY <1>0, <1>3 DEF TaskOK, SnapOK, MemOK
<1>5. /\ cache'.stamp = cache.stamp
      /\ ~ task[t].sure => cache'.gen = cache.gen
      /\ task[t].sure => /\ cache'.gen = task[t].snap.gen
                         /\ ~ cache'.skips => ~ cache.skips /\ ~ (task[t].snap.gen > cache.gen + 1)
  <2>1. CASE ~ task[t].sure
    BY <1>0, <2>1
  <2>2. CASE task[t].sure
    BY <1>0, <2>2 DEF Types
  <2> QED
    BY <2>1, <2>2
<1>6. TaskOK(t)'
  BY <1>0, <1>1, <1>2, <1>3 DEF TaskOK, SnapOK, StartOK, DoneOK
<1>7. task[t].snap.gen <= pg.gen
  BY <1>0, <1>3, <1>4, SnapIsPast DEF TaskOK
<1>8. /\ pg.rows.here <= pg'.rows.here /\ pg.rows.there <= pg'.rows.there
      /\ mem.here <= mem'.here /\ pg'.rows.here <= mem'.here /\ cache.stamp <= cache'.stamp
      /\ cache'.gen <= pg'.gen /\ cache'.stamp <= mem'.there
      /\ mem'.there <= pg'.rows.there /\ mem'.raw <= pg'.rows.raw /\ Point(pg)'
  BY <1>0, <1>3, <1>4, <1>5, <1>7, Numbers DEF Point, Sum
<1>9. ASSUME faults' = 0
      PROVE  /\ faults = 0 /\ task'[t].sure /\ mem'.here <= pg'.rows.here
             /\ ~ cache'.skips => Sum(mem)' = cache'.gen
  <2>1. faults = 0 /\ task[t].sure /\ mem.here <= pg.rows.here
    BY <1>0, <1>3, <1>9
  <2>2. ASSUME ~ cache'.skips PROVE Sum(mem)' = cache'.gen
    <3>1. /\ ~ cache.skips /\ ~ (task[t].snap.gen > cache.gen + 1) /\ cache'.gen = task[t].snap.gen
          /\ cache.gen < task[t].snap.gen /\ Sum(mem) = cache.gen + 1
      BY <1>3, <1>4, <1>5, <2>1, <2>2
    <3>2. task[t].snap.gen = cache.gen + 1
      BY <1>0, <3>1, Numbers, TaskNumbers
    <3> QED
      BY <1>0, <3>1, <3>2 DEF Sum
  <2> QED
    BY <1>0, <1>1, <2>1, <2>2
<1>10. ~ Storing(t)' /\ task'[t].pc # "publish"
  BY <1>1 DEF Storing
<1> QED
  BY <1>1, <1>2, <1>6, <1>8, <1>9, <1>10, HolderKeeps

LEMMA DataStep == ASSUME IInv, Types', [Next]_vars PROVE DataOK'
<1>1. CASE UNCHANGED vars
  BY <1>1 DEF vars, IInv, DataOK, MemOK, TaskOK, SnapOK, StartOK, DoneOK, Seen, Counted, Point,
     Sum, Publishing, Loading, Storing
<1>2. CASE Commit
  BY <1>2, DataCommit
<1>3. ASSUME NEW t \in Tasks, NEW kind \in Kinds, Start(t, kind) PROVE DataOK'
  BY <1>3, DataStart
<1>4. ASSUME NEW t \in Tasks, Step(t) PROVE DataOK'
  <2>1. CASE Check(t)
    BY <2>1, DataCheck
  <2>2. CASE Recheck(t)
    BY <2>2, DataRecheck
  <2>3. CASE CannotRefresh(t)
    BY <2>3, DataCannotRefresh
  <2>4. CASE Replace(t)
    BY <2>4, DataReplace
  <2>5. CASE Stamp(t)
    BY <2>5, DataStamp
  <2>6. CASE Generation(t)
    BY <2>6, DataGeneration
  <2>7. CASE Reconcile(t)
    BY <2>7, DataReconcile
  <2>8. CASE \/ Enter(t) \/ Rank(t) \/ RankMemory(t) \/ Serve(t) \/ Provider(t) \/ Assemble(t)
             \/ Lock(t) \/ Reply(t)
    BY <2>8, DataAnswer
  <2>9. CASE Project(t)
    BY <2>9, DataProject
  <2>10. CASE Publish(t)
    BY <2>10, DataPublish
  <2>11. CASE Published(t)
    BY <2>11, DataPublished
  <2> QED
    BY <1>4, <2>1, <2>2, <2>3, <2>4, <2>5, <2>6, <2>7, <2>8, <2>9, <2>10, <2>11 DEF Step
<1> QED
  BY <1>1, <1>2, <1>3, <1>4 DEF Next

-----------------------------------------------------------------------------
(* The theorems.                                                            *)

LEMMA InvariantHolds == Spec => []IInv
<1>1. Init => IInv
  BY TypesInit, LocksInit, DataInit DEF IInv
<1>2. IInv /\ [Next]_vars => IInv'
  BY TypesStep, LocksStep, DataStep DEF IInv
<1> QED
  BY <1>1, <1>2, PTL DEF Spec

LEMMA TypesFollow == ASSUME IInv PROVE TypeOK
<1>0. Types /\ LocksOK /\ MemOK
  BY DEF IInv, DataOK
<1>1. cache \in [gen : 0..pg.gen, stamp : 0..pg.stamp, skips : BOOLEAN]
  <2>1. cache.gen <= pg.gen /\ cache.stamp <= pg.stamp
    BY <1>0, Numbers DEF MemOK, Point
  <2> QED
    BY <1>0, <2>1, Numbers DEF Types
<1>2. InnerSound(inner) /\ \A t \in Tasks : inner.readers[t] \in 0..2
  <2>1. ASSUME NEW t \in Tasks PROVE inner.readers[t] \in 0..2
    <3>1. Held(t) \in {0, 1} /\ Claimed(inner, t, Held(t), Want(t))
      BY <1>0, HeldIsNat DEF LocksOK, InnerOK
    <3>2. inner.readers[t] = Held(t) \/ inner.readers[t] = Held(t) + 1
      BY <3>1 DEF Claimed
    <3> QED
      BY <3>1, <3>2
  <2> QED
    BY <1>0, <2>1 DEF LocksOK, InnerOK
<1>3. inner \in [readers : [Tasks -> 0..2], writer : Tasks \cup {None}, queue : Seq(Waiting)]
  BY <1>2 DEF InnerSound, InnerType
<1>4. refresh \in [holder : Tasks \cup {None}, queue : Seq(Tasks)]
  BY <1>0 DEF LocksOK, RefreshOK, RefreshSound
<1>5. \A t \in Tasks : inner.writer # None => inner.readers[t] = 0
  BY <1>2 DEF InnerSound, Exclusive
<1>6. \A t \in Tasks : task[t].pc \in {"replace", "stamp", "generation", "reconcile", "publish",
                                       "published"} => refresh.holder = t
  BY <1>0 DEF LocksOK, RefreshOK, Holding
<1> QED
  BY <1>0, <1>1, <1>3, <1>4, <1>5, <1>6 DEF TypeOK, Types

LEMMA FreshFollows == ASSUME IInv PROVE FreshIsTrue
<1> SUFFICES ASSUME faults = 0, ~ Newer, refresh.holder = None
             PROVE  /\ mem.here = pg.rows.here /\ mem.there = pg.rows.there
                    /\ cache.skips \/ mem.raw = pg.rows.raw
  BY DEF FreshIsTrue
<1>0. Types /\ LocksOK /\ MemOK /\ Counted
  BY DEF IInv, DataOK
<1>1. \A t \in Tasks : ~ Publishing(t) /\ ~ Loading(t) /\ ~ Storing(t)
  <2>1. \A t \in Tasks : ~ Holding(t)
    BY <1>0, TasksAssumption DEF LocksOK, RefreshOK
  <2> QED
    BY <2>1 DEF Holding, Publishing, Loading, Storing
<1>2. mem.here = pg.rows.here
  BY <1>0, <1>1, Numbers DEF MemOK, Counted
<1>3. mem.there = pg.rows.there
  BY <1>0, Numbers DEF MemOK, Point, Newer
<1>4. ASSUME ~ cache.skips PROVE mem.raw = pg.rows.raw
  <2>1. Sum(mem) = cache.gen
    BY <1>0, <1>1, <1>4 DEF Counted
  <2>2. cache.gen = pg.gen /\ pg.gen = Sum(pg.rows)
    BY <1>0, Numbers DEF MemOK, Point, Newer
  <2> QED
    BY <1>0, <1>2, <1>3, <2>1, <2>2, Numbers DEF Sum
<1> QED
  BY <1>2, <1>3, <1>4

(* Every state has its types; the memory has one writer or readers, each at *)
(* most twice, and only the holder of the refresh lock loads or projects;   *)
(* the memory's generation and stamp are never ahead of the rows'.          *)
THEOREM TypeCorrect == Spec => []TypeOK
<1>1. IInv => TypeOK
  BY TypesFollow
<1> QED
  BY <1>1, InvariantHolds, PTL

(* A request answers with no older notes than were in the rows when it      *)
(* arrived, whoever refreshes, projects or commits meanwhile, unless the    *)
(* database failed (prepare_cached_read).                                   *)
THEOREM AnswersCorrect == Spec => []AnswersAreFresh
<1>1. ASSUME IInv PROVE AnswersAreFresh
  <2>1. \A t \in Tasks : DoneOK(t)
    BY <1>1 DEF IInv, DataOK, TaskOK
  <2>2. \A t \in Tasks : /\ task[t].start.here \in Nat /\ task[t].start.there \in Nat
                         /\ task[t].answer.here \in Nat /\ task[t].answer.there \in Nat
    BY <1>1, TaskNumbers DEF IInv
  <2> QED
    BY <2>1, <2>2 DEF AnswersAreFresh, DoneOK, At
<1> QED
  BY <1>1, InvariantHolds, PTL

(* A memory that counts as fresh holds the notes as the rows do, and the    *)
(* raw files too as long as no projection has skipped a commit.             *)
THEOREM FreshCorrect == Spec => []FreshIsTrue
<1>1. IInv => FreshIsTrue
  BY FreshFollows
<1> QED
  BY <1>1, InvariantHolds, PTL
=============================================================================
