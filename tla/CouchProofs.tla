----------------------------- MODULE CouchProofs -----------------------------
(***************************************************************************)
(* Module Couch for every set of requests and leaves and all bounds: types, *)
(* leaves before files, confirmed deletion, and the refinement of           *)
(* AtomicFile.                                                              *)
(*                                                                         *)
(* None of these is inductive.  That a file names only leaves that were     *)
(* written needs that a request about to put the file has seen to all the   *)
(* leaves it names, whatever others did to them meanwhile (PutsOK).  That a *)
(* request is one step on the file needs that what it read is still what    *)
(* the file holds when the revision it sends is the latest (BasisOK), from  *)
(* the read to the last put.  IInv says this of each request, of the two    *)
(* documents; a step of another request can disturb it only by a new        *)
(* revision (OutdatedOK) or by a leaf more (LeavesMayGrow).                 *)
(***************************************************************************)
EXTENDS Couch, FiniteSetTheorems, SequenceTheorems, WellFoundedInduction, TLAPS

-----------------------------------------------------------------------------
(* Sequences picked out of sequences.                                       *)

LEMMA LeastNat ==
  ASSUME NEW S \in SUBSET Nat, S # {}
  PROVE  \E m \in S : \A n \in S : m <= n
<1> DEFINE R == OpToRel(<, Nat)
<1>1. IsWellFoundedOn(R, Nat)
  BY NatLessThanWellFounded
<1>2. \A m, n \in S : <<n, m>> \in R <=> n < m
  BY DEF OpToRel
<1> HIDE DEF R
<1>3. PICK m \in S : \A n \in S : ~ (<<n, m>> \in R)
  BY <1>1, WFMin
<1>4. \A n \in S : ~ (n < m)
  BY <1>2, <1>3
<1> QED
  BY <1>4

(* Number of positions of K up to k. *)
Upto(K, k) == Cardinality(K \cap 1..k)

LEMMA FinitePositions ==
  ASSUME NEW m \in Nat, NEW K \in SUBSET (1..m)
  PROVE  IsFiniteSet(K) /\ \A k : IsFiniteSet(K \cap 1..k)
<1>1. IsFiniteSet(1..m)
  BY FS_Interval
<1>2. IsFiniteSet(K)
  BY <1>1, FS_Subset
<1>3. \A k : K \cap 1..k \in SUBSET K
  OBVIOUS
<1> QED
  BY <1>2, <1>3, FS_Subset

LEMMA UptoIsNat ==
  ASSUME NEW m \in Nat, NEW K \in SUBSET (1..m), NEW k
  PROVE  Upto(K, k) \in Nat
BY FinitePositions, FS_CardinalityType DEF Upto

LEMMA UptoEnds ==
  ASSUME NEW m \in Nat, NEW K \in SUBSET (1..m)
  PROVE  Upto(K, 0) = 0 /\ Upto(K, m) = Cardinality(K)
<1>1. K \cap 1..0 = {}
  OBVIOUS
<1>2. K \cap 1..m = K
  OBVIOUS
<1> QED
  BY <1>1, <1>2, FS_EmptySet DEF Upto

LEMMA UptoSteps ==
  ASSUME NEW m \in Nat, NEW K \in SUBSET (1..m), NEW k \in 1..m
  PROVE  Upto(K, k) = IF k \in K THEN Upto(K, k - 1) + 1 ELSE Upto(K, k - 1)
<1>1. IsFiniteSet(K \cap 1..(k - 1))
  BY FinitePositions
<1>2. CASE k \in K
  <2>1. K \cap 1..k = (K \cap 1..(k - 1)) \cup {k} /\ k \notin K \cap 1..(k - 1)
    BY <1>2
  <2> QED
    BY <1>1, <1>2, <2>1, FS_AddElement DEF Upto
<1>3. CASE k \notin K
  <2>1. K \cap 1..k = K \cap 1..(k - 1)
    BY <1>3
  <2> QED
    BY <1>3, <2>1 DEF Upto
<1> QED
  BY <1>2, <1>3

(* Each number up to that of all positions is reached at one of them.       *)
LEMMA PositionOfRank ==
  ASSUME NEW m \in Nat, NEW K \in SUBSET (1..m), NEW n \in 1..Cardinality(K)
  PROVE  \E k \in K : Upto(K, k) = n
<1> DEFINE S == {k \in 0..m : Upto(K, k) >= n}
<1>1. m \in S
  BY UptoEnds, UptoIsNat
<1>2. PICK k \in S : \A j \in S : k <= j
  <2>1. S \in SUBSET Nat /\ S # {}
    BY <1>1
  <2> HIDE DEF S
  <2> QED
    BY <2>1, LeastNat
<1>3. k # 0
  BY UptoEnds
<1>4. k \in 1..m /\ k - 1 \in 0..m
  BY <1>3
<1>5. k - 1 \notin S
  BY <1>2, <1>4
<1>6. Upto(K, k - 1) \in Nat /\ Upto(K, k) \in Nat
  BY UptoIsNat
<1>7. Upto(K, k - 1) < n /\ Upto(K, k) >= n
  BY <1>4, <1>5, <1>6
<1>8. Upto(K, k) = IF k \in K THEN Upto(K, k - 1) + 1 ELSE Upto(K, k - 1)
  BY <1>4, UptoSteps
<1> QED
  BY <1>6, <1>7, <1>8

(* Later positions have higher ranks.                                       *)
LEMMA RankGrows ==
  ASSUME NEW m \in Nat, NEW K \in SUBSET (1..m), NEW j \in K, NEW k \in K, j < k
  PROVE  Upto(K, j) < Upto(K, k)
<1>1. IsFiniteSet(K \cap 1..k) /\ j \in 1..m /\ k \in 1..m
  BY FinitePositions
<1>2. K \cap 1..j \subseteq K \cap 1..k /\ k \notin K \cap 1..j /\ k \in K \cap 1..k
  OBVIOUS
<1>3. Cardinality(K \cap 1..j) <= Cardinality(K \cap 1..k)
      /\ (Cardinality(K \cap 1..j) = Cardinality(K \cap 1..k) => K \cap 1..j = K \cap 1..k)
  BY <1>1, <1>2, FS_Subset
<1>4. Upto(K, j) \in Nat /\ Upto(K, k) \in Nat
  BY UptoIsNat
<1> QED
  BY <1>2, <1>3, <1>4 DEF Upto

LEMMA RankIsBounded ==
  ASSUME NEW m \in Nat, NEW K \in SUBSET (1..m), NEW k \in K
  PROVE  Upto(K, k) \in 1..Cardinality(K)
<1>1. Upto(K, k) = Upto(K, k - 1) + 1
  BY UptoSteps
<1>3. Upto(K, k - 1) \in Nat
  BY UptoIsNat
<1>2. Upto(K, k) <= Cardinality(K) /\ Cardinality(K) \in Nat
  <2>1. IsFiniteSet(K) /\ K \cap 1..k \subseteq K
    BY FinitePositions
  <2> QED
    BY <2>1, FS_Subset, FS_CardinalityType DEF Upto
<1> QED
  BY <1>1, <1>2, <1>3

LEMMA Bounds == MaxRev \in Nat /\ MaxLeafRev \in Nat /\ MaxLen \in Nat /\ MaxFaults \in Nat
BY BoundsAssumption

LEMMA ContentsAreSeqs ==
  /\ \A s \in Contents : s \in Seq(Leaves) /\ Len(s) \in 0..MaxLen /\ DOMAIN s = 1..Len(s)
  /\ \A s \in Seq(Leaves) : Len(s) <= MaxLen => s \in Contents
<1>1. MaxLen \in Nat
  BY BoundsAssumption
<1>2. ASSUME NEW s \in Contents
      PROVE  s \in Seq(Leaves) /\ Len(s) \in 0..MaxLen /\ DOMAIN s = 1..Len(s)
  <2>1. PICK n \in 0..MaxLen : s \in [1..n -> Leaves]
    BY DEF Contents
  <2>2. n \in Nat
    BY <1>1
  <2>3. s \in Seq(Leaves)
    BY <2>1, <2>2
  <2>4. Len(s) = n
    BY <2>1, <2>2, <2>3, LenProperties
  <2> QED
    BY <2>1, <2>3, <2>4
<1>3. ASSUME NEW s \in Seq(Leaves), Len(s) <= MaxLen
      PROVE  s \in Contents
  <2>1. Len(s) \in 0..MaxLen /\ s \in [1..Len(s) -> Leaves]
    BY <1>1, <1>3, LenProperties
  <2> QED
    BY <2>1 DEF Contents
<1> QED
  BY <1>2, <1>3

LEMMA ZeroRev == 0 \in 0..MaxRev /\ 0 \in 0..MaxLeafRev
BY Bounds

LEMMA EmptyContent == <<>> \in Contents
<1>1. <<>> \in Seq(Leaves) /\ Len(<<>>) = 0
  BY EmptySeq
<1>2. 0 <= MaxLen
  BY Bounds
<1> QED
  BY <1>1, <1>2, ContentsAreSeqs

LEMMA HeadAndTail ==
  ASSUME NEW s \in Contents, s # <<>>
  PROVE  /\ Head(s) \in Leaves /\ Tail(s) \in Contents
         /\ ToSet(s) = {Head(s)} \cup ToSet(Tail(s))
<1>1. s \in Seq(Leaves) /\ Len(s) \in 0..MaxLen /\ DOMAIN s = 1..Len(s)
  BY ContentsAreSeqs
<1>2. /\ Head(s) \in Leaves /\ Tail(s) \in Seq(Leaves) /\ Len(Tail(s)) = Len(s) - 1
      /\ \A i \in 1..Len(Tail(s)) : Tail(s)[i] = s[i + 1]
  BY <1>1, HeadTailProperties
<1>3. Tail(s) \in Contents
  <2>1. Len(Tail(s)) <= MaxLen
    BY <1>1, <1>2, Bounds
  <2> QED
    BY <1>2, <2>1, ContentsAreSeqs
<1>4. DOMAIN Tail(s) = 1..(Len(s) - 1)
  BY <1>2, <1>3, ContentsAreSeqs
<1>5. Head(s) = s[1] /\ Len(s) \in Nat \ {0}
  BY <1>1, EmptySeq
<1>6. ToSet(s) = {Head(s)} \cup ToSet(Tail(s))
  <2>1. ASSUME NEW x \in ToSet(s)
        PROVE  x \in {Head(s)} \cup ToSet(Tail(s))
    <3>1. PICK i \in 1..Len(s) : x = s[i]
      BY <1>1 DEF ToSet
    <3>2. CASE i = 1
      BY <1>5, <3>1, <3>2
    <3>3. CASE i # 1
      <4>1. i - 1 \in DOMAIN Tail(s) /\ Tail(s)[i - 1] = s[i]
        BY <1>2, <1>4, <1>5, <3>1, <3>3
      <4> QED
        BY <3>1, <4>1 DEF ToSet
    <3> QED
      BY <3>2, <3>3
  <2>2. ASSUME NEW x \in ToSet(Tail(s))
        PROVE  x \in ToSet(s)
    <3>1. PICK i \in 1..(Len(s) - 1) : x = Tail(s)[i]
      BY <1>4 DEF ToSet
    <3>2. i + 1 \in DOMAIN s /\ s[i + 1] = x
      BY <1>1, <1>2, <1>5, <3>1
    <3> QED
      BY <3>2 DEF ToSet
  <2>3. Head(s) \in ToSet(s)
    BY <1>1, <1>5 DEF ToSet
  <2> QED
    BY <2>1, <2>2, <2>3
<1> QED
  BY <1>2, <1>3, <1>6

(* What is picked: the members at the positions, in the same order.         *)
LEMMA PickedMembers ==
  ASSUME NEW s \in Contents, NEW K \in SUBSET (DOMAIN s)
  PROVE  /\ Picked(s, K) \in Contents /\ Len(Picked(s, K)) = Cardinality(K)
         /\ ToSet(Picked(s, K)) = {s[k] : k \in K}
         /\ \A k \in K : Picked(s, K)[Upto(K, k)] = s[k]
<1> DEFINE pos(n) == CHOOSE k \in K : Upto(K, k) = n
           p == [n \in 1..Cardinality(K) |-> s[pos(n)]]
<1>1. s \in Seq(Leaves) /\ Len(s) \in 0..MaxLen /\ DOMAIN s = 1..Len(s) /\ Len(s) \in Nat
  BY ContentsAreSeqs, BoundsAssumption
<1>2. K \in SUBSET (1..Len(s))
  BY <1>1
<1>3. Picked(s, K) = p
  BY DEF Picked, Upto
<1>4. ASSUME NEW n \in 1..Cardinality(K)
      PROVE  pos(n) \in K /\ Upto(K, pos(n)) = n
  BY <1>1, <1>2, PositionOfRank
<1>5. ASSUME NEW k \in K
      PROVE  Upto(K, k) \in 1..Cardinality(K) /\ pos(Upto(K, k)) = k
  <2>1. Upto(K, k) \in 1..Cardinality(K)
    BY <1>1, <1>2, RankIsBounded
  <2> DEFINE j == pos(Upto(K, k))
  <2>2. j \in K /\ Upto(K, j) = Upto(K, k)
    BY <2>1, <1>4
  <2> HIDE DEF j
  <2>3. j \in 1..Len(s) /\ k \in 1..Len(s)
    BY <1>2, <2>2
  <2>4. Upto(K, k) \in Nat
    BY <1>1, <1>2, UptoIsNat
  <2>5. j < k => Upto(K, j) < Upto(K, k)
    BY <1>1, <1>2, <2>2, RankGrows
  <2>7. k < j => Upto(K, k) < Upto(K, j)
    BY <1>1, <1>2, <2>2, RankGrows
  <2>6. j = k
    BY <2>2, <2>3, <2>4, <2>5, <2>7
  <2> QED
    BY <2>1, <2>6 DEF j
<1> HIDE DEF pos
<1>6. Cardinality(K) \in 0..MaxLen
  <2>1. IsFiniteSet(1..Len(s)) /\ Cardinality(1..Len(s)) = Len(s)
    <3> DEFINE n == Len(s)
    <3>1. n \in Nat
      BY <1>1
    <3> HIDE DEF n
    <3>2. IsFiniteSet(1..n) /\ Cardinality(1..n) = IF 1 > n THEN 0 ELSE n - 1 + 1
      BY <3>1, FS_Interval
    <3>3. Cardinality(1..n) = n
      BY <3>1, <3>2
    <3> QED
      BY <3>2, <3>3 DEF n
  <2>2. Cardinality(K) <= Len(s) /\ Cardinality(K) \in Nat
    BY <1>2, <2>1, FS_Subset, FS_CardinalityType
  <2> QED
    BY <1>1, <2>2, BoundsAssumption
<1>7. \A k \in K : s[k] \in Leaves
  BY <1>1, <1>2, ElementOfSeq
<1>8. p \in [1..Cardinality(K) -> Leaves]
  BY <1>4, <1>7
<1>9. p \in Contents
  BY <1>6, <1>8 DEF Contents
<1>10. Len(p) = Cardinality(K)
  BY <1>6, <1>9, ContentsAreSeqs, BoundsAssumption
<1>11. ToSet(p) = {s[k] : k \in K}
  BY <1>4, <1>5 DEF ToSet
<1>12. \A k \in K : p[Upto(K, k)] = s[k]
  BY <1>5
<1> HIDE DEF p
<1> QED
  BY <1>3, <1>9, <1>10, <1>11, <1>12

LEMMA FirstSeenMembers ==
  ASSUME NEW s \in Contents
  PROVE  /\ FirstSeen(s) \in Contents /\ ToSet(FirstSeen(s)) = ToSet(s)
         /\ s # <<>> => FirstSeen(s) # <<>>
         /\ IsInjective(s) => FirstSeen(s) = s
<1> DEFINE K == {k \in DOMAIN s : \A j \in 1..(k - 1) : s[j] # s[k]}
<1>1. s \in Seq(Leaves) /\ Len(s) \in Nat /\ DOMAIN s = 1..Len(s)
  BY ContentsAreSeqs
<1>2. FirstSeen(s) = Picked(s, K) /\ K \in SUBSET (DOMAIN s)
  BY DEF FirstSeen
<1>3. /\ FirstSeen(s) \in Contents /\ ToSet(FirstSeen(s)) = {s[k] : k \in K}
      /\ Len(FirstSeen(s)) = Cardinality(K)
      /\ \A k \in K : FirstSeen(s)[Upto(K, k)] = s[k]
  <2> HIDE DEF K
  <2> QED
    BY <1>2, PickedMembers
<1>4. ASSUME NEW i \in DOMAIN s
      PROVE  \E k \in K : s[k] = s[i]
  <2> DEFINE S == {k \in DOMAIN s : s[k] = s[i]}
  <2>1. S \in SUBSET Nat /\ S # {}
    BY <1>1
  <2>2. PICK k \in S : \A j \in S : k <= j
    <3> HIDE DEF S
    <3> QED
      BY <2>1, LeastNat
  <2>3. k \in K
    BY <1>1, <2>2
  <2> QED
    BY <2>2, <2>3
<1>5. ToSet(FirstSeen(s)) = ToSet(s)
  <2>1. {s[k] : k \in K} = {s[k] : k \in DOMAIN s}
    BY <1>4
  <2> QED
    BY <1>3, <2>1 DEF ToSet
<1>6. ASSUME s # <<>>
      PROVE  FirstSeen(s) # <<>>
  <2>1. 1 \in DOMAIN s
    BY <1>1, <1>6, EmptySeq
  <2>2. ToSet(s) # {}
    BY <2>1 DEF ToSet
  <2>3. ToSet(<<>>) = {}
    BY DEF ToSet
  <2> QED
    BY <1>5, <2>2, <2>3
<1>7. ASSUME IsInjective(s)
      PROVE  FirstSeen(s) = s
  <2>1. K = 1..Len(s)
    BY <1>1, <1>7 DEF IsInjective
  <2> DEFINE n == Len(s)
  <2>2. \A k \in 0..n : IsFiniteSet(1..k) /\ Cardinality(1..k) = k
    <3>1. ASSUME NEW k \in 0..n
          PROVE  IsFiniteSet(1..k) /\ Cardinality(1..k) = k
      <4>1. k \in Nat
        BY <1>1
      <4>2. IsFiniteSet(1..k) /\ Cardinality(1..k) = IF 1 > k THEN 0 ELSE k - 1 + 1
        BY <4>1, FS_Interval
      <4>3. Cardinality(1..k) = k
        BY <4>1, <4>2
      <4> QED
        BY <4>2, <4>3
    <3> QED
      BY <3>1
  <2>3. n \in 0..n
    BY <1>1
  <2>4. Len(FirstSeen(s)) = n
    BY <1>3, <2>1, <2>2, <2>3
  <2>5. ASSUME NEW k \in 1..n
        PROVE  FirstSeen(s)[k] = s[k]
    <3>1. K \cap 1..k = 1..k /\ k \in 0..n
      BY <1>1, <2>1
    <3>2. Upto(K, k) = k
      BY <2>2, <3>1 DEF Upto
    <3> QED
      BY <1>3, <2>1, <3>2
  <2>6. FirstSeen(s) \in Seq(Leaves)
    BY <1>3, ContentsAreSeqs
  <2> HIDE DEF K
  <2> QED
    BY <1>1, <2>4, <2>5, <2>6, SeqEqual
<1> QED
  BY <1>3, <1>5, <1>6, <1>7

-----------------------------------------------------------------------------
(* The inductive invariant.                                                 *)

Resting == {"idle", "done"}
Recovering == {"bulk", "walk", "child", "next", "judge", "verdict"}
Repairing == {"diagnose", "classify", "initial", "tombs", "parent", "state", "past", "restore",
              "conflict", "final", "report"}

WrittenLeaves(lf) == {l \in Leaves : lf[l].st # "none"}

(* The documents: a file that is there has a revision, and names leaves     *)
(* that were written.                                                       *)
DocsOK(f, lf) ==
  /\ f \in [st : FileStates, rev : 0..MaxRev, kids : Contents]
  /\ lf \in [Leaves -> [st : LeafStates, rev : 0..MaxLeafRev, past : BOOLEAN]]
  /\ f.st # "none" => f.rev > 0
  /\ f.kids \in Written \cup {<<>>}
  /\ f.st \in {"live", "gone"} => ToSet(f.kids) \subseteq WrittenLeaves(lf)

(* Which requests are at which step, and what they have been told.          *)
PlaceOK(d) ==
  /\ d.pc \in Resting <=> d.kind = "none"
  /\ d.pc \in Recovering \cup {"get", "revs"} => d.kind = "edit"
  /\ d.pc \in {"leaf", "file"} => d.kind \in {"create", "edit"}
  /\ d.pc \in Repairing => d.kind \in {"edit", "repair"}
  /\ d.pc \in {"find", "erase"} => d.kind = "delete"
  /\ d.pc # "done" => d.answer = "none"
  /\ d.pc \in {"child", "state", "past", "restore", "conflict", "leaf"} => d.todo # <<>>

(* A request that holds the file for deleted, or that meets it so, knows.   *)
DeathOK(d, f) ==
  /\ d.pc \notin Resting /\ f.st # "live" => d.dead
  /\ d.del => d.dead
  /\ d.answer = "notfound" => d.dead

(* What is to be put: leaves first.                                         *)
PutsOK(d, lf) ==
  /\ d.pc \in {"get", "revs", "leaf", "file"} => d.new \in Written
  /\ d.pc = "leaf" => ToSet(d.new) \subseteq WrittenLeaves(lf) \cup ToSet(d.todo)
  /\ d.pc = "file" => ToSet(d.new) \subseteq WrittenLeaves(lf)

(* What a request read is the file's as long as its revision is.            *)
BasisOK(d, f) ==
  /\ d.pc \in {"bulk", "next"} => ~ d.scan
  /\ d.kind = "create" => d.rev = 0
  /\ d.pc = "walk" /\ d.scan => d.rev \in 1..f.rev /\ (d.rev = f.rev => d.kids = f.kids)
  /\ d.pc = "child" => /\ d.rev \in 1..f.rev
                       /\ d.rev = f.rev => f.st = "live" /\ d.kids = f.kids
  /\ d.kind = "edit" /\ d.pc \in {"get", "revs", "leaf", "file"} =>
       /\ d.rev \in 1..f.rev
       /\ d.rev = f.rev => /\ f.st = "live"
                           /\ \E x \in Leaves : d.new = Append(FirstSeen(f.kids), x)

RequestOK(d, f, lf) == PlaceOK(d) /\ DeathOK(d, f) /\ PutsOK(d, lf) /\ BasisOK(d, f)

IInv ==
  /\ TypeOK
  /\ DocsOK(file, leaf)
  /\ \A r \in Requests : RequestOK(req[r], file, leaf)

-----------------------------------------------------------------------------
(* What the steps share.                                                    *)

(* What a step may do: as seen from AtomicFile, a step of it or none; and   *)
(* an edit that is done keeps what the file held.                           *)
Value == IF file.st = "live" THEN {file.kids} ELSE {}
Answered == [r \in Requests |-> req[r].answer]
Atomic == Source!Next \/ UNCHANGED <<Value, Answered>>
Keeps == \A r \in Requests : req[r].kind = "edit" /\ req'[r].answer = "done"
                                => IsPrefix(file.kids, file'.kids)
Faithful == ~ Repeats => Atomic /\ Keeps

Grows(lf) == DocsOK(file, lf) /\ WrittenLeaves(leaf) \subseteq WrittenLeaves(lf)

LEMMA LeavesMayGrow ==
  ASSUME NEW d, NEW f, NEW lf, NEW lg, WrittenLeaves(lf) \subseteq WrittenLeaves(lg),
         RequestOK(d, f, lf)
  PROVE  RequestOK(d, f, lg)
BY DEF RequestOK, PutsOK

LEMMA RequestMoves ==
  ASSUME IInv, NEW r \in Requests, NEW d \in Request, req' = [req EXCEPT ![r] = d],
         UNCHANGED file, Grows(leaf'), RequestOK(d, file, leaf'),
         lock' \in Requests \cup {NoOne}, d.kind = "edit" <=> lock' = r,
         \A s \in Requests \ {r} : lock' = s <=> lock = s
  PROVE  IInv'
<1>1. req' \in [Requests -> Request]
  BY DEF IInv, TypeOK
<1>2. \A s \in Requests : req'[s] = IF s = r THEN d ELSE req[s]
  BY DEF IInv, TypeOK
<1>3. DocsOK(file', leaf')
  BY DEF Grows
<1>4. \A s \in Requests : req'[s].kind = "edit" <=> lock' = s
  BY <1>2 DEF IInv, TypeOK
<1>5. TypeOK'
  BY <1>1, <1>3, <1>4 DEF TypeOK, DocsOK
<1>6. ASSUME NEW s \in Requests
      PROVE  RequestOK(req'[s], file', leaf')
  <2>1. RequestOK(req[s], file, leaf')
    BY LeavesMayGrow DEF IInv, Grows
  <2> QED
    BY <1>2, <2>1
<1> QED
  BY <1>3, <1>5, <1>6 DEF IInv

LEMMA FileKept ==
  ASSUME IInv, UNCHANGED file
  PROVE  Keeps
<1>1. Len(file.kids) \in Nat
  BY ContentsAreSeqs DEF IInv, DocsOK
<1> QED
  BY <1>1 DEF Keeps, IsPrefix

(* A request goes on.                                                       *)
LEMMA Moving ==
  ASSUME IInv, NEW r \in Requests, NEW d \in Request, Goes(r, d), UNCHANGED file, Grows(leaf'),
         RequestOK(d, file, leaf'), d.kind = req[r].kind, req[r].pc # "done", d.pc # "done"
  PROVE  IInv' /\ Faithful
<1>1. req' = [req EXCEPT ![r] = d] /\ lock' = lock
  BY DEF Goes
<1>2. IInv'
  <2>1. lock \in Requests \cup {NoOne} /\ (req[r].kind = "edit" <=> lock = r)
    BY DEF IInv, TypeOK
  <2> QED
    BY <1>1, <2>1, RequestMoves
<1>3. d.answer = "none" /\ req[r].answer = "none"
  BY DEF IInv, RequestOK, PlaceOK
<1>4. UNCHANGED <<Value, Answered>>
  BY <1>1, <1>3 DEF IInv, TypeOK, Value, Answered
<1> QED
  BY <1>2, <1>4, FileKept DEF Faithful, Atomic


Finished(a, b) == [Idle EXCEPT !.pc = "done", !.answer = a, !.dead = b]
Outcomes == {"done", "lost"} \cup Source!Refusals

LEMMA IdleType ==
  Idle \in Request /\ \A l \in Leaves : Idle.revs[l] = 0
BY EmptyContent, Bounds DEF Idle, Request

LEMMA FinishedOK ==
  ASSUME NEW f, NEW lf, NEW a \in Outcomes, NEW b \in BOOLEAN, a = "notfound" => b
  PROVE  /\ Finished(a, b) \in Request /\ RequestOK(Finished(a, b), f, lf)
         /\ Finished(a, b).kind = "none" /\ Finished(a, b).pc = "done"
         /\ Finished(a, b).answer = a
<1>1. Finished(a, b) \in Request
  BY IdleType DEF Finished, Request, Outcomes, Source!Refusals
<1>2. /\ Finished(a, b).kind = "none" /\ Finished(a, b).pc = "done"
      /\ Finished(a, b).answer = a /\ Finished(a, b).dead = b /\ Finished(a, b).del = FALSE
  BY IdleType DEF Finished, Request, Idle
<1> HIDE DEF Finished
<1>3. PlaceOK(Finished(a, b)) /\ DeathOK(Finished(a, b), f)
      /\ PutsOK(Finished(a, b), lf) /\ BasisOK(Finished(a, b), f)
  BY <1>2 DEF PlaceOK, DeathOK, PutsOK, BasisOK, Resting, Recovering, Repairing
<1> QED
  BY <1>1, <1>2, <1>3 DEF RequestOK

(* A request ends, and the file is as it was.                               *)
LEMMA Answering ==
  ASSUME IInv, NEW r \in Requests, req[r].pc \notin Resting, NEW a \in Outcomes \ {"lost"},
         Answers(r, a), a = "notfound" => req[r].dead, UNCHANGED file, Grows(leaf')
  PROVE  IInv' /\ Faithful
<1> DEFINE b == a = "notfound" /\ req[r].dead
           d == Finished(a, b)
<1>1. req' = [req EXCEPT ![r] = d]
  BY DEF Answers, Finished
<1>2. d \in Request /\ RequestOK(d, file, leaf') /\ d.kind = "none" /\ d.pc = "done" /\ d.answer = a
  <2>1. b \in BOOLEAN /\ (a = "notfound" => b)
    OBVIOUS
  <2> HIDE DEF b
  <2> QED
    BY <2>1, FinishedOK
<1> HIDE DEF d
<1>3. IInv'
  <2>1. lock' \in Requests \cup {NoOne} /\ lock' # r
    BY RequestsAssumption DEF Answers, IInv, TypeOK
  <2>2. \A s \in Requests \ {r} : lock' = s <=> lock = s
    BY RequestsAssumption DEF Answers, IInv, TypeOK
  <2> QED
    BY <1>1, <1>2, <2>1, <2>2, RequestMoves
<1>4. req[r].answer = "none"
  BY DEF IInv, RequestOK, PlaceOK, Resting
<1>5. Value' = Value /\ Answered' = [Answered EXCEPT ![r] = a]
  BY <1>1, <1>2 DEF IInv, TypeOK, Value, Answered
<1>6. Source!Repair(r) \/ Source!Refuse(r)
  <2>1. Answered[r] = "none"
    BY <1>4 DEF Answered
  <2>2. CASE a = "done"
    BY <1>5, <2>1, <2>2 DEF Source!Repair, Source!Commits, Answered, Value
  <2>3. CASE a \in Source!Refusals
    BY <1>5, <2>1, <2>3 DEF Source!Refuse, Answered, Value
  <2> QED
    BY <2>2, <2>3 DEF Outcomes
<1> QED
  BY <1>3, <1>6, FileKept DEF Faithful, Atomic, Source!Next

-----------------------------------------------------------------------------
(* Changes of the documents.                                                *)

LEMMA LeafBecomesGrows ==
  ASSUME IInv, NEW l \in Leaves, NEW st \in {"live", "tomb"}, leaf[l].rev < MaxLeafRev,
         LeafBecomes(l, st)
  PROVE  Grows(leaf') /\ l \in WrittenLeaves(leaf')
<1>1. leaf \in [Leaves -> [st : LeafStates, rev : 0..MaxLeafRev, past : BOOLEAN]]
  BY DEF IInv, DocsOK
<1>2. leaf[l].rev + 1 \in 0..MaxLeafRev
  BY <1>1, Bounds
<1>3. leaf' \in [Leaves -> [st : LeafStates, rev : 0..MaxLeafRev, past : BOOLEAN]]
  BY <1>1, <1>2 DEF LeafBecomes, LeafStates
<1>4. WrittenLeaves(leaf) \subseteq WrittenLeaves(leaf') /\ l \in WrittenLeaves(leaf')
  BY <1>1 DEF LeafBecomes, WrittenLeaves
<1> QED
  BY <1>3, <1>4 DEF IInv, DocsOK, Grows

LEMMA SameLeavesGrow ==
  ASSUME IInv, UNCHANGED leaf
  PROVE  Grows(leaf')
BY DEF IInv, Grows

LEMMA LeavesChange ==
  ASSUME IInv, Grows(leaf'), UNCHANGED <<file, lock, req>>
  PROVE  IInv' /\ Faithful
<1>1. IInv'
  BY LeavesMayGrow DEF IInv, TypeOK, DocsOK, Grows
<1> QED
  BY <1>1, FileKept DEF Faithful, Atomic, Value, Answered

LEMMA ClientLeaves ==
  ASSUME IInv, NEW l \in Leaves, UploadLeaf(l) \/ CollectLeaf(l) \/ Compact(l)
  PROVE  IInv' /\ Faithful
<1>1. CASE UploadLeaf(l)
  BY <1>1, LeafBecomesGrows, LeavesChange DEF UploadLeaf
<1>2. CASE CollectLeaf(l)
  BY <1>2, LeafBecomesGrows, LeavesChange DEF CollectLeaf
<1>3. CASE Compact(l)
  <2>1. Grows(leaf')
    BY <1>3 DEF Compact, IInv, DocsOK, Grows, WrittenLeaves
  <2> QED
    BY <1>3, <2>1, LeavesChange DEF Compact
<1> QED
  BY <1>1, <1>2, <1>3

(* What a request read before is of an older revision.                      *)
LEMMA OutdatedOK ==
  ASSUME NEW d, NEW f, NEW g, NEW lf, RequestOK(d, f, lf), f.rev \in Nat, g.rev = f.rev + 1,
         d.pc \notin Resting /\ g.st # "live" => d.dead
  PROVE  RequestOK(d, g, lf)
<1>1. d.rev \in 1..f.rev => d.rev \in 1..g.rev /\ d.rev # g.rev
  OBVIOUS
<1>2. BasisOK(d, g)
  BY <1>1 DEF RequestOK, BasisOK
<1> QED
  BY <1>2 DEF RequestOK, DeathOK

LEMMA FileBecomesOK ==
  ASSUME IInv, NEW st \in {"live", "gone", "tomb"}, NEW kids \in Written \cup {<<>>},
         file.rev < MaxRev, FileBecomes(st, kids), UNCHANGED leaf,
         st # "tomb" => ToSet(kids) \subseteq WrittenLeaves(leaf)
  PROVE  /\ DocsOK(file', leaf') /\ file.rev \in Nat /\ file'.rev = file.rev + 1
         /\ file'.st = st /\ file'.kids = kids
<1>1. file.rev + 1 \in 0..MaxRev /\ file.rev \in Nat /\ file.rev + 1 > 0
  BY Bounds DEF IInv, DocsOK
<1>2. kids \in Contents
  BY EmptyContent DEF Written
<1> QED
  BY <1>1, <1>2 DEF FileBecomes, IInv, DocsOK, FileStates

LEMMA IsFileOK ==
  ASSUME NEW v, v = {} \/ \E s \in Contents : v = {s}
  PROVE  Source!IsFile(v)
BY ContentsAreSeqs DEF Source!IsFile, Source!Dead, Source!Holds

LEMMA SameAnswersKeep ==
  ASSUME IInv, \A r \in Requests : req'[r].answer = req[r].answer
  PROVE  Keeps
BY DEF IInv, RequestOK, PlaceOK, Keeps, Resting

(* When the file dies, the requests under way see it.                       *)
LEMMA SeenDeadOK ==
  ASSUME IInv, NEW r \in Requests, file.rev \in Nat, file'.rev = file.rev + 1, UNCHANGED leaf
  PROVE  /\ SeenDead[r] \in Request /\ RequestOK(SeenDead[r], file', leaf')
         /\ SeenDead[r].kind = req[r].kind /\ SeenDead[r].answer = req[r].answer
<1>1. req[r] \in Request /\ RequestOK(req[r], file, leaf)
  BY DEF IInv, TypeOK
<1> DEFINE d == SeenDead[r]
<1>2. d = IF req[r].pc \in Resting THEN req[r] ELSE [req[r] EXCEPT !.dead = TRUE]
  BY DEF SeenDead, Resting
<1>3. /\ d \in Request /\ d.pc = req[r].pc /\ d.kind = req[r].kind
      /\ d.answer = req[r].answer /\ (d.pc \notin Resting => d.dead)
  <2>1. CASE req[r].pc \in Resting
    BY <1>1, <1>2, <2>1
  <2>2. CASE req[r].pc \notin Resting
    <3>1. d = [req[r] EXCEPT !.dead = TRUE]
      BY <1>2, <2>2
    <3> HIDE DEF d
    <3> QED
      BY <1>1, <2>2, <3>1 DEF Request
  <2> QED
    BY <2>1, <2>2
<1>4. RequestOK(d, file, leaf)
  BY <1>1, <1>2 DEF Request, RequestOK, PlaceOK, DeathOK, PutsOK, BasisOK
<1> HIDE DEF d
<1>5. RequestOK(d, file', leaf')
  BY <1>3, <1>4, OutdatedOK
<1> QED
  BY <1>3, <1>5 DEF d

LEMMA ClientFile ==
  ASSUME IInv, WriteFile \/ DeleteFile
  PROVE  IInv' /\ Faithful
<1>1. file \in [st : FileStates, rev : 0..MaxRev, kids : Contents]
  BY DEF IInv, DocsOK
<1>2. CASE WriteFile
  <2>1. PICK kids \in Written \cup {<<>>} :
          ToSet(kids) \subseteq LiveLeaves /\ FileBecomes("live", kids)
    BY <1>2 DEF WriteFile
  <2>2. file.rev < MaxRev /\ UNCHANGED <<leaf, lock, req>>
    BY <1>2 DEF WriteFile
  <2>3. LiveLeaves \subseteq WrittenLeaves(leaf)
    BY DEF LiveLeaves, Live, WrittenLeaves
  <2>4. /\ DocsOK(file', leaf') /\ file.rev \in Nat /\ file'.rev = file.rev + 1
        /\ file'.st = "live" /\ file'.kids = kids
    BY <2>1, <2>2, <2>3, FileBecomesOK
  <2>5. \A r \in Requests : RequestOK(req'[r], file', leaf')
    BY <2>2, <2>4, OutdatedOK DEF IInv
  <2>6. IInv'
    BY <2>2, <2>4, <2>5 DEF IInv, TypeOK, DocsOK
  <2>7. Source!Other
    <3>1. Value' = {kids} /\ kids \in Contents
      BY <2>4 DEF Value, DocsOK
    <3> QED
      BY <2>2, <3>1, IsFileOK DEF Source!Other, Value
  <2> QED
    BY <2>2, <2>6, <2>7, SameAnswersKeep DEF Faithful, Atomic, Source!Next
<1>3. CASE DeleteFile
  <2>1. PICK st \in {"gone", "tomb"} :
          FileBecomes(st, IF st = "gone" THEN file.kids ELSE <<>>)
    BY <1>3 DEF DeleteFile
  <2> DEFINE kids == IF st = "gone" THEN file.kids ELSE <<>>
  <2>2. file.st = "live" /\ file.rev < MaxRev /\ UNCHANGED <<leaf, lock>> /\ req' = SeenDead
    BY <1>3 DEF DeleteFile
  <2>3. kids \in Written \cup {<<>>} /\ (st # "tomb" => ToSet(kids) \subseteq WrittenLeaves(leaf))
    BY <2>2 DEF IInv, DocsOK
  <2> HIDE DEF kids
  <2>4. /\ DocsOK(file', leaf') /\ file.rev \in Nat /\ file'.rev = file.rev + 1
        /\ file'.st = st
    BY <2>1, <2>2, <2>3, FileBecomesOK DEF kids
  <2>5. \A r \in Requests : /\ req'[r] \in Request /\ RequestOK(req'[r], file', leaf')
                            /\ req'[r].kind = req[r].kind /\ req'[r].answer = req[r].answer
    BY <2>2, <2>4, SeenDeadOK
  <2>6. req' \in [Requests -> Request]
    BY <2>2, <2>5 DEF SeenDead
  <2>7. IInv'
    BY <2>2, <2>4, <2>5, <2>6 DEF IInv, TypeOK, DocsOK
  <2>8. Source!Other
    <3>1. Value' = {}
      BY <2>4 DEF Value
    <3>2. Answered' = Answered
      BY <2>5 DEF Answered
    <3> QED
      BY <3>1, <3>2, IsFileOK DEF Source!Other, Value, Answered
  <2> QED
    BY <2>5, <2>7, <2>8, SameAnswersKeep DEF Faithful, Atomic, Source!Next
<1> QED
  BY <1>2, <1>3

-----------------------------------------------------------------------------
(* Recovery from the source.                                                *)

LEMMA Known ==
  ASSUME IInv, NEW r \in Requests
  PROVE  /\ req[r] \in Request /\ RequestOK(req[r], file, leaf)
         /\ file \in [st : FileStates, rev : 0..MaxRev, kids : Contents]
         /\ (req[r].kind = "edit" <=> lock = r)
BY DEF IInv, TypeOK, DocsOK

LEMMA BeginOK ==
  ASSUME IInv, NEW r \in Requests, Begin(r)
  PROVE  IInv' /\ Faithful
<1>1. /\ req[r].pc = "idle" /\ req[r].answer = "none" /\ req[r].kind = "none"
      /\ UNCHANGED <<file, leaf>> /\ Grows(leaf')
  BY Known, SameLeavesGrow DEF Begin, At, Reads, RequestOK, PlaceOK, Resting
<1>2. PICK kind \in Kinds :
        LET d == [Idle EXCEPT !.kind = kind, !.dead = file.st # "live"] IN
        \/ /\ kind = "create"
           /\ \E new \in Written : Goes(r, [d EXCEPT !.pc = "leaf", !.new = new,
                                                     !.todo = FirstSeen(new)])
        \/ /\ kind = "edit" /\ lock = NoOne /\ file.rev > 0
           /\ req' = [req EXCEPT ![r] = [d EXCEPT !.pc = "bulk"]]
           /\ lock' = r
        \/ kind = "repair" /\ Goes(r, [d EXCEPT !.pc = "diagnose"])
        \/ kind = "delete" /\ Goes(r, [d EXCEPT !.pc = "find"])
  BY DEF Begin
<1> DEFINE d == [Idle EXCEPT !.kind = kind, !.dead = file.st # "live"]
<1>3. kind \in {"create", "edit", "repair", "delete"}
  BY KindsAssumption
<1>4. ASSUME NEW e \in Request, req' = [req EXCEPT ![r] = e], RequestOK(e, file, leaf'),
             e.answer = "none", e.kind = kind,
             IF kind = "edit" THEN lock = NoOne /\ lock' = r ELSE lock' = lock
      PROVE  IInv' /\ Faithful
  <2>1. /\ lock' \in Requests \cup {NoOne} /\ (e.kind = "edit" <=> lock' = r)
        /\ \A s \in Requests \ {r} : lock' = s <=> lock = s
    BY <1>1, <1>4, RequestsAssumption DEF IInv, TypeOK
  <2>2. IInv'
    BY <1>1, <1>4, <2>1, RequestMoves
  <2>3. UNCHANGED <<Value, Answered>>
    BY <1>1, <1>4 DEF IInv, TypeOK, Value, Answered
  <2> QED
    BY <1>1, <2>2, <2>3, FileKept DEF Faithful, Atomic
<1>5. CASE kind = "create"
  <2>1. PICK new \in Written : Goes(r, [d EXCEPT !.pc = "leaf", !.new = new, !.todo = FirstSeen(new)])
    BY <1>2, <1>5
  <2> DEFINE e == [d EXCEPT !.pc = "leaf", !.new = new, !.todo = FirstSeen(new)]
  <2>2. /\ new \in Contents /\ FirstSeen(new) \in Contents /\ FirstSeen(new) # <<>>
        /\ ToSet(FirstSeen(new)) = ToSet(new)
    BY FirstSeenMembers DEF Written
  <2>3. e \in Request
    <3>1. d \in Request
      BY ZenonT(60), <1>3, IdleType DEF Request
    <3> DEFINE todo == FirstSeen(new)
    <3>2. todo \in Contents
      BY <2>2
    <3> HIDE DEF d, todo
    <3> QED
      BY <2>2, <3>1, <3>2 DEF Request
  <2>4. /\ e.pc = "leaf" /\ e.kind = "create" /\ e.new = new /\ e.todo = FirstSeen(new)
        /\ e.answer = "none" /\ e.del = FALSE /\ e.rev = 0 /\ e.dead = (file.st # "live")
    BY <1>5, IdleType DEF Request, Idle
  <2> HIDE DEF e
  <2>5. RequestOK(e, file, leaf')
    BY <2>2, <2>4 DEF RequestOK, PlaceOK, DeathOK, PutsOK, BasisOK, Resting, Recovering, Repairing
  <2>6. req' = [req EXCEPT ![r] = e] /\ lock' = lock
    BY <2>1 DEF Goes, e
  <2> QED
    BY <1>4, <1>5, <2>3, <2>4, <2>5, <2>6
<1>6. CASE kind # "create"
  <2> DEFINE pc == IF kind = "edit" THEN "bulk" ELSE IF kind = "repair" THEN "diagnose" ELSE "find"
             e == [d EXCEPT !.pc = pc]
  <2>7. pc \in {"bulk", "diagnose", "find"}
    OBVIOUS
  <2>1. e \in Request
    <3>1. d \in Request
      BY ZenonT(60), <1>3, IdleType DEF Request
    <3> HIDE DEF pc, d
    <3> QED
      BY <2>7, <3>1 DEF Request
  <2>2. /\ e.pc = pc /\ e.kind = kind
        /\ e.answer = "none" /\ e.del = FALSE /\ e.scan = FALSE /\ e.dead = (file.st # "live")
    BY IdleType DEF Request, Idle
  <2>6. req' = [req EXCEPT ![r] = e] /\ (IF kind = "edit" THEN lock = NoOne /\ lock' = r ELSE lock' = lock)
    BY <1>2, <1>6 DEF Goes
  <2> HIDE DEF e
  <2>5. RequestOK(e, file, leaf')
    BY <1>3, <1>6, <2>2 DEF RequestOK, PlaceOK, DeathOK, PutsOK, BasisOK, Resting, Recovering, Repairing
  <2> HIDE DEF pc
  <2> QED
    BY <1>4, <2>1, <2>2, <2>5, <2>6
<1> QED
  BY <1>5, <1>6

LEMMA RecoveredOK ==
  ASSUME IInv, NEW r \in Requests, req[r].kind = "edit", req[r].pc \notin Resting,
         NEW rev \in 1..file.rev, NEW kids \in Contents,
         rev = file.rev => file.st = "live" /\ kids = file.kids,
         Recovered(r, rev, kids), UNCHANGED <<file, leaf>>
  PROVE  IInv' /\ Faithful
<1>1. PICK x \in Leaves :
        LET new == Append(Reassembled(kids), x) IN
        IF new \in Written
        THEN Goes(r, [Idle EXCEPT !.kind = "edit", !.pc = "get", !.rev = rev, !.new = new,
                                  !.dead = req[r].dead])
        ELSE Answers(r, "error")
  BY DEF Recovered
<1> DEFINE new == Append(FirstSeen(kids), x)
           d == [Idle EXCEPT !.kind = "edit", !.pc = "get", !.rev = rev, !.new = new,
                             !.dead = req[r].dead]
<1>2. CASE new \notin Written
  BY <1>1, <1>2, Answering, SameLeavesGrow DEF Reassembled, Outcomes, Source!Refusals
<1>3. CASE new \in Written
  <2>1. Goes(r, d)
    BY <1>1, <1>3 DEF Reassembled
  <2>6. new \in Contents
    BY <1>3 DEF Written
  <2>7. file.rev \in 0..MaxRev
    BY Known
  <2>2. new \in Contents /\ rev \in 0..MaxRev
    BY <2>6, <2>7, Bounds
  <2>3. d \in Request
    BY ZenonT(60), <2>2, IdleType, Known DEF Request
  <2>4. /\ d.pc = "get" /\ d.kind = "edit" /\ d.rev = rev /\ d.new = new /\ d.answer = "none"
        /\ d.del = FALSE /\ d.dead = req[r].dead
    BY IdleType DEF Request, Idle
  <2> HIDE DEF d
  <2>5. RequestOK(d, file, leaf')
    BY <1>3, <2>4, Known DEF RequestOK, PlaceOK, DeathOK, PutsOK, BasisOK, Resting, Recovering, Repairing
  <2> QED
    BY <2>1, <2>3, <2>4, <2>5, Moving, SameLeavesGrow DEF Resting
<1> QED
  BY <1>2, <1>3

LEMMA RereadOK ==
  ASSUME IInv, NEW r \in Requests, req[r].kind = "edit", req[r].pc \notin Resting,
         NEW again \in BOOLEAN, Reread(r, again), UNCHANGED <<file, leaf>>
  PROVE  IInv' /\ Faithful
<1> DEFINE d == [Idle EXCEPT !.kind = "edit", !.pc = "bulk", !.again = again, !.dead = req[r].dead]
<1>1. d \in Request
  BY ZenonT(60), IdleType, Known DEF Request
<1>2. /\ d.pc = "bulk" /\ d.kind = "edit" /\ d.answer = "none" /\ d.scan = FALSE
      /\ d.del = FALSE /\ d.dead = req[r].dead
  BY IdleType DEF Request, Idle
<1>3. Goes(r, d)
  BY DEF Reread
<1> HIDE DEF d
<1>4. RequestOK(d, file, leaf')
  BY <1>2, Known DEF RequestOK, PlaceOK, DeathOK, PutsOK, BasisOK, Resting, Recovering, Repairing
<1> QED
  BY <1>1, <1>2, <1>3, <1>4, Moving, SameLeavesGrow DEF Resting
(* The repair of an edit ends: the edit is told why, or reads anew.          *)
LEMMA GivesUpOK ==
  ASSUME IInv, NEW r \in Requests, req[r].pc \in Repairing,
         NEW a \in Outcomes \ {"lost", "notfound"}, GivesUp(r, a), UNCHANGED file, Grows(leaf')
  PROVE  IInv' /\ Faithful
<1> DEFINE d == [req[r] EXCEPT !.pc = "verdict", !.kids = <<>>, !.todo = <<>>, !.moved = FALSE,
                               !.rev = 0]
<1>1. CASE req[r].kind = "edit"
  <2>1. d \in Request /\ Goes(r, d)
    <3>1. req[r] \in Request
      BY Known
    <3> QED
      BY <1>1, <3>1, EmptyContent, ZeroRev DEF Request, GivesUp
  <2>2. /\ d.pc = "verdict" /\ d.kind = "edit" /\ d.answer = "none" /\ d.del = req[r].del
        /\ d.dead = req[r].dead
    BY <1>1, Known DEF Request, RequestOK, PlaceOK, Repairing
  <2> HIDE DEF d
  <2>3. RequestOK(d, file, leaf')
    BY <2>2, Known DEF RequestOK, PlaceOK, DeathOK, PutsOK, BasisOK, Resting, Recovering, Repairing
  <2> QED
    BY <1>1, <2>1, <2>2, <2>3, Moving DEF Repairing
<1>2. CASE req[r].kind # "edit"
  BY <1>2, Answering DEF GivesUp, Repairing, Resting
<1> QED
  BY <1>1, <1>2

LEMMA BulkOK ==
  ASSUME IInv, NEW r \in Requests, Bulk(r)
  PROVE  IInv' /\ Faithful
<1>1. /\ req[r].pc = "bulk" /\ req[r].kind = "edit" /\ req[r].answer = "none"
      /\ UNCHANGED <<file, leaf>>
  BY Known DEF Bulk, At, Reads, RequestOK, PlaceOK, Recovering
<1>2. CASE file.st = "live" /\ Recovered(r, file.rev, file.kids)
  <2>1. file.rev \in 1..file.rev /\ file.kids \in Contents
    BY <1>2, Bounds DEF IInv, DocsOK
  <2> QED
    BY <1>1, <1>2, <2>1, RecoveredOK DEF Resting
<1> DEFINE d == [req[r] EXCEPT !.pc = "walk", !.seen = @ \/ file.st = "live",
                               !.del = @ \/ file.st = "gone"]
<1>3. CASE Goes(r, d)
  <2>4. req[r] \in Request
    BY Known
  <2>1. d \in Request
    BY ZenonT(60), <2>4 DEF Request
  <2>2. /\ d.pc = "walk" /\ d.kind = "edit" /\ d.answer = "none" /\ d.dead = req[r].dead
        /\ d.scan = req[r].scan /\ d.del = (req[r].del \/ file.st = "gone")
    BY <1>1, Known DEF Request
  <2> HIDE DEF d
  <2>3. RequestOK(d, file, leaf')
    BY <1>1, <2>2, Known DEF RequestOK, PlaceOK, DeathOK, PutsOK, BasisOK, Resting, Recovering, Repairing
  <2> QED
    BY <1>1, <1>3, <2>1, <2>2, <2>3, Moving, SameLeavesGrow
<1> QED
  BY <1>2, <1>3 DEF Bulk

LEMMA WalkFileOK ==
  ASSUME IInv, NEW r \in Requests, WalkFile(r)
  PROVE  IInv' /\ Faithful
<1>1. /\ req[r].pc = "walk" /\ req[r].kind = "edit" /\ req[r].answer = "none"
      /\ UNCHANGED <<file, leaf>>
  BY Known DEF WalkFile, At, Reads, RequestOK, PlaceOK, Recovering
<1> DEFINE d == [req[r] EXCEPT !.seen = @ \/ file.st = "live", !.del = @ \/ file.st = "gone"]
           e == IF d.scan THEN d ELSE [d EXCEPT !.rev = file.rev, !.kids = file.kids]
<1>0. req[r] \in Request /\ file.rev \in 0..MaxRev /\ file.kids \in Contents
  BY Known
<1>2. /\ d \in Request /\ d.kind = "edit" /\ d.answer = "none" /\ d.dead = req[r].dead
      /\ d.del = (req[r].del \/ file.st = "gone") /\ d.scan = req[r].scan /\ d.rev = req[r].rev
      /\ d.kids = req[r].kids
  BY ZenonT(60), <1>0, <1>1 DEF Request
<1> HIDE DEF d
<1>3. d.del => d.dead
  BY <1>1, <1>2, Known DEF RequestOK, DeathOK, Resting
<1>4. /\ e \in Request /\ e.kind = "edit" /\ e.answer = "none" /\ e.dead = req[r].dead
      /\ e.del = d.del /\ e.rev = (IF d.scan THEN d.rev ELSE file.rev)
      /\ e.kids = (IF d.scan THEN d.kids ELSE file.kids)
  <2>1. CASE d.scan
    BY <1>2, <2>1
  <2>2. CASE ~ d.scan
    <3>1. e = [d EXCEPT !.rev = file.rev, !.kids = file.kids]
      BY <2>2
    <3> HIDE DEF e
    <3> QED
      BY <1>0, <1>2, <2>2, <3>1 DEF Request
  <2> QED
    BY <2>1, <2>2
<1> HIDE DEF e
<1>5. CASE file.st = "live" /\ file.kids # <<>>
  <2> DEFINE g == [e EXCEPT !.pc = "child", !.todo = FirstSeen(file.kids)]
  <2>1. FirstSeen(file.kids) \in Contents /\ FirstSeen(file.kids) # <<>>
    BY <1>5, Known, FirstSeenMembers
  <2>6. g \in Request
    BY <1>4, <2>1 DEF Request
  <2>2. Goes(r, g)
    BY <1>5 DEF WalkFile, d, e
  <2>3. /\ g.pc = "child" /\ g.kind = "edit" /\ g.answer = "none" /\ g.dead = req[r].dead
        /\ g.del = d.del /\ g.rev = e.rev /\ g.kids = e.kids /\ g.todo = FirstSeen(file.kids)
    BY <1>4 DEF Request
  <2> HIDE DEF g
  <2>4. e.rev \in 1..file.rev /\ (e.rev = file.rev => e.kids = file.kids)
    <3>1. file.rev \in Nat /\ file.rev > 0
      BY <1>5, Bounds DEF IInv, DocsOK
    <3> QED
      BY <1>1, <1>2, <1>4, <3>1, Known DEF RequestOK, BasisOK
  <2>5. RequestOK(g, file, leaf')
    BY <1>1, <1>2, <1>3, <1>5, <2>1, <2>3, <2>4, Known
    DEF RequestOK, PlaceOK, DeathOK, PutsOK, BasisOK, Resting, Recovering, Repairing
  <2> QED
    BY <1>1, <2>2, <2>3, <2>5, <2>6, Moving, SameLeavesGrow
<1>6. CASE ~ (file.st = "live" /\ file.kids # <<>>)
  <2> DEFINE pc == IF d.scan THEN "judge" ELSE "next"
             g == [d EXCEPT !.pc = pc]
  <2>1. pc \in {"judge", "next"} /\ (pc = "next" => ~ d.scan)
    OBVIOUS
  <2>2. Goes(r, g)
    BY <1>6 DEF WalkFile, d
  <2> HIDE DEF pc
  <2>3. /\ g \in Request /\ g.pc = pc /\ g.kind = "edit" /\ g.answer = "none"
        /\ g.dead = req[r].dead /\ g.del = d.del /\ g.scan = d.scan
    BY <1>2, <2>1 DEF Request
  <2> HIDE DEF g
  <2>4. RequestOK(g, file, leaf')
    BY <1>1, <1>2, <1>3, <2>1, <2>3, Known
    DEF RequestOK, PlaceOK, DeathOK, PutsOK, BasisOK, Resting, Recovering, Repairing
  <2> QED
    BY <1>1, <2>1, <2>2, <2>3, <2>4, Moving, SameLeavesGrow
<1> QED
  BY <1>5, <1>6

LEMMA WalkLeafOK ==
  ASSUME IInv, NEW r \in Requests, WalkLeaf(r)
  PROVE  IInv' /\ Faithful
<1> DEFINE l == Head(req[r].todo)
           d == [req[r] EXCEPT !.todo = Tail(@), !.got = IF Live(l) THEN @ \cup {l} ELSE @]
<1>1. /\ req[r].pc = "child" /\ req[r].kind = "edit" /\ req[r].answer = "none"
      /\ UNCHANGED <<file, leaf>> /\ req[r].todo # <<>> /\ req[r].todo \in Contents
  BY Known DEF WalkLeaf, At, Reads, RequestOK, PlaceOK, Recovering, Request
<1>2. l \in Leaves /\ Tail(req[r].todo) \in Contents
  BY <1>1, HeadAndTail
<1>3. \/ d.todo # <<>> /\ Goes(r, d)
      \/ Recovered(r, d.rev, d.kids)
      \/ Goes(r, [d EXCEPT !.pc = IF d.scan THEN "judge" ELSE "next", !.got = {},
                           !.rev = 0, !.kids = <<>>, !.scan = FALSE])
  BY DEF WalkLeaf
<1> HIDE DEF l
<1>9. req[r] \in Request
  BY Known
<1>4. /\ d \in Request /\ d.pc = "child" /\ d.kind = "edit" /\ d.answer = "none"
      /\ d.dead = req[r].dead /\ d.del = req[r].del /\ d.rev = req[r].rev /\ d.kids = req[r].kids
  BY <1>1, <1>2, <1>9 DEF Request
<1> HIDE DEF d
<1>5. /\ d.rev \in 1..file.rev /\ (d.rev = file.rev => file.st = "live" /\ d.kids = file.kids)
      /\ (d.del => d.dead) /\ (file.st # "live" => d.dead)
  BY <1>1, <1>4, Known DEF RequestOK, BasisOK, DeathOK, Resting
<1>6. CASE d.todo # <<>> /\ Goes(r, d)
  <2>1. RequestOK(d, file, leaf')
    BY <1>4, <1>5, <1>6 DEF RequestOK, PlaceOK, DeathOK, PutsOK, BasisOK, Resting, Recovering, Repairing
  <2> QED
    BY <1>1, <1>4, <1>6, <2>1, Moving, SameLeavesGrow
<1>7. CASE Recovered(r, d.rev, d.kids)
  <2>1. d.kids \in Contents
    BY <1>4 DEF Request
  <2> QED
    BY <1>1, <1>5, <1>7, <2>1, RecoveredOK DEF Resting
<1> DEFINE pc == IF d.scan THEN "judge" ELSE "next"
           g == [d EXCEPT !.pc = pc, !.got = {}, !.rev = 0, !.kids = <<>>, !.scan = FALSE]
<1>8. CASE Goes(r, g)
  <2>1. pc \in {"judge", "next"}
    OBVIOUS
  <2> HIDE DEF pc
  <2>2. /\ g \in Request /\ g.pc = pc /\ g.kind = "edit" /\ g.answer = "none"
        /\ g.dead = d.dead /\ g.del = d.del /\ g.scan = FALSE
    BY <1>4, <2>1, EmptyContent, ZeroRev DEF Request
  <2> HIDE DEF g
  <2>3. RequestOK(g, file, leaf')
    BY <1>5, <2>1, <2>2 DEF RequestOK, PlaceOK, DeathOK, PutsOK, BasisOK, Resting, Recovering, Repairing
  <2> QED
    BY <1>1, <1>8, <2>1, <2>2, <2>3, Moving, SameLeavesGrow
<1> QED
  BY <1>3, <1>6, <1>7, <1>8
LEMMA WalkAgainOK ==
  ASSUME IInv, NEW r \in Requests, WalkAgain(r)
  PROVE  IInv' /\ Faithful
<1>1. /\ req[r].pc = "next" /\ req[r].kind = "edit" /\ req[r].answer = "none"
      /\ UNCHANGED <<file, leaf>> /\ ~ req[r].scan
  BY Known DEF WalkAgain, At, Reads, RequestOK, PlaceOK, BasisOK, Recovering
<1>2. req[r] \in Request /\ file.rev \in 0..MaxRev /\ file.kids \in Contents
  BY Known
<1>3. ASSUME NEW pc \in {"walk", "judge"}, Goes(r, [req[r] EXCEPT !.pc = pc])
      PROVE  IInv' /\ Faithful
  <2> DEFINE d == [req[r] EXCEPT !.pc = pc]
  <2>1. /\ d \in Request /\ d.pc = pc /\ d.kind = "edit" /\ d.answer = "none"
        /\ d.dead = req[r].dead /\ d.del = req[r].del /\ d.scan = FALSE
    BY <1>1, <1>2 DEF Request
  <2> HIDE DEF d
  <2>2. RequestOK(d, file, leaf')
    BY <1>1, <2>1, Known DEF RequestOK, PlaceOK, DeathOK, PutsOK, BasisOK, Resting, Recovering, Repairing
  <2> QED
    BY <1>1, <1>3, <2>1, <2>2, Moving, SameLeavesGrow DEF d
<1> DEFINE d == [req[r] EXCEPT !.pc = "walk", !.scan = TRUE, !.seen = TRUE, !.rev = file.rev,
                               !.kids = file.kids]
<1>4. CASE Exists /\ Goes(r, d)
  <2>1. /\ d \in Request /\ d.pc = "walk" /\ d.kind = "edit" /\ d.answer = "none"
        /\ d.dead = req[r].dead /\ d.del = req[r].del /\ d.rev = file.rev /\ d.kids = file.kids
    BY <1>1, <1>2 DEF Request
  <2>2. file.rev \in 1..file.rev
    BY <1>4, <1>2, Bounds DEF IInv, DocsOK, Exists
  <2> HIDE DEF d
  <2>3. RequestOK(d, file, leaf')
    BY <1>1, <2>1, <2>2, Known DEF RequestOK, PlaceOK, DeathOK, PutsOK, BasisOK, Resting, Recovering, Repairing
  <2> QED
    BY <1>1, <1>4, <2>1, <2>3, Moving, SameLeavesGrow
<1> QED
  BY <1>3, <1>4 DEF WalkAgain

LEMMA JudgeOK ==
  ASSUME IInv, NEW r \in Requests, Judge(r)
  PROVE  IInv' /\ Faithful
<1>1. /\ req[r].pc = "judge" /\ req[r].kind = "edit" /\ req[r].answer = "none"
      /\ UNCHANGED <<file, leaf>>
  BY Known DEF Judge, At, Reads, RequestOK, PlaceOK, Recovering
<1> DEFINE pc == IF req[r].again \/ ~ req[r].seen THEN "verdict" ELSE "diagnose"
           d == [req[r] EXCEPT !.pc = pc]
<1>2. pc \in {"verdict", "diagnose"} /\ Goes(r, d)
  BY DEF Judge
<1> HIDE DEF pc
<1>3. req[r] \in Request
  BY Known
<1>4. /\ d \in Request /\ d.pc = pc /\ d.kind = "edit" /\ d.answer = "none"
      /\ d.dead = req[r].dead /\ d.del = req[r].del
  BY <1>1, <1>2, <1>3 DEF Request
<1> HIDE DEF d
<1>5. RequestOK(d, file, leaf')
  BY <1>1, <1>2, <1>4, Known DEF RequestOK, PlaceOK, DeathOK, PutsOK, BasisOK, Resting, Recovering, Repairing
<1> QED
  BY <1>1, <1>2, <1>4, <1>5, Moving, SameLeavesGrow

LEMMA VerdictOK ==
  ASSUME IInv, NEW r \in Requests, Verdict(r)
  PROVE  IInv' /\ Faithful
<1>1. req[r].pc = "verdict" /\ UNCHANGED <<file, leaf>>
  BY DEF Verdict, At, Reads
<1> DEFINE a == IF req[r].del \/ (~ req[r].seen /\ file.st = "tomb") THEN "notfound" ELSE "unavailable"
<1>2. a \in Outcomes \ {"lost"} /\ Answers(r, a)
  BY DEF Verdict, Outcomes, Source!Refusals
<1>3. a = "notfound" => req[r].dead
  BY <1>1, Known DEF RequestOK, DeathOK, Resting
<1> HIDE DEF a
<1> QED
  BY <1>1, <1>2, <1>3, Answering, SameLeavesGrow DEF Resting

-----------------------------------------------------------------------------
(* Diagnosis and repair.  A repair reads, and restores leaves.               *)

LEMMA ContinuesOK ==
  ASSUME IInv, NEW r \in Requests, req[r].pc \in Repairing, NEW a \in Outcomes \ {"lost", "notfound"},
         IF req[r].kind = "edit" THEN Reread(r, TRUE) ELSE Answers(r, a), UNCHANGED <<file, leaf>>
  PROVE  IInv' /\ Faithful
<1>1. CASE req[r].kind = "edit"
  BY <1>1, RereadOK DEF Repairing, Resting
<1>2. CASE req[r].kind # "edit"
  BY <1>2, Answering, SameLeavesGrow DEF Repairing, Resting
<1> QED
  BY <1>1, <1>2

(* A repair that goes on as before.                                         *)
LEMMA RepairGoesOn ==
  ASSUME IInv, NEW r \in Requests, req[r].pc \in Repairing, NEW d \in Request, d.pc \in Repairing,
         d.kind = req[r].kind, d.answer = req[r].answer, d.dead = req[r].dead, d.del = req[r].del,
         d.pc \in {"state", "past", "restore", "conflict"} => d.todo # <<>>,
         Goes(r, d), UNCHANGED file, Grows(leaf')
  PROVE  IInv' /\ Faithful
<1>1. /\ d.kind \in {"edit", "repair"} /\ d.answer = "none"
  BY Known DEF RequestOK, PlaceOK, Repairing
<1>2. RequestOK(d, file, leaf')
  BY <1>1, Known DEF RequestOK, PlaceOK, DeathOK, PutsOK, BasisOK, Resting, Recovering, Repairing
<1> QED
  BY <1>2, Moving DEF Repairing

(* The steps that only change the place.                                    *)
LEMMA RepairStepsOn ==
  ASSUME IInv, NEW r \in Requests, req[r].pc \in Repairing, NEW pc \in Repairing,
         pc \in {"state", "past", "restore", "conflict"} => req[r].todo # <<>>,
         Goes(r, [req[r] EXCEPT !.pc = pc]), UNCHANGED file, Grows(leaf')
  PROVE  IInv' /\ Faithful
<1> DEFINE d == [req[r] EXCEPT !.pc = pc]
<1>1. req[r] \in Request
  BY Known
<1>2. /\ d \in Request /\ d.pc = pc /\ d.kind = req[r].kind /\ d.answer = req[r].answer
      /\ d.dead = req[r].dead /\ d.del = req[r].del /\ d.todo = req[r].todo
  BY <1>1 DEF Request, Repairing
<1>3. Goes(r, d)
  OBVIOUS
<1> HIDE DEF d
<1> QED
  BY <1>2, <1>3, RepairGoesOn

LEMMA NextChildOK ==
  ASSUME IInv, NEW r \in Requests, req[r].pc \in {"state", "past", "restore", "conflict"},
         NextChild(r), UNCHANGED file, Grows(leaf')
  PROVE  IInv' /\ Faithful
<1> DEFINE d == [req[r] EXCEPT !.pc = "parent", !.todo = Tail(@)]
<1>1. req[r] \in Request /\ req[r].todo \in Contents /\ req[r].todo # <<>>
  BY Known DEF Request, RequestOK, PlaceOK
<1>2. Tail(req[r].todo) \in Contents
  BY <1>1, HeadAndTail
<1>3. /\ d \in Request /\ d.pc = "parent" /\ d.kind = req[r].kind /\ d.answer = req[r].answer
      /\ d.dead = req[r].dead /\ d.del = req[r].del
  BY <1>1, <1>2 DEF Request
<1>4. Goes(r, d)
  BY DEF NextChild
<1> HIDE DEF d
<1> QED
  BY <1>3, <1>4, RepairGoesOn DEF Repairing

LEMMA DiagnoseOK ==
  ASSUME IInv, NEW r \in Requests, Diagnose(r)
  PROVE  IInv' /\ Faithful
<1>1. req[r].pc = "diagnose" /\ UNCHANGED <<file, leaf>>
  BY DEF Diagnose, At, Reads
<1> DEFINE d == [req[r] EXCEPT !.pc = "classify", !.rev = file.rev, !.kids = file.kids]
<1>2. CASE Exists
  <2>1. req[r] \in Request /\ file.rev \in 0..MaxRev /\ file.kids \in Contents
    BY Known
  <2>2. /\ d \in Request /\ d.pc = "classify" /\ d.kind = req[r].kind /\ d.answer = req[r].answer
        /\ d.dead = req[r].dead /\ d.del = req[r].del
    BY <2>1 DEF Request
  <2>3. Goes(r, d)
    BY <1>2 DEF Diagnose
  <2> HIDE DEF d
  <2> QED
    BY <1>1, <2>2, <2>3, RepairGoesOn, SameLeavesGrow DEF Repairing
<1>3. CASE ~ Exists
  BY <1>1, <1>3, ContinuesOK DEF Diagnose, Repairing, Outcomes, Source!Refusals
<1> QED
  BY <1>2, <1>3

LEMMA ClassifyOK ==
  ASSUME IInv, NEW r \in Requests, Classify(r)
  PROVE  IInv' /\ Faithful
<1>1. req[r].pc \in Repairing /\ UNCHANGED <<file, leaf>>
  BY DEF Classify, At, Reads, Repairing
<1>2. "nothing" \in Outcomes \ {"lost", "notfound"}
  BY DEF Outcomes, Source!Refusals
<1>3. CASE GivesUp(r, "nothing")
  BY <1>1, <1>2, <1>3, GivesUpOK, SameLeavesGrow
<1>4. CASE Goes(r, [req[r] EXCEPT !.pc = "initial"])
  BY <1>1, <1>4, RepairStepsOn, SameLeavesGrow DEF Repairing
<1>5. CASE IF req[r].kind = "edit" THEN Reread(r, TRUE) ELSE Answers(r, "nothing")
  BY <1>1, <1>2, <1>5, ContinuesOK
<1> QED
  BY <1>3, <1>4, <1>5 DEF Classify

LEMMA InitialOK ==
  ASSUME IInv, NEW r \in Requests, Initial(r)
  PROVE  IInv' /\ Faithful
<1>1. req[r].pc \in Repairing /\ UNCHANGED <<file, leaf>>
  BY DEF Initial, At, Reads, Repairing
<1>2. CASE Goes(r, [req[r] EXCEPT !.pc = "tombs"])
  BY <1>1, <1>2, RepairStepsOn, SameLeavesGrow DEF Repairing
<1>3. CASE GivesUp(r, "incomplete")
  BY <1>1, <1>3, GivesUpOK, SameLeavesGrow DEF Outcomes, Source!Refusals
<1> QED
  BY <1>2, <1>3 DEF Initial

LEMMA TombsOK ==
  ASSUME IInv, NEW r \in Requests, Tombs(r)
  PROVE  IInv' /\ Faithful
<1>1. req[r].pc = "tombs" /\ UNCHANGED <<file, leaf>>
  BY DEF Tombs, At, Reads
<1> DEFINE K == {k \in DOMAIN req[r].kids : leaf[req[r].kids[k]].st = "tomb"}
           todo == Picked(req[r].kids, K)
           d == [req[r] EXCEPT !.pc = "parent", !.todo = todo]
<1>2. req[r] \in Request /\ req[r].kids \in Contents
  BY Known DEF Request
<1>3. todo \in Contents
  <2>1. K \in SUBSET (DOMAIN req[r].kids)
    OBVIOUS
  <2> HIDE DEF K
  <2> QED
    BY <1>2, <2>1, PickedMembers
<1>4. Goes(r, d)
  BY DEF Tombs
<1> HIDE DEF todo
<1>5. /\ d \in Request /\ d.pc = "parent" /\ d.kind = req[r].kind /\ d.answer = req[r].answer
      /\ d.dead = req[r].dead /\ d.del = req[r].del
  BY <1>2, <1>3 DEF Request
<1> HIDE DEF d
<1> QED
  BY <1>1, <1>4, <1>5, RepairGoesOn, SameLeavesGrow DEF Repairing
LEMMA ParentOK ==
  ASSUME IInv, NEW r \in Requests, Parent(r)
  PROVE  IInv' /\ Faithful
<1>1. req[r].pc \in Repairing /\ UNCHANGED <<file, leaf>>
  BY DEF Parent, At, Reads, Repairing
<1>2. CASE Goes(r, [req[r] EXCEPT !.pc = "final"])
  BY <1>1, <1>2, RepairStepsOn, SameLeavesGrow DEF Repairing
<1>3. CASE req[r].todo # <<>> /\ Goes(r, [req[r] EXCEPT !.pc = "state"])
  BY <1>1, <1>3, RepairStepsOn, SameLeavesGrow DEF Repairing
<1> DEFINE d == [req[r] EXCEPT !.pc = "final", !.moved = TRUE, !.todo = <<>>]
<1>4. CASE Goes(r, d)
  <2>1. req[r] \in Request
    BY Known
  <2>2. /\ d \in Request /\ d.pc = "final" /\ d.kind = req[r].kind /\ d.answer = req[r].answer
        /\ d.dead = req[r].dead /\ d.del = req[r].del
    BY <2>1, EmptyContent DEF Request
  <2> HIDE DEF d
  <2> QED
    BY <1>1, <1>4, <2>2, RepairGoesOn, SameLeavesGrow DEF Repairing
<1> QED
  BY <1>2, <1>3, <1>4 DEF Parent

LEMMA StateOK ==
  ASSUME IInv, NEW r \in Requests, State(r)
  PROVE  IInv' /\ Faithful
<1>1. req[r].pc = "state" /\ UNCHANGED <<file, leaf>> /\ req[r].todo # <<>>
  BY Known DEF State, At, Reads, RequestOK, PlaceOK
<1>2. CASE Goes(r, [req[r] EXCEPT !.pc = "past"])
  BY <1>1, <1>2, RepairStepsOn, SameLeavesGrow DEF Repairing
<1>3. CASE NextChild(r)
  BY <1>1, <1>3, NextChildOK, SameLeavesGrow
<1> QED
  BY <1>2, <1>3 DEF State

LEMMA PastOK ==
  ASSUME IInv, NEW r \in Requests, Past(r)
  PROVE  IInv' /\ Faithful
<1>1. req[r].pc = "past" /\ UNCHANGED <<file, leaf>> /\ req[r].todo # <<>>
  BY Known DEF Past, At, Reads, RequestOK, PlaceOK
<1>2. CASE Goes(r, [req[r] EXCEPT !.pc = "restore"])
  BY <1>1, <1>2, RepairStepsOn, SameLeavesGrow DEF Repairing
<1>3. CASE NextChild(r)
  BY <1>1, <1>3, NextChildOK, SameLeavesGrow
<1> QED
  BY <1>2, <1>3 DEF Past

LEMMA RestoreOK ==
  ASSUME IInv, NEW r \in Requests, Restore(r)
  PROVE  IInv' /\ Faithful
<1> DEFINE l == Head(req[r].todo)
<1>1. /\ req[r].pc = "restore" /\ UNCHANGED file /\ req[r].todo # <<>>
      /\ req[r].todo \in Contents
  BY Known DEF Restore, At, RequestOK, PlaceOK, Request
<1>2. l \in Leaves
  BY <1>1, HeadAndTail
<1>3. CASE leaf[l].rev < MaxLeafRev /\ LeafBecomes(l, "live") /\ NextChild(r)
  <2>1. Grows(leaf')
    BY <1>2, <1>3, LeafBecomesGrows
  <2> QED
    BY <1>1, <1>3, <2>1, NextChildOK
<1>4. CASE UNCHANGED leaf /\ Goes(r, [req[r] EXCEPT !.pc = "conflict"])
  BY <1>1, <1>4, RepairStepsOn, SameLeavesGrow DEF Repairing
<1> QED
  BY <1>3, <1>4 DEF Restore

LEMMA ConflictOK ==
  ASSUME IInv, NEW r \in Requests, Conflict(r)
  PROVE  IInv' /\ Faithful
<1>1. req[r].pc = "conflict" /\ UNCHANGED <<file, leaf>>
  BY DEF Conflict, At, Reads
<1>2. CASE NextChild(r)
  BY <1>1, <1>2, NextChildOK, SameLeavesGrow
<1>3. CASE GivesUp(r, "error")
  BY <1>1, <1>3, GivesUpOK, SameLeavesGrow DEF Repairing, Outcomes, Source!Refusals
<1> QED
  BY <1>2, <1>3 DEF Conflict

LEMMA FinalOK ==
  ASSUME IInv, NEW r \in Requests, Final(r)
  PROVE  IInv' /\ Faithful
<1>1. req[r].pc = "final" /\ UNCHANGED <<file, leaf>>
  BY DEF Final, At, Reads
<1> DEFINE moved == ~ Exists \/ file.rev # req[r].rev
           kids == IF Exists THEN file.kids ELSE <<>>
           d == [req[r] EXCEPT !.pc = "report", !.moved = @ \/ moved, !.kids = kids]
<1>2. req[r] \in Request /\ file.kids \in Contents
  BY Known
<1>3. kids \in Contents /\ moved \in BOOLEAN
  BY <1>2, EmptyContent
<1>4. Goes(r, d)
  BY DEF Final
<1> HIDE DEF moved, kids
<1>5. /\ d \in Request /\ d.pc = "report" /\ d.kind = req[r].kind /\ d.answer = req[r].answer
      /\ d.dead = req[r].dead /\ d.del = req[r].del
  BY ZenonT(60), <1>2, <1>3 DEF Request
<1> HIDE DEF d
<1> QED
  BY <1>1, <1>4, <1>5, RepairGoesOn, SameLeavesGrow DEF Repairing

LEMMA ReportOK ==
  ASSUME IInv, NEW r \in Requests, Report(r)
  PROVE  IInv' /\ Faithful
<1>1. req[r].pc \in Repairing /\ UNCHANGED <<file, leaf>>
  BY DEF Report, At, Reads, Repairing
<1>2. CASE Continues(r)
  <2>1. "done" \in Outcomes \ {"lost", "notfound"}
    BY DEF Outcomes
  <2> QED
    BY <1>1, <1>2, <2>1, ContinuesOK DEF Continues
<1>3. CASE GivesUp(r, "incomplete")
  BY <1>1, <1>3, GivesUpOK, SameLeavesGrow DEF Outcomes, Source!Refusals
<1> QED
  BY <1>2, <1>3 DEF Report

-----------------------------------------------------------------------------
(* Writing.                                                                 *)

LEMMA GetFileOK ==
  ASSUME IInv, NEW r \in Requests, GetFile(r)
  PROVE  IInv' /\ Faithful
<1>1. /\ req[r].pc = "get" /\ req[r].kind = "edit" /\ req[r].answer = "none"
      /\ UNCHANGED <<file, leaf>>
  BY Known DEF GetFile, At, Reads, RequestOK, PlaceOK
<1>2. CASE ~ Exists /\ Answers(r, "notfound")
  <2>1. req[r].dead
    BY <1>1, <1>2, Known DEF RequestOK, DeathOK, Exists, Resting
  <2> QED
    BY <1>1, <1>2, <2>1, Answering, SameLeavesGrow DEF Outcomes, Source!Refusals, Resting
<1>3. CASE Answers(r, "conflict")
  BY <1>1, <1>3, Answering, SameLeavesGrow DEF Outcomes, Source!Refusals, Resting
<1> DEFINE d == [req[r] EXCEPT !.pc = "revs"]
<1>4. CASE Goes(r, d)
  <2>1. req[r] \in Request
    BY Known
  <2>2. /\ d \in Request /\ d.pc = "revs" /\ d.kind = "edit" /\ d.answer = "none"
        /\ d.dead = req[r].dead /\ d.del = req[r].del /\ d.new = req[r].new /\ d.rev = req[r].rev
    BY <1>1, <2>1 DEF Request
  <2> HIDE DEF d
  <2>3. RequestOK(d, file, leaf')
    BY <1>1, <2>2, Known DEF RequestOK, PlaceOK, DeathOK, PutsOK, BasisOK, Resting, Recovering, Repairing
  <2> QED
    BY <1>1, <1>4, <2>2, <2>3, Moving, SameLeavesGrow
<1> QED
  BY <1>2, <1>3, <1>4 DEF GetFile

LEMMA GetRevsOK ==
  ASSUME IInv, NEW r \in Requests, GetRevs(r)
  PROVE  IInv' /\ Faithful
<1>1. /\ req[r].pc = "revs" /\ req[r].kind = "edit" /\ req[r].answer = "none"
      /\ UNCHANGED <<file, leaf>> /\ req[r].new \in Written
  BY Known DEF GetRevs, At, Reads, RequestOK, PlaceOK, PutsOK
<1> DEFINE todo == FirstSeen(req[r].new)
           revs == [l \in Leaves |-> IF l \in ToSet(req[r].new) THEN leaf[l].rev ELSE 0]
           d == [req[r] EXCEPT !.pc = "leaf", !.todo = todo, !.revs = revs]
<1>2. todo \in Contents /\ todo # <<>> /\ ToSet(todo) = ToSet(req[r].new)
  BY <1>1, FirstSeenMembers DEF Written
<1>3. revs \in [Leaves -> 0..MaxLeafRev]
  BY ZeroRev DEF IInv, DocsOK
<1>4. Goes(r, d)
  BY DEF GetRevs
<1> HIDE DEF todo, revs
<1>5. req[r] \in Request
  BY Known
<1>6. /\ d \in Request /\ d.pc = "leaf" /\ d.kind = "edit" /\ d.answer = "none"
      /\ d.dead = req[r].dead /\ d.del = req[r].del /\ d.new = req[r].new /\ d.rev = req[r].rev
      /\ d.todo = todo
  BY <1>1, <1>2, <1>3, <1>5 DEF Request
<1> HIDE DEF d
<1>7. RequestOK(d, file, leaf')
  BY <1>1, <1>2, <1>6, Known DEF RequestOK, PlaceOK, DeathOK, PutsOK, BasisOK, Resting, Recovering, Repairing
<1> QED
  BY <1>1, <1>4, <1>6, <1>7, Moving, SameLeavesGrow

(* A write that meets another one.                                          *)
LEMMA ClashOK ==
  ASSUME IInv, NEW r \in Requests, req[r].pc \notin Resting, Answers(r, Clash(r)),
         UNCHANGED <<file, leaf>>
  PROVE  IInv' /\ Faithful
<1>1. Clash(r) \in Outcomes \ {"lost"} /\ Clash(r) # "notfound"
  BY DEF Clash, Outcomes, Source!Refusals
<1> QED
  BY <1>1, Answering, SameLeavesGrow

(* One leaf less to put before the file.                                    *)
LEMMA PutLeafOK ==
  ASSUME IInv, NEW r \in Requests, PutLeaf(r)
  PROVE  IInv' /\ Faithful
<1> DEFINE l == Head(req[r].todo)
           pc == IF Tail(req[r].todo) = <<>> THEN "file" ELSE "leaf"
           d == [req[r] EXCEPT !.todo = Tail(@), !.revs[l] = 0, !.pc = pc]
<1>1. /\ req[r].pc = "leaf" /\ req[r].kind \in {"create", "edit"} /\ req[r].answer = "none"
      /\ UNCHANGED file /\ req[r].todo # <<>> /\ req[r].todo \in Contents
  BY Known DEF PutLeaf, At, RequestOK, PlaceOK, Request, Resting
<1>2. /\ l \in Leaves /\ Tail(req[r].todo) \in Contents
      /\ ToSet(req[r].todo) = {l} \cup ToSet(Tail(req[r].todo))
  BY <1>1, HeadAndTail
<1>3. CASE UNCHANGED leaf /\ Answers(r, Clash(r))
  BY <1>1, <1>3, ClashOK DEF Resting
<1>4. CASE leaf[l].rev < MaxLeafRev /\ LeafBecomes(l, "live") /\ Goes(r, d)
  <2>1. Grows(leaf') /\ l \in WrittenLeaves(leaf')
    BY <1>2, <1>4, LeafBecomesGrows
  <2>2. req[r] \in Request /\ pc \in {"file", "leaf"}
    BY Known
  <2>3. pc = "file" => ToSet(Tail(req[r].todo)) = {}
    BY DEF ToSet
  <2>7. pc = "leaf" => Tail(req[r].todo) # <<>>
    OBVIOUS
  <2> HIDE DEF pc, l
  <2>4. /\ d \in Request /\ d.pc = pc /\ d.kind = req[r].kind /\ d.answer = "none"
        /\ d.dead = req[r].dead /\ d.del = req[r].del /\ d.new = req[r].new /\ d.rev = req[r].rev
        /\ d.todo = Tail(req[r].todo)
    <3>1. [req[r].revs EXCEPT ![l] = 0] \in [Leaves -> 0..MaxLeafRev]
      BY <1>2, <2>2, ZeroRev DEF Request
    <3> DEFINE revs == [req[r].revs EXCEPT ![l] = 0]
    <3> HIDE DEF revs
    <3>2. d = [req[r] EXCEPT !.todo = Tail(@), !.revs = revs, !.pc = pc]
      BY <2>2 DEF revs, Request
    <3> HIDE DEF d
    <3>3. revs \in [Leaves -> 0..MaxLeafRev]
      BY <3>1 DEF revs
    <3> QED
      BY <1>1, <1>2, <2>2, <3>2, <3>3 DEF Request
  <2> HIDE DEF d
  <2>5. PutsOK(d, leaf')
    <3>1. d.new \in Written /\ ToSet(d.new) \subseteq WrittenLeaves(leaf) \cup ToSet(req[r].todo)
      BY <1>1, <2>4, Known DEF RequestOK, PutsOK
    <3>2. ToSet(d.new) \subseteq WrittenLeaves(leaf') \cup ToSet(Tail(req[r].todo))
      BY <1>2, <2>1, <3>1 DEF Grows
    <3> QED
      BY <2>2, <2>3, <2>4, <3>1, <3>2 DEF PutsOK
  <2>6. RequestOK(d, file, leaf')
    BY <1>1, <2>2, <2>4, <2>5, <2>7, Known DEF RequestOK, PlaceOK, DeathOK, BasisOK, Resting, Recovering, Repairing
  <2> QED
    BY <1>1, <1>4, <2>1, <2>2, <2>4, <2>6, Moving
<1> QED
  BY <1>3, <1>4 DEF PutLeaf
(* A request has written the file.                                          *)
LEMMA FileWritten ==
  ASSUME IInv, NEW r \in Requests, req[r].pc = "file", NEW a \in {"done", "lost"},
         Accepts(Exists, file.rev, req[r].rev), file.rev < MaxRev,
         FileBecomes("live", req[r].new), Answers(r, a), UNCHANGED leaf
  PROVE  IInv' /\ Faithful
<1> DEFINE d == Finished(a, FALSE)
<1>1. /\ req[r].kind \in {"create", "edit"} /\ req[r].answer = "none" /\ req[r].new \in Written
      /\ ToSet(req[r].new) \subseteq WrittenLeaves(leaf)
  BY Known DEF RequestOK, PlaceOK, PutsOK, Resting
<1>2. /\ d \in Request /\ RequestOK(d, file', leaf') /\ d.kind = "none" /\ d.answer = a
  BY FinishedOK DEF Outcomes
<1>3. /\ DocsOK(file', leaf') /\ file.rev \in Nat /\ file'.rev = file.rev + 1
      /\ file'.st = "live" /\ file'.kids = req[r].new
  BY <1>1, FileBecomesOK
<1>4. req' = [req EXCEPT ![r] = d]
  BY DEF Answers, Finished
<1> HIDE DEF d
<1>5. \A s \in Requests : req'[s] = IF s = r THEN d ELSE req[s]
  BY <1>4 DEF IInv, TypeOK
<1>6. ASSUME NEW s \in Requests
      PROVE  RequestOK(req'[s], file', leaf')
  <2>1. CASE s = r
    BY <1>2, <1>5, <2>1
  <2>2. CASE s # r
    BY <1>3, <1>5, <2>2, Known, OutdatedOK
  <2> QED
    BY <2>1, <2>2
<1>7. IInv'
  <2>1. req' \in [Requests -> Request]
    BY <1>2, <1>4 DEF IInv, TypeOK
  <2>2. lock' \in Requests \cup {NoOne} /\ lock' # r
    BY RequestsAssumption DEF Answers, IInv, TypeOK
  <2>3. \A s \in Requests \ {r} : lock' = s <=> lock = s
    BY RequestsAssumption DEF Answers, IInv, TypeOK
  <2>4. \A s \in Requests : req'[s].kind = "edit" <=> lock' = s
    BY <1>2, <1>5, <2>2, <2>3 DEF IInv, TypeOK
  <2> QED
    BY <1>3, <1>6, <2>1, <2>2, <2>4 DEF IInv, TypeOK, DocsOK
<1>8. Source!Commits(r)
  <2>1. Answered[r] = "none" /\ Answered' = [Answered EXCEPT ![r] = a]
    BY <1>1, <1>2, <1>5 DEF Answered
  <2> QED
    BY <2>1 DEF Source!Commits, Answered
<1>9. Value' = {req[r].new}
  BY <1>3 DEF Value
<1>10. CASE req[r].kind = "create"
  <2>1. Value = {}
    BY <1>10, Known DEF Accepts, RequestOK, BasisOK, Exists, Value
  <2>2. Source!IsFile(Value') /\ Value' # {}
    BY <1>1, <1>9, IsFileOK DEF Written
  <2>3. Source!Create(r)
    BY <1>8, <2>1, <2>2 DEF Source!Create, Source!Dead, Value
  <2>4. Keeps
    BY <1>2, <1>5, <1>10, Known DEF Keeps, RequestOK, PlaceOK, Resting
  <2> QED
    BY <1>7, <2>3, <2>4 DEF Faithful, Atomic, Source!Next
<1>11. CASE req[r].kind = "edit" /\ ~ Repeats
  <2>1. req[r].rev \in 1..file.rev /\ req[r].rev # 0
    BY <1>11, Known DEF RequestOK, BasisOK
  <2>2. req[r].rev = file.rev
    BY <2>1 DEF Accepts
  <2>3. PICK x \in Leaves : file.st = "live" /\ req[r].new = Append(FirstSeen(file.kids), x)
    BY <1>11, <2>2, Known DEF RequestOK, BasisOK
  <2>4. file.kids \in Contents /\ IsInjective(file.kids)
    <3>1. IsInjective(<<>>)
      BY DEF IsInjective
    <3> QED
      BY <1>11, <3>1 DEF IInv, DocsOK, Written
  <2>5. req[r].new = Append(file.kids, x)
    BY <2>3, <2>4, FirstSeenMembers
  <2>6. Source!Edit(r)
    BY <1>8, <1>9, <2>3, <2>5 DEF Source!Edit, Source!Holds, Value
  <2>7. IsPrefix(file.kids, file'.kids)
    <3>1. file.kids \in Seq(Leaves) /\ Len(file.kids) \in Nat
      BY <2>4, ContentsAreSeqs
    <3>2. Len(Append(file.kids, x)) = Len(file.kids) + 1
      BY <3>1
    <3>3. \A i \in 1..Len(file.kids) : Append(file.kids, x)[i] = file.kids[i]
      BY <3>1
    <3>4. SubSeq(file.kids, 1, Len(file.kids)) = SubSeq(Append(file.kids, x), 1, Len(file.kids))
      BY <3>1, <3>2, <3>3
    <3> QED
      BY <1>3, <2>5, <3>1, <3>2, <3>4 DEF IsPrefix
  <2>8. Keeps
    BY <2>7 DEF Keeps
  <2> QED
    BY <1>7, <2>6, <2>8 DEF Faithful, Atomic, Source!Next
<1>12. CASE req[r].kind = "edit" /\ Repeats
  BY <1>7, <1>12 DEF Faithful
<1> QED
  BY <1>1, <1>10, <1>11, <1>12

LEMMA PutFileOK ==
  ASSUME IInv, NEW r \in Requests, PutFile(r)
  PROVE  IInv' /\ Faithful
<1>1. req[r].pc = "file" /\ UNCHANGED leaf
  BY DEF PutFile, At
<1>2. CASE Accepts(Exists, file.rev, req[r].rev)
  BY <1>1, <1>2, FileWritten DEF PutFile
<1>3. CASE ~ Accepts(Exists, file.rev, req[r].rev)
  BY <1>1, <1>3, ClashOK DEF PutFile, Resting
<1> QED
  BY <1>2, <1>3

-----------------------------------------------------------------------------
(* Deletion, and calls that fail.                                           *)

LEMMA FindOK ==
  ASSUME IInv, NEW r \in Requests, Find(r)
  PROVE  IInv' /\ Faithful
<1>1. /\ req[r].pc = "find" /\ req[r].kind = "delete" /\ req[r].answer = "none"
      /\ UNCHANGED <<file, leaf>>
  BY Known DEF Find, At, Reads, RequestOK, PlaceOK, Resting
<1> DEFINE d == [req[r] EXCEPT !.pc = "erase", !.rev = file.rev]
<1>2. CASE Goes(r, d)
  <2>1. req[r] \in Request /\ file.rev \in 0..MaxRev
    BY Known
  <2>2. /\ d \in Request /\ d.pc = "erase" /\ d.kind = "delete" /\ d.answer = "none"
        /\ d.dead = req[r].dead /\ d.del = req[r].del
    BY <1>1, <2>1 DEF Request
  <2> HIDE DEF d
  <2>3. RequestOK(d, file, leaf')
    BY <1>1, <2>2, Known DEF RequestOK, PlaceOK, DeathOK, PutsOK, BasisOK, Resting, Recovering, Repairing
  <2> QED
    BY <1>1, <1>2, <2>2, <2>3, Moving, SameLeavesGrow
<1>3. CASE ~ Exists /\ Answers(r, "notfound")
  <2>1. req[r].dead
    BY <1>1, <1>3, Known DEF RequestOK, DeathOK, Exists, Resting
  <2> QED
    BY <1>1, <1>3, <2>1, Answering, SameLeavesGrow DEF Outcomes, Source!Refusals, Resting
<1> QED
  BY <1>2, <1>3 DEF Find

LEMMA EraseOK ==
  ASSUME IInv, NEW r \in Requests, Erase(r)
  PROVE  IInv' /\ Faithful
<1>1. /\ req[r].pc = "erase" /\ req[r].kind = "delete" /\ req[r].answer = "none"
      /\ UNCHANGED leaf
  BY Known DEF Erase, At, RequestOK, PlaceOK, Resting
<1>2. CASE Exists /\ file.rev = req[r].rev
  <2> DEFINE d == Finished("done", FALSE)
  <2>1. /\ file.rev < MaxRev /\ FileBecomes("tomb", <<>>) /\ UNCHANGED lock
        /\ req' = [SeenDead EXCEPT ![r] = d]
    <3> DEFINE e == [Idle EXCEPT !.pc = "done", !.answer = "done"]
    <3>1. e = d
      <4>1. e \in Request /\ e.dead = FALSE
        BY IdleType DEF Idle, Request
      <4>2. d = [e EXCEPT !.dead = FALSE]
        BY IdleType DEF Finished, Request
      <4> HIDE DEF d, e
      <4> QED
        BY <4>1, <4>2 DEF Request
    <3> HIDE DEF d
    <3> QED
      BY <1>2, <3>1 DEF Erase
  <2>2. /\ d \in Request /\ RequestOK(d, file', leaf') /\ d.kind = "none" /\ d.answer = "done"
    BY FinishedOK DEF Outcomes
  <2> HIDE DEF d
  <2>3. /\ DocsOK(file', leaf') /\ file.rev \in Nat /\ file'.rev = file.rev + 1
        /\ file'.st = "tomb"
    BY <1>1, <2>1, FileBecomesOK
  <2>4. \A s \in Requests : req'[s] = IF s = r THEN d ELSE SeenDead[s]
    BY <2>1 DEF SeenDead
  <2>5. ASSUME NEW s \in Requests
        PROVE  /\ req'[s] \in Request /\ RequestOK(req'[s], file', leaf')
               /\ s # r => req'[s].kind = req[s].kind /\ req'[s].answer = req[s].answer
    <3>1. CASE s = r
      BY <2>2, <2>4, <3>1
    <3>2. CASE s # r
      BY <1>1, <2>3, <2>4, <3>2, SeenDeadOK
    <3> QED
      BY <3>1, <3>2
  <2>6. IInv'
    <3>1. req' \in [Requests -> Request]
      BY <2>1, <2>5 DEF SeenDead
    <3>2. lock \in Requests \cup {NoOne} /\ lock # r
      BY <1>1 DEF IInv, TypeOK
    <3>3. \A s \in Requests : req'[s].kind = "edit" <=> lock = s
      BY <2>2, <2>4, <2>5, <3>2 DEF IInv, TypeOK
    <3> QED
      BY <2>1, <2>3, <2>5, <3>1, <3>2, <3>3 DEF IInv, TypeOK, DocsOK
  <2>7. Source!Delete(r)
    <3>1. Answered[r] = "none"
      BY <1>1 DEF Answered
    <3>2. Answered' = [Answered EXCEPT ![r] = "done"]
      BY <2>2, <2>4, <2>5 DEF Answered
    <3>3. Value' = {}
      BY <2>3 DEF Value
    <3> QED
      BY <3>1, <3>2, <3>3 DEF Source!Delete, Source!Commits, Source!Dead, Answered, Value
  <2>8. Keeps
    BY <1>1, <2>5, Known DEF Keeps, RequestOK, PlaceOK, Resting
  <2> QED
    BY <2>6, <2>7, <2>8 DEF Faithful, Atomic, Source!Next
<1>3. CASE ~ (Exists /\ file.rev = req[r].rev)
  <2> DEFINE a == IF Exists THEN "error" ELSE "notfound"
  <2>1. UNCHANGED file /\ Answers(r, a) /\ a \in Outcomes \ {"lost"}
    BY <1>3 DEF Erase, Outcomes, Source!Refusals
  <2>2. a = "notfound" => req[r].dead
    BY <1>1, Known DEF RequestOK, DeathOK, Exists, Resting
  <2> HIDE DEF a
  <2> QED
    BY <1>1, <2>1, <2>2, Answering, SameLeavesGrow DEF Resting
<1> QED
  BY <1>2, <1>3

LEMMA CallFailsOK ==
  ASSUME IInv, NEW r \in Requests, CallFails(r)
  PROVE  IInv' /\ Faithful
<1>1. req[r].pc \notin Resting /\ UNCHANGED <<file, leaf>>
  BY DEF CallFails, Resting
<1>2. "error" \in Outcomes \ {"lost", "notfound"}
  BY DEF Outcomes, Source!Refusals
<1>3. CASE req[r].pc \in Repairing /\ GivesUp(r, "error")
  BY <1>1, <1>2, <1>3, GivesUpOK, SameLeavesGrow
<1>4. CASE Answers(r, "error")
  BY <1>1, <1>2, <1>4, Answering, SameLeavesGrow
<1> QED
  BY <1>3, <1>4 DEF CallFails, Repairing

LEMMA ReplyLostOK ==
  ASSUME IInv, NEW r \in Requests, ReplyLost(r)
  PROVE  IInv' /\ Faithful
<1>1. CASE /\ At(r, "file") /\ Accepts(Exists, file.rev, req[r].rev) /\ file.rev < MaxRev
           /\ FileBecomes("live", req[r].new) /\ UNCHANGED leaf
           /\ Answers(r, "lost")
  BY <1>1, FileWritten DEF At
<1> DEFINE l == Head(req[r].todo)
<1>2. CASE /\ At(r, "leaf") /\ UNCHANGED file /\ leaf[l].rev < MaxLeafRev
           /\ LeafBecomes(l, "live") /\ Answers(r, "error")
  <2>1. /\ req[r].pc = "leaf" /\ req[r].todo # <<>> /\ req[r].todo \in Contents
    BY <1>2, Known DEF At, RequestOK, PlaceOK, Request
  <2>2. l \in Leaves
    BY <2>1, HeadAndTail
  <2>3. Grows(leaf')
    BY <1>2, <2>2, LeafBecomesGrows
  <2> QED
    BY <1>2, <2>1, <2>3, Answering DEF Outcomes, Source!Refusals, Resting
<1> QED
  BY <1>1, <1>2 DEF ReplyLost

-----------------------------------------------------------------------------
(* The theorems.                                                            *)

LEMMA InitOK == Init => IInv
<1> SUFFICES ASSUME Init PROVE IInv
  OBVIOUS
<1>1. Idle \in Request
  BY IdleType
<1>2. /\ Idle.kind = "none" /\ Idle.pc = "idle" /\ Idle.answer = "none" /\ Idle.del = FALSE
  BY DEF Idle
<1> HIDE DEF Idle
<1>3. \A r \in Requests : RequestOK(req[r], file, leaf)
  BY <1>2 DEF Init, RequestOK, PlaceOK, DeathOK, PutsOK, BasisOK, Resting, Recovering, Repairing, Idle
<1>4. DocsOK(file, leaf)
  BY EmptyContent, ZeroRev DEF Init, DocsOK, FileStates, LeafStates
<1>5. TypeOK
  BY <1>1, <1>2, <1>4, RequestsAssumption DEF Init, TypeOK, DocsOK
<1> QED
  BY <1>3, <1>4, <1>5 DEF IInv

LEMMA NextOK ==
  ASSUME IInv, [Next]_vars
  PROVE  IInv' /\ Faithful
<1>1. ASSUME NEW r \in Requests, Steps(r)
      PROVE  IInv' /\ Faithful
  BY <1>1, BeginOK, BulkOK, WalkFileOK, WalkLeafOK, WalkAgainOK, JudgeOK, VerdictOK, DiagnoseOK,
     ClassifyOK, InitialOK, TombsOK, ParentOK, StateOK, PastOK, RestoreOK, ConflictOK, FinalOK,
     ReportOK, GetFileOK, GetRevsOK, PutLeafOK, PutFileOK, FindOK, EraseOK, CallFailsOK,
     ReplyLostOK DEF Steps
<1>2. CASE Clients
  BY <1>2, ClientLeaves, ClientFile DEF Clients
<1>3. CASE UNCHANGED vars
  <2>1. Grows(leaf') /\ UNCHANGED <<file, lock, req>>
    BY <1>3, SameLeavesGrow DEF vars
  <2> QED
    BY <2>1, LeavesChange
<1> QED
  BY <1>1, <1>2, <1>3 DEF Next

LEMMA Invariance == Spec => []IInv
<1>1. IInv /\ [Next]_vars => IInv'
  BY NextOK
<1> QED
  BY <1>1, InitOK, PTL DEF Spec

(* Types, and the lock of the path is held by the edit under way, if any    *)
(* (service.rs:345).                                                        *)
THEOREM TypeCorrect == Spec => []TypeOK
<1>1. IInv => TypeOK
  BY DEF IInv
<1> QED
  BY <1>1, Invariance, PTL

(* Leaves before files: a file in the database names only leaves that were  *)
(* written, whatever fails and whoever else writes (couchdb.rs:985, 1094).  *)
THEOREM LeavesFirst == Spec => []NamedLeavesWereWritten
<1>1. IInv => NamedLeavesWereWritten
  BY DEF IInv, DocsOK, NamedLeavesWereWritten, Exists, WrittenLeaves
<1> QED
  BY <1>1, Invariance, PTL

(* A request that takes the file for deleted is right: it was, at some      *)
(* moment since the request began (service.rs:566).                         *)
THEOREM DeletionCorrect == Spec => []DeletionIsConfirmed
<1>1. IInv => DeletionIsConfirmed
  BY DEF IInv, RequestOK, DeathOK, DeletionIsConfirmed
<1> QED
  BY <1>1, Invariance, PTL

(* The calls of a request amount to one step on the file that AtomicFile    *)
(* allows (couchdb.rs:1033), where no file holds a chunk twice.             *)
THEOREM Refinement == ~ Repeats => (Spec => ActsAtomically)
<1> SUFFICES ASSUME ~ Repeats
             PROVE  Spec => ActsAtomically
  OBVIOUS
<1>1. Init => Source!Init
  BY IsFileOK DEF Init, Source!Init, Idle
<1>2. IInv /\ [Next]_vars => [Source!Next]_<<Value, Answered>>
  BY NextOK DEF Faithful, Atomic
<1> QED
  BY <1>1, <1>2, Invariance, PTL DEF Spec, ActsAtomically, Source!Spec, Value, Answered

(* An edit that is done has added to what the file held, where no file      *)
(* holds a chunk twice (service.rs:352).                                    *)
THEOREM EditsKeep == ~ Repeats => (Spec => EditsKeepTheRest)
<1> SUFFICES ASSUME ~ Repeats
             PROVE  Spec => EditsKeepTheRest
  OBVIOUS
<1>1. IInv /\ [Next]_vars => Keeps
  BY NextOK DEF Faithful
<1>2. IInv /\ [Next]_vars => [Keeps]_vars
  BY <1>1
<1> QED
  BY <1>2, Invariance, PTL DEF Spec, EditsKeepTheRest, Keeps
=============================================================================
