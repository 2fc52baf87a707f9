----------------------------- MODULE PolicyProofs -----------------------------
(***************************************************************************)
(* The configuration and what it lets callers do, for every file, policy,  *)
(* set of tokens and sequence of steps.  Each of the three modules is      *)
(* proved from an inductive invariant of its own.                          *)
(***************************************************************************)
EXTENDS Reload, Adapters, WellFoundedInduction, TLAPS

-----------------------------------------------------------------------------
(* Reload.  What is in effect follows the file: the poller remembers the    *)
(* time of the file before it loads it, so that a load it has begun reads   *)
(* that file or a newer one (PollOK); and two copies of the file from the   *)
(* same time are the same (SameFile).                                       *)

FileRecords == [at : Nat, says : Configs \cup {Invalid}]

ReloadTypes ==
  /\ disk \in FileRecords /\ disk.at <= MaxEdits
  /\ snapshot \in FileRecords /\ snapshot.says \in Configs
  /\ newest \in Nat /\ known \in 0..Unspawned /\ missed \in BOOLEAN
  /\ load \in [Workers -> {"idle", "due", "read", "seen"}]
  /\ got \in [Workers -> FileRecords]
  /\ signals \in [sent : Nat, pending : BOOLEAN]
  /\ status \in [generation : Nat, successes : Nat, failures : Nat]
  /\ status.generation = 1 + status.successes

\* Copies are no newer than the file, and those of its time are the file.
SameFile ==
  /\ snapshot.at <= newest /\ newest <= disk.at
  /\ snapshot.at = disk.at => snapshot = disk
  /\ \A w \in Workers : got[w].at <= disk.at /\ (got[w].at = disk.at => got[w] = disk)

PollOK ==
  /\ known = Unspawned => load["poll"] = "idle" /\ (~ missed => disk.at = 0)
  /\ known # Unspawned => known <= disk.at
  /\ known # Unspawned /\ load["poll"] = "read" => known <= got["poll"].at
  /\ known = disk.at /\ ~ missed /\ disk.says # Invalid /\ load["poll"] \in {"idle", "seen"} =>
       newest = disk.at

\* Without a signal the poller is alone.
PollAlone ==
  signals.sent = 0 =>
    /\ ~ signals.pending /\ load["sighup"] = "idle" /\ snapshot.at = newest
    /\ load["poll"] = "read" => newest <= got["poll"].at

ReloadInv == ReloadTypes /\ SameFile /\ PollOK /\ PollAlone

LEMMA ReloadInitHolds == ReloadInit => ReloadInv
<1> SUFFICES ASSUME ReloadInit PROVE ReloadInv
  OBVIOUS
<1> DEFINE c == CHOOSE c \in Configs : TRUE
<1>1. c \in Configs
  BY FileAssumption
<1> HIDE DEF c
<1>2. disk = [at |-> 0, says |-> c] /\ disk \in FileRecords
  BY <1>1 DEF ReloadInit, File, FileRecords, c
<1>3. ReloadTypes
  <2>1. /\ snapshot = disk /\ newest = 0 /\ known = MaxEdits + 1 /\ missed = FALSE
        /\ load = [w \in Workers |-> "idle"] /\ got = [w \in Workers |-> disk]
        /\ signals = [sent |-> 0, pending |-> FALSE]
        /\ status = [generation |-> 1, successes |-> 0, failures |-> 0]
    BY DEF ReloadInit, Unspawned
  <2>2. disk.at = 0 /\ disk.says \in Configs
    BY <1>1, <1>2
  <2>3. known \in 0..Unspawned
    BY <2>1, FileAssumption DEF Unspawned
  <2>4. /\ load \in [Workers -> {"idle", "due", "read", "seen"}] /\ got \in [Workers -> FileRecords]
        /\ signals \in [sent : Nat, pending : BOOLEAN] /\ missed \in BOOLEAN
    BY <1>2, <2>1
  <2>5. /\ status \in [generation : Nat, successes : Nat, failures : Nat]
        /\ status.generation = 1 + status.successes
    BY <2>1
  <2>6. disk.at <= MaxEdits /\ newest \in Nat
    BY <2>1, <2>2, FileAssumption
  <2> QED
    BY <1>2, <2>1, <2>2, <2>3, <2>4, <2>5, <2>6 DEF ReloadTypes
<1>4. SameFile /\ PollOK /\ PollAlone
  BY <1>2, FileAssumption DEF ReloadInit, SameFile, PollOK, PollAlone, Unspawned, Workers
<1> QED
  BY <1>3, <1>4 DEF ReloadInv

LEMMA ReloadStepHolds == ASSUME ReloadInv, [ReloadNext]_reloadVars PROVE ReloadInv'
<1> USE FileAssumption DEF Workers, Unspawned
<1>0. ReloadTypes /\ SameFile /\ PollOK /\ PollAlone
  BY DEF ReloadInv
<1>n. /\ disk.at \in Nat /\ snapshot.at \in Nat /\ newest \in Nat /\ known \in Nat
      /\ \A w \in Workers : got[w].at \in Nat
      /\ signals.sent \in Nat
  BY <1>0 DEF ReloadTypes, FileRecords
<1>1. CASE UNCHANGED reloadVars
  BY <1>0, <1>1 DEF reloadVars, ReloadInv, ReloadTypes, SameFile, PollOK, PollAlone
<1>2. CASE EditFile
  <2>1. PICK says \in Configs \cup {Invalid} : disk' = [at |-> disk.at + 1, says |-> says]
    BY <1>2 DEF EditFile, File
  <2>2. disk'.at = disk.at + 1 /\ disk' \in FileRecords /\ disk'.at <= MaxEdits
    BY <1>2, <1>n, <2>1 DEF EditFile, FileRecords
  <2>3. ReloadTypes'
    BY <1>0, <1>2, <2>2 DEF EditFile, ReloadTypes
  <2>4. SameFile'
    BY <1>0, <1>2, <1>n, <2>2 DEF EditFile, SameFile
  <2>5. PollOK'
    <3>1. UNCHANGED <<known, load, got, newest>> /\ (known = Unspawned => missed')
      BY <1>2 DEF EditFile
    <3>2. known # Unspawned => known < disk'.at
      BY <1>0, <1>n, <2>2 DEF PollOK
    <3>3. known = Unspawned => known # disk'.at
      BY <1>n, <2>2
    <3>4. /\ known' = Unspawned => load'["poll"] = "idle" /\ (~ missed' => disk'.at = 0)
          /\ known' # Unspawned => known' <= disk'.at
      BY <1>0, <1>n, <2>2, <3>1, <3>2 DEF PollOK
    <3>5. known' # Unspawned /\ load'["poll"] = "read" => known' <= got'["poll"].at
      BY <1>0, <3>1 DEF PollOK
    <3>6. known' # disk'.at
      BY <1>n, <2>2, <3>1, <3>2, <3>3
    <3> QED
      BY <3>4, <3>5, <3>6 DEF PollOK
  <2>6. PollAlone'
    BY <1>0, <1>2 DEF EditFile, PollAlone
  <2> QED
    BY <2>3, <2>4, <2>5, <2>6 DEF ReloadInv
<1>3. CASE SpawnPoller
  <2>1. ReloadTypes'
    BY <1>0, <1>3 DEF SpawnPoller, ReloadTypes, FileRecords
  <2>2. SameFile' /\ PollAlone'
    BY <1>0, <1>3 DEF SpawnPoller, SameFile, PollAlone
  <2>3. PollOK'
    BY <1>0, <1>3, <1>n DEF SpawnPoller, PollOK, SameFile, ReloadTypes
  <2> QED
    BY <2>1, <2>2, <2>3 DEF ReloadInv
<1>4. CASE Poll
  <2>1. /\ load' \in [Workers -> {"idle", "due", "read", "seen"}]
        /\ load'["sighup"] = load["sighup"] /\ known # Unspawned
        /\ \/ load'["poll"] = "due" /\ known' = disk.at
           \/ load["poll"] = "seen" /\ load'["poll"] = "idle" /\ known' = known
        /\ UNCHANGED <<disk, snapshot, got, signals, status, missed, newest>>
    BY <1>0, <1>4 DEF Poll, ReloadTypes
  <2>2. ReloadTypes'
    BY <1>0, <2>1 DEF ReloadTypes, FileRecords
  <2>3. SameFile' /\ PollAlone'
    BY <1>0, <2>1 DEF SameFile, PollAlone
  <2>4. PollOK'
    BY <1>0, <1>n, <2>1 DEF PollOK, ReloadTypes
  <2> QED
    BY <2>2, <2>3, <2>4 DEF ReloadInv
<1>5. CASE Signal
  <2>1. signals' \in [sent : Nat, pending : BOOLEAN] /\ signals'.sent # 0
    BY <1>5, <1>n DEF Signal
  <2> QED
    BY <1>0, <1>5, <2>1 DEF Signal, ReloadInv, ReloadTypes, SameFile, PollOK, PollAlone
<1>6. CASE ReceiveSignal
  <2>1. /\ load' \in [Workers -> {"idle", "due", "read", "seen"}] /\ load'["poll"] = load["poll"]
        /\ signals' \in [sent : Nat, pending : BOOLEAN] /\ signals'.sent = signals.sent
        /\ signals.pending
    BY <1>0, <1>6 DEF ReceiveSignal, ReloadTypes
  <2>2. signals'.sent # 0
    BY <1>0, <2>1 DEF PollAlone
  <2> QED
    BY <1>0, <1>6, <2>1, <2>2 DEF ReceiveSignal, ReloadInv, ReloadTypes, SameFile, PollOK, PollAlone
<1>7. ASSUME NEW w \in Workers, ReadFile(w) PROVE ReloadInv'
  <2>1. /\ got' \in [Workers -> FileRecords] /\ got'[w] = disk
        /\ \A v \in Workers \ {w} : got'[v] = got[v] /\ load'[v] = load[v]
        /\ load' \in [Workers -> {"idle", "due", "read", "seen"}] /\ load'[w] = "read"
        /\ load[w] = "due"
    BY <1>0, <1>7 DEF ReadFile, ReloadTypes
  <2>2. ReloadTypes'
    BY <1>0, <1>7, <2>1 DEF ReadFile, ReloadTypes
  <2>3. SameFile'
    BY <1>0, <1>7, <1>n, <2>1 DEF ReadFile, SameFile
  <2>4. PollOK' /\ PollAlone'
    BY <1>0, <1>7, <1>n, <2>1 DEF ReadFile, PollOK, PollAlone, SameFile
  <2> QED
    BY <2>2, <2>3, <2>4 DEF ReloadInv
<1>8. ASSUME NEW w \in Workers, Apply(w) PROVE ReloadInv'
  <2>1. /\ \A v \in Workers \ {w} : load'[v] = load[v]
        /\ load' \in [Workers -> {"idle", "due", "read", "seen"}]
        /\ load[w] = "read" /\ load'[w] = "seen"
        /\ got[w] \in FileRecords /\ UNCHANGED <<disk, known, got, signals, missed>>
    BY <1>0, <1>8 DEF Apply, ReloadTypes
  <2>2. CASE got[w].says \in Configs
    <3>1. /\ snapshot' = got[w]
          /\ newest' = IF got[w].at > newest THEN got[w].at ELSE newest
          /\ status' = [status EXCEPT !.generation = @ + 1, !.successes = @ + 1]
      BY <1>8, <2>2 DEF Apply
    <3>2. ReloadTypes'
      <4>1. /\ status' \in [generation : Nat, successes : Nat, failures : Nat]
            /\ status'.generation = 1 + status'.successes
        <5>1. status' = [generation |-> status.generation + 1,
                         successes |-> status.successes + 1, failures |-> status.failures]
          BY <1>0, <3>1 DEF ReloadTypes
        <5> QED
          BY <1>0, <5>1 DEF ReloadTypes
      <4>2. newest' \in Nat /\ snapshot' \in FileRecords /\ snapshot'.says \in Configs
        BY <1>n, <2>1, <2>2, <3>1
      <4> QED
        BY <1>0, <2>1, <4>1, <4>2 DEF ReloadTypes
    <3>3. SameFile'
      BY <1>0, <1>n, <2>1, <3>1 DEF SameFile
    <3>4. PollOK'
      <4>1. CASE w = "poll"
        BY <1>0, <1>n, <2>1, <3>1, <4>1 DEF PollOK, SameFile
      <4>2. CASE w # "poll"
        BY <1>0, <1>n, <2>1, <3>1, <4>2 DEF PollOK, SameFile
      <4> QED
        BY <4>1, <4>2
    <3>5. PollAlone'
      BY <1>0, <1>n, <2>1, <3>1 DEF PollAlone
    <3> QED
      BY <3>2, <3>3, <3>4, <3>5 DEF ReloadInv
  <2>3. CASE got[w].says \notin Configs
    <3>1. UNCHANGED <<snapshot, newest>> /\ status' = [status EXCEPT !.failures = @ + 1]
      BY <1>8, <2>3 DEF Apply
    <3>2. ReloadTypes'
      BY <1>0, <2>1, <3>1 DEF ReloadTypes
    <3>3. SameFile' /\ PollAlone'
      BY <1>0, <2>1, <3>1 DEF SameFile, PollAlone
    <3>4. PollOK'
      BY <1>0, <1>n, <2>1, <2>3, <3>1, InvalidAssumption DEF PollOK, SameFile, ReloadTypes, FileRecords
    <3> QED
      BY <3>2, <3>3, <3>4 DEF ReloadInv
  <2> QED
    BY <2>2, <2>3
<1> QED
  BY <1>1, <1>2, <1>3, <1>4, <1>5, <1>6, <1>7, <1>8 DEF ReloadNext

LEMMA ReloadInvHolds == ReloadSpec => []ReloadInv
BY ReloadInitHolds, ReloadStepHolds, PTL DEF ReloadSpec

(* The snapshot in effect is of a file that loaded and no newer than the    *)
(* file, and every reload that succeeded counts one generation.             *)
THEOREM ReloadTypeCorrect == ReloadSpec => []ReloadTypeOK
<1>1. ReloadInv => ReloadTypeOK
  BY DEF ReloadInv, ReloadTypes, SameFile, ReloadTypeOK, FileRecords
<1> QED
  BY <1>1, ReloadInvHolds, PTL

(* When the poller and the worker for signals rest, the last file has been  *)
(* in effect if it is valid and no edit fell between the first load and the *)
(* poller; and as long as no signal was sent it still is.                   *)
THEOREM ReloadCorrect == ReloadSpec => []SnapshotFollowsFile
<1>1. ReloadInv => SnapshotFollowsFile
  BY DEF ReloadInv, ReloadTypes, SameFile, PollOK, PollAlone, SnapshotFollowsFile, FileRecords, Workers
<1> QED
  BY <1>1, ReloadInvHolds, PTL

-----------------------------------------------------------------------------
(* Access.  An edit keeps the grounds on which it was allowed: the request  *)
(* remembers whose the note was when a rule allowed it (OwnerGrounds); the  *)
(* tags that a rule asks for are among those that the request keeps         *)
(* (TagGrounds); and on top of the revision that it was prepared from, what *)
(* it writes has the owner of the note (Keeps).                             *)

NoteRecords ==
  [rev : Nat, tags : SUBSET Tags, body : Bodies \cup {{}}, owner : Principals \cup {Nobody},
   legacy : Principals \cup {Nobody}, recent : BOOLEAN]
RequestRecords ==
  [kind : {"none", "edit", "update", "rebuilt"}, by : Principals \cup {Nobody},
   of : Principals \cup {Nobody}, rev : Nat, rules : SUBSET RuleRecords, keep : SUBSET Tags,
   tags : (SUBSET Tags) \cup {Unasked}, body : Bodies \cup {{}, Unasked},
   claim : Principals \cup {Nobody, Unasked}, result : NoteRecords]

AccessTypes ==
  /\ note \in NoteRecords /\ note.rev <= MaxWrites
  /\ request \in RequestRecords /\ request.rev <= note.rev
  /\ policy \in Policies

\* What the matcher of r asks of tags is in tags, and what it asks of the
\* owner is true of one.
TagGrounds(r, tags) ==
  KeepsItself(r) =>
    /\ r.matcher.all \subseteq tags
    /\ r.matcher.any = {} \/ r.matcher.any \cap tags # {}
OwnerGrounds(r, owner, p) ==
  r.matcher.owner # "any" => ((owner = p) = (r.matcher.owner = "yes"))

\* The owner that a write leaves, n being the note it is written to.
Keeps(result, n, claim) ==
  /\ n.owner # Nobody => result.owner = n.owner
  /\ claim = Unasked => Owner(result) = Owner(n)

RequestOK ==
  /\ request.kind = "none" => request = NoRequest
  /\ request.kind # "none" =>
       /\ note.rev > 0 /\ request.rules # {}
       /\ \A r \in request.rules : KeepsItself(r) => OwnerGrounds(r, request.of, request.by)
  /\ request.kind = "update" => \A r \in request.rules : TagGrounds(r, request.keep)
  /\ request.kind \in {"edit", "rebuilt"} =>
       /\ request.result.rev = request.rev + 1
       /\ request.rev = note.rev => Keeps(request.result, note, request.claim)
       /\ request.tags # Unasked => \A r \in request.rules : TagGrounds(r, request.result.tags)

AccessInv == AccessTypes /\ RequestOK

-----------------------------------------------------------------------------
(* What a rule that allows an edit finds is kept.                           *)

LEMMA AllowingIsSome ==
  ASSUME NEW rules \in SUBSET RuleRecords, NEW n, NEW p
  PROVE  /\ Allowing(rules, n, p) \in SUBSET RuleRecords
         /\ \A r \in Allowing(rules, n, p) : r \in rules /\ Matches(r.matcher, n, p)
BY DEF Allowing

LEMMA KeptIsKept ==
  ASSUME NEW rules \in SUBSET RuleRecords, NEW n \in NoteRecords, NEW p,
         \A r \in rules : Matches(r.matcher, n, p)
  PROVE  /\ Kept(rules, n) \in SUBSET Tags
         /\ \A r \in rules : TagGrounds(r, Kept(rules, n))
         /\ \A r \in rules : KeepsItself(r) => OwnerGrounds(r, Owner(n), p)
<1>1. Kept(rules, n) \in SUBSET Tags
  BY DEF Kept, RuleRecords
<1>2. ASSUME NEW r \in rules, KeepsItself(r)
      PROVE  /\ r.matcher.all \subseteq AllTags(n) \cap r.preserve
             /\ r.matcher.any = {} \/ \E x \in r.matcher.any : x \in AllTags(n) \cap r.preserve
             /\ OwnerGrounds(r, Owner(n), p)
  BY <1>2 DEF KeepsItself, Matches, OwnerGrounds
<1>3. \A r \in rules : AllTags(n) \cap r.preserve \subseteq Kept(rules, n)
  <2> SUFFICES ASSUME NEW r \in rules, NEW x \in AllTags(n), x \in r.preserve
               PROVE  x \in Kept(rules, n)
    OBVIOUS
  <2>1. r.preserve \in {q.preserve : q \in rules}
    OBVIOUS
  <2>2. x \in UNION {q.preserve : q \in rules}
    BY <2>1
  <2> QED
    BY <2>2 DEF Kept
<1>4. ASSUME NEW r \in rules PROVE TagGrounds(r, Kept(rules, n))
  BY <1>2, <1>3 DEF TagGrounds
<1> QED
  BY <1>1, <1>2, <1>4

LEMMA MoreTags ==
  ASSUME NEW r, NEW tags, NEW more, TagGrounds(r, tags), tags \subseteq more
  PROVE  TagGrounds(r, more)
BY DEF TagGrounds

-----------------------------------------------------------------------------
LEMMA AccessInitHolds == AccessInit => AccessInv
<1> SUFFICES ASSUME AccessInit PROVE AccessInv
  OBVIOUS
<1>1. policy \in Policies
  BY PoliciesAssumption DEF AccessInit
<1>2. NoNote \in NoteRecords
  BY DEF NoNote, NoteRecords
<1>3. note \in NoteRecords /\ note.rev \in {0, 1}
  <2>1. CASE note = NoNote
    BY <1>2, <2>1 DEF NoNote
  <2>2. ASSUME NEW body \in Bodies, NEW p \in Principals,
               note = [NoNote EXCEPT !.rev = 1, !.body = body, !.legacy = p]
        PROVE  note \in NoteRecords /\ note.rev = 1
    <3>1. note = [rev |-> 1, tags |-> {}, body |-> body, owner |-> Nobody, legacy |-> p,
                  recent |-> FALSE]
      BY <2>2 DEF NoNote
    <3> QED
      BY <3>1 DEF NoteRecords
  <2>3. \/ note = NoNote
        \/ \E body \in Bodies, p \in Principals :
             note = [NoNote EXCEPT !.rev = 1, !.body = body, !.legacy = p]
    BY DEF AccessInit
  <2> QED
    BY <2>1, <2>2, <2>3
<1>4. request = NoRequest /\ NoRequest \in RequestRecords /\ NoRequest.kind = "none" /\ NoRequest.rev = 0
  BY <1>2 DEF AccessInit, NoRequest, RequestRecords
<1> QED
  BY <1>1, <1>3, <1>4, WritesAssumption DEF AccessInv, AccessTypes, RequestOK

(* A step that leaves the request alone, and the owner of a revision.       *)
LEMMA RequestStays ==
  ASSUME AccessInv, UNCHANGED request, note' \in NoteRecords, note'.rev <= MaxWrites,
         policy' \in Policies, note.rev <= note'.rev,
         note.rev > 0 => note'.rev > note.rev \/ (note'.owner = note.owner /\ note'.legacy = note.legacy)
  PROVE  AccessInv'
<1>1. note.rev \in Nat /\ note'.rev \in Nat /\ request.rev \in Nat
  BY DEF AccessInv, AccessTypes, NoteRecords, RequestRecords
<1>2. AccessTypes'
  BY <1>1 DEF AccessInv, AccessTypes
<1>3. CASE request.kind = "none"
  BY <1>2, <1>3 DEF AccessInv, RequestOK
<1>4. CASE request.kind # "none"
  <2>1. note.rev > 0 /\ note'.rev > 0 /\ request.rev <= note.rev
    BY <1>1, <1>4 DEF AccessInv, AccessTypes, RequestOK
  <2>2. request.rev = note'.rev /\ Keeps(request.result, note, request.claim)
          => Keeps(request.result, note', request.claim)
    BY <1>1, <2>1 DEF Keeps, Owner
  <2>3. RequestOK'
    BY <1>1, <1>4, <2>1, <2>2 DEF AccessInv, RequestOK
  <2> QED
    BY <1>2, <2>3 DEF AccessInv
<1> QED
  BY <1>3, <1>4

LEMMA CreateHolds ==
  ASSUME AccessInv, NEW p \in Principals, NEW tags \in SUBSET Tags, NEW body \in Bodies,
         NEW claim \in Principals \cup {Nobody}, Create(p, tags, body, claim)
  PROVE  AccessInv'
<1> DEFINE asked == [rev |-> 1, tags |-> tags, body |-> body, owner |-> claim, legacy |-> Nobody,
                     recent |-> TRUE]
           allowing == Allowing(policy.create, asked, p)
<1>1. note.rev = 0 /\ UNCHANGED <<request, policy>> /\ note' = Prepared(asked, allowing, p)
  BY DEF Create
<1>2. allowing \in SUBSET RuleRecords
  BY PoliciesAssumption DEF AccessInv, AccessTypes, Allowing
<1> HIDE DEF allowing
<1>3. tags \cup UNION {r.add : r \in allowing} \in SUBSET Tags
  BY <1>2 DEF RuleRecords
<1> DEFINE all == tags \cup UNION {r.add : r \in allowing}
           owner == IF \E r \in allowing : r.setOwner THEN p ELSE claim
           legacy == Nobody
<1>4. note' = [rev |-> 1, tags |-> all, body |-> body, owner |-> owner, legacy |-> legacy,
               recent |-> TRUE]
  BY <1>1 DEF Prepared
<1>5. owner \in Principals \cup {Nobody} /\ legacy \in Principals \cup {Nobody}
  OBVIOUS
<1> HIDE DEF all, owner, legacy
<1>6. note' \in NoteRecords /\ note'.rev = 1
  BY <1>3, <1>4, <1>5 DEF NoteRecords, all
<1> QED
  BY <1>1, <1>6, RequestStays, WritesAssumption DEF AccessInv, AccessTypes

LEMMA PrepareEditHolds ==
  ASSUME AccessInv, NEW p \in Principals, NEW tags \in SUBSET Tags, NEW body \in Bodies,
         PrepareEdit(p, tags, body)
  PROVE  AccessInv'
<1> DEFINE allowing == Allowing(policy.edit, note, p)
           keep == Kept(allowing, note)
           result == RawUpdate(note, keep, tags, body)
<1>1. /\ note.rev > 0 /\ allowing # {} /\ UNCHANGED <<note, policy>>
      /\ request' = [NoRequest EXCEPT !.kind = "edit", !.by = p, !.of = Owner(note), !.rev = note.rev,
                       !.rules = allowing, !.tags = tags, !.result = result]
  BY DEF PrepareEdit
<1>2. allowing \in SUBSET RuleRecords /\ \A r \in allowing : Matches(r.matcher, note, p)
  BY PoliciesAssumption DEF AccessInv, AccessTypes, Allowing
<1> HIDE DEF allowing
<1>3. /\ keep \in SUBSET Tags /\ \A r \in allowing : TagGrounds(r, keep)
      /\ \A r \in allowing : KeepsItself(r) => OwnerGrounds(r, Owner(note), p)
  BY <1>2, KeptIsKept DEF AccessInv, AccessTypes
<1> HIDE DEF keep
<1>4. /\ note.rev \in Nat /\ note.rev <= MaxWrites /\ Owner(note) \in Principals \cup {Nobody}
      /\ note \in NoteRecords
  BY DEF AccessInv, AccessTypes, NoteRecords, Owner
<1>5. result = [rev |-> note.rev + 1, tags |-> tags \cup keep, body |-> body,
                owner |-> Owner(note), legacy |-> Nobody, recent |-> note.recent]
  <2> DEFINE all == tags \cup keep
             owner == Owner(note)
  <2>1. result = [note EXCEPT !.rev = @ + 1, !.tags = all, !.body = body, !.owner = owner,
                              !.legacy = Nobody]
    BY DEF RawUpdate
  <2> HIDE DEF all, owner, result
  <2>2. result = [rev |-> note.rev + 1, tags |-> all, body |-> body, owner |-> owner,
                  legacy |-> Nobody, recent |-> note.recent]
    BY <1>4, <2>1 DEF NoteRecords
  <2> QED
    BY <2>2 DEF all, owner
<1> HIDE DEF result
<1>6. /\ result \in NoteRecords /\ result.rev = note.rev + 1 /\ result.tags = tags \cup keep
      /\ Keeps(result, note, Unasked)
  BY <1>3, <1>4, <1>5 DEF NoteRecords, Owner, Keeps
<1>7. request' = [kind |-> "edit", by |-> p, of |-> Owner(note), rev |-> note.rev, rules |-> allowing,
                  keep |-> {}, tags |-> tags, body |-> Unasked, claim |-> Unasked,
                  result |-> result]
  BY <1>1 DEF NoRequest
<1>8. AccessTypes'
  <2>1. {} \in SUBSET Tags /\ tags \in (SUBSET Tags) \cup {Unasked}
        /\ Unasked \in Bodies \cup {{}, Unasked} /\ p \in Principals \cup {Nobody}
    OBVIOUS
  <2>2. request' \in RequestRecords
    BY <1>2, <1>4, <1>6, <1>7, <2>1 DEF RequestRecords
  <2> QED
    BY <1>1, <1>4, <1>7, <2>2 DEF AccessInv, AccessTypes
<1>9. \A r \in allowing : TagGrounds(r, result.tags)
  BY <1>3, <1>6, MoreTags
<1>10. Keeps(result, note', Unasked)
  BY <1>1, <1>6
<1>11. RequestOK'
  <2>1. /\ request'.kind = "edit" /\ request'.rules = allowing /\ request'.of = Owner(note)
        /\ request'.by = p /\ request'.result = result /\ request'.claim = Unasked
        /\ request'.rev = note.rev
    BY <1>7
  <2> QED
    BY <1>1, <1>3, <1>6, <1>9, <1>10, <2>1 DEF RequestOK
<1> QED
  BY <1>8, <1>11 DEF AccessInv

LEMMA PrepareUpdateHolds ==
  ASSUME AccessInv, NEW p \in Principals, NEW tags \in (SUBSET Tags) \cup {Unasked},
         NEW body \in Bodies \cup {Unasked}, NEW claim \in Principals \cup {Nobody, Unasked},
         PrepareUpdate(p, tags, body, claim)
  PROVE  AccessInv'
<1> DEFINE allowing == Allowing(policy.edit, note, p)
           keep == Kept(allowing, note)
<1>1. /\ note.rev > 0 /\ allowing # {} /\ UNCHANGED <<note, policy>>
      /\ request' = [NoRequest EXCEPT !.kind = "update", !.by = p, !.of = Owner(note),
                       !.rules = allowing, !.keep = keep, !.tags = tags, !.body = body,
                       !.claim = claim]
  BY DEF PrepareUpdate
<1>2. allowing \in SUBSET RuleRecords /\ \A r \in allowing : Matches(r.matcher, note, p)
  BY PoliciesAssumption DEF AccessInv, AccessTypes, Allowing
<1> HIDE DEF allowing
<1>3. /\ keep \in SUBSET Tags /\ \A r \in allowing : TagGrounds(r, keep)
      /\ \A r \in allowing : KeepsItself(r) => OwnerGrounds(r, Owner(note), p)
  BY <1>2, KeptIsKept DEF AccessInv, AccessTypes
<1> HIDE DEF keep
<1>4. note.rev \in Nat /\ Owner(note) \in Principals \cup {Nobody}
  BY DEF AccessInv, AccessTypes, NoteRecords, Owner
<1>5. NoNote \in NoteRecords
  BY DEF NoNote, NoteRecords
<1>6. request' = [kind |-> "update", by |-> p, of |-> Owner(note), rev |-> 0, rules |-> allowing,
                  keep |-> keep, tags |-> tags, body |-> body, claim |-> claim,
                  result |-> NoNote]
  BY <1>1 DEF NoRequest
<1>7. AccessTypes'
  <2>1. body \in Bodies \cup {{}, Unasked} /\ p \in Principals \cup {Nobody}
    OBVIOUS
  <2>2. request' \in RequestRecords
    BY <1>2, <1>3, <1>4, <1>5, <1>6, <2>1 DEF RequestRecords
  <2>3. request'.rev <= note'.rev
    <3>1. request'.rev = 0
      BY <1>6
    <3>2. note'.rev \in Nat
      BY <1>1, <1>4
    <3> QED
      BY <3>1, <3>2
  <2> QED
    BY <1>1, <2>2, <2>3 DEF AccessInv, AccessTypes
<1>8. RequestOK'
  BY <1>1, <1>3, <1>6 DEF RequestOK
<1> QED
  BY <1>7, <1>8 DEF AccessInv

(* A note whose tags and body have changed.                                 *)
ChangedTo(n, tags, body) == [n EXCEPT !.rev = @ + 1, !.tags = tags, !.body = body]

LEMMA ChangedNote ==
  ASSUME NEW n \in NoteRecords, NEW tags \in SUBSET Tags, NEW body \in Bodies \cup {{}}
  PROVE  /\ ChangedTo(n, tags, body) \in NoteRecords /\ ChangedTo(n, tags, body).rev = n.rev + 1
         /\ ChangedTo(n, tags, body).tags = tags
         /\ ChangedTo(n, tags, body).owner = n.owner
         /\ ChangedTo(n, tags, body).legacy = n.legacy
<1> DEFINE c == ChangedTo(n, tags, body)
<1>1. c = [rev |-> n.rev + 1, tags |-> tags, body |-> body, owner |-> n.owner,
           legacy |-> n.legacy, recent |-> n.recent]
  <2>1. c = [n EXCEPT !.rev = n.rev + 1, !.tags = tags, !.body = body]
    BY DEF ChangedTo, NoteRecords
  <2>2. n = [rev |-> n.rev, tags |-> n.tags, body |-> n.body, owner |-> n.owner,
             legacy |-> n.legacy, recent |-> n.recent]
    BY DEF NoteRecords
  <2> HIDE DEF c
  <2> QED
    BY <2>1, <2>2 DEF NoteRecords
<1>2. /\ n.rev \in Nat /\ n.owner \in Principals \cup {Nobody}
      /\ n.legacy \in Principals \cup {Nobody} /\ n.recent \in BOOLEAN
  BY DEF NoteRecords
<1> HIDE DEF c
<1>3. c \in NoteRecords /\ c.rev = n.rev + 1 /\ c.tags = tags
  BY <1>1, <1>2 DEF NoteRecords
<1>4. c.owner = n.owner /\ c.legacy = n.legacy
  BY <1>1
<1> QED
  BY <1>3, <1>4 DEF c

LEMMA RebuildHolds == ASSUME AccessInv, RebuildMarkdown PROVE AccessInv'
<1> DEFINE tags == IF request.tags = Unasked THEN note.tags ELSE request.tags \cup request.keep
           body == IF request.body = Unasked THEN note.body ELSE request.body
           changed == ChangedTo(note, tags, body)
           legacy == IF request.claim = Unasked THEN note.legacy ELSE request.claim
           result == [changed EXCEPT !.legacy = legacy]
<1>1. /\ request.kind = "update" /\ UNCHANGED <<note, policy>>
      /\ request' = [request EXCEPT !.kind = "rebuilt", !.rev = note.rev, !.result = result]
  <2>1. [note EXCEPT !.rev = @ + 1, !.tags = tags, !.body = body, !.legacy = legacy] = result
    BY DEF ChangedTo
  <2> QED
    BY <2>1 DEF RebuildMarkdown
<1>2. note \in NoteRecords /\ request \in RequestRecords
  BY DEF AccessInv, AccessTypes
<1>3. /\ tags \in SUBSET Tags /\ body \in Bodies \cup {{}}
      /\ legacy \in Principals \cup {Nobody} /\ (request.claim = Unasked => legacy = note.legacy)
  BY <1>2 DEF NoteRecords, RequestRecords
<1>4. request.tags # Unasked => tags = request.tags \cup request.keep
  OBVIOUS
<1> HIDE DEF tags, body, legacy
<1>5. /\ result \in NoteRecords /\ result.rev = note.rev + 1 /\ result.tags = tags
      /\ Keeps(result, note, request.claim)
  <2>1. /\ changed \in NoteRecords /\ changed.rev = note.rev + 1 /\ changed.tags = tags
        /\ changed.owner = note.owner
    BY <1>2, <1>3, ChangedNote
  <2> HIDE DEF changed
  <2> QED
    BY <1>3, <2>1 DEF NoteRecords, Keeps, Owner
<1> HIDE DEF result
<1>6. request' = [kind |-> "rebuilt", by |-> request.by, of |-> request.of, rev |-> note.rev,
                  rules |-> request.rules, keep |-> request.keep, tags |-> request.tags,
                  body |-> request.body, claim |-> request.claim, result |-> result]
  BY <1>1, <1>2 DEF RequestRecords
<1>7. AccessTypes'
  BY <1>1, <1>2, <1>5, <1>6 DEF AccessInv, AccessTypes, RequestRecords, NoteRecords
<1>8. /\ note.rev > 0 /\ request.rules # {}
      /\ \A r \in request.rules : KeepsItself(r) => OwnerGrounds(r, request.of, request.by)
      /\ \A r \in request.rules : TagGrounds(r, request.keep)
  BY <1>1 DEF AccessInv, RequestOK
<1>9. request.tags # Unasked => \A r \in request.rules : TagGrounds(r, result.tags)
  BY <1>4, <1>5, <1>8, MoreTags
<1>10. RequestOK'
  BY <1>1, <1>5, <1>6, <1>8, <1>9 DEF RequestOK
<1> QED
  BY <1>7, <1>10 DEF AccessInv

(* What a write leaves.                                                     *)
LEMMA Written ==
  ASSUME AccessInv, Write, request.rev = note.rev
  PROVE  /\ note' \in NoteRecords /\ note'.rev = note.rev + 1 /\ note'.rev <= MaxWrites
         /\ note'.tags = request.result.tags /\ Keeps(note', note, request.claim)
<1>1. /\ request.kind \in {"edit", "rebuilt"} /\ note.rev < MaxWrites
      /\ note' = [request.result EXCEPT !.recent = note.recent]
  BY DEF Write
<1>2. /\ request.result \in NoteRecords /\ request.result.rev = request.rev + 1
      /\ Keeps(request.result, note, request.claim) /\ note.rev \in Nat /\ note.recent \in BOOLEAN
  BY <1>1 DEF AccessInv, AccessTypes, RequestRecords, RequestOK, NoteRecords
<1>3. /\ note' \in NoteRecords /\ note'.rev = request.result.rev /\ note'.tags = request.result.tags
      /\ note'.owner = request.result.owner /\ note'.legacy = request.result.legacy
  BY <1>1, <1>2 DEF NoteRecords
<1> QED
  BY <1>1, <1>2, <1>3, WritesAssumption DEF Keeps, Owner

LEMMA WriteHolds == ASSUME AccessInv, Write PROVE AccessInv'
<1>1. request' = NoRequest /\ UNCHANGED policy
  BY DEF Write
<1>2. note' \in NoteRecords /\ note'.rev <= MaxWrites
  <2>1. CASE request.rev = note.rev
    BY <2>1, Written
  <2>2. CASE request.rev # note.rev
    BY <2>2 DEF Write, AccessInv, AccessTypes
  <2> QED
    BY <2>1, <2>2
<1>3. NoRequest \in RequestRecords /\ NoRequest.kind = "none" /\ NoRequest.rev = 0
  BY DEF NoRequest, RequestRecords, NoNote, NoteRecords
<1>4. note'.rev \in Nat
  BY <1>2 DEF NoteRecords
<1> QED
  BY <1>1, <1>2, <1>3, <1>4 DEF AccessInv, AccessTypes, RequestOK

LEMMA RoomIsLeft == ASSUME note.rev \in Nat, Room PROVE note.rev < MaxWrites
<1>1. CASE request = NoRequest
  BY <1>1, WritesAssumption DEF Room
<1>2. CASE request # NoRequest
  BY <1>2, WritesAssumption DEF Room
<1> QED
  BY <1>1, <1>2

(* What the user, or time, leaves.                                          *)
LEMMA UserHolds == ASSUME AccessInv, UserEdits \/ UserClaims \/ Ages PROVE AccessInv'
<1>1. note \in NoteRecords /\ note.rev \in Nat /\ note.rev <= MaxWrites
  BY DEF AccessInv, AccessTypes, NoteRecords
<1>2. CASE UserEdits
  <2>1. PICK tags \in SUBSET Tags, body \in Bodies :
          note' = ChangedTo(note, tags, body)
    BY <1>2 DEF UserEdits, ChangedTo
  <2>2. note' \in NoteRecords /\ note'.rev = note.rev + 1
    BY <1>1, <2>1, ChangedNote
  <2>3. note'.rev <= MaxWrites /\ note.rev <= note'.rev /\ note'.rev > note.rev
    <3>1. note.rev < MaxWrites
      BY <1>1, <1>2, RoomIsLeft DEF UserEdits
    <3> QED
      BY <1>1, <2>2, <3>1, WritesAssumption
  <2>4. UNCHANGED request /\ policy' \in Policies
    BY <1>2 DEF UserEdits, AccessInv, AccessTypes
  <2> QED
    BY <2>2, <2>3, <2>4, RequestStays
<1>3. CASE UserClaims
  <2>1. PICK owner \in Principals \cup {Nobody}, legacy \in Principals \cup {Nobody} :
          note' = [note EXCEPT !.rev = @ + 1, !.owner = owner, !.legacy = legacy]
    BY <1>3 DEF UserClaims
  <2>2. note' \in NoteRecords /\ note'.rev = note.rev + 1
    <3>1. note' = [rev |-> note.rev + 1, tags |-> note.tags, body |-> note.body, owner |-> owner,
                   legacy |-> legacy, recent |-> note.recent]
      BY <1>1, <2>1 DEF NoteRecords
    <3> QED
      BY <1>1, <3>1 DEF NoteRecords
  <2>3. note'.rev <= MaxWrites /\ note.rev <= note'.rev /\ note'.rev > note.rev
    <3>1. note.rev < MaxWrites
      BY <1>1, <1>3, RoomIsLeft DEF UserClaims
    <3> QED
      BY <1>1, <2>2, <3>1, WritesAssumption
  <2>4. UNCHANGED request /\ policy' \in Policies
    BY <1>3 DEF UserClaims, AccessInv, AccessTypes
  <2> QED
    BY <2>2, <2>3, <2>4, RequestStays
<1>4. CASE Ages
  <2>1. /\ note' \in NoteRecords /\ note'.rev = note.rev
        /\ note'.owner = note.owner /\ note'.legacy = note.legacy
    BY <1>1, <1>4 DEF Ages, NoteRecords
  <2> QED
    BY <1>1, <1>4, <2>1, RequestStays DEF Ages, AccessInv, AccessTypes
<1> QED
  BY <1>2, <1>3, <1>4

LEMMA AccessStepHolds == ASSUME AccessInv, [AccessNext]_accessVars PROVE AccessInv'
<1>1. CASE UNCHANGED accessVars
  BY <1>1 DEF accessVars, AccessInv, AccessTypes, RequestOK
<1>2. CASE ReloadPolicy
  <2>1. policy' \in Policies /\ UNCHANGED <<note, request>>
    BY <1>2 DEF ReloadPolicy
  <2> QED
    BY <2>1 DEF AccessInv, AccessTypes, RequestOK
<1>3. CASE RebuildMarkdown
  BY <1>3, RebuildHolds
<1>4. CASE Write
  BY <1>4, WriteHolds
<1>5. CASE UserEdits \/ UserClaims \/ Ages
  BY <1>5, UserHolds
<1>6. ASSUME NEW p \in Principals, NEW tags \in SUBSET Tags, NEW body \in Bodies,
             \/ PrepareEdit(p, tags, body)
             \/ \E claim \in Principals \cup {Nobody} : Create(p, tags, body, claim)
      PROVE  AccessInv'
  BY <1>6, PrepareEditHolds, CreateHolds
<1>7. ASSUME NEW p \in Principals, NEW tags \in (SUBSET Tags) \cup {Unasked},
             NEW body \in Bodies \cup {Unasked}, NEW claim \in Principals \cup {Nobody, Unasked},
             PrepareUpdate(p, tags, body, claim)
      PROVE  AccessInv'
  BY <1>7, PrepareUpdateHolds
<1> QED
  BY <1>1, <1>2, <1>3, <1>4, <1>5, <1>6, <1>7 DEF AccessNext

LEMMA AccessInvHolds == AccessSpec => []AccessInv
BY AccessInitHolds, AccessStepHolds, PTL DEF AccessSpec

(* The note and the request have their types, and every request that is     *)
(* under way was allowed by a rule.                                         *)
THEOREM AccessTypeCorrect == AccessSpec => []AccessTypeOK
<1>1. ASSUME AccessInv PROVE AccessTypeOK
  <2>1. note \in NoteRecords /\ note.rev <= MaxWrites /\ request.rev <= note.rev
    BY <1>1 DEF AccessInv, AccessTypes
  <2>2. request # NoRequest => request.rules # {}
    BY <1>1 DEF AccessInv, RequestOK
  <2> QED
    BY <2>1, <2>2, WritesAssumption DEF AccessTypeOK, NoteRecords
<1> QED
  BY <1>1, AccessInvHolds, PTL

(* A write keeps the owner of a note, but for an update whose metadata name *)
(* the key of older versions of a note without created_by; and it leaves    *)
(* the note such that the rules that allowed it and preserve the tags they  *)
(* ask for still match it for its author, whatever the user or a reload did *)
(* in between, while the note is whose it was.                              *)
THEOREM EditsKeep == AccessSpec => EditsKeepTheirGrounds
<1> DEFINE keeps ==
      Write /\ request.rev = note.rev =>
        /\ note.owner # Nobody => note'.owner = note.owner
        /\ request.claim = Unasked => Owner(note') = Owner(note)
        /\ request.tags # Unasked =>
             \A r \in request.rules :
               KeepsItself(r) /\ (r.matcher.owner = "any" \/ Owner(note') = request.of) =>
                 Matches(r.matcher, note', request.by)
<1>1. ASSUME AccessInv, Write, request.rev = note.rev
      PROVE  /\ note.owner # Nobody => note'.owner = note.owner
             /\ request.claim = Unasked => Owner(note') = Owner(note)
  BY <1>1, Written DEF Keeps
<1>2. ASSUME AccessInv, Write, request.rev = note.rev, request.tags # Unasked,
             NEW r \in request.rules, KeepsItself(r),
             r.matcher.owner = "any" \/ Owner(note') = request.of
      PROVE  Matches(r.matcher, note', request.by)
  <2>1. TagGrounds(r, request.result.tags) /\ OwnerGrounds(r, request.of, request.by)
    BY <1>2 DEF Write, AccessInv, RequestOK
  <2>2. note'.tags = request.result.tags
    BY <1>2, Written
  <2>3. OwnerGrounds(r, Owner(note'), request.by)
    BY <1>2, <2>1 DEF OwnerGrounds
  <2>4. /\ r.matcher.all \subseteq AllTags(note')
        /\ r.matcher.any = {} \/ r.matcher.any \cap AllTags(note') # {}
    BY <1>2, <2>1, <2>2 DEF TagGrounds, AllTags
  <2> QED
    BY <1>2, <2>3, <2>4 DEF Matches, KeepsItself, OwnerGrounds
<1>3. AccessInv /\ AccessNext => keeps
  BY <1>1, <1>2
<1>4. AccessInv /\ [AccessNext]_accessVars => [keeps]_<<note, request>>
  BY <1>3 DEF accessVars
<1> QED
  BY <1>4, AccessInvHolds, PTL DEF AccessSpec, EditsKeepTheirGrounds
-----------------------------------------------------------------------------
(* Adapters.  A call is answered by the configurations it met: it keeps the *)
(* caller that the first of them gave it, and while it was the only one,    *)
(* what was found to be allowed on its way still is.                        *)

LEMMA LeastPlace ==
  ASSUME NEW S \in SUBSET Nat, S # {}
  PROVE  \E k \in S : \A l \in S : ~ l < k
<1>1. IsWellFoundedOn(OpToRel(<, Nat), Nat)
  BY NatLessThanWellFounded
<1>2. PICK k \in S : \A l \in S : ~ (<<l, k>> \in OpToRel(<, Nat))
  BY <1>1, WFMin
<1> QED
  BY <1>2 DEF OpToRel

(* The caller is one of the holders of the token, if there is any.          *)
LEMMA CallerHolds ==
  ASSUME setup \in Setups, NEW ask \in Calls
  PROVE  /\ Caller(ask.via, ask.token) = {} <=> Holders(setup, ask) = {}
         /\ \A name \in Caller(ask.via, ask.token) :
              \E k \in Holders(setup, ask) : name = setup.sources[ask.via][k].name
<1> DEFINE files == setup.sources[ask.via]
           named(k) == files[k].name \in DOMAIN setup.tokens[ask.via]
<1>1. DOMAIN files \subseteq Nat
  <2>1. ask.via \in {"mcp", "rest"}
    BY CallsAssumption
  <2> QED
    BY <2>1, SetupsAssumption
<1>2. /\ Holders(setup, ask) = {k \in DOMAIN files : files[k].token = ask.token /\ named(k)}
      /\ Expected(ask.via) =
           {k \in DOMAIN files : /\ named(k)
                                 /\ \A l \in DOMAIN files : l < k /\ named(l) => files[l].token # files[k].token}
      /\ Caller(ask.via, ask.token) =
           {files[k].name : k \in {l \in Expected(ask.via) : files[l].token = ask.token}}
  BY DEF Holders, Expected, Known, Caller
<1> HIDE DEF files, named
<1>3. ASSUME Holders(setup, ask) # {} PROVE Caller(ask.via, ask.token) # {}
  <2>1. PICK k \in Holders(setup, ask) : \A l \in Holders(setup, ask) : ~ l < k
    BY <1>1, <1>2, <1>3, LeastPlace
  <2>2. k \in Expected(ask.via) /\ files[k].token = ask.token
    BY <1>2, <2>1
  <2>3. k \in {l \in Expected(ask.via) : files[l].token = ask.token}
    BY <2>2
  <2>4. files[k].name \in Caller(ask.via, ask.token)
    BY <1>2, <2>3
  <2> QED
    BY <2>4
<1>4. ASSUME NEW name \in Caller(ask.via, ask.token)
      PROVE  \E k \in Holders(setup, ask) : name = files[k].name
  BY <1>2, <1>4
<1> QED
  BY <1>3, <1>4 DEF files

LEMMA UndiscoverableIsHopeless ==
  ASSUME NEW rules, ~ Discoverable(rules), NEW n, NEW p
  PROVE  Allowing(rules, n, p) = {}
<1>1. CASE \E r \in rules : ~ r.allow /\ r.matcher.default
  BY <1>1 DEF Allowing, Matches
<1>2. CASE ~ \E r \in rules : r.allow
  BY <1>2 DEF Allowing
<1> QED
  BY <1>1, <1>2 DEF Discoverable

-----------------------------------------------------------------------------
(* A call, and one that has come further.                                   *)
IsCall(c) ==
  c = [pc |-> c.pc, ask |-> c.ask, who |-> c.who, context |-> c.context, answer |-> c.answer,
       shown |-> c.shown, changed |-> c.changed, first |-> c.first, met |-> c.met]
SameCaller(c, d) == d.who = c.who /\ d.context = c.context
SameCall(c, d) == SameCaller(c, d) /\ d.ask = c.ask /\ d.first = c.first /\ d.met = c.met

LEMMA SameGrants ==
  ASSUME NEW c, NEW d, SameCaller(c, d), NEW s
  PROVE  /\ \A right, f : Granting(d, s, right, f) = Granting(c, s, right, f)
         /\ \A tool, f : Permits(d, s, tool, f) <=> Permits(c, s, tool, f)
         /\ \A tool : Hopeless(d, s, tool) <=> Hopeless(c, s, tool)
<1>1. \A right, f : Granting(d, s, right, f) = Granting(c, s, right, f)
  BY DEF SameCaller, Granting
<1>2. ASSUME NEW tool, NEW f PROVE Permits(d, s, tool, f) <=> Permits(c, s, tool, f)
  <2>1. /\ Granting(d, s, Needs[tool], f) = Granting(c, s, Needs[tool], f)
        /\ \A g : Granting(d, s, "create", g) = Granting(c, s, "create", g)
        /\ c.who = d.who
    BY <1>1 DEF SameCaller
  <2> QED
    BY <2>1 DEF Permits
<1>3. ASSUME NEW tool PROVE Hopeless(d, s, tool) <=> Hopeless(c, s, tool)
  BY <1>1 DEF Hopeless
<1> QED
  BY <1>1, <1>2, <1>3

(* What ends, shows or sends on a call leaves the rest of it alone.         *)
LEMMA CallGoesOn ==
  ASSUME IsCall(call)
  PROVE  /\ \A answer : Ends(answer) =>
              /\ IsCall(call') /\ SameCall(call, call') /\ call'.pc = "done"
              /\ call'.answer = answer /\ call'.shown = call.shown /\ call'.changed = call.changed
         /\ \A tools : Shows(tools) =>
              /\ IsCall(call') /\ SameCall(call, call') /\ call'.pc = "done"
              /\ call'.answer = "shown" /\ call'.shown = tools /\ call'.changed = call.changed
         /\ \A pc : Goes(pc) =>
              /\ IsCall(call') /\ SameCall(call, call') /\ call'.pc = pc
              /\ call'.answer = call.answer /\ call'.shown = call.shown /\ call'.changed = call.changed
<1>1. ASSUME NEW answer, Ends(answer)
      PROVE  call' = [pc |-> "done", ask |-> call.ask, who |-> call.who, context |-> call.context,
                      answer |-> answer, shown |-> call.shown, changed |-> call.changed,
                      first |-> call.first, met |-> call.met]
  BY <1>1 DEF IsCall, Ends
<1>2. ASSUME NEW tools, Shows(tools)
      PROVE  call' = [pc |-> "done", ask |-> call.ask, who |-> call.who, context |-> call.context,
                      answer |-> "shown", shown |-> tools, changed |-> call.changed,
                      first |-> call.first, met |-> call.met]
  BY <1>2 DEF IsCall, Shows
<1>3. ASSUME NEW pc, Goes(pc)
      PROVE  call' = [pc |-> pc, ask |-> call.ask, who |-> call.who, context |-> call.context,
                      answer |-> call.answer, shown |-> call.shown, changed |-> call.changed,
                      first |-> call.first, met |-> call.met]
  BY <1>3 DEF IsCall, Goes
<1> QED
  BY <1>1, <1>2, <1>3 DEF IsCall, SameCall, SameCaller

(* CallsAreAdmitted, of a call.                                             *)
Admitted(c) ==
  /\ c.answer = "unauthorized" <=> Holders(c.first, c.ask) = {}
  /\ Holders(c.first, c.ask) # {} => Named(c)
  /\ c.changed => \E s \in c.met : Permits(c, s, ToolOf(c.ask), c.ask.file)
  /\ c.ask.method \in {"call", "resource", "rest"} =>
       \A f \in c.shown : \E s \in c.met : Granting(c, s, Needs[ToolOf(c.ask)], f) # {}
  /\ c.answer = "unavailable" => \E s \in c.met : Hopeless(c, s, ToolOf(c.ask))
  /\ c.answer = "invalid" /\ c.changed => c.ask.raw = "wrong"

AdmittedByOne(c) ==
  c.met = {c.first} /\ Holders(c.first, c.ask) # {} =>
    /\ c.answer = "answered" /\ c.ask.method # "plain" => Granted(c, c.first, ToolOf(c.ask), c.ask.file)
    /\ c.ask.method \in {"call", "rest"} /\ c.ask.args = "good" /\ c.ask.raw # "wrong" /\ ToolOf(c.ask) \in Tools =>
         (Granted(c, c.first, ToolOf(c.ask), c.ask.file) => c.answer = "answered")
    /\ c.ask.method = "list" => \A t \in Tools \ c.shown : Hopeless(c, c.first, t)

\* How far a call of each kind may be, and what was found on its way.
Routed(c) ==
  /\ c.pc = "itself" => c.ask.method = "plain" \/ (c.ask.method \in {"rest", "resource"} /\ c.ask.args = "bad")
  /\ c.pc \in {"discover", "discoverAgain"} => c.ask.method \in {"list", "call"}
  /\ c.pc \in {"refresh", "decide"} =>
       /\ c.ask.method \in {"call", "resource", "rest"} /\ ToolOf(c.ask) \in Tools
       /\ c.ask.method = "call" /\ c.met = {c.first} =>
            Discoverable(Rules(c.first, c.context, Needs[ToolOf(c.ask)]))
  /\ c.pc = "refresh" => ToolOf(c.ask) = "edit_vault_file"
  /\ c.pc = "decide" /\ ToolOf(c.ask) = "edit_vault_file" /\ c.met = {c.first} =>
       Granting(c, c.first, "read", c.ask.file) # {}

Steps == {"itself", "discover", "discoverAgain", "refresh", "decide"}

Pending(c) == c.answer = "none" /\ c.shown = {} /\ c.changed = FALSE
Meets(c, s) == s \in c.met /\ (c.pc = "idle" => c.met = {s} /\ c.first = s)

CallOK(c) ==
  /\ IsCall(c) /\ c.first \in c.met /\ c.pc \in Steps \cup {"idle", "done"}
  /\ c.pc # "idle" => c.ask \in Calls
  /\ c.pc # "done" => Pending(c)
  /\ c.pc \in Steps => Named(c) /\ Routed(c)
  /\ c.pc = "done" => Admitted(c) /\ AdmittedByOne(c)

AdapterInv == setup \in Setups /\ CallOK(call) /\ (call.pc # "done" => Meets(call, setup))
-----------------------------------------------------------------------------
LEMMA NamedIsKnown ==
  ASSUME NEW c, NEW d, Named(c), SameCall(c, d)
  PROVE  Named(d) /\ Holders(d.first, d.ask) # {}
BY DEF Named, SameCall, SameCaller

LEMMA NotOffered ==
  ASSUME NEW c, NEW s, NEW tool, ~ Discoverable(Rules(s, c.context, Needs[tool]))
  PROVE  Hopeless(c, s, tool)
<1>1. \A f : Granting(c, s, Needs[tool], f) = {}
  BY UndiscoverableIsHopeless DEF Granting
<1> QED
  BY <1>1 DEF Hopeless

LEMMA HopelessIsRefused ==
  ASSUME NEW c, NEW s, NEW tool \in Tools, NEW file, c.ask.via = "mcp",
         ~ Discoverable(Rules(s, c.context, Needs[tool]))
  PROVE  ~ Granted(c, s, tool, file)
<1>1. Granting(c, s, Needs[tool], file) = {}
  BY UndiscoverableIsHopeless DEF Granting
<1>2. CASE tool = "query_notes"
  <2>1. ~ Discoverable(Rules(s, c.context, "read"))
    BY <1>2 DEF Needs
  <2> QED
    BY <1>2, <2>1 DEF Granted, Discoverable
<1>3. CASE tool # "query_notes"
  <2>1. tool \in {"get_vault_file", "edit_vault_file", "create_vault_file"}
    BY <1>3 DEF Tools, Needs
  <2>2. ~ Permits(c, s, tool, file)
    BY <1>1, <2>1 DEF Permits
  <2> QED
    BY <2>2 DEF Granted
<1> QED
  BY <1>2, <1>3

(* A call that is done is judged by its answer alone.                       *)
LEMMA Finished ==
  ASSUME NEW c, NEW d, CallOK(c), c.pc \in Steps,
         IsCall(d), SameCall(c, d), d.pc = "done", d.answer # "unauthorized",
         d.changed => \E s \in c.met : Permits(d, s, ToolOf(d.ask), d.ask.file),
         d.ask.method \in {"call", "resource", "rest"} =>
           \A f \in d.shown : \E s \in c.met : Granting(d, s, Needs[ToolOf(d.ask)], f) # {},
         d.answer = "unavailable" => \E s \in c.met : Hopeless(d, s, ToolOf(d.ask)),
         d.answer = "invalid" /\ d.changed => d.ask.raw = "wrong",
         AdmittedByOne(d)
  PROVE  CallOK(d)
<1>1. c.pc # "idle" /\ Named(c) /\ d.first \in d.met /\ d.ask \in Calls /\ d.met = c.met
  BY DEF CallOK, Steps, SameCall
<1>2. Named(d) /\ Holders(d.first, d.ask) # {}
  BY <1>1, NamedIsKnown
<1>3. Admitted(d)
  BY <1>1, <1>2 DEF Admitted
<1> QED
  BY <1>1, <1>3 DEF CallOK, Steps

(* A call that goes on.                                                     *)
LEMMA GoesOn ==
  ASSUME NEW c, NEW d, CallOK(c), c.pc \in Steps, IsCall(d), SameCall(c, d),
         d.pc \in Steps, d.answer = c.answer, d.shown = c.shown, d.changed = c.changed, Routed(d)
  PROVE  CallOK(d)
<1>1. /\ c.pc # "idle" /\ c.pc # "done" /\ Named(c) /\ Pending(c)
      /\ d.pc # "idle" /\ d.pc # "done"
  BY DEF CallOK, Steps
<1>2. Named(d) /\ Pending(d) /\ d.first \in d.met /\ d.ask \in Calls
  BY <1>1, NamedIsKnown DEF CallOK, Pending, SameCall
<1> QED
  BY <1>1, <1>2 DEF CallOK

LEMMA AnswerItselfHolds == ASSUME AdapterInv, AnswerItself PROVE AdapterInv'
<1>1. /\ CallOK(call) /\ call.pc = "itself" /\ UNCHANGED setup /\ Routed(call) /\ Pending(call)
      /\ Ends(IF call.ask.args = "bad" THEN "invalid" ELSE "answered")
  BY DEF AdapterInv, AnswerItself, CallOK, Steps
<1>2. /\ IsCall(call') /\ SameCall(call, call') /\ call'.pc = "done" /\ call'.ask = call.ask
      /\ call'.shown = {} /\ call'.changed = FALSE
      /\ call'.answer = IF call.ask.args = "bad" THEN "invalid" ELSE "answered"
  BY <1>1, CallGoesOn DEF CallOK, Pending, SameCall
<1>3. call.ask.method = "plain" \/ (call.ask.method \in {"rest", "resource"} /\ call.ask.args = "bad")
  BY <1>1 DEF Routed
<1>4. AdmittedByOne(call')
  BY <1>2, <1>3 DEF AdmittedByOne
<1>5. CallOK(call')
  BY <1>1, <1>2, <1>4, Finished DEF Steps
<1> QED
  BY <1>1, <1>2, <1>5 DEF AdapterInv

LEMMA DiscoverHolds == ASSUME AdapterInv, Discover PROVE AdapterInv'
<1> DEFINE tool == call.ask.tool
           rules(t) == Rules(setup, call.context, Needs[t])
<1>1. /\ CallOK(call) /\ call.pc \in {"discover", "discoverAgain"} /\ UNCHANGED setup
      /\ Routed(call) /\ Pending(call) /\ setup \in call.met /\ setup \in Setups /\ call.pc \in Steps
  BY DEF AdapterInv, Discover, CallOK, Steps, Meets
<1>2. call.ask.method \in {"list", "call"} /\ call.ask.via = "mcp" /\ ToolOf(call.ask) = tool
  BY <1>1, CallsAssumption DEF Routed, CallOK, ToolOf
<1>3. AvailableTools = {t \in Tools : Discoverable(rules(t))}
  BY DEF AvailableTools
<1>4. \A t \in Tools : ~ Discoverable(rules(t)) => Hopeless(call, setup, t)
  BY NotOffered
<1>5. IsCall(call)
  BY <1>1 DEF CallOK
<1>6. SameCall(call, call') => SameCaller(call, call') /\ call'.met = call.met /\ call'.first = call.first
                               /\ call'.ask = call.ask /\ call'.context = call.context
  BY DEF SameCall, SameCaller
<1>7. ASSUME SameCaller(call, call'), NEW t, Hopeless(call, setup, t) PROVE Hopeless(call', setup, t)
  BY <1>7, SameGrants
<1>8. CASE Goes("discoverAgain")
  <2>1. /\ IsCall(call') /\ SameCall(call, call') /\ call'.pc = "discoverAgain"
        /\ call'.answer = call.answer /\ call'.shown = call.shown /\ call'.changed = call.changed
    BY <1>5, <1>8, CallGoesOn
  <2>2. Routed(call')
    BY <1>2, <1>6, <2>1 DEF Routed
  <2>3. CallOK(call')
    BY <1>1, <2>1, <2>2, GoesOn DEF Steps
  <2> QED
    BY <1>1, <1>6, <2>1, <2>3 DEF AdapterInv, Meets
<1>9. CASE call.ask.method = "list" /\ Shows(AvailableTools)
  <2>1. /\ IsCall(call') /\ SameCall(call, call') /\ call'.pc = "done"
        /\ call'.answer = "shown" /\ call'.shown = AvailableTools /\ call'.changed = FALSE
    BY <1>1, <1>5, <1>9, CallGoesOn DEF Pending
  <2>2. ASSUME call'.met = {call'.first}, NEW t \in Tools \ call'.shown
        PROVE  Hopeless(call', call'.first, t)
    BY <1>1, <1>3, <1>4, <1>6, <1>7, <2>1, <2>2
  <2>3. AdmittedByOne(call')
    BY <1>6, <1>9, <2>1, <2>2 DEF AdmittedByOne
  <2>4. CallOK(call')
    BY <1>1, <1>6, <1>9, <2>1, <2>3, Finished
  <2> QED
    BY <1>1, <2>1, <2>4 DEF AdapterInv
<1>10. CASE call.ask.method # "list" /\ tool \notin Tools /\ Ends("unknown")
  <2>1. /\ IsCall(call') /\ SameCall(call, call') /\ call'.pc = "done"
        /\ call'.answer = "unknown" /\ call'.shown = {} /\ call'.changed = FALSE
    BY <1>1, <1>5, <1>10, CallGoesOn DEF Pending
  <2>2. AdmittedByOne(call')
    BY <1>2, <1>6, <1>10, <2>1 DEF AdmittedByOne
  <2>3. CallOK(call')
    BY <1>1, <1>6, <2>1, <2>2, Finished
  <2> QED
    BY <1>1, <2>1, <2>3 DEF AdapterInv
<1>11. CASE tool \in Tools /\ tool \notin AvailableTools /\ call.ask.method # "list" /\ Ends("unavailable")
  <2>1. /\ IsCall(call') /\ SameCall(call, call') /\ call'.pc = "done"
        /\ call'.answer = "unavailable" /\ call'.shown = {} /\ call'.changed = FALSE
    BY <1>1, <1>5, <1>11, CallGoesOn DEF Pending
  <2>2. Hopeless(call', setup, tool) /\ ~ Discoverable(Rules(setup, call'.context, Needs[tool]))
    BY <1>3, <1>4, <1>6, <1>7, <1>11, <2>1
  <2>3. \A file : ~ Granted(call', setup, tool, file)
    BY <1>2, <1>6, <1>11, <2>1, <2>2, HopelessIsRefused
  <2>4. AdmittedByOne(call')
    BY <1>1, <1>2, <1>6, <1>11, <2>1, <2>3 DEF AdmittedByOne
  <2>5. CallOK(call')
    BY <1>1, <1>2, <1>6, <2>1, <2>2, <2>4, Finished
  <2> QED
    BY <1>1, <2>1, <2>5 DEF AdapterInv
<1>12. CASE call.ask.args # "good" /\ call.ask.method # "list" /\ Ends("invalid")
  <2>1. /\ IsCall(call') /\ SameCall(call, call') /\ call'.pc = "done"
        /\ call'.answer = "invalid" /\ call'.shown = {} /\ call'.changed = FALSE
    BY <1>1, <1>5, <1>12, CallGoesOn DEF Pending
  <2>2. AdmittedByOne(call')
    BY <1>2, <1>6, <1>12, <2>1 DEF AdmittedByOne
  <2>3. CallOK(call')
    BY <1>1, <1>6, <2>1, <2>2, Finished
  <2> QED
    BY <1>1, <2>1, <2>3 DEF AdapterInv
<1>13. CASE tool \in AvailableTools /\ call.ask.method # "list" /\ Goes(ServiceStep(tool))
  <2>1. /\ IsCall(call') /\ SameCall(call, call') /\ call'.pc = ServiceStep(tool)
        /\ call'.answer = call.answer /\ call'.shown = call.shown /\ call'.changed = call.changed
    BY <1>5, <1>13, CallGoesOn
  <2>2. /\ call'.pc \in {"refresh", "decide"}
        /\ call'.pc = "refresh" <=> tool = "edit_vault_file"
    BY <2>1 DEF ServiceStep
  <2>3. tool \in Tools /\ Discoverable(Rules(setup, call.context, Needs[tool]))
    BY <1>3, <1>13
  <2>4. call'.met = {call'.first} => call'.first = setup
    BY <1>1, <1>6, <2>1
  <2>5. Routed(call')
    <3>1. /\ call'.ask = call.ask /\ call'.context = call.context /\ ToolOf(call'.ask) = tool
          /\ call'.ask.method = "call"
      BY <1>2, <1>6, <1>13, <2>1
    <3>2. call'.met = {call'.first} =>
            Discoverable(Rules(call'.first, call'.context, Needs[ToolOf(call'.ask)]))
      BY <2>3, <2>4, <3>1
    <3> QED
      BY <2>2, <2>3, <3>1, <3>2 DEF Routed
  <2>6. CallOK(call')
    BY <1>1, <2>1, <2>2, <2>5, GoesOn DEF Steps
  <2> QED
    BY <1>1, <1>6, <2>1, <2>2, <2>6 DEF AdapterInv, Meets
<1> QED
  BY <1>1, <1>2, <1>8, <1>9, <1>10, <1>11, <1>12, <1>13 DEF Discover
LEMMA RefreshHolds == ASSUME AdapterInv, Refresh PROVE AdapterInv'
<1> DEFINE file == call.ask.file
           readers == Granting(call, setup, "read", file)
<1>1. /\ CallOK(call) /\ call.pc = "refresh" /\ UNCHANGED setup
      /\ Routed(call) /\ Pending(call) /\ setup \in call.met /\ setup \in Setups /\ call.pc \in Steps
      /\ IsCall(call)
  BY DEF AdapterInv, Refresh, CallOK, Steps, Meets
<1>2. /\ call.ask.method \in {"call", "resource", "rest"} /\ ToolOf(call.ask) = "edit_vault_file"
      /\ call.ask.method = "call" /\ call.met = {call.first} =>
           Discoverable(Rules(call.first, call.context, Needs[ToolOf(call.ask)]))
  BY <1>1 DEF Routed
<1>3. SameCall(call, call') => SameCaller(call, call') /\ call'.met = call.met /\ call'.first = call.first
                               /\ call'.ask = call.ask /\ call'.context = call.context
  BY DEF SameCall, SameCaller
<1>4. CASE readers = {} /\ Ends("notFound")
  <2>1. /\ IsCall(call') /\ SameCall(call, call') /\ call'.pc = "done"
        /\ call'.answer = "notFound" /\ call'.shown = {} /\ call'.changed = FALSE
    BY <1>1, <1>4, CallGoesOn DEF Pending
  <2>2. Granting(call', setup, "read", file) = {}
    BY <1>3, <1>4, <2>1, SameGrants
  <2>3. ~ Granted(call', setup, "edit_vault_file", file)
    BY <2>2 DEF Granted
  <2>4. AdmittedByOne(call')
    BY <1>1, <1>2, <1>3, <2>1, <2>3 DEF AdmittedByOne
  <2>5. CallOK(call')
    BY <1>1, <1>3, <2>1, <2>4, Finished
  <2> QED
    BY <1>1, <2>1, <2>5 DEF AdapterInv
<1>5. CASE readers # {} /\ Goes("decide")
  <2>1. /\ IsCall(call') /\ SameCall(call, call') /\ call'.pc = "decide"
        /\ call'.answer = call.answer /\ call'.shown = call.shown /\ call'.changed = call.changed
    BY <1>1, <1>5, CallGoesOn
  <2>2. call'.met = {call'.first} => call'.first = setup
    BY <1>1, <1>3, <2>1
  <2>3. Granting(call', setup, "read", file) # {}
    BY <1>3, <1>5, <2>1, SameGrants
  <2>4. Routed(call')
    <3>1. call'.ask = call.ask /\ call'.context = call.context /\ call'.met = call.met /\ call'.first = call.first
      BY <1>3, <2>1
    <3>2. "edit_vault_file" \in Tools
      BY DEF Tools, Needs
    <3> QED
      BY <1>2, <2>1, <2>2, <2>3, <3>1, <3>2 DEF Routed
  <2>5. CallOK(call')
    BY <1>1, <2>1, <2>4, GoesOn DEF Steps
  <2> QED
    BY <1>1, <1>3, <2>1, <2>5 DEF AdapterInv, Meets
<1> QED
  BY <1>4, <1>5 DEF Refresh

LEMMA DecideHolds == ASSUME AdapterInv, Decide PROVE AdapterInv'
<1> DEFINE tool == ToolOf(call.ask)
           file == call.ask.file
           changes == tool \in {"create_vault_file", "edit_vault_file"}
<1>1. /\ CallOK(call) /\ call.pc = "decide" /\ UNCHANGED setup
      /\ Routed(call) /\ Pending(call) /\ setup \in call.met /\ setup \in Setups /\ call.pc \in Steps
      /\ IsCall(call) /\ call.ask \in Calls
  BY DEF AdapterInv, Decide, CallOK, Steps, Meets
<1>2. /\ call.ask.method \in {"call", "resource", "rest"} /\ tool \in Tools
      /\ call.ask.method = "call" /\ call.met = {call.first} =>
           Discoverable(Rules(call.first, call.context, Needs[tool]))
      /\ tool = "edit_vault_file" /\ call.met = {call.first} =>
           Granting(call, call.first, "read", file) # {}
  BY <1>1 DEF Routed
<1>3. SameCall(call, call') => SameCaller(call, call') /\ call'.met = call.met /\ call'.first = call.first
                               /\ call'.ask = call.ask /\ call'.context = call.context
  BY DEF SameCall, SameCaller
<1>4. call.met = {call.first} => call.first = setup
  BY <1>1
<1>5. CASE ~ Permits(call, setup, tool, file)
  <2>0. Ends(IF changes THEN "denied" ELSE "notFound")
    BY <1>5 DEF Decide
  <2>1. /\ IsCall(call') /\ SameCall(call, call') /\ call'.pc = "done"
        /\ call'.answer \in {"denied", "notFound"} /\ call'.shown = {} /\ call'.changed = FALSE
    BY <1>1, <2>0, CallGoesOn DEF Pending
  <2>2. ~ Granted(call', setup, tool, file)
    BY <1>3, <1>5, <2>1, SameGrants DEF Granted
  <2>3. AdmittedByOne(call')
    BY <1>2, <1>3, <1>4, <2>1, <2>2 DEF AdmittedByOne
  <2>4. CallOK(call')
    BY <1>1, <1>3, <2>1, <2>3, Finished
  <2> QED
    BY <1>1, <2>1, <2>4 DEF AdapterInv
<1>6. CASE Permits(call, setup, tool, file)
  <2> DEFINE shown == IF tool = "query_notes" THEN {f \in Files : Granting(call, setup, "read", f) # {}}
                      ELSE {file}
             answer == IF call.ask.method = "call" /\ call.ask.raw = "wrong" THEN "invalid" ELSE "answered"
  <2>1. call' = [call EXCEPT !.pc = "done", !.changed = changes, !.shown = shown, !.answer = answer]
    BY <1>6 DEF Decide
  <2>2. /\ changes \in BOOLEAN /\ answer \in {"invalid", "answered"}
        /\ answer = "invalid" <=> call.ask.method = "call" /\ call.ask.raw = "wrong"
    OBVIOUS
  <2>3. ASSUME NEW f \in shown PROVE Granting(call, setup, Needs[tool], f) # {}
    <3>1. CASE tool = "query_notes"
      BY <2>3, <3>1 DEF Needs
    <3>2. CASE tool # "query_notes"
      BY <1>2, <1>6, <2>3, <3>2 DEF Permits, Tools, Needs
    <3> QED
      BY <3>1, <3>2
  <2> HIDE DEF shown, answer, changes
  <2>4. call' = [pc |-> "done", ask |-> call.ask, who |-> call.who, context |-> call.context,
                 answer |-> answer, shown |-> shown, changed |-> changes, first |-> call.first, met |-> call.met]
    BY <1>1, <2>1 DEF IsCall
  <2>5. /\ IsCall(call') /\ SameCall(call, call') /\ call'.pc = "done"
        /\ call'.answer = answer /\ call'.shown = shown /\ call'.changed = changes
    BY <2>4 DEF IsCall, SameCall, SameCaller
  <2>6. /\ SameCaller(call, call') /\ call'.met = call.met /\ call'.first = call.first
        /\ call'.ask = call.ask /\ call'.context = call.context
    BY <1>3, <2>5
  <2>7. /\ \A right, f : Granting(call', setup, right, f) = Granting(call, setup, right, f)
        /\ Permits(call', setup, tool, file)
    BY <1>6, <2>6, SameGrants
  <2>8. call.met = {call.first} => Granted(call', setup, tool, file)
    <3>1. ASSUME call.met = {call.first}, tool = "query_notes", call.ask.via = "mcp"
          PROVE  Discoverable(Rules(setup, call.context, "read"))
      <4>1. call.ask.method = "call"
        BY <1>1, <1>2, <3>1, CallsAssumption DEF ToolOf
      <4> QED
        BY <1>2, <1>4, <3>1, <4>1 DEF Needs
    <3>2. call.met = {call.first} /\ tool = "edit_vault_file" => Granting(call', setup, "read", file) # {}
      BY <1>2, <1>4, <2>7
    <3> QED
      BY <2>6, <2>7, <3>1, <3>2 DEF Granted, Discoverable
  <2>9. AdmittedByOne(call')
    BY <1>2, <1>4, <2>2, <2>5, <2>6, <2>8 DEF AdmittedByOne
  <2>10. call'.answer # "unauthorized" /\ call'.answer # "unavailable"
    BY <2>2, <2>5
  <2>11. \A f \in call'.shown : \E s \in call.met : Granting(call', s, Needs[ToolOf(call'.ask)], f) # {}
    BY <1>1, <2>3, <2>5, <2>6, <2>7
  <2>12. \E s \in call.met : Permits(call', s, ToolOf(call'.ask), call'.ask.file)
    BY <1>1, <2>6, <2>7
  <2>13. call'.answer = "invalid" => call'.ask.raw = "wrong"
    BY <2>2, <2>5, <2>6
  <2>14. CallOK(call')
    BY <1>1, <2>5, <2>9, <2>10, <2>11, <2>12, <2>13, Finished
  <2> QED
    BY <1>1, <2>5, <2>14 DEF AdapterInv
<1> QED
  BY <1>5, <1>6
LEMMA ArriveHolds == ASSUME AdapterInv, NEW ask \in Calls, Arrive(ask) PROVE AdapterInv'
<1> DEFINE names == Caller(ask.via, ask.token)
           name == CHOOSE n \in names : TRUE
           who == <<ask.via, name>>
           context == setup.tokens[ask.via][name]
           pc == IF ask.via = "rest" THEN RestStep(ask) ELSE McpStep(ask)
<1>1. setup \in Setups /\ UNCHANGED setup
  BY DEF AdapterInv, Arrive
<1>2. /\ names = {} <=> Holders(setup, ask) = {}
      /\ \A n \in names : \E k \in Holders(setup, ask) : n = setup.sources[ask.via][k].name
  BY <1>1, CallerHolds
<1>3. \/ names = {} /\ call' = [Reached(ask, "done", Nobody, "none") EXCEPT !.answer = "unauthorized"]
      \/ names # {} /\ call' = Reached(ask, pc, who, context)
  BY DEF Arrive
<1>4. \/ ask.via = "rest" /\ ask.method = "rest" /\ ask.tool \in Tools
      \/ ask.via = "mcp" /\ ask.method \in {"plain", "list", "call", "resource"}
  BY CallsAssumption
<1>5. names # {} => name \in names
  OBVIOUS
<1> HIDE DEF names, name, who, context, pc
<1>6. CASE names = {} /\ call' = [Reached(ask, "done", Nobody, "none") EXCEPT !.answer = "unauthorized"]
  <2>1. call' = [pc |-> "done", ask |-> ask, who |-> Nobody, context |-> "none",
                 answer |-> "unauthorized", shown |-> {}, changed |-> FALSE, first |-> setup, met |-> {setup}]
    BY <1>6 DEF Reached
  <2>2. /\ IsCall(call') /\ call'.pc = "done" /\ call'.ask = ask /\ call'.answer = "unauthorized"
        /\ call'.shown = {} /\ call'.changed = FALSE /\ call'.first = setup /\ call'.met = {setup}
    BY <2>1 DEF IsCall
  <2>3. Admitted(call') /\ AdmittedByOne(call')
    BY <1>2, <1>6, <2>2 DEF Admitted, AdmittedByOne
  <2> QED
    BY <1>1, <2>2, <2>3 DEF AdapterInv, CallOK, Steps
<1>7. CASE names # {} /\ call' = Reached(ask, pc, who, context)
  <2>1. call' = [pc |-> pc, ask |-> ask, who |-> who, context |-> context,
                 answer |-> "none", shown |-> {}, changed |-> FALSE, first |-> setup, met |-> {setup}]
    BY <1>7 DEF Reached
  <2>2. /\ IsCall(call') /\ call'.pc = pc /\ call'.ask = ask /\ Pending(call')
        /\ call'.who = who /\ call'.context = context
        /\ call'.first = setup /\ call'.met = {setup}
    BY <2>1 DEF IsCall, Pending
  <2>3. Named(call')
    <3>1. PICK k \in Holders(setup, ask) : name = setup.sources[ask.via][k].name
      BY <1>2, <1>5, <1>7
    <3> QED
      BY <2>2, <3>1 DEF Named, who, context
  <2>4. /\ pc \in Steps
        /\ pc = "itself" => ask.method = "plain" \/ (ask.method \in {"rest", "resource"} /\ ask.args = "bad")
        /\ pc # "discoverAgain"
        /\ pc = "discover" => ask.method \in {"list", "call"}
        /\ pc \in {"refresh", "decide"} =>
             ask.method \in {"resource", "rest"} /\ ToolOf(ask) \in Tools
        /\ pc = "refresh" => ToolOf(ask) = "edit_vault_file"
        /\ pc = "decide" => ToolOf(ask) # "edit_vault_file"
    <3>1. CASE ask.via = "rest"
      BY <1>4, <3>1 DEF pc, RestStep, ServiceStep, Steps, ToolOf
    <3>2. CASE ask.via = "mcp"
      <4>1. pc = McpStep(ask) /\ ask.method \in {"plain", "list", "call", "resource"}
        BY <1>4, <3>2 DEF pc
      <4>2. CASE ask.method = "plain"
        <5>1. pc = "itself"
          BY <4>1, <4>2 DEF McpStep
        <5> QED
          BY <4>2, <5>1 DEF Steps
      <4>3. CASE ask.method \in {"list", "call"}
        BY <4>1, <4>3 DEF McpStep, Steps
      <4>4. CASE ask.method = "resource"
        <5>1. /\ pc = IF ask.args = "bad" THEN "itself" ELSE "decide"
              /\ ToolOf(ask) = "get_vault_file"
          BY <4>1, <4>4 DEF McpStep, ServiceStep, ToolOf
        <5>2. "get_vault_file" \in Tools
          BY DEF Tools, Needs
        <5>3. CASE ask.args = "bad"
          BY <4>4, <5>1, <5>3 DEF Steps
        <5>4. CASE ask.args # "bad"
          BY <4>4, <5>1, <5>2, <5>4 DEF Steps
        <5> QED
          BY <5>3, <5>4
      <4> QED
        BY <4>1, <4>2, <4>3, <4>4
    <3> QED
      BY <1>4, <3>1, <3>2
  <2>5. Routed(call')
    BY <2>2, <2>4 DEF Routed
  <2>6. CallOK(call')
    BY <2>2, <2>3, <2>4, <2>5 DEF CallOK, Steps
  <2> QED
    BY <1>1, <2>2, <2>4, <2>6 DEF AdapterInv, Meets, Steps
<1> QED
  BY <1>3, <1>6, <1>7

LEMMA ReloadSetupHolds == ASSUME AdapterInv, ReloadSetup PROVE AdapterInv'
<1>1. setup' \in Setups /\ CallOK(call) /\ IsCall(call)
  BY DEF AdapterInv, ReloadSetup, CallOK
<1>2. CASE call.pc = "done"
  BY <1>1, <1>2 DEF ReloadSetup, AdapterInv
<1>3. CASE call.pc = "idle"
  <2>1. call' = [call EXCEPT !.met = {setup'}, !.first = setup']
    BY <1>3 DEF ReloadSetup
  <2>2. call' = [pc |-> "idle", ask |-> call.ask, who |-> call.who, context |-> call.context,
                 answer |-> call.answer, shown |-> call.shown, changed |-> call.changed,
                 first |-> setup', met |-> {setup'}]
    BY <1>1, <1>3, <2>1 DEF IsCall
  <2>3. /\ IsCall(call') /\ call'.pc = "idle" /\ call'.first = setup' /\ call'.met = {setup'}
        /\ call'.answer = call.answer /\ call'.shown = call.shown /\ call'.changed = call.changed
    BY <2>2 DEF IsCall
  <2>4. Pending(call')
    BY <1>1, <1>3, <2>3 DEF CallOK, Pending
  <2> QED
    BY <1>1, <2>3, <2>4 DEF AdapterInv, CallOK, Steps, Meets
<1>4. CASE call.pc \in Steps
  <2>0. call.pc # "idle" /\ call.pc # "done" /\ Named(call) /\ Routed(call) /\ Pending(call)
        /\ call.ask \in Calls /\ call.first \in call.met
    BY <1>1, <1>4 DEF Steps, CallOK
  <2>1. call' = [call EXCEPT !.met = call.met \cup {setup'}, !.first = call.first]
    BY <2>0 DEF ReloadSetup
  <2> DEFINE met == call.met \cup {setup'}
  <2>a. setup' \in met /\ call.met \subseteq met
    OBVIOUS
  <2> HIDE DEF met
  <2>2. call' = [pc |-> call.pc, ask |-> call.ask, who |-> call.who, context |-> call.context,
                 answer |-> call.answer, shown |-> call.shown, changed |-> call.changed,
                 first |-> call.first, met |-> met]
    BY <1>1, <2>1 DEF IsCall, met
  <2>3. /\ IsCall(call') /\ call'.pc = call.pc /\ call'.first = call.first /\ call'.met = met
        /\ call'.answer = call.answer /\ call'.shown = call.shown /\ call'.changed = call.changed
        /\ call'.ask = call.ask /\ call'.who = call.who /\ call'.context = call.context
    BY <2>2 DEF IsCall
  <2>4. call'.met = {call'.first} => call.met = {call.first}
    BY <2>0, <2>a, <2>3
  <2>5. Named(call') /\ Pending(call')
    BY <2>0, <2>3 DEF Named, Pending
  <2>6. Granting(call', call.first, "read", call.ask.file) = Granting(call, call.first, "read", call.ask.file)
    BY <2>3 DEF Granting
  <2>7. Routed(call')
    BY <2>0, <2>3, <2>4, <2>6 DEF Routed
  <2>8. CallOK(call')
    BY <1>4, <2>0, <2>a, <2>3, <2>5, <2>7 DEF CallOK, Steps
  <2> QED
    BY <1>1, <2>0, <2>a, <2>3, <2>8 DEF AdapterInv, Meets
<1> QED
  BY <1>1, <1>2, <1>3, <1>4 DEF CallOK

LEMMA AdapterInitHolds == AdapterInit => AdapterInv
<1> SUFFICES ASSUME AdapterInit PROVE AdapterInv
  OBVIOUS
<1>1. call = [pc |-> "idle", ask |-> NoAsk, who |-> Nobody, context |-> "none", answer |-> "none",
              shown |-> {}, changed |-> FALSE, first |-> setup, met |-> {setup}]
  BY DEF AdapterInit, Reached
<1>2. /\ IsCall(call) /\ call.pc = "idle" /\ Pending(call) /\ call.first = setup /\ call.met = {setup}
  BY <1>1 DEF IsCall, Pending
<1> QED
  BY <1>2 DEF AdapterInit, AdapterInv, CallOK, Steps, Meets

LEMMA AdapterStepHolds == ASSUME AdapterInv, [AdapterNext]_adapterVars PROVE AdapterInv'
<1>1. CASE UNCHANGED adapterVars
  BY <1>1 DEF adapterVars, AdapterInv
<1> QED
  BY <1>1, ReloadSetupHolds, AnswerItselfHolds, DiscoverHolds, RefreshHolds, DecideHolds, ArriveHolds
     DEF AdapterNext

LEMMA AdapterInvHolds == AdapterSpec => []AdapterInv
BY AdapterInitHolds, AdapterStepHolds, PTL DEF AdapterSpec

(* Whatever the tokens, the policies and the reloads: a call is answered by *)
(* what the configurations it met grant its caller, MCP offers every tool   *)
(* that could be of use, and while nothing is reloaded MCP and REST grant   *)
(* the same.                                                                *)
THEOREM CallsCorrect == AdapterSpec => []CallsAreAdmitted
<1>1. ASSUME AdapterInv PROVE CallsAreAdmitted
  <2> SUFFICES ASSUME call.pc = "done" PROVE CallsAreAdmitted
    BY DEF CallsAreAdmitted
  <2>1. Admitted(call) /\ AdmittedByOne(call)
    BY <1>1 DEF AdapterInv, CallOK
  <2> QED
    BY <2>1 DEF CallsAreAdmitted, Admitted, AdmittedByOne
<1> QED
  BY <1>1, AdapterInvHolds, PTL
=============================================================================
