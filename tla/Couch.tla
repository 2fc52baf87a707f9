-------------------------------- MODULE Couch --------------------------------
(***************************************************************************)
(* The documents of one vault file in CouchDB: a file document that names  *)
(* its children, and content-addressed leaf documents, one per chunk.  A   *)
(* request of the service, the worker's repair and the command line reach  *)
(* them one HTTP call at a time, while other LiveSync clients write,       *)
(* delete and clean up.                                                    *)
(*                                                                         *)
(* A chunk is identified with its leaf id, so the content of a file is the *)
(* sequence of its children.                                               *)
(***************************************************************************)
EXTENDS Naturals, Sequences, FiniteSets, SequencesExt, Order

CONSTANTS Requests,    \* calls of the service, the worker and the command line
          Kinds,       \* what they ask for
          Leaves,      \* the chunks there are
          MaxRev,      \* bound: revisions of the file document
          MaxLeafRev,  \* bound: revisions of a leaf
          MaxLen,      \* bound: chunks of a file
          Repeats,     \* whether a file may hold a chunk twice
          MaxFaults    \* bound: failed calls and compactions

NoOne == "no one"

ASSUME RequestsAssumption == NoOne \notin Requests
ASSUME KindsAssumption == Kinds \subseteq {"create", "edit", "repair", "delete"}
ASSUME RepeatsAssumption == Repeats \in BOOLEAN
ASSUME BoundsAssumption == {MaxRev, MaxLeafRev, MaxLen, MaxFaults} \subseteq Nat

VARIABLES
  file,   \* the file document
  leaf,   \* the leaf documents
  lock,   \* vault_file_repair_lock of the path: who holds it
  req,    \* the requests
  faults

vars == <<file, leaf, lock, req, faults>>

Contents == UNION {[1..n -> Leaves] : n \in 0..MaxLen}
Written == {s \in Contents : s # <<>> /\ (Repeats \/ IsInjective(s))}

\* "gone" is a logical deletion: the document is there and says deleted.
FileStates == {"none", "live", "gone", "tomb"}
LeafStates == {"none", "live", "tomb"}

Idle == [kind |-> "none", pc |-> "idle", rev |-> 0, kids |-> <<>>, todo |-> <<>>,
         got |-> {}, revs |-> [l \in Leaves |-> 0], new |-> <<>>, seen |-> FALSE,
         del |-> FALSE, again |-> FALSE, moved |-> FALSE, scan |-> FALSE, answer |-> "none",
         dead |-> FALSE]

Init ==
  /\ file = [st |-> "none", rev |-> 0, kids |-> <<>>]
  /\ leaf = [l \in Leaves |-> [st |-> "none", rev |-> 0, past |-> FALSE]]
  /\ lock = NoOne
  /\ req = [r \in Requests |-> Idle]
  /\ faults = 0

-----------------------------------------------------------------------------
(* Children and content.                                                    *)

\* The ids of a child list, each once.
FirstSeen(kids) ==
  Picked(kids, {k \in DOMAIN kids : \A j \in 1..(k - 1) : kids[j] # kids[k]})

\* What reassembly makes of a child list: the chunks of its distinct ids.
Reassembled(kids) == FirstSeen(kids)

\* A file without children is never complete.
Reconstructible(kids, have) == kids # <<>> /\ ToSet(kids) \subseteq have

Live(l) == leaf[l].st = "live"
LiveLeaves == {l \in Leaves : Live(l)}
Exists == file.st \in {"live", "gone"}

-----------------------------------------------------------------------------
(* CouchDB.  A PUT without a revision is accepted where no live document    *)
(* is, one with a revision where that revision is the latest.               *)

Accepts(live, rev, sent) == IF sent = 0 THEN ~ live ELSE sent = rev

LeafBecomes(l, st) ==
  leaf' = [leaf EXCEPT ![l] = [st |-> st, rev |-> @.rev + 1, past |-> st = "tomb"]]

FileBecomes(st, kids) == file' = [st |-> st, rev |-> file.rev + 1, kids |-> kids]

\* Requests under way see the file dead when it is, or when it dies.
SeenDead == [r \in Requests |-> IF req[r].pc \in {"idle", "done"} THEN req[r]
                                ELSE [req[r] EXCEPT !.dead = TRUE]]

-----------------------------------------------------------------------------
(* Other LiveSync clients.  They upload leaves before the file that names   *)
(* them, and clean up leaves no file names; a tombstoned document may lose  *)
(* its history to compaction.                                               *)

UploadLeaf(l) ==
  /\ ~ Live(l) /\ leaf[l].rev < MaxLeafRev
  /\ LeafBecomes(l, "live")
  /\ UNCHANGED <<file, lock, req, faults>>

WriteFile ==
  /\ file.rev < MaxRev
  /\ \E kids \in Written \cup {<<>>} : /\ ToSet(kids) \subseteq LiveLeaves
                                       /\ kids # file.kids \/ file.st # "live"
                                       /\ FileBecomes("live", kids)
  /\ UNCHANGED <<leaf, lock, req, faults>>

DeleteFile ==
  /\ file.st = "live" /\ file.rev < MaxRev
  /\ FileBecomes("gone", file.kids) \/ FileBecomes("tomb", <<>>)
  /\ req' = SeenDead
  /\ UNCHANGED <<leaf, lock, faults>>

CollectLeaf(l) ==
  /\ Live(l) /\ leaf[l].rev < MaxLeafRev
  /\ file.st = "live" => l \notin ToSet(file.kids)
  /\ LeafBecomes(l, "tomb")
  /\ UNCHANGED <<file, lock, req, faults>>

Compact(l) ==
  /\ leaf[l].st = "tomb" /\ leaf[l].past
  /\ faults < MaxFaults /\ faults' = faults + 1
  /\ leaf' = [leaf EXCEPT ![l].past = FALSE]
  /\ UNCHANGED <<file, lock, req>>

-----------------------------------------------------------------------------
(* Requests.  Each step is one call; what it read stays in the request.     *)

At(r, pc) == req[r].pc = pc

\* The request goes on with d; nothing else changes.
Goes(r, d) == req' = [req EXCEPT ![r] = d] /\ UNCHANGED lock

(* Mutant of Answers: the lock of the path is kept. *)
AnswersUnderLock(r, a) ==
  /\ req' = [req EXCEPT ![r] = [Idle EXCEPT !.pc = "done", !.answer = a]]
  /\ UNCHANGED lock

Answers(r, a) ==
  /\ req' = [req EXCEPT ![r] = [Idle EXCEPT !.pc = "done", !.answer = a,
                                            !.dead = a = "notfound" /\ req[r].dead]]
  /\ lock' = IF lock = r THEN NoOne ELSE lock

Reads == UNCHANGED <<file, leaf, faults>>

Begin(r) ==
  /\ At(r, "idle")
  /\ \E kind \in Kinds :
       LET d == [Idle EXCEPT !.kind = kind, !.dead = file.st # "live"] IN
       \/ /\ kind = "create"
          /\ \E new \in Written : Goes(r, [d EXCEPT !.pc = "leaf", !.new = new,
                                                    !.todo = FirstSeen(new)])
       \/ /\ kind = "edit" /\ lock = NoOne /\ file.rev > 0
          /\ req' = [req EXCEPT ![r] = [d EXCEPT !.pc = "bulk"]]
          /\ lock' = r
       \/ kind = "repair" /\ Goes(r, [d EXCEPT !.pc = "diagnose"])
       \/ kind = "delete" /\ Goes(r, [d EXCEPT !.pc = "find"])
  /\ Reads

\* The content was rebuilt from the source; the caller's edit is applied to it.
Recovered(r, rev, kids) ==
  \E x \in Leaves :
    LET new == Append(Reassembled(kids), x) IN
    IF new \in Written
      THEN Goes(r, [Idle EXCEPT !.kind = "edit", !.pc = "get", !.rev = rev, !.new = new,
                                !.dead = req[r].dead])
      ELSE Answers(r, "error")

\* The source is read anew, with nothing kept of what was seen.
Reread(r, again) ==
  Goes(r, [Idle EXCEPT !.kind = "edit", !.pc = "bulk", !.again = again,
                       !.dead = req[r].dead])

\* The file and the children memory knows of it in one call; those may be the
\* children of another revision.
Bulk(r) ==
  /\ At(r, "bulk")
  /\ \/ /\ file.st = "live" /\ Reconstructible(file.kids, LiveLeaves)
        /\ Recovered(r, file.rev, file.kids)
     \/ Goes(r, [req[r] EXCEPT !.pc = "walk", !.seen = @ \/ file.st = "live",
                               !.del = @ \/ file.st = "gone"])
  /\ Reads

\* The file, then its children one by one; a file the scan found is kept.
WalkFile(r) ==
  /\ At(r, "walk")
  /\ LET d == [req[r] EXCEPT !.seen = @ \/ file.st = "live", !.del = @ \/ file.st = "gone"]
         e == IF d.scan THEN d ELSE [d EXCEPT !.rev = file.rev, !.kids = file.kids]
     IN IF file.st = "live" /\ file.kids # <<>>
          THEN Goes(r, [e EXCEPT !.pc = "child", !.todo = FirstSeen(file.kids)])
          ELSE Goes(r, [d EXCEPT !.pc = IF d.scan THEN "judge" ELSE "next"])
  /\ Reads

WalkLeaf(r) ==
  LET l == Head(req[r].todo)
      d == [req[r] EXCEPT !.todo = Tail(@), !.got = IF Live(l) THEN @ \cup {l} ELSE @]
  IN /\ At(r, "child")
     /\ IF d.todo # <<>> THEN Goes(r, d)
        ELSE IF Reconstructible(d.kids, d.got) THEN Recovered(r, d.rev, d.kids)
        ELSE Goes(r, [d EXCEPT !.pc = IF d.scan THEN "judge" ELSE "next", !.got = {},
                               !.rev = 0, !.kids = <<>>, !.scan = FALSE])
     /\ Reads

\* The walk starts from the id memory knows, from the path, and from what a
\* scan of the database finds under the path, a logically deleted file too.
WalkAgain(r) ==
  /\ At(r, "next")
  /\ \/ Goes(r, [req[r] EXCEPT !.pc = "walk"])
     \/ Exists /\ Goes(r, [req[r] EXCEPT !.pc = "walk", !.scan = TRUE, !.seen = TRUE,
                                         !.rev = file.rev, !.kids = file.kids])
     \/ ~ Exists /\ Goes(r, [req[r] EXCEPT !.pc = "judge"])
  /\ Reads

\* A source that is there but incomplete is diagnosed, once.
Judge(r) ==
  /\ At(r, "judge")
  /\ Goes(r, [req[r] EXCEPT !.pc = IF req[r].again \/ ~ req[r].seen THEN "verdict" ELSE "diagnose"])
  /\ Reads

\* Deleted for sure, or not readable now.
Verdict(r) ==
  /\ At(r, "verdict")
  /\ Answers(r, IF req[r].del \/ (~ req[r].seen /\ file.st = "tomb")
                  THEN "notfound" ELSE "unavailable")
  /\ Reads

-----------------------------------------------------------------------------
(* Diagnosis and repair of tombstoned children, for an edit, for the worker *)
(* and for the command line.                                                *)

(* Mutant of GivesUp: an edit takes a failed repair for a deletion. *)
GivesUpAsMissing(r, a) == Answers(r, IF req[r].kind = "edit" THEN "notfound" ELSE a)

\* The repair is over: the edit goes on with what it knows, others report.
GivesUp(r, a) ==
  IF req[r].kind = "edit" THEN Goes(r, [req[r] EXCEPT !.pc = "verdict", !.kids = <<>>,
                                          !.todo = <<>>, !.moved = FALSE, !.rev = 0])
  ELSE Answers(r, a)

Continues(r) == IF req[r].kind = "edit" THEN Reread(r, TRUE) ELSE Answers(r, "done")

Diagnose(r) ==
  /\ At(r, "diagnose")
  /\ IF Exists THEN Goes(r, [req[r] EXCEPT !.pc = "classify", !.rev = file.rev,
                                           !.kids = file.kids])
     ELSE IF req[r].kind = "edit" THEN Reread(r, TRUE)
     ELSE Answers(r, "nothing")
  /\ Reads

\* Only tombstones can be repaired.
Classify(r) ==
  LET states == {leaf[l].st : l \in ToSet(req[r].kids)}
  IN /\ At(r, "classify")
     /\ IF "none" \in states THEN GivesUp(r, "nothing")
        ELSE IF "tomb" \in states THEN Goes(r, [req[r] EXCEPT !.pc = "initial"])
        ELSE IF req[r].kind = "edit" THEN Reread(r, TRUE)
        ELSE Answers(r, "nothing")
     /\ Reads

\* The repair diagnoses again and gives up when the parent has moved.
Initial(r) ==
  /\ At(r, "initial")
  /\ IF Exists /\ file.rev = req[r].rev
       THEN Goes(r, [req[r] EXCEPT !.pc = "tombs"])
       ELSE GivesUp(r, "incomplete")
  /\ Reads

Tombs(r) ==
  /\ At(r, "tombs")
  /\ Goes(r, [req[r] EXCEPT !.pc = "parent",
                            !.todo = Picked(req[r].kids, {k \in DOMAIN req[r].kids :
                                                            leaf[req[r].kids[k]].st = "tomb"})])
  /\ Reads

\* Before each child: is the parent still the one the repair was asked for?
Parent(r) ==
  /\ At(r, "parent")
  /\ LET moved == ~ Exists \/ file.rev # req[r].rev IN
     IF req[r].todo = <<>> THEN Goes(r, [req[r] EXCEPT !.pc = "final"])
     ELSE IF moved THEN Goes(r, [req[r] EXCEPT !.pc = "final", !.moved = TRUE, !.todo = <<>>])
     ELSE Goes(r, [req[r] EXCEPT !.pc = "state"])
  /\ Reads

NextChild(r) == Goes(r, [req[r] EXCEPT !.pc = "parent", !.todo = Tail(@)])

State(r) ==
  /\ At(r, "state")
  /\ IF leaf[Head(req[r].todo)].st = "tomb"
       THEN Goes(r, [req[r] EXCEPT !.pc = "past"])
       ELSE NextChild(r)
  /\ Reads

\* The revision before the tombstone.
Past(r) ==
  /\ At(r, "past")
  /\ IF leaf[Head(req[r].todo)].past
       THEN Goes(r, [req[r] EXCEPT !.pc = "restore"])
       ELSE NextChild(r)
  /\ Reads

\* The restored leaf is put without a revision, so a live one is left alone.
Restore(r) ==
  LET l == Head(req[r].todo) IN
  /\ At(r, "restore")
  /\ IF Accepts(Live(l), leaf[l].rev, 0)
       THEN leaf[l].rev < MaxLeafRev /\ LeafBecomes(l, "live") /\ NextChild(r)
       ELSE UNCHANGED leaf /\ Goes(r, [req[r] EXCEPT !.pc = "conflict"])
  /\ UNCHANGED <<file, faults>>

Conflict(r) ==
  /\ At(r, "conflict")
  /\ IF Live(Head(req[r].todo)) THEN NextChild(r) ELSE GivesUp(r, "error")
  /\ Reads

Final(r) ==
  /\ At(r, "final")
  /\ Goes(r, [req[r] EXCEPT !.pc = "report", !.moved = @ \/ ~ Exists \/ file.rev # req[r].rev,
                            !.kids = IF Exists THEN file.kids ELSE <<>>])
  /\ Reads

Report(r) ==
  /\ At(r, "report")
  /\ IF ~ req[r].moved /\ ToSet(req[r].kids) \subseteq LiveLeaves
       THEN Continues(r)
       ELSE GivesUp(r, "incomplete")
  /\ Reads

-----------------------------------------------------------------------------
(* Writing.  A creation sends no revisions, an update those it has read.    *)

GetFile(r) ==
  /\ At(r, "get")
  /\ IF ~ Exists THEN Answers(r, "notfound")
     ELSE IF file.rev # req[r].rev THEN Answers(r, "conflict")
     ELSE Goes(r, [req[r] EXCEPT !.pc = "revs"])
  /\ Reads

GetRevs(r) ==
  /\ At(r, "revs")
  /\ Goes(r, [req[r] EXCEPT !.pc = "leaf", !.todo = FirstSeen(req[r].new),
                            !.revs = [l \in Leaves |-> IF l \in ToSet(req[r].new)
                                                       THEN leaf[l].rev ELSE 0]])
  /\ Reads

Clash(r) == IF req[r].kind = "create" THEN "exists" ELSE "conflict"

(* Mutant of PutLeaf: the file is put after its first leaf. *)
PutLeafOnce(r) ==
  LET l == Head(req[r].todo) IN
  /\ At(r, "leaf")
  /\ IF Accepts(Live(l), leaf[l].rev, req[r].revs[l])
       THEN /\ leaf[l].rev < MaxLeafRev /\ LeafBecomes(l, "live")
            /\ Goes(r, [req[r] EXCEPT !.todo = <<>>, !.pc = "file"])
       ELSE UNCHANGED leaf /\ Answers(r, Clash(r))
  /\ UNCHANGED <<file, faults>>

PutLeaf(r) ==
  LET l == Head(req[r].todo) IN
  /\ At(r, "leaf")
  /\ IF Accepts(Live(l), leaf[l].rev, req[r].revs[l])
       THEN /\ leaf[l].rev < MaxLeafRev /\ LeafBecomes(l, "live")
            /\ Goes(r, [req[r] EXCEPT !.todo = Tail(@), !.revs[l] = 0,
                                      !.pc = IF Tail(req[r].todo) = <<>> THEN "file" ELSE "leaf"])
       ELSE UNCHANGED leaf /\ Answers(r, Clash(r))
  /\ UNCHANGED <<file, faults>>

(* Mutant of PutFile: no revision is sent along. *)
PutFileAnyway(r) ==
  /\ At(r, "file")
  /\ file.rev < MaxRev /\ FileBecomes("live", req[r].new) /\ Answers(r, "done")
  /\ UNCHANGED <<leaf, faults>>

PutFile(r) ==
  /\ At(r, "file")
  /\ IF Accepts(Exists, file.rev, req[r].rev)
       THEN file.rev < MaxRev /\ FileBecomes("live", req[r].new) /\ Answers(r, "done")
       ELSE UNCHANGED file /\ Answers(r, Clash(r))
  /\ UNCHANGED <<leaf, faults>>

-----------------------------------------------------------------------------
(* Deletion from the command line.                                          *)

\* The scan finds the document, whose revision is then read.
Find(r) ==
  /\ At(r, "find")
  /\ IF Exists THEN Goes(r, [req[r] EXCEPT !.pc = "erase", !.rev = file.rev])
     ELSE Answers(r, "notfound")
  /\ Reads

Erase(r) ==
  /\ At(r, "erase")
  /\ IF Exists /\ file.rev = req[r].rev
       THEN /\ file.rev < MaxRev /\ FileBecomes("tomb", <<>>)
            /\ req' = [SeenDead EXCEPT ![r] = [Idle EXCEPT !.pc = "done", !.answer = "done"]]
            /\ UNCHANGED lock
       ELSE UNCHANGED file /\ Answers(r, IF Exists THEN "error" ELSE "notfound")
  /\ UNCHANGED <<leaf, faults>>

-----------------------------------------------------------------------------
(* A call fails before it reaches the database, or its reply is lost.       *)

CallFails(r) ==
  /\ req[r].pc \notin {"idle", "done", "judge"}
  /\ faults < MaxFaults /\ faults' = faults + 1
  /\ IF req[r].pc \in {"diagnose", "classify", "initial", "tombs", "parent", "state", "past",
                       "restore", "conflict", "final", "report"}
       THEN GivesUp(r, "error") ELSE Answers(r, "error")
  /\ UNCHANGED <<file, leaf>>

ReplyLost(r) ==
  /\ faults < MaxFaults /\ faults' = faults + 1
  /\ \/ /\ At(r, "file") /\ Accepts(Exists, file.rev, req[r].rev) /\ file.rev < MaxRev
        /\ FileBecomes("live", req[r].new) /\ UNCHANGED leaf
        /\ Answers(r, "lost")
     \/ /\ At(r, "leaf") /\ UNCHANGED file
        /\ LET l == Head(req[r].todo)
           IN /\ Accepts(Live(l), leaf[l].rev, req[r].revs[l])
              /\ leaf[l].rev < MaxLeafRev /\ LeafBecomes(l, "live")
        /\ Answers(r, "error")

Steps(r) ==
  \/ Begin(r) \/ Bulk(r) \/ WalkFile(r) \/ WalkLeaf(r) \/ WalkAgain(r) \/ Judge(r) \/ Verdict(r)
  \/ Diagnose(r) \/ Classify(r) \/ Initial(r) \/ Tombs(r) \/ Parent(r) \/ State(r) \/ Past(r)
  \/ Restore(r) \/ Conflict(r) \/ Final(r) \/ Report(r)
  \/ GetFile(r) \/ GetRevs(r) \/ PutLeaf(r) \/ PutFile(r)
  \/ Find(r) \/ Erase(r) \/ CallFails(r) \/ ReplyLost(r)

Clients ==
  \/ \E l \in Leaves : UploadLeaf(l) \/ CollectLeaf(l) \/ Compact(l)
  \/ WriteFile \/ DeleteFile

Next == (\E r \in Requests : Steps(r)) \/ Clients

Spec == Init /\ [][Next]_vars

-----------------------------------------------------------------------------
(* Properties.                                                              *)

Request ==
  [kind : {"none", "create", "edit", "repair", "delete"},
   pc : {"idle", "done", "bulk", "walk", "child", "next", "judge", "verdict", "diagnose", "classify",
         "initial", "tombs", "parent", "state", "past", "restore", "conflict", "final", "report",
         "get", "revs", "leaf", "file", "find", "erase"},
   rev : 0..MaxRev, kids : Contents, todo : Contents, new : Contents, got : SUBSET Leaves,
   revs : [Leaves -> 0..MaxLeafRev], seen : BOOLEAN, del : BOOLEAN, again : BOOLEAN,
   moved : BOOLEAN, scan : BOOLEAN, dead : BOOLEAN,
   answer : {"none", "done", "lost", "exists", "conflict", "notfound", "unavailable", "nothing",
             "incomplete", "error"}]

(* Types of the documents and of the requests, and who holds the lock.      *)
TypeOK ==
  /\ file \in [st : FileStates, rev : 0..MaxRev, kids : Contents]
  /\ leaf \in [Leaves -> [st : LeafStates, rev : 0..MaxLeafRev, past : BOOLEAN]]
  /\ lock \in Requests \cup {NoOne}
  /\ req \in [Requests -> Request]
  /\ \A r \in Requests : req[r].kind = "edit" <=> lock = r

(* Leaves before files (couchdb.rs:985, 1094): whatever fails on the way, a *)
(* file in the database names no leaf that was never written; one cleaned   *)
(* up since is a tombstone.                                                 *)
NamedLeavesWereWritten ==
  Exists => \A l \in ToSet(file.kids) : leaf[l].st # "none"

(* Confirmed deletion (service.rs:566): a request that concludes that the   *)
(* file is deleted at the source, and erases the local state for it, does   *)
(* so of a file that was deleted at some moment since the request began.    *)
DeletionIsConfirmed ==
  \A r \in Requests : req[r].answer = "notfound" => req[r].dead

(* All the calls of a request amount to one atomic step on the file         *)
(* (couchdb.rs:1033): see AtomicFile.                                       *)
Source == INSTANCE AtomicFile WITH
            Chunks <- Leaves,
            value <- IF file.st = "live" THEN {file.kids} ELSE {},
            answer <- [r \in Requests |-> req[r].answer]
ActsAtomically == Source!Spec

(* An edit adds to the content of the file and keeps the rest                *)
(* (service.rs:352): its content was rebuilt from the children of the file,  *)
(* in their order (store.rs:6717).                                           *)
EditsKeepTheRest ==
  [][\A r \in Requests : req[r].kind = "edit" /\ req'[r].answer = "done"
       => IsPrefix(file.kids, file'.kids)]_vars
=============================================================================
