------------------------------ MODULE AtomicFile ------------------------------
(***************************************************************************)
(* What the write path of the service takes the CouchDB client to be: one  *)
(* vault file that is read and written in a single step.  A creation finds *)
(* no file and leaves its content, an edit adds to the content it meets, a *)
(* deletion leaves nothing, and whatever is refused or fails changes       *)
(* nothing.  The documents behind the file are module Couch's.             *)
(***************************************************************************)
EXTENDS Sequences

CONSTANTS Requests, Chunks
VARIABLES value,    \* what the file holds: one sequence of chunks, or none
          answer    \* what each request has been told

Dead == {}
Holds(s) == {s}
Refusals == {"exists", "conflict", "notfound", "unavailable", "nothing", "incomplete", "error"}
Told == {"none", "done", "lost"} \cup Refusals

IsFile(v) == v = Dead \/ \E s \in v : s \in Seq(Chunks) /\ v = Holds(s)

Init == /\ IsFile(value)
        /\ answer = [r \in Requests |-> "none"]

\* The request takes effect; the reply may get lost.
Commits(r) == /\ answer[r] = "none"
              /\ \E a \in {"done", "lost"} : answer' = [answer EXCEPT ![r] = a]

Create(r) == Commits(r) /\ value = Dead /\ value' # Dead /\ IsFile(value')

Edit(r) == /\ Commits(r)
           /\ \E s \in value, x \in Chunks : value' = Holds(Append(s, x))

Delete(r) == Commits(r) /\ value' = Dead

\* A repair restores documents, never the file.
Repair(r) == Commits(r) /\ UNCHANGED value

Refuse(r) == /\ answer[r] = "none"
             /\ \E a \in Refusals : answer' = [answer EXCEPT ![r] = a]
             /\ UNCHANGED value

\* Another LiveSync client.
Other == /\ IsFile(value')
         /\ UNCHANGED answer

Next == \/ \E r \in Requests : Create(r) \/ Edit(r) \/ Delete(r) \/ Repair(r) \/ Refuse(r)
        \/ Other

Spec == Init /\ [][Next]_<<value, answer>>
=============================================================================
