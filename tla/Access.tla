--------------------------------- MODULE Access --------------------------------
(***************************************************************************)
(* What the policy in effect lets principals do with a note: create it,    *)
(* edit its raw text, or update it as a note, each with the tags and the   *)
(* owner that the rules add or keep.  One request is followed at a time;   *)
(* what the user in Obsidian, or another request, does to the note in      *)
(* between is UserEdits and UserClaims.  Tags are compared without case    *)
(* and "#".                                                                *)
(***************************************************************************)
EXTENDS Naturals, FiniteSets

CONSTANTS Policies,  \* rules for creating and for editing
          Principals,
          Nobody,    \* no owner
          Unasked,   \* a field that the request leaves out
          Tags,
          Bodies,    \* tags that a body may have
          MaxWrites  \* bound: writes of the note

ASSUME NobodyAssumption == Nobody \notin Principals
ASSUME TagsAssumption == Bodies \subseteq SUBSET Tags
ASSUME WritesAssumption == MaxWrites \in Nat \ {0}

\* Which notes a rule is about, and what it does.
Matchers == [default : BOOLEAN, all : SUBSET Tags, any : SUBSET Tags, none : SUBSET Tags,
             within : BOOLEAN, owner : {"any", "yes", "no"}]
RuleRecords == [allow : BOOLEAN, matcher : Matchers, add : SUBSET Tags, setOwner : BOOLEAN,
                preserve : SUBSET Tags]

ASSUME PoliciesAssumption ==
  Policies # {} /\ \A p \in Policies : p.create \cup p.edit \subseteq RuleRecords

VARIABLES
  note,    \* tags of the front matter and of the body, created_by, the owner under
           \* the key of older versions, whether it is recent; revision 0: no note
  request, \* the write that is under way, by whom, and whose the note was when
           \* that was allowed
  policy   \* the rules in effect

accessVars == <<note, request, policy>>

NoNote == [rev |-> 0, tags |-> {}, body |-> {}, owner |-> Nobody, legacy |-> Nobody, recent |-> FALSE]
NoRequest == [kind |-> "none", by |-> Nobody, rev |-> 0, of |-> Nobody, rules |-> {}, keep |-> {}, tags |-> Unasked,
              body |-> Unasked, claim |-> Unasked, result |-> NoNote]

\* The bound leaves room for the write that is under way.
Room == note.rev + (IF request = NoRequest THEN 0 ELSE 1) < MaxWrites

Owner(n) == IF n.owner # Nobody THEN n.owner ELSE n.legacy
AllTags(n) == n.tags \cup n.body

-----------------------------------------------------------------------------
(* Rules: a matcher that allows or denies, and what an allowed write does.  *)

Matches(m, n, p) ==
  \/ m.default
  \/ /\ m.all \subseteq AllTags(n)
     /\ m.any = {} \/ m.any \cap AllTags(n) # {}
     /\ m.none \cap AllTags(n) = {}
     /\ m.within => n.recent
     /\ m.owner # "any" => ((Owner(n) = p) = (m.owner = "yes"))

\* Denials first; then the rules that allow, all of which count.
Allowing(rules, n, p) ==
  IF \E r \in rules : ~ r.allow /\ Matches(r.matcher, n, p) THEN {}
  ELSE {r \in rules : r.allow /\ Matches(r.matcher, n, p)}

\* The rules are those of the snapshot, any that Reload may put into effect.
ReloadPolicy == policy' \in Policies \ {policy} /\ UNCHANGED <<note, request>>

-----------------------------------------------------------------------------
(* A new note: checked as asked for, changed as the rules say, and checked. *)

Prepared(n, allowing, p) ==
  [n EXCEPT !.tags = @ \cup UNION {r.add : r \in allowing},
            !.owner = IF \E r \in allowing : r.setOwner THEN p ELSE @,
            !.legacy = IF \E r \in allowing : r.setOwner THEN Nobody ELSE @]

Create(p, tags, body, claim) ==
  LET asked == [rev |-> 1, tags |-> tags, body |-> body, owner |-> claim, legacy |-> Nobody, recent |-> TRUE]
      allowing == Allowing(policy.create, asked, p)
      made == Prepared(asked, allowing, p)
  IN /\ note.rev = 0
     /\ allowing # {} /\ Allowing(policy.create, made, p) # {}
     /\ note' = made
     /\ UNCHANGED <<request, policy>>

-----------------------------------------------------------------------------
(* The raw text is replaced: apply_markdown_raw_update.                     *)

Kept(allowing, n) == (UNION {r.preserve : r \in allowing}) \cap AllTags(n)

(* Mutant of RawUpdate: of the tags to keep, those of the body are lost.    *)
RawUpdateOfFrontmatter(n, keep, tags, body) ==
  [n EXCEPT !.rev = @ + 1, !.tags = tags \cup (keep \cap n.tags), !.body = body,
            !.owner = Owner(n), !.legacy = Nobody]

\* The tags asked for, or else those of the new front matter, and those to
\* keep; the owner stays, under the key of today, whatever the new front matter
\* and the metadata say of one.
RawUpdate(n, keep, tags, body) ==
  [n EXCEPT !.rev = @ + 1, !.tags = tags \cup keep, !.body = body,
            !.owner = Owner(n), !.legacy = Nobody]

PrepareEdit(p, tags, body) ==
  LET allowing == Allowing(policy.edit, note, p)
  IN /\ note.rev > 0 /\ request = NoRequest /\ Room /\ allowing # {}
     /\ request' = [NoRequest EXCEPT !.kind = "edit", !.by = p, !.of = Owner(note), !.rev = note.rev,
          !.rules = allowing, !.tags = tags, !.result = RawUpdate(note, Kept(allowing, note), tags, body)]
     /\ UNCHANGED <<note, policy>>

-----------------------------------------------------------------------------
(* An update as a note: prepare_update_note_request reads it, and           *)
(* prepare_update_note_write_at reads it again and rebuilds the text.  Of   *)
(* the metadata created_by is dropped, but not the owner under the key of   *)
(* older versions: Unasked is metadata without that key, Nobody one without *)
(* an owner under it.                                                       *)

PrepareUpdate(p, tags, body, claim) ==
  LET allowing == Allowing(policy.edit, note, p)
  IN /\ note.rev > 0 /\ request = NoRequest /\ Room /\ allowing # {}
     /\ request' = [NoRequest EXCEPT !.kind = "update", !.by = p, !.of = Owner(note),
          !.rules = allowing, !.keep = Kept(allowing, note), !.tags = tags, !.body = body, !.claim = claim]
     /\ UNCHANGED <<note, policy>>

RebuildMarkdown ==
  /\ request.kind = "update"
  /\ request' = [request EXCEPT !.kind = "rebuilt", !.rev = note.rev, !.result =
       [note EXCEPT !.rev = @ + 1,
                    !.tags = IF request.tags = Unasked THEN @ ELSE request.tags \cup request.keep,
                    !.body = IF request.body = Unasked THEN @ ELSE request.body,
                    !.legacy = IF request.claim = Unasked THEN @ ELSE request.claim]]
  /\ UNCHANGED <<note, policy>>

\* Only on top of the revision that was read.
Write ==
  /\ request.kind \in {"edit", "rebuilt"} /\ note.rev < MaxWrites
  /\ note' = IF request.rev = note.rev THEN [request.result EXCEPT !.recent = note.recent] ELSE note
  /\ request' = NoRequest /\ UNCHANGED policy

-----------------------------------------------------------------------------
(* The user in Obsidian, and time.                                          *)

UserEdits ==
  /\ note.rev > 0 /\ Room
  /\ \E tags \in SUBSET Tags, body \in Bodies :
       note' = [note EXCEPT !.rev = @ + 1, !.tags = tags, !.body = body]
  /\ UNCHANGED <<request, policy>>

\* The front matter is the user's, the owner in it too.
UserClaims ==
  /\ note.rev > 0 /\ Room
  /\ \E owner, legacy \in Principals \cup {Nobody} :
       note' = [note EXCEPT !.rev = @ + 1, !.owner = owner, !.legacy = legacy]
  /\ UNCHANGED <<request, policy>>

Ages == note.recent /\ note' = [note EXCEPT !.recent = FALSE] /\ UNCHANGED <<request, policy>>

\* Any policy may follow the first before a note is written.
AccessInit ==
  /\ \/ note = NoNote
     \/ \E body \in Bodies, p \in Principals :
          note = [NoNote EXCEPT !.rev = 1, !.body = body, !.legacy = p]
  /\ request = NoRequest /\ policy = CHOOSE r \in Policies : TRUE

AccessNext ==
  \/ UserEdits \/ UserClaims \/ Ages \/ ReloadPolicy \/ RebuildMarkdown \/ Write
  \/ \E p \in Principals :
       \/ \E tags \in SUBSET Tags, body \in Bodies :
            PrepareEdit(p, tags, body) \/ \E claim \in Principals \cup {Nobody} : Create(p, tags, body, claim)
       \/ \E tags \in (SUBSET Tags) \cup {Unasked}, body \in Bodies \cup {Unasked} :
            \E claim \in Principals \cup {Nobody, Unasked} : PrepareUpdate(p, tags, body, claim)

AccessSpec == AccessInit /\ [][AccessNext]_accessVars

-----------------------------------------------------------------------------
AccessTypeOK ==
  /\ note.rev \in 0..MaxWrites /\ note.tags \subseteq Tags /\ note.body \in Bodies \cup {{}}
  /\ {note.owner, note.legacy} \subseteq Principals \cup {Nobody}
  /\ request.rev <= note.rev /\ (request # NoRequest => request.rules # {})

\* Rules that ask for no more than tags that they preserve, and the owner.
KeepsItself(r) ==
  LET m == r.matcher
  IN ~ m.default /\ m.none = {} /\ ~ m.within /\ m.all \cup m.any \subseteq r.preserve

(* A write leaves the note such that the rules that allowed it allow its    *)
(* author to edit it again, when they preserve the tags they ask for        *)
(* (config.example.yaml:81, "preserve_tags"), whoever asked for which tags, *)
(* wherever the tags were, and whatever the user or a reload did in         *)
(* between, as long as the note is still whose it was when they allowed it. *)
(* An update that asks for no tags keeps those of the front matter only,    *)
(* and is left out.  No write changes created_by once it is there           *)
(* (store.rs:3078); a note without one has another owner after a write only *)
(* when its metadata name the key of older versions, which is not dropped.  *)
EditsKeepTheirGrounds ==
  [][Write /\ request.rev = note.rev =>
       /\ note.owner # Nobody => note'.owner = note.owner
       /\ request.claim = Unasked => Owner(note') = Owner(note)
       /\ request.tags # Unasked =>
            \A r \in request.rules :
              KeepsItself(r) /\ (r.matcher.owner = "any" \/ Owner(note') = request.of) =>
                Matches(r.matcher, note', request.by)]_<<note, request>>
=============================================================================
