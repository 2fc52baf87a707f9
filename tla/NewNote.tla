-------------------------------- MODULE NewNote --------------------------------
(***************************************************************************)
(* The path of a new note, from a template and a title, and patches of the *)
(* body of an existing one.  A template is a text with placeholders; no    *)
(* title has the name of a placeholder or an extension in it.              *)
(***************************************************************************)
EXTENDS Text

CONSTANTS Unsafe,    \* characters that no path may have
          Reserved,  \* stems that Windows keeps for devices
          Date,      \* today, in the format that is configured
          DefaultBase, DefaultTemplate,
          Untitled,  \* the title of a note whose own leaves nothing
          SlugOf     \* of each character what it leaves in a slug

Extensions == {".md", ".base"}
Placeholders == {"{base}", "{date}", "{title}", "{slug}"}
Separators == {"/", "\\"}
Rejected == <<"rejected">>

-----------------------------------------------------------------------------
(* Segments.                                                                *)

\* Extensions are characters here, which begin with a dot.
StemEnds(s) == {i \in DOMAIN s : s[i] \in {"."} \cup Extensions}
Stem(s) == Trim(IF StemEnds(s) = {} THEN s ELSE SubSeq(s, 1, Earliest(StemEnds(s)) - 1))
IsReserved(s) == Stem(s) \in Reserved

IsSafeSegment(s) ==
  /\ s # <<>> /\ s # <<".">> /\ s # <<".", ".">>
  /\ \A i \in DOMAIN s : s[i] \notin Unsafe
  /\ s[Len(s)] \notin {Space, "."}
  /\ ~ IsReserved(s)

Segments(path) ==
  FoldLeft(LAMBDA segments, c : IF c = "/" THEN Append(segments, <<>>)
                                ELSE [segments EXCEPT ![Len(segments)] = Append(@, c)], <<<<>>>>, path)

TrimSegment(s) == Without(s, {Space, "."})

TruncateSegment(s, max) ==
  LET cut == TrimSegment(SubSeq(s, 1, Fitting(s, max)))
  IN IF cut = <<>> THEN SubSeq(Untitled, 1, IF max < Len(Untitled) THEN max ELSE Len(Untitled)) ELSE cut

AtLeastOne(max) == IF max = 0 THEN 1 ELSE max

\* Runs of blanks, separators and unsafe characters become one space.
Cleaned(title) ==
  FoldLeft(LAMBDA s, c : IF c \notin Blanks \cup Separators \cup Unsafe THEN Append(s, c)
                         ELSE IF s = <<>> \/ s[Len(s)] = Space THEN s ELSE Append(s, Space), <<>>, Trim(title))

(* Mutant of TitleSegment: what is cut is not looked at again.              *)
TitleSegmentOnceChecked(title, max) ==
  LET trimmed == TrimSegment(Cleaned(title))
      segment == IF trimmed # <<>> /\ ~ IsReserved(trimmed) THEN trimmed ELSE Untitled
  IN TruncateSegment(segment, AtLeastOne(max))

TitleSegment(title, max) ==
  LET Usable(s) == s # <<>> /\ ~ IsReserved(s)
      trimmed == TrimSegment(Cleaned(title))
      segment == IF Usable(trimmed) THEN trimmed ELSE Untitled
      cut == TruncateSegment(segment, AtLeastOne(max))
  IN IF Usable(cut) THEN cut ELSE TruncateSegment(Untitled, AtLeastOne(max))

Slugified(title) ==
  FoldLeft(LAMBDA s, c : IF SlugOf[c] # <<>> THEN s \o SlugOf[c]
                         ELSE IF s = <<>> \/ s[Len(s)] = "-" THEN s ELSE Append(s, "-"), <<>>, title)
OrNote(slug) == IF slug = <<>> THEN <<"n", "o", "t", "e">> ELSE slug
Slug(title, max) ==
  LET slug == OrNote(WithoutEnd(Slugified(title), {"-"}))
  IN IF Size(slug) <= AtLeastOne(max) THEN slug
     ELSE OrNote(WithoutEnd(SubSeq(slug, 1, Fitting(slug, AtLeastOne(max))), {"-"}))

-----------------------------------------------------------------------------
(* Paths.                                                                   *)

Slashes(t) == [i \in DOMAIN t |-> IF t[i] = "\\" THEN "/" ELSE t[i]]

NormalizeBase(base) ==
  LET b == Trim(Slashes(Without(Trim(base), {"/"}))) IN IF b = <<>> THEN DefaultBase ELSE b

WithExtension(path, extension) ==
  IF path # <<>> /\ path[Len(path)] \in Extensions
  THEN [path EXCEPT ![Len(path)] = extension] ELSE Append(path, extension)

GeneratePath(q) ==
  LET base == NormalizeBase(q.base)
      template == IF Trim(q.template) = <<>> THEN DefaultTemplate ELSE Trim(q.template)
      slug == Slug(q.title, q.max)
      title == TitleSegment(q.title, q.max)
      part(c) == CASE c = "{base}" -> base [] c = "{date}" -> Date [] c = "{title}" -> title [] c = "{slug}" -> slug
                   [] c \notin Placeholders -> <<c>>
      rendered == WithoutStart(Trim(Slashes(FlattenSeq([i \in DOMAIN template |-> part(template[i])]))), {"/"})
  IN WithExtension(IF rendered = <<>> THEN base \o <<"/">> \o Date \o <<"-">> \o slug ELSE rendered, q.extension)

IsSafePath(path, extension) ==
  /\ path[1] # "/" /\ path[Len(path)] = extension
  /\ \A i \in DOMAIN Segments(path) : IsSafeSegment(Segments(path)[i])

PathOrRejected(q, path) ==
  IF Trim(q.title) = <<>> THEN Rejected
  ELSE IF IsPrefix(Append(NormalizeBase(q.base), "/"), path) /\ IsSafePath(path, q.extension) THEN path
  ELSE Rejected
ValidateWrite(q) == PathOrRejected(q, GeneratePath(q))

-----------------------------------------------------------------------------
(* Patches.                                                                 *)

Occurrences(body, text) == {i \in 1..Len(body) + 1 - Len(text) : SubSeq(body, i, i + Len(text) - 1) = text}

(* Mutant of UniqueMatch: the first of several is taken.                    *)
FirstMatch(body, text) ==
  LET found == Occurrences(body, text) IN IF text = <<>> \/ found = {} THEN 0 ELSE Earliest(found)

\* Where the text starts, when it is found and not found again after it.
UniqueMatch(body, text) ==
  LET found == Occurrences(body, text)
  IN IF text = <<>> \/ found = {} THEN 0
     ELSE IF \E i \in found : i >= Earliest(found) + Len(text) THEN 0 ELSE Earliest(found)

Put(body, start, end, text) == SubSeq(body, 1, start - 1) \o text \o SubSeq(body, end, Len(body))

ApplyOperation(body, o) ==
  LET start == UniqueMatch(body, o.find)
      end == start + Len(o.find)
  IN CASE o.op = "append" -> body \o o.text
       [] o.op = "prepend" -> o.text \o body
       [] o.op \notin {"append", "prepend"} /\ start = 0 -> Rejected
       [] o.op = "replace" /\ start # 0 -> Put(body, start, end, o.text)
       [] o.op = "delete" /\ start # 0 -> Put(body, start, end, <<>>)
       [] o.op = "insert_before" /\ start # 0 -> Put(body, start, start, o.text)
       [] o.op = "insert_after" /\ start # 0 -> Put(body, end, end, o.text)

\* One operation after the other, all of them or none.
ApplyContentPatch(body, patch) ==
  IF patch = <<>> THEN Rejected
  ELSE FoldLeft(LAMBDA b, o : IF b = Rejected THEN b ELSE ApplyOperation(b, o), body, patch)

-----------------------------------------------------------------------------
\* What "." and ".." make of the segments of a path.
Resolved(segments) ==
  FoldLeft(LAMBDA r, s : IF s = <<".", ".">> THEN SubSeq(r, 1, IF r = <<>> THEN 0 ELSE Len(r) - 1)
                         ELSE IF s \in {<<>>, <<".">>} THEN r ELSE Append(r, s), <<>>, segments)

\* A path that is accepted is one below the base, written in one way only, and
\* a title that is not blank is accepted where template and base are good.
IsNewPath(q, path) ==
  IF path = Rejected
  THEN Trim(q.title) = <<>> \/ ~ q.good
  ELSE /\ Resolved(Segments(path)) = Segments(path)
       /\ \E n \in DOMAIN Segments(path) : n < Len(Segments(path))
            /\ SubSeq(Segments(path), 1, n) = Segments(NormalizeBase(q.base))
       /\ path[Len(path)] = q.extension
       /\ \A i \in DOMAIN path : path[i] \notin Unsafe \cup {"\\"}
       /\ \A i \in DOMAIN Segments(path) : Stem(Segments(path)[i]) \notin Reserved

\* Where a text is in a body: what is before it, and what follows.
Splits(body, text) ==
  {[before |-> SubSeq(body, 1, i), after |-> SubSeq(body, i + Len(text) + 1, Len(body))] :
     i \in {k \in 0..Len(body) - Len(text) : SubSeq(body, k + 1, k + Len(text)) = text}}

\* The patch changes the body where its texts are, each of which occurs exactly
\* once (api_docs.rs:473), and is refused when one does not.  Nothing is asked
\* where a text occurs again only within itself, as "xx" does in "xxx": the
\* code does not count that, and takes the first.
Edited(o, split) ==
  split.before
    \o (CASE o.op = "replace" -> o.text [] o.op = "delete" -> <<>> [] o.op = "insert_before" -> o.text \o o.find
          [] o.op = "insert_after" -> o.find \o o.text)
    \o split.after

RECURSIVE IsPatched(_, _, _)
IsPatched(body, patch, answer) ==
  IF patch = <<>> THEN answer = body
  ELSE LET o == patch[1]
           splits == Splits(body, o.find)
           apart == \E s, t \in splits : Len(s.before) + Len(o.find) <= Len(t.before)
           rest == SubSeq(patch, 2, Len(patch))
       IN IF o.op = "append" THEN IsPatched(body \o o.text, rest, answer)
          ELSE IF o.op = "prepend" THEN IsPatched(o.text \o body, rest, answer)
          ELSE IF splits = {} \/ o.find = <<>> \/ apart THEN answer = Rejected
          ELSE Cardinality(splits) = 1 => \A s \in splits : IsPatched(Edited(o, s), rest, answer)
=============================================================================
