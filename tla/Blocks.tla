--------------------------------- MODULE Blocks ---------------------------------
(***************************************************************************)
(* How a note is cut for embedding: into blocks at its headings, blocks    *)
(* that are too large into chunks of paragraphs, sentences or mere bytes,  *)
(* each after the last sentences of the one before; and a whole note into  *)
(* chunks of which a few are sampled.  What is a heading is decided by the *)
(* Markdown parser: here, a mark at the start of a line.                   *)
(***************************************************************************)
EXTENDS Text

CONSTANTS LevelOf,   \* of each mark of a heading
          LeastBytes \* the smallest size of a chunk

ASSUME LeastBytesAssumption == \A c \in DOMAIN Width : Width[c] <= LeastBytes

Stops == {"."}

-----------------------------------------------------------------------------
(* Blocks.                                                                  *)

Headings(body) == {i \in DOMAIN body : body[i] \in DOMAIN LevelOf /\ (i > 1 => body[i - 1] = NewLine)}
LineEnd(body, i) == Latest({j \in i..Len(body) : \A k \in i..j : body[k] # NewLine})
Heading(body, i) == [level |-> LevelOf[body[i]], text |-> Trim(SubSeq(body, i + 1, LineEnd(body, i)))]
Block(path, content) == [path |-> path, content |-> content]

\* The headings of smaller level that are open, then this one.
Push(stack, heading) == Append(SelectSeq(stack, LAMBDA h : h.level < heading.level), heading)

RawBlocks(body) ==
  LET starts == InOrder(Headings(body), Len(body))
      end(k) == IF k = Len(starts) THEN Len(body) ELSE starts[k + 1] - 1
      stacks[k \in 0..Len(starts)] == IF k = 0 THEN <<>> ELSE Push(stacks[k - 1], Heading(body, starts[k]))
      preamble == Trim(SubSeq(body, 1, starts[1] - 1))
  IN (IF preamble = <<>> THEN <<>> ELSE <<Block(<<>>, preamble)>>)
       \o [k \in DOMAIN starts |-> Block(stacks[k], Trim(SubSeq(body, starts[k], end(k))))]

\* A short block is added to the one before, under whose headings it goes.
AddBlock(blocks, block, min) ==
  IF Size(block.content) < min /\ blocks # <<>>
  THEN [blocks EXCEPT ![Len(blocks)].content = @ \o <<NewLine>> \o block.content]
  ELSE Append(blocks, block)

SplitIntoBlocks(body, min) ==
  IF body = <<>> THEN <<>>
  ELSE IF Headings(body) = {} THEN <<Block(<<>>, body)>>
  ELSE FoldLeft(LAMBDA blocks, b : AddBlock(blocks, b, min), <<>>, RawBlocks(body))

-----------------------------------------------------------------------------
(* Chunks of a block.                                                       *)

RECURSIVE HardSplit(_, _)
HardSplit(text, max) ==
  LET t == Trim(text) IN
  IF t = <<>> THEN <<>>
  ELSE IF Size(t) <= max THEN <<t>>
  ELSE LET end == IF Fitting(t, max) = 0 THEN 1 ELSE Fitting(t, max)
       IN <<Trim(SubSeq(t, 1, end))>> \o HardSplit(After(t, end), max)

Lines(text) ==
  FoldLeft(LAMBDA lines, c : IF c = NewLine THEN Append(lines, <<>>)
                             ELSE [lines EXCEPT ![Len(lines)] = Append(@, c)], <<<<>>>>, text)

NotEmpty(texts) == SelectSeq(texts, LAMBDA t : t # <<>>)
Trimmed(texts) == NotEmpty([i \in DOMAIN texts |-> Trim(texts[i])])

ParagraphUnits(text) ==
  Trimmed(FoldLeft(LAMBDA units, line : IF Trim(line) = <<>> THEN Append(units, <<>>)
                                        ELSE [units EXCEPT ![Len(units)] = Joined(@, <<NewLine>>, line)],
                   <<<<>>>>, Lines(text)))

\* A stop that the text or a blank follows ends a sentence.
SentenceUnits(text) ==
  LET ends == {i \in DOMAIN text : text[i] \in Stops /\ (i < Len(text) => text[i + 1] \in Blanks)}
      cuts == <<0>> \o InOrder(ends, Len(text)) \o <<Len(text)>>
  IN Trimmed([k \in 1..Len(cuts) - 1 |-> SubSeq(text, cuts[k] + 1, cuts[k + 1])])

\* As many units as fit in a chunk; one that does not fit at all is cut.
AddUnit(packed, unit, separator, max) ==
  IF Size(unit) > max
  THEN [done |-> packed.done \o NotEmpty(<<packed.current>>) \o HardSplit(unit, max), current |-> <<>>]
  ELSE IF packed.current # <<>> /\ Size(packed.current \o separator \o unit) > max
  THEN [done |-> Append(packed.done, packed.current), current |-> unit]
  ELSE [packed EXCEPT !.current = Joined(@, separator, unit)]

Packed(units, separator, max) ==
  LET packed == FoldLeft(LAMBDA p, u : AddUnit(p, u, separator, max), [done |-> <<>>, current |-> <<>>], units)
  IN packed.done \o NotEmpty(<<packed.current>>)

SplitOversizedParagraph(paragraph, max) == Packed(SentenceUnits(paragraph), <<Space>>, max)

LastOf(units, count) == After(units, IF count < Len(units) THEN Len(units) - count ELSE 0)
TrailingSentences(text, count) ==
  FoldLeft(LAMBDA t, s : Joined(t, <<Space>>, s), <<>>, LastOf(SentenceUnits(text), count))

(* Mutant of WithOverlap: the overlap is put on whatever it leads to.       *)
WithOverlapAlways(out, chunk, max, count) ==
  LET overlap == IF out = <<>> \/ count = 0 THEN <<>> ELSE TrailingSentences(out[Len(out)], count)
  IN Append(out, Joined(overlap, <<NewLine, NewLine>>, chunk))

\* The previous chunk counts with the overlap that it already has.
WithOverlap(out, chunk, max, count) ==
  LET overlap == IF out = <<>> \/ count = 0 THEN <<>> ELSE TrailingSentences(out[Len(out)], count)
      larger == overlap \o <<NewLine, NewLine>> \o chunk
  IN Append(out, IF overlap # <<>> /\ Size(larger) <= max THEN larger ELSE chunk)

SplitSemanticContent(content, max, overlap) ==
  LET units == FoldLeft(LAMBDA us, p : us \o (IF Size(p) <= max THEN <<p>> ELSE SplitOversizedParagraph(p, max)),
                        <<>>, ParagraphUnits(content))
  IN FoldLeft(LAMBDA out, c : WithOverlap(out, c, max, overlap), <<>>, Packed(units, <<NewLine, NewLine>>, max))

MaxBytes(bytes) == IF bytes < LeastBytes THEN LeastBytes ELSE bytes

SemanticBlocks(q, overlap) ==
  LET under(path, contents) == [i \in DOMAIN contents |-> Block(path, contents[i])]
      chunks(b) == IF Size(b.content) <= MaxBytes(q.max) THEN <<b>>
                   ELSE under(b.path, SplitSemanticContent(b.content, MaxBytes(q.max), overlap))
  IN FoldLeft(LAMBDA all, b : all \o chunks(b), <<>>, SplitIntoBlocks(q.body, q.min))

-----------------------------------------------------------------------------
(* Chunks of a whole note.                                                  *)

\* The last line break in the second half, or else the last blank.
BoundaryWithin(text, bounded) ==
  LET half == {i \in 1..bounded : Size(SubSeq(text, 1, i - 1)) > Size(SubSeq(text, 1, bounded)) \div 2}
      breaks == {i \in half : text[i] = NewLine}
      blanks == {i \in half : text[i] \in Blanks}
  IN CASE breaks # {} -> Latest(breaks) - 1
       [] breaks = {} /\ blanks # {} -> Latest(blanks) - 1
       [] OTHER -> bounded
PreferredBoundary(text, max) == BoundaryWithin(text, Fitting(text, max))

RECURSIVE NoteRest(_, _)
NoteRest(text, limit) ==
  IF Size(text) <= limit THEN NotEmpty(<<WithoutEnd(text, Blanks)>>)
  ELSE LET preferred == PreferredBoundary(text, limit)
           end == IF preferred = 0 THEN 1 ELSE preferred
       IN NotEmpty(<<WithoutEnd(SubSeq(text, 1, end), Blanks)>>)
            \o NoteRest(WithoutStart(After(text, end), Blanks), limit)

OneAtLeast(chunks) == IF chunks = <<>> THEN <<<<>>>> ELSE chunks
NoteChunks(text, limit) ==
  IF Size(text) <= limit THEN <<text>> ELSE OneAtLeast(NoteRest(text, limit))

(* Mutant of Sampled: the steps are those of the number of samples.         *)
SampledInSteps(total, max) ==
  IF max = 0 \/ total <= max THEN 1..total ELSE {(slot * total) \div max + 1 : slot \in 0..max - 1}

\* The positions that are sampled, evenly from the first to the last.
Sampled(total, max) ==
  IF max = 0 \/ total <= max THEN 1..total
  ELSE IF max = 1 THEN {1} ELSE {(slot * (total - 1)) \div (max - 1) + 1 : slot \in 0..max - 1}

SampleNoteChunks(chunks, max) ==
  LET at == InOrder(Sampled(Len(chunks), max), Len(chunks)) IN [k \in DOMAIN at |-> chunks[at[k]]]

-----------------------------------------------------------------------------
Contents(blocks) == FlattenSeq([i \in DOMAIN blocks |-> Solid(blocks[i].content)])

\* The headings above a place: those that none of their level or less follows.
Enclosing(body, place) ==
  LET above == {i \in Headings(body) : i <= place}
      open == {i \in above : \A j \in above : j > i => LevelOf[body[j]] > LevelOf[body[i]]}
      at == InOrder(open, Len(body))
  IN [k \in DOMAIN at |-> Heading(body, at[k])]

\* Where, in the text, the block starts.
Start(body, blocks, i) ==
  LET before == Len(Contents(SubSeq(blocks, 1, i - 1)))
  IN CHOOSE p \in DOMAIN body : body[p] \notin Blanks /\ Len(Solid(SubSeq(body, 1, p))) = before + 1

\* The blocks are the text, each within the size and under its headings, or
\* those of the block that it was added to; and an overlap is the end of the
\* block before, of at most so many sentences.
AreBlocksOf(q, plain, blocks) ==
  LET own(i) == Solid(plain[i].content)
      shared(i) == SubSeq(Solid(blocks[i].content), 1, Len(Solid(blocks[i].content)) - Len(own(i)))
  IN /\ Contents(plain) = Solid(q.body)
     /\ Len(blocks) = Len(plain)
     /\ \A i \in DOMAIN blocks :
          /\ Size(blocks[i].content) <= MaxBytes(q.max)
          /\ blocks[i].path = plain[i].path
          /\ Solid(blocks[i].content) = shared(i) \o own(i)
          /\ shared(i) # <<>> => /\ i > 1 /\ IsSuffix(shared(i), Solid(blocks[i - 1].content))
                                 /\ Len(SentenceUnits(TrailingSentences(blocks[i - 1].content, q.overlap))) <= q.overlap
          /\ own(i) = <<>> \/
               LET start == Start(q.body, plain, i)
                   above == {p \in 1..start : blocks[i].path = Enclosing(q.body, p)}
               IN above # {} /\ (q.min = 0 => start \in above)
AreBlocks(q, blocks) == AreBlocksOf(q, SemanticBlocks(q, 0), blocks)

\* The chunks are the text, within the limit, and the sample runs through it.
AreChunksOf(q, all, chunks) ==
  LET at == Sampled(Len(all), q.samples)
  IN /\ FlattenSeq([i \in DOMAIN all |-> Solid(all[i])]) = Solid(q.text)
     /\ \A i \in DOMAIN all : Size(all[i]) <= q.limit \/ Len(all[i]) = 1
     /\ Len(chunks) = IF q.samples = 0 \/ Len(all) <= q.samples THEN Len(all) ELSE q.samples
     /\ chunks[1] = all[1] /\ (q.samples # 1 => chunks[Len(chunks)] = all[Len(all)])
     /\ Len(chunks) > 1 => \A i \in DOMAIN all : \E j \in at :
          i - j \in 0..(Len(all) - 1) \div (Len(chunks) - 1)
AreNoteChunks(q, chunks) == AreChunksOf(q, NoteChunks(q.text, q.limit), chunks)
=============================================================================
