-------------------------------- MODULE Queries --------------------------------
(***************************************************************************)
(* The server as its clients use it: they ask questions, which are answered *)
(* from what the caller may read, and write notes under the policy in      *)
(* effect, which is reloaded meanwhile.  A question carries the part of    *)
(* the vault it is about, so that it is asked in the first state only; and *)
(* the policy changes in Access as any reload may change it, so that the   *)
(* steps of Reload and of Access are not interleaved.                      *)
(***************************************************************************)
EXTENDS Reload, Access, Adapters, Finding, BaseQuery, Blocks, NewNote

CONSTANTS Expressions,      \* sequences of tokens
          Trees,
          TableQuestions,   \* [document, view, limit, notes]
          BlockQuestions,   \* [body, min, max, overlap]
          ChunkQuestions,   \* [text, limit, samples]
          TitleQuestions,   \* [title, max, base, template, extension, good]
          PatchQuestions    \* [body, patch]

queriesVars == <<question, accessVars, adapterVars, reloadVars>>

AskExpression ==
  \/ \E tokens \in Expressions : Answered("tokens", tokens, ParseExpression(tokens))
  \/ \E tree \in Trees : Answered("tree", tree, ParseExpression(Written(tree, 1)))
AskTable == \E q \in TableQuestions : Answered("table", q, Execute(q.document, q.view, q.limit, q.notes))
AskText ==
  \/ \E q \in BlockQuestions : Answered("blocks", q, SemanticBlocks(q, q.overlap))
  \/ \E q \in ChunkQuestions : Answered("chunks", q, SampleNoteChunks(NoteChunks(q.text, q.limit), q.samples))
  \/ \E q \in TitleQuestions : Answered("title", q, ValidateWrite(q))
  \/ \E q \in PatchQuestions : Answered("patch", q, ApplyContentPatch(q.body, q.patch))

Ask == Find \/ (question = NoQuestion /\ (AskExpression \/ AskTable \/ AskText))

QueriesInit == FindingInit /\ AccessInit /\ AdapterInit /\ ReloadInit
Resting == question = NoQuestion /\ call.pc = "idle"
QueriesNext ==
  \/ /\ Resting /\ setup = CHOOSE s \in Setups : TRUE
     /\ \/ AccessInit /\ note = NoNote /\ ReloadInit /\ Ask /\ UNCHANGED <<accessVars, reloadVars>>
        \/ ReloadInit /\ AccessNext /\ UNCHANGED <<question, reloadVars>>
        \/ AccessInit /\ ReloadNext /\ UNCHANGED <<question, accessVars>>
     /\ UNCHANGED adapterVars
  \/ /\ question = NoQuestion /\ AccessInit /\ note = NoNote /\ ReloadInit
     /\ AdapterNext /\ UNCHANGED <<question, accessVars, reloadVars>>

QueriesSpec == QueriesInit /\ [][QueriesNext]_queriesVars

-----------------------------------------------------------------------------
WithoutParentheses(tokens) == SelectSeq(tokens, LAMBDA t : t \notin {Sym("("), Sym(")")})

\* Trees are found again in their tokens, and what is read, written again, has
\* the same tokens but for parentheses that are not needed.
ReadsBack ==
  /\ Asked("tree") => Answer = Q
  /\ Asked("tokens") /\ Answer # NoTree =>
       LET again == Written(Answer, 1)
       IN /\ ParseExpression(again) = Answer /\ Len(again) <= Len(Q)
          /\ WithoutParentheses(again) = WithoutParentheses(Q)

(* A table has the first rows, in the order of the view, of the notes that  *)
(* satisfy both filters, and counts all of them; there is none only when    *)
(* the document or an expression on some note is wrong (base_query.rs:88).  *)
(* Its expressions are read as they are written (base_query.rs:1328).       *)
TablesAreRight == ReadsBack /\ (Asked("table") => IsTable(Q, Answer))

(* What is embedded is the text, whole and in order, in pieces within their *)
(* size, each under its headings; and a sample runs from the first chunk to *)
(* the last without a gap (markdown.rs:504, workers.rs:1609).               *)
ChunksKeepTheText ==
  /\ Asked("blocks") => AreBlocks(Q, Answer)
  /\ Asked("chunks") => AreNoteChunks(Q, Answer)

(* A new note goes below the base whatever its title is, and under a good   *)
(* template none is refused; a patch changes the body at its texts and      *)
(* nowhere else, or is refused as a whole (new_note.rs:202 and 340).        *)
NewTextIsPlaced ==
  /\ Asked("title") => IsNewPath(Q, Answer)
  /\ Asked("patch") => IF Q.patch = <<>> THEN Answer = Rejected ELSE IsPatched(Q.body, Q.patch, Answer)
=============================================================================
