---------------------------------- MODULE Text ----------------------------------
(***************************************************************************)
(* Texts as sequences of characters of some width in bytes.  A character   *)
(* of the model stands for as much text as makes a difference: a letter,   *)
(* the mark of a heading, an extension.                                    *)
(***************************************************************************)
EXTENDS Naturals, Sequences, FiniteSets, SequencesExt

CONSTANT Width \* bytes of each character

ASSUME WidthAssumption == \A c \in DOMAIN Width : Width[c] \in Nat \ {0}

Space == " "
NewLine == "nl"
Blanks == {Space, NewLine}

Size(t) == FoldLeft(LAMBDA sum, c : sum + Width[c], 0, t)

Others(t, S) == {i \in DOMAIN t : t[i] \notin S}
Earliest(S) == CHOOSE i \in S : \A j \in S : i <= j
Latest(S) == CHOOSE i \in S : \A j \in S : j <= i
WithoutEnd(t, S) == IF Others(t, S) = {} THEN <<>> ELSE SubSeq(t, 1, Latest(Others(t, S)))
WithoutStart(t, S) == IF Others(t, S) = {} THEN <<>> ELSE SubSeq(t, Earliest(Others(t, S)), Len(t))
Without(t, S) == WithoutStart(WithoutEnd(t, S), S)
Trim(t) == Without(t, Blanks)

\* floor_char_boundary: how many characters fit into so many bytes.
Fitting(t, bytes) == Latest({n \in 0..Len(t) : Size(SubSeq(t, 1, n)) <= bytes})

InOrder(S, n) == SelectSeq([i \in 1..n |-> i], LAMBDA i : i \in S)
After(t, n) == SubSeq(t, n + 1, Len(t))
Joined(a, separator, b) == IF a = <<>> THEN b ELSE a \o separator \o b
Solid(t) == SelectSeq(t, LAMBDA c : c \notin Blanks)
=============================================================================
