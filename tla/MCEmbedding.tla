----------------------------- MODULE MCEmbedding -----------------------------
(* Embedding for TLC: a text the provider takes, under two headings, and one *)
(* it rejects.                                                               *)
EXTENDS Embedding

MCText == [p \in Parts |-> IF p = "renamed" THEN "taken" ELSE p]
MCContents == {<<"renamed">>, <<"rejected">>, <<"taken", "rejected">>}
=============================================================================
