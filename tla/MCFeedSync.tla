------------------------------- MODULE MCFeedSync ------------------------------
(* FeedSync on model values.                                                *)
EXTENDS FeedSync
=============================================================================
