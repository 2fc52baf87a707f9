------------------------------- MODULE MCRequests ------------------------------
(* Requests on model values.                                                *)
EXTENDS Requests
=============================================================================
